------------------------------- MODULE Scheduler -------------------------------
(***************************************************************************)
(* kernel/scheduler/scheduler.c, with task_create (task.c) and the IRQ     *)
(* path of startup.s that drives it.  One scheduler instance per core.     *)
(*                                                                         *)
(* Every region under scheduler_lock(core) is one step (Spinlock shows why *)
(* that is sound), except timer_tick_handler's wake-up loop: it is one     *)
(* step per woken task, and the lock is held in between (irq[c] = "tick"). *)
(* A running task leaves the CPU only in the tick interrupt: a task that   *)
(* blocks spins on its own current_state until the next tick switches.     *)
(*                                                                         *)
(* Time is relative: remaining[t] is wakeup_time minus the tick count of   *)
(* t's core, so a tick lowers it for every sleeper of the core.  All the   *)
(* code does with the two is compare them.                                 *)
(*                                                                         *)
(* Mutexes, semaphores and timers reach in through three operations, in    *)
(* the steps Suspend, Wake and ChangePriority; Mutex and Semaphore replace *)
(* these open steps by their own code.                                     *)
(***************************************************************************)
EXTENDS TaskLists

CONSTANTS
  Core,            \* cores that run a scheduler
  Task,            \* all tasks, the idle tasks included
  CoreOf,          \* tcb->core_id; no task migration
  BasePriority,    \* tcb->base_priority, never mutated
  Idle,            \* each core's idle_tcb
  NumPriorities,   \* NUM_TASK_PRIORITIES
  Delays           \* bound: relative wake-up times that each task asks for

Priority == 0 .. NumPriorities - 1

ASSUME SchedulerAssumption ==
  /\ Null \notin Task
  /\ NumPriorities \in Nat \ {0}
  /\ CoreOf \in [Task -> Core]
  /\ BasePriority \in [Task -> Priority]
  /\ Idle \in [Core -> Task]
  /\ \A c \in Core : CoreOf[Idle[c]] = c /\ BasePriority[Idle[c]] = 0
  /\ Delays \in [Task -> SUBSET Int]

VARIABLES
  ready,       \* g_cores[c].ready_list[p]
  blocked,     \* g_cores[c].blocked_task_list
  state,       \* tcb->current_state; "NONE" before task_create
  priority,    \* tcb->priority
  remaining,   \* tcb->wakeup_time - tick count of its core
  current,     \* p_task_control_block[c]
  irq          \* where the core is in its tick interrupt

vars == <<ready, blocked, state, priority, remaining, current, irq>>

\* "none": task code runs; "tick": in timer_tick_handler, holding
\* scheduler_lock(c); "switch": between the handler and scheduler_switch_context
IrqStage == {"none", "tick", "switch"}

TaskState == {"NONE", "READY", "RUNNING", "BLOCKED"}

\* scheduler_lock(c) can be taken: the tick handler is not holding it
LockFree(c) == irq[c] # "tick"

\* t's own code can take a step
Executing(t) ==
  /\ current[CoreOf[t]] = t
  /\ irq[CoreOf[t]] = "none"
  /\ state[t] # "BLOCKED"

-------------------------------------------------------------------------------
\* The list operations, as functions from lists to lists.

\* scheduler_add_to_ready_list, without the current_state it sets to READY
AddToReady(rdy, t, p) == [rdy EXCEPT ![CoreOf[t]][p] = ListAppend(@, t)]

\* scheduler_remove_from_ready_list: E_INVALID_ARGS (ignored by the callers)
\* when t's container is not the ready list of its priority
RemoveFromReady(rdy, t, p) ==
  IF t \in ToSet(rdy[CoreOf[t]][p].items)
    THEN [rdy EXCEPT ![CoreOf[t]][p] = ListUnlink(@, t)]
    ELSE rdy

\* BUG: a sleeper that is not the earliest goes to the tail.
InsertSorted_AtTail(s, t, rem, r) ==
  IF s # <<>> /\ r > rem[s[1]] THEN Append(s, t) ELSE Cons(t, s)

\* BUG: a new head does not point to the old one.
InsertSorted_DropsHead(s, t, rem, r) ==
  IF s = <<>> \/ r <= rem[s[1]]
    THEN Cons(t, IF s = <<>> THEN s ELSE Tail(s))
    ELSE Append(s, t)

\* scheduler_add_to_blocked_list: in front of a head that is not earlier,
\* otherwise behind the last item, from the head on, that is not later
InsertSorted(s, t, rem, r) ==
  IF s = <<>> \/ r <= rem[s[1]]
    THEN Cons(t, s)
    ELSE LET k == CHOOSE k \in DOMAIN s :
                    /\ \A j \in 2 .. k : rem[s[j]] <= r
                    /\ k < Len(s) => rem[s[k + 1]] > r
         IN  InsertAt(s, k + 1, t)

AddToBlocked(blk, t, rem, r) ==
  [blk EXCEPT ![CoreOf[t]] = InsertSorted(@, t, rem, r)]

\* BUG: the item stays linked.
RemoveFromBlocked_Keeps(blk, t) == blk

\* scheduler_remove_from_blocked_list: nothing to do when t is not in it
RemoveFromBlocked(blk, t) ==
  IF t \in ToSet(blk[CoreOf[t]])
    THEN [blk EXCEPT ![CoreOf[t]] = Unlinked(@, t)]
    ELSE blk

\* BUG: only a READY task is relocated, a RUNNING one keeps its old list.
ReadyAtPriority_NotRunning(rdy, t, p) ==
  IF state[t] = "READY"
    THEN AddToReady(RemoveFromReady(rdy, t, priority[t]), t, p)
    ELSE rdy

\* scheduler_change_task_priority: a READY or RUNNING task moves to the tail of
\* the list of its new priority, keeping its state
ReadyAtPriority(rdy, t, p) ==
  IF state[t] \in {"READY", "RUNNING"}
    THEN AddToReady(RemoveFromReady(rdy, t, priority[t]), t, p)
    ELSE rdy

-------------------------------------------------------------------------------

\* scheduler_init on every core: empty lists but for the idle task
Init ==
  /\ ready = [c \in Core |->
       [p \in Priority |-> IF p = 0 THEN ListAppend(EmptyList, Idle[c]) ELSE EmptyList]]
  /\ blocked   = [c \in Core |-> <<>>]
  /\ state     = [t \in Task |-> IF t = Idle[CoreOf[t]] THEN "READY" ELSE "NONE"]
  /\ priority  = BasePriority
  /\ remaining = [t \in Task |-> 0]
  /\ current   = [c \in Core |-> Null]
  /\ irq       = [c \in Core |-> "none"]

\* task_create, always on the core it runs on and before its scheduler_start
task_create(t) ==
  /\ state[t] = "NONE"
  /\ current[CoreOf[t]] = Null
  /\ ready' = AddToReady(ready, t, priority[t])
  /\ state' = [state EXCEPT ![t] = "READY"]
  /\ UNCHANGED <<blocked, priority, remaining, current, irq>>

\* BUG: the cursor is not advanced, the same task runs again.
RotatedLists_NoAdvance(c) == ready[c]

\* The outgoing task, if it used up its quantum, gives up its turn
RotatedLists(c) ==
  IF current[c] # Null /\ state[current[c]] = "RUNNING"
    THEN [ready[c] EXCEPT ![priority[current[c]]] = ListAdvance(@)]
    ELSE ready[c]

\* BUG: the outgoing task stays RUNNING.
OutgoingState_KeepRunning(c) == state

OutgoingState(c) ==
  IF current[c] # Null /\ state[current[c]] = "RUNNING"
    THEN [state EXCEPT ![current[c]] = "READY"]
    ELSE state

\* BUG: any non-empty list will do.
Dispatch_AnyList(c) ==
  LET lists    == RotatedLists(c)
      nonEmpty == {p \in Priority : lists[p].items # <<>>}
      next     == lists[Min(nonEmpty)].index
  IN  /\ ready'   = [ready EXCEPT ![c] = lists]
      /\ current' = [current EXCEPT ![c] = next]
      /\ state'   = [OutgoingState(c) EXCEPT ![next] = "RUNNING"]

\* scheduler_switch_context: the cursor task of the highest non-empty list
Dispatch(c) ==
  LET lists    == RotatedLists(c)
      nonEmpty == {p \in Priority : lists[p].items # <<>>}
      next     == IF nonEmpty = {} THEN Null ELSE lists[Max(nonEmpty)].index
  IN  /\ ready'   = [ready EXCEPT ![c] = lists]
      /\ current' = [current EXCEPT ![c] = next]
      /\ state'   = IF next = Null THEN OutgoingState(c)
                    ELSE [OutgoingState(c) EXCEPT ![next] = "RUNNING"]

\* scheduler_start
scheduler_start(c) ==
  /\ current[c] = Null
  /\ Dispatch(c)
  /\ UNCHANGED <<blocked, priority, remaining, irq>>

\* timer_tick_handler up to the loop: tick_count++, scheduler_lock
Tick(c) ==
  /\ current[c] # Null
  /\ irq[c] = "none"
  /\ irq' = [irq EXCEPT ![c] = "tick"]
  /\ remaining' = [t \in Task |->
       IF t \in ToSet(blocked[c]) THEN remaining[t] - 1 ELSE remaining[t]]
  /\ UNCHANGED <<ready, blocked, state, priority, current>>

Due(c) == blocked[c] # <<>> /\ remaining[blocked[c][1]] <= 0

\* One iteration of the loop: the head sleeper is due.  (The unlinking from the
\* list of a mutex or semaphore is added by the modules that have one.)
TickWake(c) ==
  /\ irq[c] = "tick"
  /\ Due(c)
  /\ LET t == blocked[c][1]
     IN  /\ blocked'   = [blocked EXCEPT ![c] = Tail(@)]
         /\ ready'     = AddToReady(ready, t, priority[t])
         /\ state'     = [state EXCEPT ![t] = "READY"]
         /\ remaining' = [remaining EXCEPT ![t] = 0]
  /\ UNCHANGED <<priority, current, irq>>

\* scheduler_unlock at the end of the handler
TickDone(c) ==
  /\ irq[c] = "tick"
  /\ ~ Due(c)
  /\ irq' = [irq EXCEPT ![c] = "switch"]
  /\ UNCHANGED <<ready, blocked, state, priority, remaining, current>>

\* scheduler_switch_context as called by _irq_handler
scheduler_switch_context(c) ==
  /\ irq[c] = "switch"
  /\ Dispatch(c)
  /\ irq' = [irq EXCEPT ![c] = "none"]
  /\ UNCHANGED <<blocked, priority, remaining>>

\* remove_from_ready + add_to_blocked + BLOCKED, the locked region of
\* block_until and of a timed mutex_lock / semaphore_take
Sleep(t, r) ==
  /\ ready'     = RemoveFromReady(ready, t, priority[t])
  /\ blocked'   = AddToBlocked(blocked, t, remaining, r)
  /\ remaining' = [remaining EXCEPT ![t] = r]
  /\ state'     = [state EXCEPT ![t] = "BLOCKED"]
  /\ UNCHANGED <<priority, current, irq>>

\* task_delay_ms / task_delay_until_ms
block_until(t, r) ==
  /\ Executing(t)
  /\ t # Idle[CoreOf[t]]
  /\ Sleep(t, r)

\* The same region without a timeout: only an unblocking call ends the wait
SleepForever(t) ==
  /\ ready' = RemoveFromReady(ready, t, priority[t])
  /\ state' = [state EXCEPT ![t] = "BLOCKED"]
  /\ UNCHANGED <<blocked, priority, remaining, current, irq>>

\* remove_from_blocked + add_to_ready, the locked region by which
\* semaphore_give and mutex_unlock wake a waiter of any core
MakeReady(t) ==
  /\ LockFree(CoreOf[t])
  /\ blocked'   = RemoveFromBlocked(blocked, t)
  /\ ready'     = AddToReady(ready, t, priority[t])
  /\ state'     = [state EXCEPT ![t] = "READY"]
  /\ remaining' = [remaining EXCEPT ![t] = 0]
  /\ UNCHANGED <<priority, current, irq>>

\* scheduler_change_task_priority under scheduler_lock(tcb->core_id)
scheduler_change_task_priority(t, p) ==
  /\ LockFree(CoreOf[t])
  /\ ready'    = ReadyAtPriority(ready, t, p)
  /\ priority' = [priority EXCEPT ![t] = p]
  /\ UNCHANGED <<blocked, state, remaining, current, irq>>

\* The synchronisation objects, in their weakest form: a running task waits for
\* one, any core ends a wait, an inheritance mutex moves a task between its
\* base priority and a higher one (both callers test that it really changes).
Suspend(t) == Executing(t) /\ t # Idle[CoreOf[t]] /\ SleepForever(t)
Wake(t)    == state[t] = "BLOCKED" /\ MakeReady(t)
Inherit(t, p) ==
  /\ state[t] # "NONE"
  /\ t # Idle[CoreOf[t]]
  /\ p >= BasePriority[t]
  /\ p # priority[t]
  /\ scheduler_change_task_priority(t, p)

Kernel(c) == scheduler_start(c) \/ Tick(c) \/ TickWake(c) \/ TickDone(c)
               \/ scheduler_switch_context(c)

Next ==
  \/ \E c \in Core : Kernel(c)
  \/ \E t \in Task :
       \/ task_create(t)
       \/ \E r \in Delays[t] : block_until(t, r)
       \/ Suspend(t)
       \/ Wake(t)
       \/ \E p \in Priority : Inherit(t, p)

Spec == Init /\ [][Next]_vars

-------------------------------------------------------------------------------

TypeOK ==
  /\ ready \in [Core -> [Priority -> [items : Seq(Task), index : Task \cup {Null}]]]
  /\ blocked   \in [Core -> Seq(Task)]
  /\ state     \in [Task -> TaskState]
  /\ priority  \in [Task -> Priority]
  /\ remaining \in [Task -> Int]
  /\ current   \in [Core -> Task \cup {Null}]
  /\ irq       \in [Core -> IrqStage]

\* Every created task that is not BLOCKED is in the ready list of its own
\* priority on its own core, and no task is linked twice or anywhere else.
ReadyListsExact ==
  \A c \in Core, p \in Priority :
    LET l == ready[c][p]
    IN  /\ IsInjective(l.items)
        /\ ToSet(l.items) = {t \in Task : /\ CoreOf[t] = c
                                          /\ priority[t] = p
                                          /\ state[t] \in {"READY", "RUNNING"}}

\* Each cursor is at a task of its list, so the dispatcher never follows a
\* dangling or NULL index of a list it found non-empty (scheduler.c:256-260).
CursorInList ==
  \A c \in Core, p \in Priority :
    LET l == ready[c][p]
    IN  IF l.items = <<>> THEN l.index = Null ELSE l.index \in ToSet(l.items)

\* The blocked list holds only BLOCKED tasks of its core, each once.
BlockedListExact ==
  \A c \in Core :
    /\ IsInjective(blocked[c])
    /\ \A t \in ToSet(blocked[c]) : CoreOf[t] = c /\ state[t] = "BLOCKED"

\* A core runs one task, and that one is the task in p_task_control_block.
OneRunning ==
  \A t \in Task : state[t] = "RUNNING" => current[CoreOf[t]] = t

\* The handler looks only at the head of the blocked list; when it is done no
\* sleeper of the core is left behind past its wake-up time.
NobodyOversleeps ==
  \A c \in Core : irq[c] = "switch" =>
    \A t \in ToSet(blocked[c]) : remaining[t] > 0

\* A context switch leaves the core with a task of the highest priority that is
\* ready on it (scheduler/docs.md: "always runs the highest non-empty priority").
RunsHighest ==
  [][\A c \in Core : irq[c] = "switch" /\ irq'[c] = "none" =>
       \A t \in Task : CoreOf[t] = c /\ state'[t] \in {"READY", "RUNNING"} =>
         current'[c] # Null /\ priority'[t] <= priority'[current'[c]]]_vars

\* t waits for the core
Waits(t) == state[t] = "READY" /\ current[CoreOf[t]] # t

\* A task that another one of its priority does not overtake, because it is
\* neither outranked nor moved nor joined by a newcomer in its ready list, does
\* not wait for ever: what keeps a task from running is only ever one of these
\* three, happening again and again (scheduler.c:244-245, "so the next task at
\* the same priority runs next tick").
WaitsOnlyFor ==
  \A t \in Task :
    <>[]Waits(t) =>
      \/ []<>(\E u \in Task : /\ CoreOf[u] = CoreOf[t]
                               /\ state[u] \in {"READY", "RUNNING"}
                               /\ priority[u] > priority[t])
      \/ []<><<priority'[t] # priority[t]>>_vars
      \/ []<><<\E u \in Task : /\ u \notin ToSet(ready[CoreOf[t]][priority[t]].items)
                                /\ u \in ToSet(ready'[CoreOf[t]][priority[t]].items)>>_vars

\* A ready task runs after finitely many ticks unless a task of higher priority
\* becomes ready on its core: tasks of one priority share the CPU in turn.
RoundRobin ==
  \A t \in Task :
    state[t] = "READY" ~>
      \/ current[CoreOf[t]] = t
      \/ \E u \in Task : /\ CoreOf[u] = CoreOf[t]
                         /\ state[u] \in {"READY", "RUNNING"}
                         /\ priority[u] > priority[t]
===============================================================================
