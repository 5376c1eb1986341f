----------------------------- MODULE SoftwareTimer -----------------------------
(***************************************************************************)
(* kernel/software_timer/software_timer.c: timers of core 0, kept in two   *)
(* intrusive lists that the tick interrupt, the service task and every     *)
(* task or callback that creates, stops or resets a timer share.           *)
(*                                                                         *)
(* A critical section masks the core's IRQs and is one step; so is each    *)
(* iteration of software_timer_tick's loop, with nothing of core 0 running *)
(* in between (in_tick).  The semaphore is its count: what Semaphore shows *)
(* of it is that no token is lost.                                         *)
(*                                                                         *)
(* Time is relative: left[t] is expiry_tick minus the tick count, for as   *)
(* long as somebody will read it, and 0 afterwards.                        *)
(*                                                                         *)
(* What the callers must keep to, and the code does not check: a timer is  *)
(* created when it is in no list (samples/rtos/software_timer/main.c tests *)
(* list_id for it), and a periodic timer is neither created nor reset      *)
(* while the service task has it in hand, in its own callback above all,   *)
(* since the service task links it once more when the callback returns.    *)
(* The callers of the timers in Careless do not keep to it: these calls    *)
(* have the effect on the links that they have in the code, and the        *)
(* behaviour is followed up to the first list that runs into itself or     *)
(* into the other one (Intact).  What is proved is about Careless = {}.    *)
(***************************************************************************)
EXTENDS TaskLists, FiniteSets

CONSTANTS
  Timer,
  Periodic,     \* the timers with TIMER_MODE_PERIODIC
  Careless,     \* the timers created and reset wherever they are
  Periods,      \* bound: the periods that timers are created with
  MaxLate,      \* bound: no timer is kept waiting for more ticks than this
  MaxTokens     \* bound: count of software_timer_semaphore when a tick comes

ASSUME TimerAssumption ==
  /\ Null \notin Timer
  /\ Periodic \subseteq Timer /\ Careless \subseteq Timer
  /\ Periods \subseteq Nat \ {0}
  /\ MaxLate \in Nat /\ MaxTokens \in Nat

VARIABLES
  timer_blocked,   \* blocked_list_head and its links
  timer_active,    \* active_list_head and its links
  list_id,         \* timer->list_id
  period,          \* timer->period; 0 before the timer is created
  left,            \* timer->expiry_tick - tick count
  tokens,          \* software_timer_semaphore
  service,         \* where the service task is
  serving,         \* its `expired'
  in_tick,         \* core 0 is in software_timer_tick
  started,         \* scheduler_get_current_task() != NULL
  cancelled        \* history: stopped before the service task had it, not armed since

timerVars == <<timer_blocked, timer_active, list_id, period, left, tokens, service,
               serving, in_tick, started, cancelled>>

\* Static storage and software_timer_init
TimerInit ==
  /\ timer_blocked = <<>> /\ timer_active = <<>>
  /\ list_id = [t \in Timer |-> "NONE"]
  /\ period  = [t \in Timer |-> 0]
  /\ left    = [t \in Timer |-> 0]
  /\ tokens  = 0
  /\ service = "wait" /\ serving = Null
  /\ in_tick = FALSE /\ started = FALSE
  /\ cancelled = {}

-------------------------------------------------------------------------------
\* The lists

\* software_timer_unlink: nothing happens to a list that t is not in
TimerUnlink(s, t) == IF t \in ToSet(s) THEN Unlinked(s, t) ELSE s

\* timer->next = NULL: what is behind t is lost
Cut(s, t) == IF t \in ToSet(s) THEN SubSeq(s, 1, CHOOSE i \in DOMAIN s : s[i] = t) ELSE s

\* BUG: only the head is compared, a later timer goes to the tail.
TimerInsert_AtTail(s, t, r) ==
  IF s = <<>> \/ r < left[s[1]] THEN Cons(t, s) ELSE Append(s, t)

\* software_timer_add_to_blocked_list: in front of a head that expires later,
\* otherwise behind the last item, from the head on, that does not.  Where t is
\* linked already the result is the items up to the first that comes back.
TimerInsert(s, t, r) ==
  LET due == [left EXCEPT ![t] = r]
  IN  IF s = <<>> \/ r < due[s[1]]
        THEN Cons(t, s)
        ELSE LET k == CHOOSE k \in DOMAIN s :
                        /\ \A j \in 2 .. k : due[s[j]] <= r
                        /\ k < Len(s) => due[s[k + 1]] > r
             IN  InsertAt(s, k + 1, t)

\* The lists without a timer that stop or reset takes off the one it is in
BlockedWithout(t) ==
  IF list_id[t] = "BLOCKED" THEN TimerUnlink(timer_blocked, t) ELSE timer_blocked
ActiveWithout(t) ==
  IF list_id[t] = "ACTIVE" THEN TimerUnlink(timer_active, t) ELSE timer_active

\* t is linked into the blocked list b, to expire r ticks from now; a is the
\* active list
Arm(b, a, t, r) ==
  /\ timer_blocked' = TimerInsert(Cut(b, t), t, r)
  /\ timer_active'  = Cut(a, t)
  /\ list_id' = [list_id EXCEPT ![t] = "BLOCKED"]
  /\ left'    = [left EXCEPT ![t] = r]

-------------------------------------------------------------------------------
\* The calls of tasks and callbacks

\* Each list ends, and not in the other one
Intact ==
  /\ IsInjective(timer_blocked) /\ IsInjective(timer_active)
  /\ ToSet(timer_blocked) \cap ToSet(timer_active) = {}

\* The service task would link t again behind the caller's back
InService(t) == t \in Periodic /\ serving = t

\* Armed at once in a running system, otherwise left to software_timer_reset
software_timer_create(t, p) ==
  /\ ~ in_tick
  /\ t \notin Careless => list_id[t] = "NONE" /\ ~ InService(t)
  /\ period' = [period EXCEPT ![t] = p]
  /\ \/ /\ started
        /\ Arm(timer_blocked, timer_active, t, p)
        /\ cancelled' = cancelled \ {t}
     \/ /\ ~ started
        /\ timer_blocked' = Cut(timer_blocked, t) /\ timer_active' = Cut(timer_active, t)
        /\ list_id' = [list_id EXCEPT ![t] = "NONE"]
        /\ left'    = [left EXCEPT ![t] = 0]
        /\ UNCHANGED cancelled
  /\ UNCHANGED <<tokens, service, serving, in_tick, started>>

\* BUG: a timer that has expired is not taken off the active list.
software_timer_stop_BlockedOnly(t) ==
  /\ ~ in_tick /\ period[t] # 0
  /\ timer_blocked' = BlockedWithout(t)
  /\ list_id'   = [list_id EXCEPT ![t] = IF @ = "ACTIVE" THEN @ ELSE "NONE"]
  /\ left'      = IF serving = t THEN left ELSE [left EXCEPT ![t] = 0]
  /\ cancelled' = IF serving = t THEN cancelled ELSE cancelled \cup {t}
  /\ UNCHANGED <<timer_active, period, tokens, service, serving, in_tick, started>>

\* The service task re-arms a periodic timer that it has in hand all the same
software_timer_stop(t) ==
  /\ ~ in_tick /\ period[t] # 0
  /\ timer_blocked' = BlockedWithout(t) /\ timer_active' = ActiveWithout(t)
  /\ list_id'   = [list_id EXCEPT ![t] = "NONE"]
  /\ left'      = IF InService(t) THEN left ELSE [left EXCEPT ![t] = 0]
  /\ cancelled' = IF serving = t THEN cancelled ELSE cancelled \cup {t}
  /\ UNCHANGED <<period, tokens, service, serving, in_tick, started>>

\* BUG: the links of the list that the timer is in are left alone.
software_timer_reset_NoUnlink(t) ==
  /\ ~ in_tick /\ period[t] # 0
  /\ t \notin Careless => ~ InService(t)
  /\ Arm(timer_blocked, timer_active, t, period[t])
  /\ cancelled' = cancelled \ {t}
  /\ UNCHANGED <<period, tokens, service, serving, in_tick, started>>

software_timer_reset(t) ==
  /\ ~ in_tick /\ period[t] # 0
  /\ t \notin Careless => ~ InService(t)
  /\ Arm(BlockedWithout(t), ActiveWithout(t), t, period[t])
  /\ cancelled' = cancelled \ {t}
  /\ UNCHANGED <<period, tokens, service, serving, in_tick, started>>

-------------------------------------------------------------------------------
\* The tick interrupt of core 0

TimerStart ==
  /\ ~ started
  /\ started' = TRUE
  /\ UNCHANGED <<timer_blocked, timer_active, list_id, period, left, tokens, service,
                 serving, in_tick, cancelled>>

\* Somebody will still compare t's expiry_tick
Counting(t) == list_id[t] # "NONE" \/ InService(t)

TimerTick ==
  /\ started /\ ~ in_tick
  /\ \A t \in Timer : left[t] > -MaxLate
  /\ tokens <= MaxTokens
  /\ in_tick' = TRUE
  /\ left' = [t \in Timer |-> IF Counting(t) THEN left[t] - 1 ELSE left[t]]
  /\ UNCHANGED <<timer_blocked, timer_active, list_id, period, tokens, service,
                 serving, started, cancelled>>

Expired == timer_blocked # <<>> /\ left[timer_blocked[1]] <= 0

\* BUG: the service task is woken once, not once per timer.
software_timer_tick_GivesOnce ==
  /\ in_tick /\ Expired
  /\ LET t == timer_blocked[1]
     IN  /\ timer_blocked' = Tail(timer_blocked)
         /\ timer_active'  = Cons(t, timer_active)
         /\ list_id'       = [list_id EXCEPT ![t] = "ACTIVE"]
  /\ tokens' = IF timer_active = <<>> THEN tokens + 1 ELSE tokens
  /\ UNCHANGED <<period, left, service, serving, in_tick, started, cancelled>>

\* One iteration: software_timer_pop_to_active and semaphore_give
software_timer_tick ==
  /\ in_tick /\ Expired
  /\ LET t == timer_blocked[1]
     IN  /\ timer_blocked' = Tail(timer_blocked)
         /\ timer_active'  = Cons(t, timer_active)
         /\ list_id'       = [list_id EXCEPT ![t] = "ACTIVE"]
  /\ tokens' = tokens + 1
  /\ UNCHANGED <<period, left, service, serving, in_tick, started, cancelled>>

TimerTickDone ==
  /\ in_tick /\ ~ Expired
  /\ in_tick' = FALSE
  /\ UNCHANGED <<timer_blocked, timer_active, list_id, period, left, tokens, service,
                 serving, started, cancelled>>

-------------------------------------------------------------------------------
\* software_timer_service_task

service_take ==
  /\ started /\ ~ in_tick /\ service = "wait" /\ tokens > 0
  /\ tokens' = tokens - 1
  /\ service' = "pop"
  /\ UNCHANGED <<timer_blocked, timer_active, list_id, period, left, serving, in_tick,
                 started, cancelled>>

\* The token of a timer that has been stopped or reset since finds no timer
service_pop ==
  /\ ~ in_tick /\ service = "pop"
  /\ IF timer_active = <<>>
       THEN service' = "wait" /\ UNCHANGED <<timer_active, list_id, left, serving>>
       ELSE LET t == timer_active[1]
            IN  /\ service'      = "callback"
                /\ serving'      = t
                /\ timer_active' = Tail(timer_active)
                /\ list_id'      = [list_id EXCEPT ![t] = "NONE"]
                /\ left'         = IF t \in Periodic THEN left ELSE [left EXCEPT ![t] = 0]
  /\ UNCHANGED <<timer_blocked, period, tokens, in_tick, started, cancelled>>

\* The callback returns, and a periodic timer is armed again from the time at
\* which it should have expired
service_end ==
  /\ ~ in_tick /\ service = "callback"
  /\ IF serving \in Periodic
       THEN Arm(timer_blocked, timer_active, serving, left[serving] + period[serving])
       ELSE UNCHANGED <<timer_blocked, timer_active, list_id, left>>
  /\ service' = "wait" /\ serving' = Null
  /\ UNCHANGED <<period, tokens, in_tick, started, cancelled>>

-------------------------------------------------------------------------------

TimerNext ==
  /\ Intact
  /\ \/ TimerStart \/ TimerTick \/ software_timer_tick \/ TimerTickDone
     \/ service_take \/ service_pop \/ service_end
     \/ \E t \in Timer :
          \/ \E p \in Periods : software_timer_create(t, p)
          \/ software_timer_stop(t)
          \/ software_timer_reset(t)

TimerSpec == TimerInit /\ [][TimerNext]_timerVars

TimerTypeOK ==
  /\ timer_blocked \in Seq(Timer) /\ timer_active \in Seq(Timer)
  /\ list_id \in [Timer -> {"NONE", "BLOCKED", "ACTIVE"}]
  /\ period  \in [Timer -> Nat]
  /\ left    \in [Timer -> Int]
  /\ tokens  \in Nat
  /\ service \in {"wait", "pop", "callback"}
  /\ serving \in Timer \cup {Null}
  /\ in_tick \in BOOLEAN /\ started \in BOOLEAN
  /\ cancelled \subseteq Timer

\* A timer is linked in the list that its list_id names, once, and in no other
\* (software_timer.h:20, "A timer node belongs to at most one list at a time"),
\* as creates, stops and resets by tasks and by the callbacks of other timers,
\* the tick and the service task take turns.  It is the promise of the callers
\* that Careless is about that keeps it: a periodic timer that is reset in its
\* own callback is linked a second time when the callback returns.
TimerListsExact ==
  /\ IsInjective(timer_blocked) /\ IsInjective(timer_active)
  /\ ToSet(timer_blocked) = {t \in Timer : list_id[t] = "BLOCKED"}
  /\ ToSet(timer_active)  = {t \in Timer : list_id[t] = "ACTIVE"}

\* Each expired timer has a token of its own on the way to the service task: it
\* cannot be left on the active list with the service task asleep, although
\* stops and resets take timers off the list and leave their tokens behind.
NoStrandedTimer ==
  Len(timer_active) <= tokens + (IF service = "pop" THEN 1 ELSE 0)

\* The tick stops at the first timer that has not expired: no other timer of the
\* list may be due then, and none is moved to the active list before its time.
ExpiresOnTime ==
  [][/\ in_tick /\ ~ in_tick' => \A t \in ToSet(timer_blocked') : left'[t] > 0
     /\ \A t \in Timer : list_id[t] # "ACTIVE" /\ list_id'[t] = "ACTIVE" => left[t] <= 0
    ]_timerVars

\* The callback of a timer that was stopped, expired or not, before the service
\* task picked it up does not run until the timer is armed again
\* (software_timer.h:62, "Cancel a timer, removing it from whichever internal
\* list it's in").
StoppedStaysQuiet == service = "callback" => serving \notin cancelled
===============================================================================
