------------------------------ MODULE MutexProofs ------------------------------
(***************************************************************************)
(* Proofs about Mutex, for any number of cores, tasks and mutexes: the     *)
(* owner field and what tasks were told agree, nobody waits out of the     *)
(* reach of an unlock, mutexes_held counts, a boost ends, and an owner is  *)
(* not outranked by those who wait for it.                                 *)
(*                                                                         *)
(* The argument has three layers.  CallInv says where every call stands,   *)
(* who holds mtx->lock between two steps, and who is linked in the list of *)
(* a mutex.  Upon it, HeldOk says what mutexes_held counts and when a      *)
(* priority is boosted.  Upon both, BoostOk says that a boost is enough,   *)
(* and that one which is under way is still needed when it is made.        *)
(***************************************************************************)
EXTENDS Mutex, SchedulerProofs, FiniteSetTheorems

\* t waits in mutex_lock, or has waited and does not know it
InLock(t) == pc[t] \in {"check", "raise", "waiting"}

\* The types of what mutex.c adds to the scheduler, but for mutexes_held
MutexTypes ==
  /\ owner       \in [Mutex -> Task \cup {Null}]
  /\ waiters     \in [Mutex -> Seq(Task)]
  /\ inherited   \in [Mutex -> Priority]
  /\ inheritance \in [Mutex -> BOOLEAN]
  /\ lock        \in [Mutex -> Task \cup {Null}]
  /\ holding     \in [Task -> SUBSET Mutex]
  /\ pc          \in [Task -> Critical \cup {"idle", "waiting"}]
  /\ target      \in [Task -> Mutex \cup {Null}]
  /\ next        \in [Task -> Task \cup {Null}]

\* A call has its mutex, and with IRQs masked its lock and its core
CallersOk ==
  \A t \in Task :
    /\ target[t] \in IF pc[t] = "idle" THEN {Null} ELSE Mutex
    /\ pc[t] # "idle" => t \in Users[target[t]]
    /\ pc[t] \in Critical =>
         lock[target[t]] = t /\ current[CoreOf[t]] = t /\ irq[CoreOf[t]] = "none"
    /\ pc[t] \in {"check", "raise"} => state[t] = "BLOCKED" /\ inheritance[target[t]]
    /\ InLock(t) => target[t] \notin holding[t]
    /\ InLock(t) /\ t \in ToSet(blocked[CoreOf[t]]) => Timeouts[target[t]] # {}

\* mtx->lock is held between two steps of one call only
LocksOk ==
  \A m \in Mutex : lock[m] # Null => pc[lock[m]] \in Critical /\ target[lock[m]] = m

\* The waiter that an unlock has popped sleeps until it is woken
UnlockersOk ==
  \A t \in Task :
    /\ pc[t] = "handover" => next[t] # Null
    /\ pc[t] = "restore" /\ next[t] = Null => owner[target[t]] = Null
    /\ next[t] # Null =>
         /\ pc[t] \in {"restore", "handover"} /\ owner[target[t]] = t
         /\ pc[next[t]] = "waiting" /\ state[next[t]] = "BLOCKED" /\ target[next[t]] = target[t]

\* The owner is giving the mutex up, knows that it has it, or will be told
OwnersOk ==
  \A m \in Mutex, t \in Task :
    /\ m \in holding[t] => owner[m] = t /\ lock[m] # t
    /\ owner[m] = t =>
         /\ t \in Users[m]
         /\ \/ lock[m] = t /\ next[t] # Null
            \/ lock[m] # t /\ m \in holding[t]
            \/ lock[m] # t /\ pc[t] = "waiting" /\ target[t] = m /\ state[t] # "BLOCKED"

\* The tasks that are linked in the list of m
Waiters(m) ==
  {t \in Task : InLock(t) /\ state[t] = "BLOCKED" /\ target[t] = m
                  /\ \A u \in Task : next[u] # t}

WaitersOk ==
  \A m \in Mutex :
    /\ IsInjective(waiters[m])
    /\ ToSet(waiters[m]) = Waiters(m)
    /\ \A t \in Waiters(m) : owner[m] # Null

CallInv ==
  Inv /\ MutexTypes /\ CallersOk /\ LocksOk /\ UnlockersOk /\ OwnersOk /\ WaitersOk

-------------------------------------------------------------------------------

\* The invariant of the calls, with the typing facts that the steps below keep using.
LEMMA CallParts ==
  ASSUME CallInv
  PROVE  /\ Inv /\ MutexTypes /\ CallersOk /\ LocksOk /\ UnlockersOk /\ OwnersOk /\ WaitersOk
         /\ Null \notin Task /\ Null \notin Mutex /\ CoreOf \in [Task -> Core]
         /\ \A m \in Mutex : Users[m] \subseteq Task
         /\ Types(state) /\ \A c \in Core : ToSet(blocked[c]) \subseteq Task
BY InvParts, MutexAssumption DEF CallInv, Inv

\* The scheduler's invariant does not depend on anything else.
LEMMA SchedulerSame ==
  ASSUME Inv, UNCHANGED vars PROVE Inv'
BY DEF vars, Inv, InvOf, Types, On, SleepersOf, SortedBlocked, RunnersOf, NobodyOversleeps

\* mutex_init.
LEMMA CallBegins ==
  ASSUME MutexInit PROVE CallInv
<1>1. /\ Init
      /\ owner       = [m \in Mutex |-> Null] /\ waiters = [m \in Mutex |-> <<>>]
      /\ inherited   = [m \in Mutex |-> 0] /\ inheritance = [m \in Mutex |-> FALSE]
      /\ lock        = [m \in Mutex |-> Null] /\ holding = [t \in Task |-> {}]
      /\ pc          = [t \in Task |-> "idle"] /\ target = [t \in Task |-> Null]
      /\ next        = [t \in Task |-> Null]
  BY DEF MutexInit
<1>2. Inv
  BY <1>1, InitInv
<1>3. Null \notin Task /\ Null \notin Mutex /\ 0 \in Priority
  BY MutexAssumption, SchedulerAssumption DEF Priority
<1>4. MutexTypes
  BY <1>1, <1>3 DEF MutexTypes
<1>5. CallersOk /\ LocksOk /\ UnlockersOk /\ OwnersOk
  BY <1>1, <1>3 DEF CallersOk, LocksOk, UnlockersOk, OwnersOk, InLock, Critical
<1>6. WaitersOk
  <2>1. ToSet(<<>>) = {} /\ IsInjective(<<>>)
    BY DEF ToSet, IsInjective
  <2>2. \A m \in Mutex : Waiters(m) = {}
    BY <1>1 DEF Waiters, InLock
  <2> QED BY <1>1, <2>1, <2>2 DEF WaitersOk
<1> QED BY <1>2, <1>4, <1>5, <1>6 DEF CallInv

-------------------------------------------------------------------------------
\* mutex_lock

\* mutex_set_inheritance: nobody is in a call for m.
LEMMA CallSets ==
  ASSUME CallInv, NEW t \in Task, NEW m \in Mutex, NEW e \in BOOLEAN,
         mutex_set_inheritance(t, m, e)
  PROVE  CallInv'
<1>1. /\ Inv /\ MutexTypes /\ CallersOk /\ LocksOk /\ UnlockersOk /\ OwnersOk /\ WaitersOk
      /\ Null \notin Task
  BY CallParts
<1>2. /\ lock[m] = Null /\ inheritance' = [inheritance EXCEPT ![m] = e]
      /\ UNCHANGED vars /\ UNCHANGED <<state, blocked, current, irq>>
      /\ UNCHANGED <<owner, waiters, inherited, lock, holding, pc, target, next>>
  BY DEF mutex_set_inheritance, Calling, vars
<1>3. Inv'
  BY <1>1, <1>2, SchedulerSame
<1>4. MutexTypes'
  BY <1>1, <1>2 DEF MutexTypes
<1>5. \A i \in Mutex : i # m => inheritance'[i] = inheritance[i]
  BY <1>1, <1>2 DEF MutexTypes
<1>6. CallersOk'
  BY <1>1, <1>2, <1>5 DEF CallersOk, InLock, Critical
<1>7. LocksOk' /\ UnlockersOk' /\ OwnersOk'
  BY <1>1, <1>2 DEF LocksOk, UnlockersOk, OwnersOk
<1>8. WaitersOk'
  BY <1>1, <1>2 DEF WaitersOk, Waiters, InLock
<1> QED BY <1>3, <1>4, <1>6, <1>7, <1>8 DEF CallInv

\* The mutex is free.
LEMMA CallTakes ==
  ASSUME CallInv, NEW t \in Task, NEW m \in Mutex, lock_free(t, m)
  PROVE  CallInv'
<1>1. /\ Inv /\ MutexTypes /\ CallersOk /\ LocksOk /\ UnlockersOk /\ OwnersOk /\ WaitersOk
      /\ Null \notin Task
  BY CallParts
<1>2. /\ lock[m] = Null /\ pc[t] = "idle" /\ t \in Users[m] /\ owner[m] = Null
      /\ owner' = [owner EXCEPT ![m] = t]
      /\ holding' = [holding EXCEPT ![t] = @ \cup {m}]
      /\ UNCHANGED vars /\ UNCHANGED <<state, blocked, current, irq>>
      /\ UNCHANGED <<waiters, inherited, inheritance, lock, pc, target, next>>
  BY DEF lock_free, Calling, Unlocked, vars
<1>3. Inv'
  BY <1>1, <1>2, SchedulerSame
<1>4. MutexTypes'
  BY <1>1, <1>2 DEF MutexTypes
<1>5. /\ \A i \in Mutex : owner'[i] = IF i = m THEN t ELSE owner[i]
      /\ \A u \in Task : holding'[u] = IF u = t THEN holding[t] \cup {m} ELSE holding[u]
  BY <1>1, <1>2 DEF MutexTypes
<1>6. CallersOk'
  BY <1>1, <1>2, <1>5 DEF CallersOk, InLock
<1>7. LocksOk'
  BY <1>1, <1>2 DEF LocksOk
<1>8. UnlockersOk'
  <2>1. \A u \in Task : pc[u] \in {"restore", "handover"} => target[u] \in Mutex /\ target[u] # m
    BY <1>1, <1>2 DEF CallersOk, Critical
  <2> QED BY <1>1, <1>2, <1>5, <2>1 DEF UnlockersOk
<1>9. OwnersOk'
  BY <1>1, <1>2, <1>5 DEF OwnersOk
<1>10. WaitersOk'
  BY <1>1, <1>2, <1>5 DEF WaitersOk, Waiters, InLock
<1> QED BY <1>3, <1>4, <1>6, <1>7, <1>8, <1>9, <1>10 DEF CallInv

\* The call goes on behind its check, or is done with the boost.
LEMMA CallMoves ==
  ASSUME CallInv, Inv', NEW t \in Task, NEW m \in Mutex, m = target[t],
         pc[t] \in {"check", "raise"}, NEW p \in {"raise", "waiting"},
         pc'   = [pc EXCEPT ![t] = p],
         lock' = [lock EXCEPT ![m] = IF p = "raise" THEN t ELSE Null],
         inherited' \in [Mutex -> Priority],
         UNCHANGED <<state, blocked, current, irq, owner, waiters, inheritance, holding, target,
                     next>>
  PROVE  CallInv'
<1>1. /\ MutexTypes /\ CallersOk /\ LocksOk /\ UnlockersOk /\ OwnersOk /\ WaitersOk
      /\ Null \notin Task
  BY CallParts
<1>2. MutexTypes'
  BY <1>1 DEF MutexTypes, Critical
<1>3. lock[m] = t /\ state[t] = "BLOCKED" /\ next[t] = Null
  BY <1>1 DEF CallersOk, UnlockersOk, Critical
<1>4. /\ \A u \in Task : pc'[u] = IF u = t THEN p ELSE pc[u]
      /\ \A i \in Mutex : lock'[i] = IF i = m /\ p # "raise" THEN Null ELSE lock[i]
  BY <1>1, <1>3 DEF MutexTypes
<1>5. \A u \in Task : InLock(u)' <=> InLock(u)
  BY <1>4 DEF InLock
<1>6. CallersOk'
  <2>1. \A u \in Task : u # t /\ pc[u] \in Critical => target[u] # m
    BY <1>1, <1>3 DEF CallersOk
  <2> QED BY <1>1, <1>4, <1>5, <2>1 DEF CallersOk, Critical
<1>7. LocksOk'
  BY <1>1, <1>3, <1>4 DEF LocksOk, Critical, MutexTypes
<1>8. UnlockersOk'
  <2>1. \A u \in Task : next[u] # Null => next[u] \in Task /\ next[u] # t
    BY <1>1 DEF UnlockersOk, MutexTypes
  <2> QED BY <1>1, <1>3, <1>4, <2>1 DEF UnlockersOk
<1>9. OwnersOk'
  BY <1>1, <1>3, <1>4 DEF OwnersOk
<1>10. WaitersOk'
  <2>1. \A i \in Mutex : Waiters(i)' = Waiters(i)
    BY <1>5 DEF Waiters
  <2> QED BY <1>1, <2>1 DEF WaitersOk
<1> QED BY <1>2, <1>6, <1>7, <1>8, <1>9, <1>10 DEF CallInv

\* The higher of two priorities is one.
LEMMA GreatestPriority ==
  ASSUME NEW S \in SUBSET Priority, S # {}
  PROVE  Max(S) \in Priority /\ \A p \in S : p <= Max(S)
<1>1. NumPriorities - 1 \in Nat /\ S \in SUBSET (0 .. NumPriorities - 1)
  BY SchedulerAssumption DEF Priority
<1>2. Max(S) \in S /\ \A p \in S : p <= Max(S)
  BY <1>1, GreatestBelow
<1> QED BY <1>2

\* What mutex_lock stores in inherited_priority is below neither the old value nor the waiter.
LEMMA InheritsHigher ==
  ASSUME CallInv, NEW t \in Task, NEW m \in Mutex
  PROVE  /\ Inherits(t, m) \in Priority
         /\ priority[t] <= Inherits(t, m) /\ inherited[m] <= Inherits(t, m)
<1>1. {inherited[m], priority[t]} \in SUBSET Priority
  BY CallParts DEF MutexTypes, Types
<1> QED BY <1>1, GreatestPriority DEF Inherits

\* A waiter that is still in its call has an owner to boost.
LEMMA HasOwner ==
  ASSUME CallInv, NEW t \in Task, pc[t] \in {"check", "raise"}
  PROVE  /\ target[t] \in Mutex /\ lock[target[t]] = t /\ inheritance[target[t]]
         /\ t \in Waiters(target[t])
         /\ owner[target[t]] \in Task /\ owner[target[t]] # t
<1>1. /\ MutexTypes /\ CallersOk /\ LocksOk /\ UnlockersOk /\ OwnersOk /\ WaitersOk
      /\ Null \notin Task
  BY CallParts
<1>2. /\ target[t] \in Mutex /\ lock[target[t]] = t /\ inheritance[target[t]]
      /\ state[t] = "BLOCKED" /\ next[t] = Null
  BY <1>1 DEF CallersOk, UnlockersOk, Critical
<1>3. t \in Waiters(target[t])
  BY <1>1, <1>2 DEF Waiters, InLock, UnlockersOk
<1>4. owner[target[t]] \in Task
  BY <1>1, <1>2, <1>3 DEF WaitersOk, MutexTypes
<1> QED BY <1>1, <1>2, <1>3, <1>4 DEF OwnersOk

\* The waiter's priority is noted, and the owner's compared with it.
LEMMA CallChecks ==
  ASSUME CallInv, NEW t \in Task, inherit_check(t)
  PROVE  CallInv'
<1>1. /\ Inv /\ MutexTypes /\ pc[t] = "check"
  BY CallParts DEF inherit_check
<1>2. PICK m \in Mutex : m = target[t]
  BY <1>1, HasOwner
<1>3. lock[m] = t
  BY <1>1, <1>2, HasOwner
<1>4. /\ inherited' = [inherited EXCEPT ![m] = Inherits(t, m)]
      /\ UNCHANGED vars /\ UNCHANGED <<state, blocked, current, irq>>
      /\ UNCHANGED <<owner, waiters, inheritance, holding, target, next>>
      /\ \/ pc' = [pc EXCEPT ![t] = "raise"] /\ lock' = lock
         \/ pc' = [pc EXCEPT ![t] = "waiting"] /\ lock' = [lock EXCEPT ![m] = Null]
  BY <1>2 DEF inherit_check, Leave, vars
<1>5. inherited' \in [Mutex -> Priority]
  BY <1>1, <1>4, InheritsHigher DEF MutexTypes
<1>6. Inv'
  BY <1>1, <1>4, SchedulerSame
<1>7. PICK p \in {"raise", "waiting"} :
         /\ pc'   = [pc EXCEPT ![t] = p]
         /\ lock' = [lock EXCEPT ![m] = IF p = "raise" THEN t ELSE Null]
  <2>1. lock = [lock EXCEPT ![m] = t]
    BY <1>1, <1>3 DEF MutexTypes
  <2> QED BY <1>4, <2>1
<1> QED BY <1>1, <1>2, <1>4, <1>5, <1>6, <1>7, CallMoves

\* The owner is boosted.
LEMMA CallBoosts ==
  ASSUME CallInv, NEW t \in Task, boost_owner(t)
  PROVE  CallInv'
<1>1. /\ Inv /\ MutexTypes /\ pc[t] = "raise"
  BY CallParts DEF boost_owner
<1>2. PICK m \in Mutex : m = target[t]
  BY <1>1, HasOwner
<1>3. owner[m] \in Task /\ inherited[m] \in Priority
  BY <1>1, <1>2, HasOwner DEF MutexTypes
<1>4. /\ scheduler_change_task_priority(owner[m], inherited[m])
      /\ pc' = [pc EXCEPT ![t] = "waiting"] /\ lock' = [lock EXCEPT ![m] = Null]
      /\ UNCHANGED <<owner, waiters, inherited, inheritance, holding, target, next>>
      /\ UNCHANGED <<state, blocked, current, irq>>
  BY <1>2 DEF boost_owner, Leave, scheduler_change_task_priority
<1>5. Inv'
  BY <1>1, <1>3, <1>4, PriorityInv
<1>6. inherited' \in [Mutex -> Priority]
  BY <1>1, <1>4 DEF MutexTypes
<1> QED BY <1>1, <1>2, <1>4, <1>5, <1>6, CallMoves

\* Awake again: with the mutex, or timed out.
LEMMA CallReturns ==
  ASSUME CallInv, NEW t \in Task, lock_result(t)
  PROVE  CallInv'
<1>1. /\ Inv /\ MutexTypes /\ CallersOk /\ LocksOk /\ UnlockersOk /\ OwnersOk /\ WaitersOk
      /\ Null \notin Task /\ Null \notin Mutex
  BY CallParts
<1>2. PICK m \in Mutex : m = target[t] /\ t \in Users[m]
  BY <1>1 DEF lock_result, CallersOk
<1>3. /\ pc[t] = "waiting" /\ state[t] # "BLOCKED" /\ lock[m] = Null
      /\ holding' = [holding EXCEPT ![t] = IF owner[m] = t THEN @ \cup {m} ELSE @]
      /\ pc'      = [pc EXCEPT ![t] = "idle"]
      /\ target'  = [target EXCEPT ![t] = Null]
      /\ UNCHANGED vars /\ UNCHANGED <<state, blocked, current, irq>>
      /\ UNCHANGED <<owner, waiters, inherited, inheritance, lock, next>>
  BY <1>2 DEF lock_result, Executing, HandedOver, vars
<1>4. Inv'
  BY <1>1, <1>3, SchedulerSame
<1>5. MutexTypes'
  BY <1>1, <1>3 DEF MutexTypes
<1>6. /\ \A u \in Task : pc'[u] = IF u = t THEN "idle" ELSE pc[u]
      /\ \A u \in Task : target'[u] = IF u = t THEN Null ELSE target[u]
      /\ \A u \in Task : holding'[u] =
           IF u = t /\ owner[m] = t THEN holding[u] \cup {m} ELSE holding[u]
  BY <1>1, <1>3 DEF MutexTypes
<1>7. ~ InLock(t)' /\ \A u \in Task : u # t => (InLock(u)' <=> InLock(u))
  BY <1>6 DEF InLock
<1>8. CallersOk'
  BY <1>1, <1>3, <1>6, <1>7 DEF CallersOk, Critical
<1>9. LocksOk'
  BY <1>1, <1>3, <1>6 DEF LocksOk, Critical, MutexTypes
<1>10. UnlockersOk'
  <2>1. \A u \in Task : next[u] # Null => next[u] \in Task /\ next[u] # t /\ u # t
    BY <1>1, <1>3 DEF UnlockersOk, MutexTypes
  <2> QED BY <1>1, <1>3, <1>6, <2>1 DEF UnlockersOk
<1>11. OwnersOk'
  BY <1>1, <1>2, <1>3, <1>6 DEF OwnersOk
<1>12. WaitersOk'
  <2>1. \A i \in Mutex : Waiters(i)' = Waiters(i)
    BY <1>3, <1>6, <1>7 DEF Waiters
  <2> QED BY <1>1, <1>3, <2>1 DEF WaitersOk
<1> QED BY <1>4, <1>5, <1>8, <1>9, <1>10, <1>11, <1>12 DEF CallInv

\* The mutex is not free: the caller joins the lists and is BLOCKED.
LEMMA CallWaits ==
  ASSUME CallInv, NEW t \in Task, NEW m \in Mutex, lock_wait(t, m)
  PROVE  CallInv'
<1>1. /\ Inv /\ MutexTypes /\ CallersOk /\ LocksOk /\ UnlockersOk /\ OwnersOk /\ WaitersOk
      /\ Null \notin Task /\ Null \notin Mutex /\ CoreOf \in [Task -> Core] /\ Types(state)
  BY CallParts
<1>2. PICK p \in {"check", "waiting"} :
        /\ pc' = [pc EXCEPT ![t] = p]
        /\ lock' = [lock EXCEPT ![m] = IF p = "check" THEN t ELSE Null]
        /\ p = "check" => inheritance[m]
  BY DEF lock_wait, Leave
<1>3. /\ lock[m] = Null /\ pc[t] = "idle" /\ t \in Users[m] /\ owner[m] # Null
      /\ m \notin holding[t] /\ state[t] # "BLOCKED"
      /\ current[CoreOf[t]] = t /\ irq[CoreOf[t]] = "none"
      /\ waiters' = [waiters EXCEPT ![m] = Append(@, t)]
      /\ target'  = [target EXCEPT ![t] = m]
      /\ UNCHANGED <<owner, inherited, inheritance, holding, next>>
  BY DEF lock_wait, Calling, Unlocked, Executing
<1>4. /\ Inv' /\ state' = [state EXCEPT ![t] = "BLOCKED"] /\ UNCHANGED <<current, irq>>
      /\ t \in ToSet(blocked'[CoreOf[t]]) => Timeouts[m] # {}
      /\ \A u \in Task : u # t /\ u \in ToSet(blocked'[CoreOf[u]]) => u \in ToSet(blocked[CoreOf[u]])
  <2>1. CASE SleepForever(t)
    <3>1. InvOf(state)'
      BY <1>1, <2>1, SuspendInv DEF SleepForever, Inv
    <3>2. t \notin ToSet(blocked[CoreOf[t]])
      BY <1>1, <1>3, InvParts DEF SleepersOf, Inv
    <3> QED BY <2>1, <3>1, <3>2 DEF SleepForever, Inv
  <2>2. CASE \E r \in Timeouts[m] : Sleep(t, r)
    <3>1. PICK r \in Timeouts[m] : Sleep(t, r)
      BY <2>2
    <3>2. r \in Int
      BY MutexAssumption
    <3>3. GoesToSleep(state, state', t, r) /\ state' = [state EXCEPT ![t] = "BLOCKED"]
            /\ UNCHANGED <<current, irq>>
      BY <3>1 DEF Sleep, GoesToSleep
    <3>4. InvOf(state)' /\ ToSet(blocked'[CoreOf[t]]) = ToSet(blocked[CoreOf[t]]) \cup {t}
      BY <1>1, <1>3, <3>2, <3>3, SleepInv DEF Inv
    <3>5. \A c \in Core : c # CoreOf[t] => blocked'[c] = blocked[c]
      BY <1>1, <3>3 DEF GoesToSleep, AddToBlocked, Types
    <3>6. \A u \in Task : u # t /\ u \in ToSet(blocked'[CoreOf[u]]) => u \in ToSet(blocked[CoreOf[u]])
      BY <1>1, <3>4, <3>5
    <3> QED BY <3>1, <3>3, <3>4, <3>6 DEF Inv
  <2> QED BY <2>1, <2>2 DEF lock_wait
<1>5. owner[m] # t
  BY <1>1, <1>3 DEF OwnersOk
<1>6. /\ Append(waiters[m], t) \in Seq(Task) /\ IsInjective(Append(waiters[m], t))
      /\ ToSet(Append(waiters[m], t)) = Waiters(m) \cup {t}
  <2>1. waiters[m] \in Seq(Task) /\ IsInjective(waiters[m]) /\ ToSet(waiters[m]) = Waiters(m)
    BY <1>1 DEF MutexTypes, WaitersOk
  <2>2. t \notin ToSet(waiters[m])
    BY <1>3, <2>1 DEF Waiters, InLock
  <2> QED BY <2>1, <2>2, AppendLinks
<1>7. MutexTypes'
  <2>1. waiters' \in [Mutex -> Seq(Task)]
    BY <1>1, <1>3, <1>6 DEF MutexTypes
  <2>2. lock' \in [Mutex -> Task \cup {Null}] /\ target' \in [Task -> Mutex \cup {Null}]
          /\ pc' \in [Task -> Critical \cup {"idle", "waiting"}]
    BY <1>1, <1>2, <1>3 DEF MutexTypes, Critical
  <2> QED BY <1>1, <1>3, <2>1, <2>2 DEF MutexTypes
<1>8. /\ \A u \in Task : pc'[u] = IF u = t THEN p ELSE pc[u]
      /\ \A u \in Task : target'[u] = IF u = t THEN m ELSE target[u]
      /\ \A u \in Task : state'[u] = IF u = t THEN "BLOCKED" ELSE state[u]
      /\ \A i \in Mutex : lock'[i] = IF i = m /\ p = "check" THEN t ELSE lock[i]
  BY <1>1, <1>2, <1>3, <1>4 DEF MutexTypes, Types
<1>9. InLock(t)' /\ ~ InLock(t) /\ \A u \in Task : u # t => (InLock(u)' <=> InLock(u))
  BY <1>2, <1>3, <1>8 DEF InLock
<1>10. CallersOk'
  <2>1. ASSUME NEW u \in Task, u # t
        PROVE  /\ target'[u] \in IF pc'[u] = "idle" THEN {Null} ELSE Mutex
               /\ pc'[u] # "idle" => u \in Users[target'[u]]
               /\ pc'[u] \in Critical =>
                    lock'[target'[u]] = u /\ current'[CoreOf[u]] = u /\ irq'[CoreOf[u]] = "none"
               /\ pc'[u] \in {"check", "raise"} => state'[u] = "BLOCKED" /\ inheritance'[target'[u]]
               /\ InLock(u)' => target'[u] \notin holding'[u]
               /\ InLock(u)' /\ u \in ToSet(blocked'[CoreOf[u]]) => Timeouts[target'[u]] # {}
    BY <1>1, <1>3, <1>4, <1>8, <1>9, <2>1 DEF CallersOk, Critical
  <2>2. /\ target'[t] = m /\ pc'[t] = p /\ lock'[m] = (IF p = "check" THEN t ELSE Null)
        /\ state'[t] = "BLOCKED" /\ m \notin holding'[t]
    BY <1>3, <1>8
  <2> QED BY <1>2, <1>3, <1>4, <2>1, <2>2 DEF CallersOk, Critical
<1>11. LocksOk'
  <2>0. "idle" \notin Critical
    BY DEF Critical
  <2>1. \A i \in Mutex : lock[i] # Null => lock[i] \in Task /\ lock[i] # t /\ i # m
    <3> SUFFICES ASSUME NEW i \in Mutex, lock[i] # Null
                 PROVE  lock[i] \in Task /\ lock[i] # t /\ i # m
      OBVIOUS
    <3>1. lock[i] \in Task
      BY <1>1 DEF MutexTypes
    <3>2. pc[lock[i]] \in Critical
      BY <1>1 DEF LocksOk
    <3> QED BY <1>3, <2>0, <3>1, <3>2
  <2> QED BY <1>1, <1>2, <1>8, <2>1 DEF LocksOk, Critical
<1>12. UnlockersOk'
  <2>1. \A u \in Task : /\ next[u] # Null => next[u] \in Task /\ next[u] # t /\ u # t
                        /\ pc[u] \in {"restore", "handover"} => u # t
    BY <1>1, <1>3 DEF UnlockersOk, MutexTypes
  <2> QED BY <1>1, <1>2, <1>3, <1>8, <2>1 DEF UnlockersOk
<1>13. OwnersOk'
  BY <1>1, <1>3, <1>5, <1>8 DEF OwnersOk
<1>14. WaitersOk'
  <2>1. \A u \in Task : next[u] # t
    BY <1>1, <1>3 DEF UnlockersOk
  <2>2. \A i \in Mutex : Waiters(i)' = IF i = m THEN Waiters(i) \cup {t} ELSE Waiters(i)
    BY <1>3, <1>8, <1>9, <2>1 DEF Waiters
  <2>3. \A i \in Mutex : waiters'[i] = IF i = m THEN Append(waiters[m], t) ELSE waiters[i]
    BY <1>1, <1>3 DEF MutexTypes
  <2>4. ASSUME NEW i \in Mutex
        PROVE  /\ IsInjective(waiters'[i]) /\ ToSet(waiters'[i]) = Waiters(i)'
               /\ \A u \in Waiters(i)' : owner'[i] # Null
    <3>1. CASE i = m
      <4>1. waiters'[i] = Append(waiters[m], t) /\ Waiters(i)' = Waiters(m) \cup {t}
        BY <2>2, <2>3, <3>1
      <4> QED BY <1>3, <1>6, <3>1, <4>1
    <3>2. CASE i # m
      <4>1. waiters'[i] = waiters[i] /\ Waiters(i)' = Waiters(i)
        BY <2>2, <2>3, <3>2
      <4> QED BY <1>1, <1>3, <4>1 DEF WaitersOk
    <3> QED BY <3>1, <3>2
  <2> QED BY <2>4 DEF WaitersOk
<1> QED BY <1>4, <1>7, <1>10, <1>11, <1>12, <1>13, <1>14 DEF CallInv

-------------------------------------------------------------------------------
\* mutex_unlock

\* Nobody waits: the mutex becomes free, and the priority may have to be restored.
LEMMA CallFrees ==
  ASSUME CallInv, NEW t \in Task, NEW m \in Mutex, unlock_idle(t, m)
  PROVE  CallInv'
<1>1. /\ Inv /\ MutexTypes /\ CallersOk /\ LocksOk /\ UnlockersOk /\ OwnersOk /\ WaitersOk
      /\ Null \notin Task /\ Null \notin Mutex
  BY CallParts
<1>2. /\ lock[m] = Null /\ pc[t] = "idle" /\ t \in Users[m] /\ waiters[m] = <<>>
      /\ m \in holding[t] /\ state[t] # "BLOCKED"
      /\ current[CoreOf[t]] = t /\ irq[CoreOf[t]] = "none"
      /\ owner'     = [owner EXCEPT ![m] = Null]
      /\ inherited' = [inherited EXCEPT ![m] = 0]
      /\ holding'   = [holding EXCEPT ![t] = @ \ {m}]
      /\ UNCHANGED vars /\ UNCHANGED <<state, blocked, current, irq>>
      /\ UNCHANGED <<waiters, inheritance, next>>
  BY DEF unlock_idle, Calling, Executing, NoWaiters, vars
<1>3. owner[m] = t /\ target[t] = Null /\ next[t] = Null
  BY <1>1, <1>2 DEF OwnersOk, CallersOk, UnlockersOk
<1>4. PICK q \in BOOLEAN :
        /\ lock'   = [lock EXCEPT ![m] = IF q THEN t ELSE Null]
        /\ pc'     = [pc EXCEPT ![t] = IF q THEN "restore" ELSE "idle"]
        /\ target' = [target EXCEPT ![t] = IF q THEN m ELSE Null]
  <2>1. CASE MustRestore(t, m)
    BY <2>1 DEF unlock_idle
  <2>2. CASE ~ MustRestore(t, m)
    <3>1. UNCHANGED <<lock, pc, target>>
      BY <2>2 DEF unlock_idle
    <3> QED BY <1>1, <1>2, <1>3, <3>1 DEF MutexTypes
  <2> QED BY <2>1, <2>2
<1>5. /\ \A u \in Task : pc'[u] = IF u = t /\ q THEN "restore" ELSE pc[u]
      /\ \A u \in Task : target'[u] = IF u = t /\ q THEN m ELSE target[u]
      /\ \A u \in Task : holding'[u] = IF u = t THEN holding[t] \ {m} ELSE holding[u]
      /\ \A i \in Mutex : lock'[i] = IF i = m /\ q THEN t ELSE lock[i]
      /\ \A i \in Mutex : owner'[i] = IF i = m THEN Null ELSE owner[i]
  BY <1>1, <1>2, <1>3, <1>4 DEF MutexTypes
<1>6. Inv'
  BY <1>1, <1>2, SchedulerSame
<1>7. MutexTypes'
  <2>1. 0 \in Priority
    BY SchedulerAssumption DEF Priority
  <2> QED BY <1>1, <1>2, <1>4, <2>1 DEF MutexTypes, Critical
<1>8. \A u \in Task : InLock(u)' <=> InLock(u)
  BY <1>2, <1>5 DEF InLock
<1>9. CallersOk'
  <2>1. ASSUME NEW u \in Task, u # t
        PROVE  /\ target'[u] \in IF pc'[u] = "idle" THEN {Null} ELSE Mutex
               /\ pc'[u] # "idle" => u \in Users[target'[u]]
               /\ pc'[u] \in Critical =>
                    lock'[target'[u]] = u /\ current'[CoreOf[u]] = u /\ irq'[CoreOf[u]] = "none"
               /\ pc'[u] \in {"check", "raise"} => state'[u] = "BLOCKED" /\ inheritance'[target'[u]]
               /\ InLock(u)' => target'[u] \notin holding'[u]
               /\ InLock(u)' /\ u \in ToSet(blocked'[CoreOf[u]]) => Timeouts[target'[u]] # {}
    BY <1>1, <1>2, <1>5, <1>8, <2>1 DEF CallersOk, Critical
  <2>2. ~ InLock(t)'
    BY <1>2, <1>8 DEF InLock
  <2>3. /\ target'[t] = (IF q THEN m ELSE Null) /\ pc'[t] = (IF q THEN "restore" ELSE "idle")
        /\ q => lock'[m] = t
    BY <1>2, <1>3, <1>5
  <2> QED BY <1>2, <2>1, <2>2, <2>3 DEF CallersOk, Critical
<1>10. \A i \in Mutex : lock[i] # Null => lock[i] \in Task /\ lock[i] # t /\ i # m
  <2> SUFFICES ASSUME NEW i \in Mutex, lock[i] # Null
               PROVE  lock[i] \in Task /\ lock[i] # t /\ i # m
    OBVIOUS
  <2>1. lock[i] \in Task /\ pc[lock[i]] \in Critical
    BY <1>1 DEF MutexTypes, LocksOk
  <2> QED BY <1>2, <2>1 DEF Critical
<1>11. LocksOk'
  BY <1>1, <1>5, <1>10 DEF LocksOk, Critical
<1>12. UnlockersOk'
  <2>1. \A u \in Task : /\ next[u] # Null => next[u] \in Task /\ next[u] # t /\ u # t
                        /\ next[u] # Null => target[u] # m
    BY <1>1, <1>2, <1>3 DEF UnlockersOk, MutexTypes
  <2>2. \A u \in Task : pc[u] # "idle" => target[u] \in Mutex
    BY <1>1 DEF CallersOk
  <2> QED BY <1>1, <1>2, <1>3, <1>5, <2>1, <2>2 DEF UnlockersOk
<1>13. OwnersOk'
  BY <1>1, <1>2, <1>3, <1>5 DEF OwnersOk
<1>14. WaitersOk'
  <2>1. \A i \in Mutex : Waiters(i)' = Waiters(i)
    BY <1>2, <1>5, <1>8 DEF Waiters, InLock
  <2>2. Waiters(m) = {}
    <3>1. ToSet(<<>>) = {}
      BY DEF ToSet
    <3> QED BY <1>1, <1>2, <3>1 DEF WaitersOk
  <2> QED BY <1>1, <1>2, <1>5, <2>1, <2>2 DEF WaitersOk
<1> QED BY <1>6, <1>7, <1>9, <1>11, <1>12, <1>13, <1>14 DEF CallInv

\* The waiter that is chosen is one.
LEMMA BestWaits ==
  ASSUME NEW s \in Seq(Task), s # <<>>, priority \in [Task -> Priority]
  PROVE  /\ best(s) \in ToSet(s) /\ second_best(s) \in Priority
         /\ \A u \in ToSet(s) : u # best(s) => priority[u] <= second_best(s)
<1> DEFINE P == {priority[s[k]] : k \in DOMAIN s}
           K == {k \in DOMAIN s : \A j \in DOMAIN s : priority[s[j]] <= priority[s[k]]}
<1>1. DOMAIN s = 1 .. Len(s) /\ Len(s) \in Nat /\ Len(s) # 0 /\ \A k \in DOMAIN s : s[k] \in Task
  OBVIOUS
<1>2. P \in SUBSET Priority /\ P # {}
  BY <1>1
<1>3. NumPriorities - 1 \in Nat /\ P \in SUBSET (0 .. NumPriorities - 1)
  BY <1>2, SchedulerAssumption DEF Priority
<1>4. PICK p \in P : \A q \in P : q <= p
  <2> HIDE DEF P
  <2> QED BY <1>2, <1>3, GreatestBelow
<1>5. PICK k \in DOMAIN s : p = priority[s[k]]
  BY <1>4
<1>6. K # {} /\ K \in SUBSET Nat
  BY <1>1, <1>4, <1>5
<1>7. Min(K) \in K
  <2> HIDE DEF K
  <2>1. \E n \in K : \A j \in K : n <= j
    BY <1>6, LeastNat
  <2> QED BY <2>1 DEF Min
<1>8. best(s) \in ToSet(s)
  <2>1. best(s) = s[Min(K)]
    BY DEF best
  <2>2. Min(K) \in DOMAIN s
    BY <1>7
  <2> HIDE DEF K
  <2> QED BY <2>1, <2>2 DEF ToSet
<1> DEFINE R == {0} \cup {priority[u] : u \in ToSet(s) \ {best(s)}}
<1>9. ToSet(s) \subseteq Task
  BY <1>1 DEF ToSet
<1>10. R \in SUBSET Priority /\ R # {} /\ second_best(s) = Max(R)
  BY <1>9, SchedulerAssumption DEF Priority, second_best
<1>11. Max(R) \in Priority /\ \A q \in R : q <= Max(R)
  <2> HIDE DEF R
  <2> QED BY <1>10, GreatestPriority
<1> QED BY <1>8, <1>10, <1>11

\* Somebody waits: the best waiter is popped.
LEMMA CallPops ==
  ASSUME CallInv, NEW t \in Task, NEW m \in Mutex, unlock_pop(t, m)
  PROVE  CallInv'
<1>1. /\ Inv /\ MutexTypes /\ CallersOk /\ LocksOk /\ UnlockersOk /\ OwnersOk /\ WaitersOk
      /\ Null \notin Task /\ Null \notin Mutex /\ Types(state)
  BY CallParts
<1>2. /\ waiters[m] \in Seq(Task) /\ waiters[m] # <<>> /\ IsInjective(waiters[m])
      /\ ToSet(waiters[m]) = Waiters(m) /\ priority \in [Task -> Priority]
  BY <1>1 DEF unlock_pop, NoWaiters, MutexTypes, WaitersOk, Types
<1>3. best(waiters[m]) \in Waiters(m) /\ second_best(waiters[m]) \in Priority
  BY <1>2, BestWaits
<1>4. PICK w \in Task : w = best(waiters[m]) /\ w \in Waiters(m)
  BY <1>3 DEF Waiters
<1> DEFINE l == Unlinked(waiters[m], w)
<1>5. PICK q \in {"restore", "handover"} : pc' = [pc EXCEPT ![t] = q]
  BY DEF unlock_pop
<1>6. /\ lock[m] = Null /\ pc[t] = "idle" /\ t \in Users[m]
      /\ m \in holding[t] /\ state[t] # "BLOCKED"
      /\ current[CoreOf[t]] = t /\ irq[CoreOf[t]] = "none"
      /\ waiters'   = [waiters EXCEPT ![m] = l]
      /\ inherited' = [inherited EXCEPT ![m] = second_best(waiters[m])]
      /\ holding'   = [holding EXCEPT ![t] = @ \ {m}]
      /\ lock'      = [lock EXCEPT ![m] = t]
      /\ target'    = [target EXCEPT ![t] = m]
      /\ next'      = [next EXCEPT ![t] = w]
      /\ UNCHANGED vars /\ UNCHANGED <<state, blocked, current, irq>>
      /\ UNCHANGED <<owner, inheritance>>
  BY <1>4 DEF unlock_pop, Calling, Executing, vars
<1>7. owner[m] = t /\ next[t] = Null /\ target[t] = Null
  BY <1>1, <1>6 DEF OwnersOk, UnlockersOk, CallersOk
<1>8. pc[w] = "waiting" /\ state[w] = "BLOCKED" /\ target[w] = m /\ w # t
        /\ \A u \in Task : next[u] # w
  BY <1>1, <1>4, <1>6 DEF Waiters, InLock, CallersOk, Critical
<1>9. l \in Seq(Task) /\ IsInjective(l) /\ ToSet(l) = Waiters(m) \ {w}
  BY <1>2, <1>4, Unlinks
<1> HIDE DEF l
<1>10. /\ \A u \in Task : pc'[u] = IF u = t THEN q ELSE pc[u]
       /\ \A u \in Task : target'[u] = IF u = t THEN m ELSE target[u]
       /\ \A u \in Task : holding'[u] = IF u = t THEN holding[t] \ {m} ELSE holding[u]
       /\ \A u \in Task : next'[u] = IF u = t THEN w ELSE next[u]
       /\ \A i \in Mutex : lock'[i] = IF i = m THEN t ELSE lock[i]
       /\ \A i \in Mutex : waiters'[i] = IF i = m THEN l ELSE waiters[i]
  BY <1>1, <1>5, <1>6 DEF MutexTypes
<1>11. Inv'
  BY <1>1, <1>6, SchedulerSame
<1>12. MutexTypes'
  <2>1. waiters' \in [Mutex -> Seq(Task)] /\ inherited' \in [Mutex -> Priority]
    BY <1>1, <1>3, <1>6, <1>9 DEF MutexTypes
  <2>2. /\ lock' \in [Mutex -> Task \cup {Null}] /\ holding' \in [Task -> SUBSET Mutex]
        /\ pc' \in [Task -> Critical \cup {"idle", "waiting"}]
        /\ target' \in [Task -> Mutex \cup {Null}] /\ next' \in [Task -> Task \cup {Null}]
    BY <1>1, <1>5, <1>6 DEF MutexTypes, Critical
  <2> QED BY <1>1, <1>6, <2>1, <2>2 DEF MutexTypes
<1>13. ~ InLock(t) /\ \A u \in Task : InLock(u)' <=> InLock(u)
  BY <1>5, <1>6, <1>10 DEF InLock
<1>14. CallersOk'
  <2>1. ASSUME NEW u \in Task, u # t
        PROVE  /\ target'[u] \in IF pc'[u] = "idle" THEN {Null} ELSE Mutex
               /\ pc'[u] # "idle" => u \in Users[target'[u]]
               /\ pc'[u] \in Critical =>
                    lock'[target'[u]] = u /\ current'[CoreOf[u]] = u /\ irq'[CoreOf[u]] = "none"
               /\ pc'[u] \in {"check", "raise"} => state'[u] = "BLOCKED" /\ inheritance'[target'[u]]
               /\ InLock(u)' => target'[u] \notin holding'[u]
               /\ InLock(u)' /\ u \in ToSet(blocked'[CoreOf[u]]) => Timeouts[target'[u]] # {}
    BY <1>1, <1>6, <1>10, <1>13, <2>1 DEF CallersOk, Critical
  <2>2. target'[t] = m /\ pc'[t] = q /\ lock'[m] = t /\ ~ InLock(t)'
    BY <1>10, <1>13
  <2> QED BY <1>5, <1>6, <2>1, <2>2 DEF CallersOk, Critical
<1>15. \A i \in Mutex : lock[i] # Null => lock[i] \in Task /\ lock[i] # t /\ i # m
  <2> SUFFICES ASSUME NEW i \in Mutex, lock[i] # Null
               PROVE  lock[i] \in Task /\ lock[i] # t /\ i # m
    OBVIOUS
  <2>1. lock[i] \in Task /\ pc[lock[i]] \in Critical
    BY <1>1 DEF MutexTypes, LocksOk
  <2> QED BY <1>6, <2>1 DEF Critical
<1>16. LocksOk'
  BY <1>1, <1>5, <1>10, <1>15 DEF LocksOk, Critical
<1>17. UnlockersOk'
  <2>1. \A u \in Task : next[u] # Null => next[u] \in Task /\ next[u] # t
    BY <1>1, <1>6 DEF UnlockersOk, MutexTypes
  <2> QED BY <1>1, <1>5, <1>6, <1>7, <1>8, <1>10, <2>1 DEF UnlockersOk
<1>18. OwnersOk'
  BY <1>1, <1>6, <1>7, <1>10 DEF OwnersOk
<1>19. WaitersOk'
  <2>1. \A i \in Mutex : Waiters(i)' = IF i = m THEN Waiters(i) \ {w} ELSE Waiters(i)
    <3> SUFFICES ASSUME NEW i \in Mutex, NEW v \in Task
                 PROVE  v \in Waiters(i)' <=> v \in Waiters(i) /\ v # w
      BY <1>8 DEF Waiters
    <3>1. CASE v = t
      BY <1>13, <3>1 DEF Waiters
    <3>2. CASE v # t
      <4>1. (\A u \in Task : next'[u] # v) <=> (\A u \in Task : next[u] # v) /\ v # w
        BY <1>1, <1>7, <1>10
      <4> QED BY <1>6, <1>10, <1>13, <3>2, <4>1 DEF Waiters
    <3> QED BY <3>1, <3>2
  <2>2. ASSUME NEW i \in Mutex
        PROVE  /\ IsInjective(waiters'[i]) /\ ToSet(waiters'[i]) = Waiters(i)'
               /\ \A u \in Waiters(i)' : owner'[i] # Null
    <3>1. CASE i = m
      <4>1. waiters'[i] = l /\ Waiters(i)' = Waiters(m) \ {w} /\ owner'[i] = t
        BY <1>6, <1>7, <1>10, <2>1, <3>1
      <4> QED BY <1>1, <1>9, <4>1
    <3>2. CASE i # m
      <4>1. waiters'[i] = waiters[i] /\ Waiters(i)' = Waiters(i) /\ owner'[i] = owner[i]
        BY <1>6, <1>10, <2>1, <3>2
      <4> QED BY <1>1, <4>1 DEF WaitersOk
    <3> QED BY <3>1, <3>2
  <2> QED BY <2>2 DEF WaitersOk
<1> QED BY <1>11, <1>12, <1>14, <1>16, <1>17, <1>18, <1>19 DEF CallInv

\* The unlocker is back at its base priority.
LEMMA CallRestores ==
  ASSUME CallInv, NEW t \in Task, restore_holder(t)
  PROVE  CallInv'
<1>1. /\ Inv /\ MutexTypes /\ CallersOk /\ LocksOk /\ UnlockersOk /\ OwnersOk /\ WaitersOk
      /\ Null \notin Task /\ Null \notin Mutex
  BY CallParts
<1>2. PICK m \in Mutex : m = target[t] /\ lock[m] = t
  BY <1>1 DEF restore_holder, CallersOk, Critical
<1>3. /\ pc[t] = "restore"
      /\ scheduler_change_task_priority(t, BasePriority[t])
      /\ UNCHANGED <<state, blocked, current, irq>>
      /\ UNCHANGED <<owner, waiters, inherited, inheritance, holding, next>>
  BY DEF restore_holder, scheduler_change_task_priority
<1>4. Inv'
  <2>1. BasePriority[t] \in Priority
    BY SchedulerAssumption
  <2> QED BY <1>1, <1>3, <2>1, PriorityInv
<1>5. PICK q \in BOOLEAN :
        /\ q <=> next[t] = Null
        /\ lock'   = [lock EXCEPT ![m] = IF q THEN Null ELSE t]
        /\ pc'     = [pc EXCEPT ![t] = IF q THEN "idle" ELSE "handover"]
        /\ target' = [target EXCEPT ![t] = IF q THEN Null ELSE m]
  <2>1. CASE next[t] = Null
    BY <1>2, <2>1 DEF restore_holder, Leave
  <2>2. CASE next[t] # Null
    <3>1. pc' = [pc EXCEPT ![t] = "handover"] /\ UNCHANGED <<lock, target>>
      BY <2>2 DEF restore_holder
    <3> QED BY <1>1, <1>2, <2>2, <3>1 DEF MutexTypes
  <2> QED BY <2>1, <2>2
<1>6. /\ \A u \in Task : pc'[u] = IF u = t THEN (IF q THEN "idle" ELSE "handover") ELSE pc[u]
      /\ \A u \in Task : target'[u] = IF u = t /\ q THEN Null ELSE target[u]
      /\ \A i \in Mutex : lock'[i] = IF i = m /\ q THEN Null ELSE lock[i]
  BY <1>1, <1>2, <1>5 DEF MutexTypes
<1>7. MutexTypes'
  BY <1>1, <1>3, <1>5 DEF MutexTypes, Critical
<1>8. ~ InLock(t) /\ \A u \in Task : InLock(u)' <=> InLock(u)
  BY <1>3, <1>6 DEF InLock
<1>9. CallersOk'
  <2>1. ASSUME NEW u \in Task, u # t
        PROVE  /\ target'[u] \in IF pc'[u] = "idle" THEN {Null} ELSE Mutex
               /\ pc'[u] # "idle" => u \in Users[target'[u]]
               /\ pc'[u] \in Critical =>
                    lock'[target'[u]] = u /\ current'[CoreOf[u]] = u /\ irq'[CoreOf[u]] = "none"
               /\ pc'[u] \in {"check", "raise"} => state'[u] = "BLOCKED" /\ inheritance'[target'[u]]
               /\ InLock(u)' => target'[u] \notin holding'[u]
               /\ InLock(u)' /\ u \in ToSet(blocked'[CoreOf[u]]) => Timeouts[target'[u]] # {}
    <3>1. pc[u] \in Critical => target[u] # m
      BY <1>1, <1>2, <2>1 DEF CallersOk
    <3>2. pc'[u] = pc[u] /\ target'[u] = target[u]
      BY <1>6, <2>1
    <3>3. pc[u] \in Critical => target[u] \in Mutex
      BY <1>1 DEF CallersOk, Critical
    <3>4. pc[u] \in Critical => lock'[target[u]] = lock[target[u]]
      BY <1>6, <3>1, <3>3
    <3> QED BY <1>1, <1>3, <1>8, <3>2, <3>4 DEF CallersOk
  <2>2. /\ target'[t] = (IF q THEN Null ELSE m) /\ pc'[t] = (IF q THEN "idle" ELSE "handover")
        /\ ~ q => lock'[m] = t
        /\ ~ InLock(t)' /\ t \in Users[m] /\ current'[CoreOf[t]] = t /\ irq'[CoreOf[t]] = "none"
    BY <1>1, <1>2, <1>3, <1>6, <1>8 DEF CallersOk, Critical
  <2> QED BY <2>1, <2>2 DEF CallersOk, Critical
<1>10. LocksOk'
  BY <1>1, <1>2, <1>3, <1>6 DEF LocksOk, Critical, MutexTypes
<1>11. UnlockersOk'
  <2>1. \A u \in Task : next[u] # Null => next[u] \in Task /\ next[u] # t
    BY <1>1, <1>3 DEF UnlockersOk, MutexTypes
  <2> QED BY <1>1, <1>2, <1>3, <1>5, <1>6, <2>1 DEF UnlockersOk
<1>12. OwnersOk'
  BY <1>1, <1>2, <1>3, <1>5, <1>6 DEF OwnersOk
<1>13. WaitersOk'
  <2>1. \A i \in Mutex : Waiters(i)' = Waiters(i)
    BY <1>3, <1>6, <1>8 DEF Waiters
  <2> QED BY <1>1, <1>3, <2>1 DEF WaitersOk
<1> QED BY <1>4, <1>7, <1>9, <1>10, <1>11, <1>12, <1>13 DEF CallInv

\* What handover makes of the priority and the lists of the new owner.
LEMMA HandoverFacts ==
  ASSUME CallInv, NEW t \in Task, handover(t)
  PROVE  \E m \in Mutex, w \in Task, p \in Priority :
           /\ m = target[t] /\ w = next[t] /\ lock[m] = t /\ owner[m] = t /\ t # w
           /\ pc[t] = "handover" /\ pc[w] = "waiting" /\ target[w] = m /\ state[w] = "BLOCKED"
           /\ p >= priority[w] /\ (inheritance[m] => p >= inherited[m])
           /\ ~ inheritance[m] => p = priority[w]
           /\ priority' = [priority EXCEPT ![w] = p]
           /\ ready' = AddToReady(ready, w, p)
<1>1. /\ MutexTypes /\ CallersOk /\ UnlockersOk /\ Null \notin Task /\ Types(state)
  BY CallParts
<1>2. pc[t] = "handover" /\ next[t] # Null
  BY <1>1 DEF handover, UnlockersOk
<1>3. PICK m \in Mutex, w \in Task : m = target[t] /\ w = next[t]
  BY <1>1, <1>2 DEF CallersOk, MutexTypes
<1>4. /\ lock[m] = t /\ owner[m] = t /\ t # w
      /\ pc[w] = "waiting" /\ target[w] = m /\ state[w] = "BLOCKED"
  BY <1>1, <1>2, <1>3 DEF CallersOk, UnlockersOk, Critical
<1> DEFINE p == IF inheritance[m] /\ inherited[m] > priority[w] THEN inherited[m] ELSE priority[w]
<1>5. priority[w] \in Priority /\ inherited[m] \in Priority
  BY <1>1 DEF Types, MutexTypes
<1>6. p \in Priority /\ p >= priority[w] /\ (inheritance[m] => p >= inherited[m])
        /\ (~ inheritance[m] => p = priority[w])
  BY <1>5 DEF Priority
<1>7. /\ priority' = [priority EXCEPT ![w] = p]
      /\ ready' = AddToReady(IF p # priority[w] THEN ReadyAtPriority(ready, w, p) ELSE ready, w, p)
  BY <1>3 DEF handover
<1>8. ReadyAtPriority(ready, w, p) = ready
  BY <1>4 DEF ReadyAtPriority
<1> HIDE DEF p
<1>9. ready' = AddToReady(ready, w, p)
  BY <1>7, <1>8
<1> QED BY <1>2, <1>3, <1>4, <1>6, <1>7, <1>9

\* The new owner is made ready.
LEMMA CallHands ==
  ASSUME CallInv, NEW t \in Task, handover(t)
  PROVE  CallInv'
<1>1. /\ Inv /\ MutexTypes /\ CallersOk /\ LocksOk /\ UnlockersOk /\ OwnersOk /\ WaitersOk
      /\ Null \notin Task /\ Null \notin Mutex /\ Types(state) /\ CoreOf \in [Task -> Core]
  BY CallParts
<1>2. PICK m \in Mutex, w \in Task, p \in Priority :
           /\ m = target[t] /\ w = next[t] /\ lock[m] = t /\ owner[m] = t /\ t # w
           /\ pc[t] = "handover" /\ pc[w] = "waiting" /\ target[w] = m /\ state[w] = "BLOCKED"
           /\ priority' = [priority EXCEPT ![w] = p]
           /\ ready' = AddToReady(ready, w, p)
  BY HandoverFacts
<1>3. /\ owner'     = [owner EXCEPT ![m] = w]
      /\ blocked'   = RemoveFromBlocked(blocked, w)
      /\ state'     = [state EXCEPT ![w] = "READY"]
      /\ remaining' = [remaining EXCEPT ![w] = 0]
      /\ next'      = [next EXCEPT ![t] = Null]
      /\ target'    = [target EXCEPT ![t] = Null]
      /\ lock'      = [lock EXCEPT ![m] = Null]
      /\ pc'        = [pc EXCEPT ![t] = "idle"]
      /\ UNCHANGED <<current, irq, waiters, inherited, inheritance, holding>>
  BY <1>2 DEF handover, Leave
<1>4. InvOf(state)' /\ \A c \in Core : ToSet(blocked'[c]) \subseteq ToSet(blocked[c])
  BY <1>1, <1>2, <1>3, ReadyAtInv DEF Inv
<1>5. MutexTypes'
  BY <1>1, <1>3 DEF MutexTypes
<1>6. /\ \A u \in Task : pc'[u] = IF u = t THEN "idle" ELSE pc[u]
      /\ \A u \in Task : target'[u] = IF u = t THEN Null ELSE target[u]
      /\ \A u \in Task : next'[u] = IF u = t THEN Null ELSE next[u]
      /\ \A u \in Task : state'[u] = IF u = w THEN "READY" ELSE state[u]
      /\ \A i \in Mutex : lock'[i] = IF i = m THEN Null ELSE lock[i]
      /\ \A i \in Mutex : owner'[i] = IF i = m THEN w ELSE owner[i]
  BY <1>1, <1>2, <1>3 DEF MutexTypes, Types
<1>7. ~ InLock(t) /\ \A u \in Task : InLock(u)' <=> InLock(u)
  BY <1>2, <1>6 DEF InLock
<1>8. \A u \in Task : u # t /\ pc[u] \in Critical => target[u] # m
  BY <1>1, <1>2 DEF CallersOk
<1>9. CallersOk'
  <2>1. ASSUME NEW u \in Task, u # t
        PROVE  /\ target'[u] \in IF pc'[u] = "idle" THEN {Null} ELSE Mutex
               /\ pc'[u] # "idle" => u \in Users[target'[u]]
               /\ pc'[u] \in Critical =>
                    lock'[target'[u]] = u /\ current'[CoreOf[u]] = u /\ irq'[CoreOf[u]] = "none"
               /\ pc'[u] \in {"check", "raise"} => state'[u] = "BLOCKED" /\ inheritance'[target'[u]]
               /\ InLock(u)' => target'[u] \notin holding'[u]
               /\ InLock(u)' /\ u \in ToSet(blocked'[CoreOf[u]]) => Timeouts[target'[u]] # {}
    <3>1. CoreOf[u] \in Core /\ (pc[u] \in {"check", "raise"} => u # w)
      BY <1>1, <1>2
    <3>2. pc'[u] = pc[u] /\ target'[u] = target[u]
      BY <1>6, <2>1
    <3>3. pc[u] \in Critical => target[u] \in Mutex /\ target[u] # m
      BY <1>1, <1>8, <2>1 DEF CallersOk, Critical
    <3>4. pc[u] \in Critical => lock'[target[u]] = lock[target[u]]
      BY <1>6, <3>3
    <3>5. pc[u] \in {"check", "raise"} => state'[u] = state[u]
      BY <1>6, <3>1
    <3>6. u \in ToSet(blocked'[CoreOf[u]]) => u \in ToSet(blocked[CoreOf[u]])
      BY <1>4, <3>1
    <3> QED BY <1>1, <1>3, <1>7, <3>2, <3>4, <3>5, <3>6 DEF CallersOk
  <2>2. target'[t] = Null /\ pc'[t] = "idle" /\ ~ InLock(t)'
    BY <1>6, <1>7
  <2> QED BY <2>1, <2>2 DEF CallersOk, Critical
<1>10. LocksOk'
  BY <1>1, <1>2, <1>6 DEF LocksOk, MutexTypes
<1>11. UnlockersOk'
  <2>1. \A u \in Task : next[u] # Null /\ u # t =>
          next[u] \in Task /\ next[u] # t /\ next[u] # w /\ target[u] # m
    BY <1>1, <1>2, <1>8 DEF UnlockersOk, MutexTypes, Critical
  <2>2. \A u \in Task : pc[u] = "restore" => u # t /\ target[u] # m /\ target[u] \in Mutex
    BY <1>1, <1>2, <1>8 DEF CallersOk, Critical
  <2>3. \A u \in Task : next[u] # Null => target[u] \in Mutex
    BY <1>1 DEF UnlockersOk, CallersOk
  <2> QED BY <1>1, <1>2, <1>6, <2>1, <2>2, <2>3 DEF UnlockersOk
<1>12. OwnersOk'
  <2>1. w \in Users[m]
    BY <1>1, <1>2 DEF CallersOk
  <2>2. \A u \in Task : m \notin holding[u]
    BY <1>1, <1>2 DEF OwnersOk
  <2>3. ASSUME NEW i \in Mutex, NEW u \in Task
        PROVE  /\ i \in holding'[u] => owner'[i] = u /\ lock'[i] # u
               /\ owner'[i] = u =>
                    /\ u \in Users[i]
                    /\ \/ lock'[i] = u /\ next'[u] # Null
                       \/ lock'[i] # u /\ i \in holding'[u]
                       \/ lock'[i] # u /\ pc'[u] = "waiting" /\ target'[u] = i
                            /\ state'[u] # "BLOCKED"
    <3>1. CASE i = m
      <4>1. owner'[i] = w /\ lock'[i] = Null /\ i \notin holding'[u]
        BY <1>3, <1>6, <2>2, <3>1
      <4>2. pc'[w] = "waiting" /\ target'[w] = i /\ state'[w] # "BLOCKED"
        BY <1>2, <1>6, <3>1
      <4> QED BY <1>1, <2>1, <3>1, <4>1, <4>2
    <3>2. CASE i # m
      <4>1. owner'[i] = owner[i] /\ lock'[i] = lock[i] /\ holding'[u] = holding[u]
        BY <1>3, <1>6, <3>2
      <4>2. lock[i] # t
        BY <1>1, <1>2, <3>2 DEF LocksOk
      <4>3. CASE u = t
        BY <1>1, <1>2, <3>2, <4>1, <4>2, <4>3 DEF OwnersOk
      <4>4. CASE u # t
        <5>1. pc'[u] = pc[u] /\ target'[u] = target[u] /\ next'[u] = next[u]
          BY <1>6, <4>4
        <5>2. state[u] # "BLOCKED" => state'[u] # "BLOCKED"
          BY <1>6
        <5> QED BY <1>1, <4>1, <5>1, <5>2 DEF OwnersOk
      <4> QED BY <4>3, <4>4
    <3> QED BY <3>1, <3>2
  <2> QED BY <2>3 DEF OwnersOk
<1>13. WaitersOk'
  <2>1. \A i \in Mutex : Waiters(i)' = Waiters(i)
    <3> SUFFICES ASSUME NEW i \in Mutex, NEW v \in Task
                 PROVE  v \in Waiters(i)' <=> v \in Waiters(i)
      BY DEF Waiters
    <3>1. CASE v = w
      <4>1. v \notin Waiters(i)
        BY <1>2, <3>1 DEF Waiters
      <4>2. v \notin Waiters(i)'
        BY <1>6, <3>1 DEF Waiters
      <4> QED BY <4>1, <4>2
    <3>2. CASE v = t
      BY <1>7, <3>2 DEF Waiters
    <3>3. CASE v # w /\ v # t
      <4>1. (\A u \in Task : next'[u] # v) <=> (\A u \in Task : next[u] # v)
        BY <1>1, <1>2, <1>6, <3>3
      <4> QED BY <1>6, <1>7, <3>3, <4>1 DEF Waiters
    <3> QED BY <3>1, <3>2, <3>3
  <2> QED BY <1>1, <1>3, <1>6, <2>1 DEF WaitersOk
<1> QED BY <1>4, <1>5, <1>9, <1>10, <1>11, <1>12, <1>13 DEF CallInv, Inv

-------------------------------------------------------------------------------
\* The scheduler's own steps

\* A step that wakes or puts to sleep nobody who is in a call, and takes no core
\* away from a call that has masked its interrupts.
LEMMA CallStands ==
  ASSUME CallInv, Inv',
         UNCHANGED <<owner, waiters, inherited, inheritance, lock, holding, pc, target, next>>,
         \A u \in Task : pc[u] # "idle" =>
           /\ state'[u] = "BLOCKED" <=> state[u] = "BLOCKED"
           /\ u \in ToSet(blocked'[CoreOf[u]]) => u \in ToSet(blocked[CoreOf[u]]),
         \A u \in Task : pc[u] \in Critical =>
           current'[CoreOf[u]] = u /\ irq'[CoreOf[u]] = "none"
  PROVE  CallInv'
<1>1. /\ MutexTypes /\ CallersOk /\ LocksOk /\ UnlockersOk /\ OwnersOk /\ WaitersOk
      /\ Null \notin Task
  BY CallParts
<1>2. MutexTypes' /\ LocksOk'
  BY <1>1 DEF MutexTypes, LocksOk
<1>3. \A u \in Task : (InLock(u)' <=> InLock(u)) /\ (InLock(u) => pc[u] # "idle")
  BY DEF InLock
<1>4. CallersOk'
  BY <1>1, <1>3 DEF CallersOk
<1>5. UnlockersOk'
  <2>1. \A u \in Task : next[u] # Null => next[u] \in Task /\ pc[next[u]] # "idle"
    BY <1>1 DEF UnlockersOk, MutexTypes
  <2> QED BY <1>1, <2>1 DEF UnlockersOk
<1>6. OwnersOk'
  BY <1>1 DEF OwnersOk
<1>7. WaitersOk'
  <2>1. \A i \in Mutex : Waiters(i)' = Waiters(i)
    BY <1>3 DEF Waiters
  <2> QED BY <1>1, <2>1 DEF WaitersOk
<1> QED BY <1>2, <1>4, <1>5, <1>6, <1>7 DEF CallInv

\* scheduler_start and scheduler_switch_context.
LEMMA CallSwitches ==
  ASSUME CallInv, NEW c \in Core, scheduler_start(c) \/ scheduler_switch_context(c),
         UNCHANGED mutexVars
  PROVE  CallInv'
<1>1. Inv /\ CallersOk /\ Null \notin Task /\ CoreOf \in [Task -> Core] /\ Types(state)
  BY CallParts
<1>2. Linked(ready, On(state)) /\ state \in [Task -> TaskState]
  BY <1>1, InvParts DEF Inv, Types
<1>3. /\ Dispatch(c) /\ UNCHANGED <<blocked, priority, remaining>>
      /\ irq' \in [Core -> IrqStage] /\ \A d \in Core : irq'[d] = "switch" => irq[d] = "switch"
      /\ \A d \in Core : d # c => irq'[d] = irq[d]
      /\ current[c] = Null \/ irq[c] # "none"
  <2>1. irq \in [Core -> IrqStage]
    BY <1>1 DEF Types
  <2>2. CASE scheduler_start(c)
    BY <2>1, <2>2 DEF scheduler_start
  <2>3. CASE scheduler_switch_context(c)
    BY <2>1, <2>3 DEF scheduler_switch_context, IrqStage
  <2> QED BY <2>2, <2>3
<1>4. Inv'
  BY <1>1, <1>3, SwitchInv
<1>5. PICK n \in Task \cup {Null} :
        /\ Chosen(state, c, n)
        /\ current' = [current EXCEPT ![c] = n]
        /\ state' = Switched(state, c, n)
  BY <1>1, <1>2, <1>3, DispatchFacts
<1>6. n \in Task => state[n] \in {"READY", "RUNNING"}
  <2>1. \A t \in Task : On(state)[t] \in Priority <=> state[t] \in {"READY", "RUNNING"}
    BY <1>1, OnFacts
  <2> QED BY <1>1, <1>5, <2>1 DEF Chosen
<1>7. \A u \in Task : state'[u] = "BLOCKED" <=> state[u] = "BLOCKED"
  BY <1>5, <1>6 DEF Switched
<1>8. \A u \in Task : pc[u] \in Critical => current'[CoreOf[u]] = u /\ irq'[CoreOf[u]] = "none"
  <2>1. \A u \in Task : pc[u] \in Critical =>
          current[CoreOf[u]] = u /\ irq[CoreOf[u]] = "none" /\ CoreOf[u] # c /\ CoreOf[u] \in Core
    BY <1>1, <1>3 DEF CallersOk
  <2>2. current \in [Core -> Task \cup {Null}]
    BY <1>1 DEF Types
  <2> QED BY <1>3, <1>5, <2>1, <2>2
<1> QED BY <1>3, <1>4, <1>7, <1>8, CallStands DEF mutexVars

\* The tick up to the loop, which a masked interrupt delays, and the end of its
\* handler.
LEMMA CallTicks ==
  ASSUME CallInv, NEW c \in Core, (~ Masked(c) /\ Tick(c)) \/ TickDone(c), UNCHANGED mutexVars
  PROVE  CallInv'
<1>1. Inv /\ CallersOk /\ Null \notin Task /\ CoreOf \in [Task -> Core] /\ Types(state)
  BY CallParts
<1>2. Inv'
  <2>1. CASE Tick(c)
    BY <1>1, <2>1, TickInv DEF Tick, Inv
  <2>2. CASE TickDone(c)
    BY <1>1, <2>2, TickDoneInv DEF TickDone, Inv
  <2> QED BY <2>1, <2>2
<1>3. /\ UNCHANGED <<blocked, state, current>>
      /\ \A d \in Core : d # c => irq'[d] = irq[d]
      /\ ~ Masked(c) \/ irq[c] # "none"
  BY <1>1 DEF Tick, TickDone, Types
<1>4. \A u \in Task : pc[u] \in Critical =>
        current[CoreOf[u]] = u /\ irq[CoreOf[u]] = "none" /\ CoreOf[u] # c /\ CoreOf[u] \in Core
  BY <1>1, <1>3 DEF CallersOk, Masked
<1> QED BY <1>2, <1>3, <1>4, CallStands DEF mutexVars

\* task_create.
LEMMA CallCreates ==
  ASSUME CallInv, NEW t \in Task, task_create(t), UNCHANGED mutexVars
  PROVE  CallInv'
<1>1. Inv /\ CallersOk /\ Types(state)
  BY CallParts
<1>2. /\ state[t] = "NONE" /\ state' = [state EXCEPT ![t] = "READY"]
      /\ UNCHANGED <<blocked, current, irq>>
  BY DEF task_create
<1>3. Inv'
  BY <1>1, <1>2, CreateInv DEF Inv
<1>4. \A u \in Task : state'[u] = "BLOCKED" <=> state[u] = "BLOCKED"
  BY <1>1, <1>2 DEF Types
<1> QED BY <1>1, <1>2, <1>3, <1>4, CallStands DEF mutexVars, CallersOk

\* task_delay_ms and task_delay_until_ms.
LEMMA CallDelays ==
  ASSUME CallInv, NEW t \in Task, pc[t] = "idle", NEW r \in Delays[t], block_until(t, r),
         UNCHANGED mutexVars
  PROVE  CallInv'
<1>1. Inv /\ CallersOk /\ Types(state) /\ CoreOf \in [Task -> Core]
  BY CallParts
<1>2. /\ state[t] # "BLOCKED" /\ irq[CoreOf[t]] = "none"
      /\ state' = [state EXCEPT ![t] = "BLOCKED"] /\ UNCHANGED <<current, irq>>
      /\ GoesToSleep(state, state', t, r)
  BY DEF block_until, Executing, Sleep, GoesToSleep
<1>3. r \in Int
  BY SchedulerAssumption
<1>4. InvOf(state)' /\ ToSet(blocked'[CoreOf[t]]) = ToSet(blocked[CoreOf[t]]) \cup {t}
  BY <1>1, <1>2, <1>3, SleepInv DEF Inv
<1>5. \A c \in Core : c # CoreOf[t] => blocked'[c] = blocked[c]
  BY <1>1, <1>2 DEF GoesToSleep, AddToBlocked, Types
<1>6. \A u \in Task : pc[u] # "idle" =>
        /\ state'[u] = "BLOCKED" <=> state[u] = "BLOCKED"
        /\ u \in ToSet(blocked'[CoreOf[u]]) => u \in ToSet(blocked[CoreOf[u]])
  BY <1>1, <1>2, <1>4, <1>5 DEF Types
<1> QED BY <1>1, <1>2, <1>4, <1>6, CallStands DEF mutexVars, CallersOk, Inv

\* The task that the tick handler wakes was in no call, or sleeps in mutex_lock
\* with a timeout and has not been popped.
LEMMA TimedOutWaits ==
  ASSUME OneCoreTimeouts, CallInv, NEW c \in Core, NEW w \in Task, TickWake(c),
         w = blocked[c][1], pc[w] # "idle"
  PROVE  pc[w] = "waiting" /\ target[w] \in Mutex /\ w \in Waiters(target[w])
<1>1. /\ Inv /\ MutexTypes /\ CallersOk /\ UnlockersOk
      /\ Null \notin Task /\ CoreOf \in [Task -> Core]
  BY CallParts
<1>2. irq[c] = "tick" /\ CoreOf[w] = c /\ w \in ToSet(blocked[c]) /\ state[w] = "BLOCKED"
  BY <1>1, TickWakeHead DEF TickWake, Inv
<1>3. pc[w] = "waiting"
  BY <1>1, <1>2 DEF CallersOk, MutexTypes
<1>4. target[w] \in Mutex /\ w \in Users[target[w]] /\ Timeouts[target[w]] # {}
  BY <1>1, <1>2, <1>3 DEF CallersOk, InLock
<1>5. ASSUME NEW u \in Task, next[u] = w PROVE FALSE
  <2>1. pc[u] \in Critical /\ target[u] = target[w] /\ pc[u] # "idle"
    BY <1>1, <1>5 DEF UnlockersOk, Critical
  <2>2. u \in Users[target[w]] /\ irq[CoreOf[u]] = "none"
    BY <1>1, <2>1 DEF CallersOk
  <2>3. CoreOf[u] = c
    BY <1>2, <1>4, <2>2 DEF OneCoreTimeouts
  <2> QED BY <1>2, <2>2, <2>3
<1> QED BY <1>2, <1>3, <1>4, <1>5 DEF Waiters, InLock

\* The tick handler wakes a sleeper: one that is in no call, ...
LEMMA CallWakesSleeper ==
  ASSUME CallInv, NEW c \in Core, NEW w \in Task, TickWake(c), w = blocked[c][1],
         pc[w] = "idle", TimeoutUnlink(w),
         UNCHANGED <<owner, inherited, inheritance, lock, holding, pc, target, next>>
  PROVE  CallInv'
<1>1. /\ Inv /\ MutexTypes /\ CallersOk /\ WaitersOk /\ Types(state) /\ CoreOf \in [Task -> Core]
  BY CallParts
<1>2. /\ state' = [state EXCEPT ![w] = "READY"] /\ UNCHANGED <<current, irq>>
  BY DEF TickWake
<1>3. /\ ToSet(blocked'[c]) = ToSet(blocked[c]) \ {w}
      /\ \A d \in Core : d # c => blocked'[d] = blocked[d]
  BY <1>1, TickWakeHead DEF Inv
<1>4. Inv'
  BY <1>1, <1>2, TickWakeInv DEF Inv
<1>5. \A m \in Mutex : w \notin ToSet(waiters[m])
  BY <1>1 DEF WaitersOk, Waiters, InLock
<1>6. waiters' = waiters
  BY <1>1, <1>5 DEF TimeoutUnlink, MutexTypes
<1>7. \A u \in Task : pc[u] # "idle" =>
        /\ state'[u] = "BLOCKED" <=> state[u] = "BLOCKED"
        /\ u \in ToSet(blocked'[CoreOf[u]]) => u \in ToSet(blocked[CoreOf[u]])
  BY <1>1, <1>2, <1>3 DEF Types
<1> QED BY <1>1, <1>2, <1>4, <1>6, <1>7, CallStands DEF CallersOk

\* ... or one whose timeout has passed.
LEMMA CallTimesOut ==
  ASSUME OneCoreTimeouts, CallInv, NEW c \in Core, NEW w \in Task, TickWake(c),
         w = blocked[c][1], pc[w] # "idle", TimeoutUnlink(w),
         UNCHANGED <<owner, inherited, inheritance, lock, holding, pc, target, next>>
  PROVE  CallInv'
<1>1. /\ Inv /\ MutexTypes /\ CallersOk /\ LocksOk /\ UnlockersOk /\ OwnersOk /\ WaitersOk
      /\ Types(state) /\ CoreOf \in [Task -> Core] /\ Null \notin Task
  BY CallParts
<1>2. /\ state' = [state EXCEPT ![w] = "READY"] /\ UNCHANGED <<current, irq>>
  BY DEF TickWake
<1>3. /\ ToSet(blocked'[c]) = ToSet(blocked[c]) \ {w}
      /\ \A d \in Core : d # c => blocked'[d] = blocked[d]
  BY <1>1, TickWakeHead DEF Inv
<1>4. Inv'
  BY <1>1, <1>2, TickWakeInv DEF Inv
<1>5. PICK m \in Mutex : m = target[w] /\ pc[w] = "waiting" /\ w \in Waiters(m)
  BY TimedOutWaits
<1> DEFINE l == Unlinked(waiters[m], w)
<1>6. waiters[m] \in Seq(Task) /\ IsInjective(waiters[m]) /\ ToSet(waiters[m]) = Waiters(m)
  BY <1>1 DEF MutexTypes, WaitersOk
<1>7. l \in Seq(Task) /\ IsInjective(l) /\ ToSet(l) = Waiters(m) \ {w}
  BY <1>5, <1>6, Unlinks
<1>8. \A i \in Mutex : i # m => w \notin ToSet(waiters[i])
  BY <1>1, <1>5 DEF WaitersOk, Waiters
<1>9. \A i \in Mutex : waiters'[i] = IF i = m THEN l ELSE waiters[i]
  BY <1>5, <1>6, <1>8 DEF TimeoutUnlink
<1> HIDE DEF l
<1>10. MutexTypes'
  <2>1. waiters' \in [Mutex -> Seq(Task)]
    <3>1. \A i \in Mutex : waiters'[i] \in Seq(Task)
      BY <1>1, <1>7, <1>9 DEF MutexTypes
    <3>2. waiters' = [i \in Mutex |-> waiters'[i]]
      BY DEF TimeoutUnlink
    <3> QED BY <3>1, <3>2
  <2> QED BY <1>1, <2>1 DEF MutexTypes
<1>11. \A u \in Task : state'[u] = IF u = w THEN "READY" ELSE state[u]
  BY <1>1, <1>2 DEF Types
<1>12. \A u \in Task : u \in ToSet(blocked'[CoreOf[u]]) => u \in ToSet(blocked[CoreOf[u]])
  BY <1>1, <1>3
<1>13. CallersOk'
  BY <1>1, <1>2, <1>5, <1>11, <1>12 DEF CallersOk, InLock
<1>14. LocksOk' /\ OwnersOk'
  BY <1>1, <1>11 DEF LocksOk, OwnersOk
<1>15. UnlockersOk'
  <2>1. \A u \in Task : next[u] # Null => next[u] \in Task /\ next[u] # w
    BY <1>1, <1>5 DEF Waiters, MutexTypes
  <2> QED BY <1>1, <1>11, <2>1 DEF UnlockersOk
<1>16. WaitersOk'
  <2>1. \A i \in Mutex : Waiters(i)' = IF i = m THEN Waiters(m) \ {w} ELSE Waiters(i)
    BY <1>5, <1>11 DEF Waiters, InLock
  <2>2. ASSUME NEW i \in Mutex
        PROVE  /\ IsInjective(waiters'[i]) /\ ToSet(waiters'[i]) = Waiters(i)'
               /\ \A u \in Waiters(i)' : owner'[i] # Null
    <3>1. CASE i = m
      <4>1. waiters'[i] = l /\ Waiters(i)' = Waiters(m) \ {w}
        BY <1>9, <2>1, <3>1
      <4> QED BY <1>1, <1>7, <3>1, <4>1 DEF WaitersOk
    <3>2. CASE i # m
      <4>1. waiters'[i] = waiters[i] /\ Waiters(i)' = Waiters(i)
        BY <1>9, <2>1, <3>2
      <4> QED BY <1>1, <4>1 DEF WaitersOk
    <3> QED BY <3>1, <3>2
  <2> QED BY <2>2 DEF WaitersOk
<1> QED BY <1>4, <1>10, <1>13, <1>14, <1>15, <1>16 DEF CallInv

-------------------------------------------------------------------------------
\* Where every call stands.

\* Every step of every task and core.
LEMMA CallStep ==
  ASSUME OneCoreTimeouts, CallInv, [MutexNext]_allVars
  PROVE  CallInv'
<1>1. ASSUME NEW c \in Core, MutexKernel(c) PROVE CallInv'
  <2>1. CASE (scheduler_start(c) \/ scheduler_switch_context(c)) /\ UNCHANGED mutexVars
    BY <2>1, CallSwitches
  <2>2. CASE ((~ Masked(c) /\ Tick(c)) \/ TickDone(c)) /\ UNCHANGED mutexVars
    BY <2>2, CallTicks
  <2>3. CASE /\ TickWake(c) /\ TimeoutUnlink(blocked[c][1])
             /\ UNCHANGED <<owner, inherited, inheritance, lock, held, holding, pc, target, next>>
    <3>1. PICK w \in Task : w = blocked[c][1]
      BY <2>3, CallParts, TickWakeHead DEF Inv
    <3> QED BY <2>3, <3>1, CallWakesSleeper, CallTimesOut
  <2> QED BY <1>1, <2>1, <2>2, <2>3 DEF MutexKernel
<1>2. ASSUME NEW t \in Task, Call(t) PROVE CallInv'
  BY <1>2, CallTakes, CallWaits, CallFrees, CallPops, CallSets DEF Call
<1>3. ASSUME NEW t \in Task, Continue(t) PROVE CallInv'
  BY <1>3, CallChecks, CallBoosts, CallReturns, CallRestores, CallHands DEF Continue
<1>4. CASE UNCHANGED allVars
  <2>1. UNCHANGED vars /\ UNCHANGED mutexVars
    BY <1>4 DEF allVars
  <2>2. Inv'
    BY <2>1, CallParts, SchedulerSame
  <2> QED BY <2>1, <2>2, CallParts, CallStands DEF vars, mutexVars, CallersOk
<1>5. CASE MutexNext
  BY <1>1, <1>2, <1>3, <1>5, CallCreates, CallDelays DEF MutexNext
<1> QED BY <1>4, <1>5

\* It is an invariant of the specification.
LEMMA CallInvariance ==
  OneCoreTimeouts => (MutexSpec => []CallInv)
<1> SUFFICES ASSUME OneCoreTimeouts PROVE MutexSpec => []CallInv
  OBVIOUS
<1>1. MutexInit => CallInv
  BY CallBegins
<1>2. CallInv /\ [MutexNext]_allVars => CallInv'
  BY CallStep
<1> QED BY <1>1, <1>2, PTL DEF MutexSpec

\* The owner field and what tasks were told agree: no two tasks hold a mutex, and
\* none is handed to a task that then returns E_TIMED_OUT.
THEOREM OwnersAgree ==
  OneCoreTimeouts => (MutexSpec => []OwnershipAgrees)
<1>1. CallInv => OwnershipAgrees
  BY DEF CallInv, OwnersOk, OwnershipAgrees
<1> QED BY <1>1, CallInvariance, PTL

\* Whoever sleeps in mutex_lock is on the list of a locked mutex, or is about to
\* be woken by the unlocker that popped it.
THEOREM WaitersFound ==
  OneCoreTimeouts => (MutexSpec => []NoLostWaiter)
<1>1. CallInv => NoLostWaiter
  <2> SUFFICES ASSUME CallInv, NEW t \in Task, pc[t] = "waiting", state[t] = "BLOCKED"
               PROVE  \/ t \in ToSet(waiters[target[t]]) /\ owner[target[t]] # Null
                      \/ \E u \in Task : pc[u] \in {"restore", "handover"} /\ next[u] = t
    BY DEF NoLostWaiter
  <2>1. CallersOk /\ UnlockersOk /\ WaitersOk /\ Null \notin Task
    BY CallParts
  <2>2. target[t] \in Mutex
    BY <2>1 DEF CallersOk
  <2>3. CASE \E u \in Task : next[u] = t
    BY <2>1, <2>3 DEF UnlockersOk
  <2>4. CASE \A u \in Task : next[u] # t
    <3>1. t \in Waiters(target[t])
      BY <2>4 DEF Waiters, InLock
    <3> QED BY <2>1, <2>2, <3>1 DEF WaitersOk
  <2> QED BY <2>3, <2>4
<1> QED BY <1>1, CallInvariance, PTL

\* The ready lists stay exact under priority inheritance: a boost moves its task
\* from one list to the other, also one of another core.
THEOREM BoostedListsExact ==
  OneCoreTimeouts => (MutexSpec => []ReadyListsExact)
<1>1. CallInv => ReadyListsExact
  <2> SUFFICES ASSUME CallInv PROVE ReadyListsExact
    OBVIOUS
  <2>1. Inv
    BY CallParts
  <2> QED BY <2>1, ReadyOfInv
<1> QED BY <1>1, CallInvariance, PTL

-------------------------------------------------------------------------------
\* mutexes_held, and the end of a boost.

\* The inheritance mutexes that t owns, but for the one it is giving up
Owns(t) == {m \in Mutex : inheritance[m] /\ owner[m] = t /\ lock[m] # t}

\* A boost that is under way does not go below the owner's base priority.
RaisesOk ==
  \A t \in Task : pc[t] = "raise" => inherited[target[t]] >= BasePriority[owner[target[t]]]

HeldOk ==
  /\ held \in [Task -> Nat]
  /\ \A t \in Task : held[t] = Cardinality(Owns(t))
  /\ \A t \in Task : pc[t] = "restore" => held[t] = 0
  /\ \A t \in Task : priority[t] >= BasePriority[t]
  /\ \A t \in Task : held[t] = 0 /\ pc[t] # "restore" => priority[t] = BasePriority[t]
  /\ \A m \in Mutex : inheritance[m] => m \in Inheriting
  /\ RaisesOk

\* What t does with m leaves the other calls and the other mutexes alone.
OnlyHere(t, m) ==
  /\ \A u \in Task : u # t => pc'[u] = pc[u] /\ target'[u] = target[u]
  /\ \A i \in Mutex : i # m =>
       /\ owner'[i] = owner[i] /\ inherited'[i] = inherited[i]
       /\ inheritance'[i] = inheritance[i] /\ lock'[i] = lock[i]

\* What a task owns is finite, so that a count of it is.
LEMMA OwnsFinite ==
  ASSUME NEW t
  PROVE  IsFiniteSet(Owns(t)) /\ Cardinality(Owns(t)) \in Nat
                              /\ (Cardinality(Owns(t)) = 0 => Owns(t) = {})
<1>1. IsFiniteSet(Owns(t))
  BY MutexAssumption, FS_Subset DEF Owns
<1> QED BY <1>1, FS_CardinalityType, FS_EmptySet

\* One mutex more or less.
LEMMA OwnsMore ==
  ASSUME NEW t, NEW m \in Mutex
  PROVE  /\ m \notin Owns(t) => Cardinality(Owns(t) \cup {m}) = Cardinality(Owns(t)) + 1
         /\ m \in Owns(t) => /\ Cardinality(Owns(t) \ {m}) = Cardinality(Owns(t)) - 1
                             /\ Cardinality(Owns(t)) >= 1
<1>1. IsFiniteSet(Owns(t)) /\ Cardinality(Owns(t)) \in Nat
        /\ (Cardinality(Owns(t)) = 0 => Owns(t) = {})
  BY OwnsFinite
<1>2. ASSUME m \notin Owns(t) PROVE Cardinality(Owns(t) \cup {m}) = Cardinality(Owns(t)) + 1
  BY <1>1, <1>2, FS_AddElement
<1>3. ASSUME m \in Owns(t)
      PROVE  Cardinality(Owns(t) \ {m}) = Cardinality(Owns(t)) - 1 /\ Cardinality(Owns(t)) >= 1
  <2>1. Cardinality(Owns(t) \ {m}) = Cardinality(Owns(t)) - 1
    BY <1>1, <1>3, FS_RemoveElement
  <2>2. Owns(t) # {}
    BY <1>3
  <2>3. Cardinality(Owns(t)) # 0
    BY <1>1, <2>2
  <2> QED BY <1>1, <2>1, <2>3
<1> QED BY <1>2, <1>3

\* A call that does not hold the lock of m is about another mutex.
LEMMA OtherCalls ==
  ASSUME CallInv, NEW t \in Task, NEW m \in Mutex, lock[m] \in {Null, t},
         NEW u \in Task, u # t, pc[u] \in Critical
  PROVE  target[u] \in Mutex /\ target[u] # m /\ lock[target[u]] = u
BY CallParts DEF CallersOk, Critical

\* The boosts of the others are none of t's business.
LEMMA RaisesStand ==
  ASSUME CallInv, RaisesOk, NEW t \in Task, NEW m \in Mutex, lock[m] \in {Null, t},
         OnlyHere(t, m), pc'[t] # "raise"
  PROVE  RaisesOk'
<1> SUFFICES ASSUME NEW u \in Task, pc'[u] = "raise"
             PROVE  inherited'[target'[u]] >= BasePriority[owner'[target'[u]]]
  BY DEF RaisesOk
<1>1. u # t /\ pc[u] = "raise" /\ target'[u] = target[u]
  BY DEF OnlyHere
<1>2. target[u] \in Mutex /\ target[u] # m
  BY <1>1, OtherCalls DEF Critical
<1> QED BY <1>1, <1>2 DEF OnlyHere, RaisesOk

\* A step that changes neither what is owned nor a priority, nor starts or ends
\* a restoration.
LEMMA HeldStands ==
  ASSUME HeldOk, \A u \in Task : Owns(u)' = Owns(u), UNCHANGED <<held, priority>>,
         \A u \in Task : pc'[u] = "restore" <=> pc[u] = "restore",
         \A m \in Mutex : inheritance'[m] => m \in Inheriting,
         RaisesOk'
  PROVE  HeldOk'
<1>1. \A t \in Task : held'[t] = Cardinality(Owns(t)')
  BY DEF HeldOk
<1> QED BY <1>1 DEF HeldOk

\* mutex_init.
LEMMA HeldBegins ==
  ASSUME MutexInit PROVE HeldOk
<1>1. /\ priority = BasePriority /\ owner = [m \in Mutex |-> Null]
      /\ inheritance = [m \in Mutex |-> FALSE]
      /\ held = [t \in Task |-> 0] /\ pc = [t \in Task |-> "idle"]
  BY DEF MutexInit, Init
<1>2. \A t \in Task : Cardinality(Owns(t)) = 0
  <2>1. \A t \in Task : Owns(t) = {}
    BY <1>1 DEF Owns
  <2> QED BY <2>1, FS_EmptySet
<1>3. \A t \in Task : BasePriority[t] \in Nat
  BY SchedulerAssumption DEF Priority
<1> QED BY <1>1, <1>2, <1>3 DEF HeldOk, RaisesOk

\* mutex_set_inheritance.
LEMMA HeldSets ==
  ASSUME CallInv, HeldOk, NEW t \in Task, NEW m \in Inheriting, NEW e \in BOOLEAN,
         mutex_set_inheritance(t, m, e)
  PROVE  HeldOk'
<1>1. MutexTypes /\ Null \notin Task /\ m \in Mutex
  BY CallParts, MutexAssumption
<1>2. /\ lock[m] = Null /\ owner[m] = Null
      /\ inheritance' = [inheritance EXCEPT ![m] = e] /\ UNCHANGED <<held, priority>>
      /\ UNCHANGED <<owner, inherited, lock, pc, target>>
  BY DEF mutex_set_inheritance, Calling, MutexIdle, vars
<1>3. \A i \in Mutex : i # m => inheritance'[i] = inheritance[i]
  BY <1>1, <1>2 DEF MutexTypes
<1>4. \A u \in Task : Owns(u)' = Owns(u)
  BY <1>1, <1>2, <1>3 DEF Owns
<1>5. RaisesOk'
  BY <1>2 DEF HeldOk, RaisesOk
<1>6. \A i \in Mutex : inheritance'[i] => i \in Inheriting
  BY <1>3 DEF HeldOk
<1> QED BY <1>2, <1>4, <1>5, <1>6, HeldStands

\* mutex_lock on a free mutex.
LEMMA HeldTakes ==
  ASSUME CallInv, HeldOk, NEW t \in Task, NEW m \in Mutex, lock_free(t, m)
  PROVE  HeldOk'
<1>1. MutexTypes /\ Null \notin Task /\ held \in [Task -> Nat]
        /\ held[t] = Cardinality(Owns(t)) /\ RaisesOk
  BY CallParts DEF HeldOk
<1>2. /\ lock[m] = Null /\ owner[m] = Null /\ pc[t] = "idle"
      /\ owner' = [owner EXCEPT ![m] = t]
      /\ held' = [held EXCEPT ![t] = IF inheritance[m] THEN @ + 1 ELSE @]
      /\ UNCHANGED <<priority, inherited, inheritance, lock, pc, target>>
  BY DEF lock_free, Calling, Unlocked, vars
<1>3. \A i \in Mutex : owner'[i] = IF i = m THEN t ELSE owner[i]
  BY <1>1, <1>2 DEF MutexTypes
<1>4. /\ \A u \in Task : u # t => Owns(u)' = Owns(u)
      /\ Owns(t)' = IF inheritance[m] THEN Owns(t) \cup {m} ELSE Owns(t)
      /\ m \notin Owns(t)
  BY <1>1, <1>2, <1>3 DEF Owns
<1>5. held'[t] = Cardinality(Owns(t)')
  <2>1. held'[t] = IF inheritance[m] THEN held[t] + 1 ELSE held[t]
    BY <1>1, <1>2
  <2> QED BY <1>1, <1>4, <2>1, OwnsMore
<1>6. \A u \in Task : u # t => held'[u] = held[u]
  BY <1>1, <1>2
<1>7. \A u \in Task : held'[u] = Cardinality(Owns(u)')
  BY <1>4, <1>5, <1>6 DEF HeldOk
<1>8. held' \in [Task -> Nat] /\ (held'[t] = 0 => held[t] = 0)
  BY <1>1, <1>2
<1>9. RaisesOk'
  BY <1>1, <1>2, <1>3, RaisesStand DEF OnlyHere
<1> QED BY <1>2, <1>6, <1>7, <1>8, <1>9 DEF HeldOk

\* mutex_lock on a mutex that is not free.
LEMMA HeldWaits ==
  ASSUME CallInv, HeldOk, NEW t \in Task, NEW m \in Mutex, lock_wait(t, m)
  PROVE  HeldOk'
<1>1. MutexTypes /\ OwnersOk /\ Null \notin Task /\ RaisesOk
  BY CallParts DEF HeldOk
<1>2. PICK p \in {"check", "waiting"} :
        /\ pc' = [pc EXCEPT ![t] = p]
        /\ lock' = [lock EXCEPT ![m] = IF p = "check" THEN t ELSE Null]
  BY DEF lock_wait, Leave
<1>3. /\ lock[m] = Null /\ pc[t] = "idle" /\ m \notin holding[t]
      /\ target'  = [target EXCEPT ![t] = m]
      /\ UNCHANGED <<held, priority, owner, inherited, inheritance>>
  BY DEF lock_wait, Calling, SleepForever, Sleep
<1>4. owner[m] # t
  BY <1>1, <1>3 DEF OwnersOk
<1>5. /\ \A u \in Task : pc'[u] = IF u = t THEN p ELSE pc[u]
      /\ \A u \in Task : u # t => target'[u] = target[u]
      /\ \A i \in Mutex : lock'[i] = IF i = m THEN (IF p = "check" THEN t ELSE Null) ELSE lock[i]
  BY <1>1, <1>2, <1>3 DEF MutexTypes
<1>6. \A u \in Task : Owns(u)' = Owns(u)
  BY <1>1, <1>3, <1>4, <1>5 DEF Owns
<1>7. RaisesOk'
  BY <1>1, <1>3, <1>5, RaisesStand DEF OnlyHere
<1> QED BY <1>3, <1>5, <1>6, <1>7, HeldStands DEF HeldOk

\* The boost that the check decides on is to more than the owner has.
LEMMA HeldChecks ==
  ASSUME CallInv, HeldOk, NEW t \in Task, inherit_check(t)
  PROVE  HeldOk'
<1>1. MutexTypes /\ Null \notin Task /\ RaisesOk /\ pc[t] = "check" /\ Types(state)
  BY CallParts DEF HeldOk, inherit_check
<1>2. PICK m \in Mutex : m = target[t]
  BY <1>1, HasOwner
<1>3. lock[m] = t /\ owner[m] \in Task /\ owner[m] # t
  BY <1>1, <1>2, HasOwner
<1>4. /\ inherited' = [inherited EXCEPT ![m] = Inherits(t, m)]
      /\ UNCHANGED <<owner, inheritance, target, held, priority>>
      /\ \/ pc' = [pc EXCEPT ![t] = "raise"] /\ lock' = lock /\ priority[owner[m]] < Inherits(t, m)
         \/ pc' = [pc EXCEPT ![t] = "waiting"] /\ lock' = [lock EXCEPT ![m] = Null]
  BY <1>2 DEF inherit_check, Leave, vars
<1>5. Inherits(t, m) \in Priority
  BY InheritsHigher
<1>6. /\ \A i \in Mutex : inherited'[i] = IF i = m THEN Inherits(t, m) ELSE inherited[i]
      /\ \A u \in Task : u # t => pc'[u] = pc[u]
      /\ pc'[t] \in {"raise", "waiting"}
      /\ \A i \in Mutex : i # m => lock'[i] = lock[i]
      /\ lock'[m] \in {t, Null}
  BY <1>1, <1>3, <1>4 DEF MutexTypes
<1>7. \A u \in Task : Owns(u)' = Owns(u)
  BY <1>1, <1>3, <1>4, <1>6 DEF Owns
<1>8. RaisesOk'
  <2> SUFFICES ASSUME NEW u \in Task, pc'[u] = "raise"
               PROVE  inherited'[target'[u]] >= BasePriority[owner'[target'[u]]]
    BY DEF RaisesOk
  <2>1. CASE u = t
    <3>1. priority[owner[m]] < Inherits(t, m)
      BY <1>1, <1>4, <2>1 DEF MutexTypes
    <3>2. inherited'[target'[u]] = Inherits(t, m) /\ owner'[target'[u]] = owner[m]
      BY <1>2, <1>4, <1>6, <2>1
    <3>3. priority[owner[m]] >= BasePriority[owner[m]]
      BY <1>3 DEF HeldOk
    <3>4. priority[owner[m]] \in Nat /\ BasePriority[owner[m]] \in Nat /\ Inherits(t, m) \in Nat
      BY <1>1, <1>3, <1>5, SchedulerAssumption DEF Types, Priority
    <3> QED BY <3>1, <3>2, <3>3, <3>4
  <2>2. CASE u # t
    <3>1. pc[u] = "raise" /\ target'[u] = target[u]
      BY <1>4, <1>6, <2>2
    <3>2. target[u] \in Mutex /\ target[u] # m
      BY <1>3, <2>2, <3>1, OtherCalls DEF Critical
    <3> QED BY <1>1, <1>4, <1>6, <3>1, <3>2 DEF RaisesOk
  <2> QED BY <2>1, <2>2
<1> QED BY <1>1, <1>4, <1>6, <1>7, <1>8, HeldStands DEF HeldOk

\* The owner that is boosted owns an inheritance mutex.
LEMMA HeldBoosts ==
  ASSUME CallInv, HeldOk, NEW t \in Task, boost_owner(t)
  PROVE  HeldOk'
<1>1. MutexTypes /\ Null \notin Task /\ RaisesOk /\ pc[t] = "raise" /\ Types(state)
  BY CallParts DEF HeldOk, boost_owner
<1>2. PICK m \in Mutex : m = target[t]
  BY <1>1, HasOwner
<1>3. PICK o \in Task : o = owner[m] /\ lock[m] = t /\ o # t /\ inheritance[m]
  BY <1>1, <1>2, HasOwner
<1>4. /\ priority' = [priority EXCEPT ![o] = inherited[m]]
      /\ pc' = [pc EXCEPT ![t] = "waiting"] /\ lock' = [lock EXCEPT ![m] = Null]
      /\ UNCHANGED <<owner, inherited, inheritance, held, target>>
  BY <1>2, <1>3 DEF boost_owner, Leave, scheduler_change_task_priority
<1>5. /\ \A u \in Task : pc'[u] = IF u = t THEN "waiting" ELSE pc[u]
      /\ \A u \in Task : priority'[u] = IF u = o THEN inherited[m] ELSE priority[u]
      /\ \A i \in Mutex : lock'[i] = IF i = m THEN Null ELSE lock[i]
  BY <1>1, <1>4 DEF MutexTypes, Types
<1>6. \A u \in Task : Owns(u)' = Owns(u)
  BY <1>1, <1>3, <1>4, <1>5 DEF Owns
<1>7. RaisesOk'
  BY <1>1, <1>3, <1>4, <1>5, RaisesStand DEF OnlyHere
<1>8. held[o] # 0
  <2>1. m \in Owns(o)
    BY <1>3 DEF Owns
  <2>2. Owns(o) # {}
    BY <2>1
  <2> QED BY <2>2, OwnsFinite DEF HeldOk
<1>9. inherited[m] >= BasePriority[o]
  BY <1>1, <1>2, <1>3 DEF RaisesOk
<1>10. \A u \in Task : held'[u] = Cardinality(Owns(u)')
  BY <1>4, <1>6 DEF HeldOk
<1> QED BY <1>1, <1>4, <1>5, <1>7, <1>8, <1>9, <1>10 DEF HeldOk

\* The end of mutex_lock.
LEMMA HeldReturns ==
  ASSUME CallInv, HeldOk, NEW t \in Task, lock_result(t)
  PROVE  HeldOk'
<1>1. MutexTypes /\ RaisesOk /\ CallersOk
  BY CallParts DEF HeldOk
<1>2. PICK m \in Mutex : m = target[t]
  BY <1>1 DEF lock_result, CallersOk
<1>3. /\ pc[t] = "waiting" /\ lock[m] = Null
      /\ pc' = [pc EXCEPT ![t] = "idle"] /\ target' = [target EXCEPT ![t] = Null]
      /\ UNCHANGED <<priority, owner, inherited, inheritance, lock, held>>
  BY <1>2 DEF lock_result, vars
<1>4. \A u \in Task : pc'[u] = (IF u = t THEN "idle" ELSE pc[u]) /\ (u # t => target'[u] = target[u])
  BY <1>1, <1>3 DEF MutexTypes
<1>5. RaisesOk'
  BY <1>1, <1>3, <1>4, RaisesStand DEF OnlyHere
<1>6. \A u \in Task : Owns(u)' = Owns(u)
  BY <1>3 DEF Owns
<1> QED BY <1>3, <1>4, <1>5, <1>6, HeldStands DEF HeldOk

\* A holder gives m up, as unlock_idle and unlock_pop do.
LEMMA HeldReleases ==
  ASSUME CallInv, HeldOk, NEW t \in Task, NEW m \in Mutex, m \in holding[t], lock[m] = Null,
         pc[t] = "idle", owner'[m] = Null \/ (owner'[m] = t /\ lock'[m] = t),
         lock'[m] \in {Null, t}, inheritance' = inheritance,
         held' = [held EXCEPT ![t] = IF inheritance[m] THEN @ - 1 ELSE @],
         pc' \in [Task -> Critical \cup {"idle", "waiting"}],
         pc'[t] = "restore" <=> MustRestore(t, m), pc'[t] # "raise",
         priority' = priority, OnlyHere(t, m)
  PROVE  HeldOk'
<1>1. MutexTypes /\ OwnersOk /\ Null \notin Task /\ held \in [Task -> Nat]
        /\ held[t] = Cardinality(Owns(t)) /\ RaisesOk
  BY CallParts DEF HeldOk
<1>2. owner[m] = t /\ (inheritance[m] <=> m \in Owns(t))
  BY <1>1 DEF OwnersOk, Owns
<1>3. /\ \A u \in Task : u # t => Owns(u)' = Owns(u)
      /\ Owns(t)' = Owns(t) \ {m}
  <2> SUFFICES ASSUME NEW u \in Task, NEW i \in Mutex
               PROVE  i \in Owns(u)' <=> i \in Owns(u) /\ (u = t => i # m)
    BY DEF Owns
  <2>1. CASE i = m
    BY <1>1, <1>2, <2>1 DEF Owns
  <2>2. CASE i # m
    BY <2>2 DEF Owns, OnlyHere
  <2> QED BY <2>1, <2>2
<1>4. held'[t] = IF inheritance[m] THEN held[t] - 1 ELSE held[t]
  BY <1>1
<1>5. inheritance[m] => /\ Cardinality(Owns(t) \ {m}) = Cardinality(Owns(t)) - 1
                        /\ Cardinality(Owns(t)) >= 1
  BY <1>2, OwnsMore
<1>6. ~ inheritance[m] => Owns(t) \ {m} = Owns(t)
  BY <1>2
<1>7. held'[t] = Cardinality(Owns(t)')
  BY <1>1, <1>3, <1>4, <1>5, <1>6
<1>8. \A u \in Task : u # t => held'[u] = held[u]
  BY <1>1
<1>9. held' \in [Task -> Nat]
  BY <1>1, <1>5
<1>10. \A u \in Task : held'[u] = Cardinality(Owns(u)')
  BY <1>3, <1>7, <1>8 DEF HeldOk
<1>11. RaisesOk'
  BY <1>1, RaisesStand
<1>12. pc'[t] = "restore" => held'[t] = 0
  BY <1>1, <1>4 DEF MustRestore
<1>13. held'[t] = 0 /\ pc'[t] # "restore" => priority[t] = BasePriority[t]
  <2>1. CASE inheritance[m]
    BY <1>1, <1>4, <2>1 DEF MustRestore
  <2>2. CASE ~ inheritance[m]
    BY <1>4, <2>2 DEF HeldOk
  <2> QED BY <2>1, <2>2
<1>14. \A u \in Task : u # t => pc'[u] = pc[u]
  BY DEF OnlyHere
<1> QED BY <1>8, <1>9, <1>10, <1>11, <1>12, <1>13, <1>14 DEF HeldOk

\* mutex_unlock when nobody waits.
LEMMA HeldFrees ==
  ASSUME CallInv, HeldOk, NEW t \in Task, NEW m \in Mutex, unlock_idle(t, m)
  PROVE  HeldOk'
<1>1. MutexTypes /\ Null \notin Task
  BY CallParts
<1>2. /\ m \in holding[t] /\ lock[m] = Null /\ pc[t] = "idle"
      /\ owner'     = [owner EXCEPT ![m] = Null]
      /\ inherited' = [inherited EXCEPT ![m] = 0]
      /\ held' = [held EXCEPT ![t] = IF inheritance[m] THEN @ - 1 ELSE @]
      /\ UNCHANGED <<inheritance, priority>>
  BY DEF unlock_idle, Calling, vars
<1>3. /\ pc'[t] = "restore" <=> MustRestore(t, m)
      /\ pc'[t] # "raise" /\ lock'[m] \in {Null, t} /\ owner'[m] = Null
      /\ pc' \in [Task -> Critical \cup {"idle", "waiting"}]
      /\ OnlyHere(t, m)
  <2>1. /\ owner'[m] = Null
        /\ \A i \in Mutex : i # m => owner'[i] = owner[i] /\ inherited'[i] = inherited[i]
                                       /\ inheritance'[i] = inheritance[i]
    BY <1>1, <1>2 DEF MutexTypes
  <2>2. CASE MustRestore(t, m)
    <3>1. /\ lock' = [lock EXCEPT ![m] = t] /\ pc' = [pc EXCEPT ![t] = "restore"]
          /\ target' = [target EXCEPT ![t] = m]
      BY <2>2 DEF unlock_idle
    <3> QED BY <1>1, <2>1, <2>2, <3>1 DEF MutexTypes, OnlyHere, Critical
  <2>3. CASE ~ MustRestore(t, m)
    <3>1. UNCHANGED <<lock, pc, target>>
      BY <2>3 DEF unlock_idle
    <3> QED BY <1>1, <1>2, <2>1, <2>3, <3>1 DEF MutexTypes, OnlyHere
  <2> QED BY <2>2, <2>3
<1>4. /\ m \in holding[t] /\ lock[m] = Null /\ pc[t] = "idle"
      /\ held' = [held EXCEPT ![t] = IF inheritance[m] THEN @ - 1 ELSE @]
      /\ inheritance' = inheritance /\ priority' = priority
  BY <1>2
<1>5. owner'[m] = Null \/ (owner'[m] = t /\ lock'[m] = t)
  BY <1>3
<1> QED BY <1>3, <1>4, <1>5, HeldReleases

\* mutex_unlock when somebody waits.
LEMMA HeldPops ==
  ASSUME CallInv, HeldOk, NEW t \in Task, NEW m \in Mutex, unlock_pop(t, m)
  PROVE  HeldOk'
<1>1. MutexTypes /\ OwnersOk /\ Null \notin Task
  BY CallParts
<1>2. /\ m \in holding[t] /\ lock[m] = Null /\ pc[t] = "idle"
      /\ inherited' = [inherited EXCEPT ![m] = second_best(waiters[m])]
      /\ held' = [held EXCEPT ![t] = IF inheritance[m] THEN @ - 1 ELSE @]
      /\ lock' = [lock EXCEPT ![m] = t]
      /\ pc'   = [pc EXCEPT ![t] = IF MustRestore(t, m) THEN "restore" ELSE "handover"]
      /\ target' = [target EXCEPT ![t] = m]
      /\ UNCHANGED <<owner, inheritance, priority>>
  BY DEF unlock_pop, Calling, vars
<1>3. owner[m] = t /\ lock'[m] = t
  BY <1>1, <1>2 DEF OwnersOk, MutexTypes
<1>4. /\ pc'[t] = "restore" <=> MustRestore(t, m)
      /\ pc'[t] # "raise"
      /\ pc' \in [Task -> Critical \cup {"idle", "waiting"}]
  BY <1>1, <1>2 DEF MutexTypes, Critical
<1>5. OnlyHere(t, m)
  BY <1>1, <1>2 DEF OnlyHere, MutexTypes
<1> QED BY <1>2, <1>3, <1>4, <1>5, HeldReleases

\* The priority is restored.
LEMMA HeldRestores ==
  ASSUME CallInv, HeldOk, NEW t \in Task, restore_holder(t)
  PROVE  HeldOk'
<1>1. MutexTypes /\ CallersOk /\ UnlockersOk /\ Null \notin Task /\ RaisesOk /\ Types(state)
  BY CallParts DEF HeldOk
<1>2. PICK m \in Mutex : m = target[t] /\ lock[m] = t
  BY <1>1 DEF restore_holder, CallersOk, Critical
<1>3. /\ pc[t] = "restore" /\ priority' = [priority EXCEPT ![t] = BasePriority[t]]
      /\ UNCHANGED <<owner, inherited, inheritance, held>>
  BY DEF restore_holder, scheduler_change_task_priority
<1>4. /\ pc'[t] \in {"idle", "handover"} /\ \A u \in Task : u # t => pc'[u] = pc[u]
      /\ \A u \in Task : u # t => target'[u] = target[u]
      /\ \A i \in Mutex : i # m => lock'[i] = lock[i]
      /\ lock'[m] = t \/ owner[m] = Null
  <2>1. CASE next[t] = Null
    BY <1>1, <1>2, <1>3, <2>1 DEF restore_holder, Leave, MutexTypes, UnlockersOk
  <2>2. CASE next[t] # Null
    BY <1>1, <1>2, <2>2 DEF restore_holder, MutexTypes
  <2> QED BY <2>1, <2>2
<1>5. \A u \in Task : Owns(u)' = Owns(u)
  <2> SUFFICES ASSUME NEW u \in Task, NEW i \in Mutex PROVE i \in Owns(u)' <=> i \in Owns(u)
    BY DEF Owns
  <2>1. CASE i = m
    BY <1>1, <1>2, <1>3, <1>4, <2>1 DEF Owns
  <2>2. CASE i # m
    BY <1>3, <1>4, <2>2 DEF Owns
  <2> QED BY <2>1, <2>2
<1>6. RaisesOk'
  BY <1>1, <1>2, <1>3, <1>4, RaisesStand DEF OnlyHere
<1>7. \A u \in Task : priority'[u] = IF u = t THEN BasePriority[t] ELSE priority[u]
  BY <1>1, <1>3 DEF Types
<1>8. BasePriority[t] \in Nat
  BY SchedulerAssumption DEF Priority
<1>9. \A u \in Task : held'[u] = Cardinality(Owns(u)')
  BY <1>3, <1>5 DEF HeldOk
<1> QED BY <1>3, <1>4, <1>6, <1>7, <1>8, <1>9 DEF HeldOk

\* The new owner has one mutex more, and is boosted only with that.
LEMMA HeldHands ==
  ASSUME CallInv, HeldOk, NEW t \in Task, handover(t)
  PROVE  HeldOk'
<1>1. MutexTypes /\ Null \notin Task /\ RaisesOk /\ Types(state) /\ held \in [Task -> Nat]
  BY CallParts DEF HeldOk
<1>2. PICK m \in Mutex, w \in Task, p \in Priority :
           /\ m = target[t] /\ w = next[t] /\ lock[m] = t /\ owner[m] = t /\ t # w
           /\ pc[t] = "handover" /\ pc[w] = "waiting"
           /\ p >= priority[w] /\ (~ inheritance[m] => p = priority[w])
           /\ priority' = [priority EXCEPT ![w] = p]
  BY HandoverFacts
<1>3. /\ owner'  = [owner EXCEPT ![m] = w] /\ lock' = [lock EXCEPT ![m] = Null]
      /\ held'   = [held EXCEPT ![w] = IF inheritance[m] THEN @ + 1 ELSE @]
      /\ target' = [target EXCEPT ![t] = Null] /\ pc' = [pc EXCEPT ![t] = "idle"]
      /\ UNCHANGED <<inherited, inheritance>>
  BY <1>2 DEF handover, Leave
<1>4. /\ \A u \in Task : pc'[u] = IF u = t THEN "idle" ELSE pc[u]
      /\ \A u \in Task : u # t => target'[u] = target[u]
      /\ \A i \in Mutex : lock'[i] = IF i = m THEN Null ELSE lock[i]
      /\ \A i \in Mutex : owner'[i] = IF i = m THEN w ELSE owner[i]
      /\ \A u \in Task : priority'[u] = IF u = w THEN p ELSE priority[u]
  BY <1>1, <1>2, <1>3 DEF MutexTypes, Types
<1>5. RaisesOk'
  BY <1>1, <1>2, <1>3, <1>4, RaisesStand DEF OnlyHere
<1>6. /\ m \notin Owns(w)
      /\ \A u \in Task : u # w => Owns(u)' = Owns(u)
      /\ Owns(w)' = IF inheritance[m] THEN Owns(w) \cup {m} ELSE Owns(w)
  <2>1. m \notin Owns(w)
    BY <1>2 DEF Owns
  <2>2. ASSUME NEW u \in Task, NEW i \in Mutex
        PROVE  i \in Owns(u)' <=> i \in Owns(u) \/ (u = w /\ i = m /\ inheritance[m])
    <3>1. CASE i = m
      BY <1>1, <1>2, <1>3, <1>4, <3>1 DEF Owns
    <3>2. CASE i # m
      BY <1>3, <1>4, <3>2 DEF Owns
    <3> QED BY <3>1, <3>2
  <2> QED BY <2>1, <2>2 DEF Owns
<1>7. held'[w] = Cardinality(Owns(w)')
  <2>1. held'[w] = (IF inheritance[m] THEN held[w] + 1 ELSE held[w])
          /\ held[w] = Cardinality(Owns(w))
    BY <1>1, <1>3 DEF HeldOk
  <2> QED BY <1>6, <2>1, OwnsMore
<1>8. \A u \in Task : u # w => held'[u] = held[u]
  BY <1>1, <1>3
<1>9. \A u \in Task : held'[u] = Cardinality(Owns(u)')
  BY <1>6, <1>7, <1>8 DEF HeldOk
<1>10. held' \in [Task -> Nat] /\ (held'[w] = 0 => held[w] = 0 /\ ~ inheritance[m])
  BY <1>1, <1>3
<1>11. p >= BasePriority[w]
  <2>1. priority[w] >= BasePriority[w] /\ priority[w] \in Nat /\ p \in Nat /\ BasePriority[w] \in Nat
    BY <1>1, SchedulerAssumption DEF HeldOk, Types, Priority
  <2> QED BY <1>2, <2>1
<1>12. \A u \in Task : priority'[u] >= BasePriority[u]
  BY <1>4, <1>11 DEF HeldOk
<1>13. \A u \in Task : held'[u] = 0 /\ pc'[u] # "restore" => priority'[u] = BasePriority[u]
  <2>1. held'[w] = 0 => priority'[w] = BasePriority[w]
    BY <1>2, <1>4, <1>10 DEF HeldOk
  <2> QED BY <1>2, <1>4, <1>8, <2>1 DEF HeldOk
<1>14. \A u \in Task : pc'[u] = "restore" => held'[u] = 0
  BY <1>2, <1>4, <1>8 DEF HeldOk
<1> QED BY <1>3, <1>5, <1>9, <1>10, <1>12, <1>13, <1>14 DEF HeldOk

\* Every step of every task and core.
LEMMA HeldStep ==
  ASSUME CallInv, HeldOk, [MutexNext]_allVars
  PROVE  HeldOk'
<1>1. ASSUME UNCHANGED <<priority, owner, inherited, inheritance, lock, held, pc, target>>
      PROVE  HeldOk'
  BY <1>1 DEF HeldOk, RaisesOk, Owns
<1>2. ASSUME NEW c \in Core, MutexKernel(c) PROVE HeldOk'
  <2>1. priority' = priority
    BY <1>2 DEF MutexKernel, scheduler_start, scheduler_switch_context, Tick, TickDone, TickWake
  <2> QED BY <1>1, <1>2, <2>1 DEF MutexKernel, mutexVars
<1>3. ASSUME NEW t \in Task,
             task_create(t) \/ \E r \in Delays[t] : block_until(t, r), UNCHANGED mutexVars
      PROVE  HeldOk'
  BY <1>1, <1>3 DEF task_create, block_until, Sleep, mutexVars
<1>4. ASSUME NEW t \in Task, Call(t) PROVE HeldOk'
  BY <1>4, HeldTakes, HeldWaits, HeldFrees, HeldPops, HeldSets DEF Call
<1>5. ASSUME NEW t \in Task, Continue(t) PROVE HeldOk'
  BY <1>5, HeldChecks, HeldBoosts, HeldReturns, HeldRestores, HeldHands DEF Continue
<1>6. CASE UNCHANGED allVars
  BY <1>1, <1>6 DEF allVars, vars, mutexVars
<1>7. CASE MutexNext
  BY <1>2, <1>3, <1>4, <1>5, <1>7 DEF MutexNext
<1> QED BY <1>6, <1>7

\* It is an invariant of the specification.
LEMMA HeldInvariance ==
  OneCoreTimeouts => (MutexSpec => [](CallInv /\ HeldOk))
<1> SUFFICES ASSUME OneCoreTimeouts PROVE MutexSpec => [](CallInv /\ HeldOk)
  OBVIOUS
<1>1. MutexInit => HeldOk
  BY HeldBegins
<1>2. CallInv /\ HeldOk /\ [MutexNext]_allVars => HeldOk'
  BY HeldStep
<1>3. MutexSpec => []CallInv
  BY CallInvariance
<1> QED BY <1>1, <1>2, <1>3, PTL DEF MutexSpec

\* Every variable of mutex.c keeps its type; in particular mutexes_held, an
\* unsigned number, is never decremented below zero.
THEOREM MutexTypeCorrect ==
  OneCoreTimeouts => (MutexSpec => []MutexTypeOK)
<1>1. CallInv /\ HeldOk => MutexTypeOK
  <2> SUFFICES ASSUME CallInv, HeldOk PROVE MutexTypeOK
    OBVIOUS
  <2>1. Inv /\ MutexTypes
    BY CallParts
  <2>2. TypeOK
    BY <2>1 DEF Inv, InvOf, Types, Linked, ListType, TypeOK
  <2> QED BY <2>1, <2>2 DEF MutexTypeOK, MutexTypes, HeldOk
<1> QED BY <1>1, HeldInvariance, PTL

\* mutexes_held counts the inheritance mutexes that a task owns.
THEOREM HeldIsCounted ==
  OneCoreTimeouts => (MutexSpec => []HeldCounts)
<1>1. CallInv /\ HeldOk => HeldCounts
  BY DEF HeldOk, HeldCounts, Owns
<1> QED BY <1>1, HeldInvariance, PTL

\* A boost does not outlive the mutexes it was for.
THEOREM BoostsEnd ==
  OneCoreTimeouts => (MutexSpec => []BoostEnds)
<1>1. CallInv /\ HeldOk => BoostEnds
  BY DEF HeldOk, BoostEnds
<1> QED BY <1>1, HeldInvariance, PTL

-------------------------------------------------------------------------------
\* A boost is enough.

\* The owner that t is about to boost is still below the priority it boosts to.
NeededAt(t) == pc[t] = "raise" => priority[owner[target[t]]] < inherited[target[t]]

\* The owner has what m hands on, or is about to get it.
EnoughAt(m) ==
  inheritance[m] /\ owner[m] # Null /\ lock[m] # owner[m] =>
    \/ lock[m] # Null /\ pc[lock[m]] = "raise"
    \/ priority[owner[m]] >= inherited[m]

\* m hands on the base priorities of its waiters, but for one that is not counted yet.
KnownAt(m) ==
  inheritance[m] => \A w \in Waiters(m) : pc[w] # "check" => inherited[m] >= BasePriority[w]

\* A free mutex hands on nothing.
FreshAt(m) == owner[m] = Null => inherited[m] = 0

BoostOk ==
  /\ \A t \in Task : NeededAt(t)
  /\ \A m \in Mutex : EnoughAt(m) /\ KnownAt(m) /\ FreshAt(m)

\* What t does with m lowers no owner of another inheritance mutex, and leaves
\* those that others are about to boost where they are.
PrioritiesKept(t, m) ==
  /\ \A i \in Mutex : i # m /\ inheritance[i] /\ owner[i] # Null /\ lock[i] # owner[i] =>
       priority'[owner[i]] >= priority[owner[i]]
  /\ \A u \in Task : u # t /\ pc[u] = "raise" =>
       priority'[owner[target[u]]] = priority[owner[target[u]]]

\* A step that changes no priority.
LEMMA SamePriorities ==
  ASSUME CallInv, NEW t \in Task, NEW m \in Mutex, priority' = priority
  PROVE  PrioritiesKept(t, m)
<1>1. MutexTypes /\ priority \in [Task -> Priority]
  BY CallParts DEF Types
<1>2. \A i \in Mutex : owner[i] # Null => priority[owner[i]] \in Nat
  BY <1>1 DEF MutexTypes, Priority
<1> QED BY <1>2 DEF PrioritiesKept

\* Two calls that can boost a common owner are on one core, so that only one of
\* them has masked its interrupts.
LEMMA BoostersApart ==
  ASSUME OneCoreBoosts, CallInv, HeldOk, NEW t \in Task, NEW u \in Task, NEW o \in Task,
         pc[t] \in Critical, pc[u] \in Critical, target[t] # target[u],
         inheritance[target[t]], inheritance[target[u]],
         o \in Users[target[t]], o \in Users[target[u]], t # o, u # o
  PROVE  t = u
<1>1. CallersOk
  BY CallParts
<1>2. /\ target[t] \in Mutex /\ target[u] \in Mutex
      /\ t \in Users[target[t]] /\ u \in Users[target[u]]
      /\ current[CoreOf[t]] = t /\ current[CoreOf[u]] = u
  BY <1>1 DEF CallersOk, Critical
<1>3. target[t] \in Inheriting /\ target[u] \in Inheriting
  BY <1>2 DEF HeldOk
<1>4. CoreOf[t] = CoreOf[u]
  BY <1>2, <1>3 DEF OneCoreBoosts
<1> QED BY <1>2, <1>4

\* What has to be shown of a step that t takes with m.
LEMMA BoostMoves ==
  ASSUME CallInv, CallInv', BoostOk, NEW t \in Task, NEW m \in Mutex, lock[m] \in {Null, t},
         target[t] \in {Null, m}, OnlyHere(t, m), PrioritiesKept(t, m),
         \A i \in Mutex : i # m => waiters'[i] = waiters[i],
         NeededAt(t)', EnoughAt(m)', KnownAt(m)', FreshAt(m)'
  PROVE  BoostOk'
<1>1. /\ MutexTypes /\ LocksOk /\ WaitersOk /\ Types(state) /\ Null \notin Task /\ Null \notin Mutex
  BY CallParts
<1>2. WaitersOk' /\ Types(state)'
  BY DEF CallInv, Inv, InvOf
<1>3. ASSUME NEW u \in Task, u # t PROVE NeededAt(u)'
  <2> SUFFICES ASSUME pc'[u] = "raise"
               PROVE  priority'[owner'[target'[u]]] < inherited'[target'[u]]
    BY DEF NeededAt
  <2>1. pc[u] = "raise" /\ target'[u] = target[u]
    BY <1>3 DEF OnlyHere
  <2>2. target[u] \in Mutex /\ target[u] # m
    BY <1>3, <2>1, OtherCalls DEF Critical
  <2>3. owner'[target[u]] = owner[target[u]] /\ inherited'[target[u]] = inherited[target[u]]
    BY <2>2 DEF OnlyHere
  <2>4. priority'[owner[target[u]]] = priority[owner[target[u]]]
    BY <1>3, <2>1 DEF PrioritiesKept
  <2>5. priority[owner[target[u]]] < inherited[target[u]]
    BY <2>1 DEF BoostOk, NeededAt
  <2> QED BY <2>1, <2>3, <2>4, <2>5
<1>4. ASSUME NEW i \in Mutex, i # m PROVE EnoughAt(i)' /\ KnownAt(i)' /\ FreshAt(i)'
  <2>1. /\ owner'[i] = owner[i] /\ inherited'[i] = inherited[i]
        /\ inheritance'[i] = inheritance[i] /\ lock'[i] = lock[i]
    BY <1>4 DEF OnlyHere
  <2>2. EnoughAt(i) /\ KnownAt(i) /\ FreshAt(i)
    BY DEF BoostOk
  <2>3. lock[i] # t
    BY <1>1, <1>4 DEF LocksOk
  <2>4. EnoughAt(i)'
    <3> SUFFICES ASSUME inheritance[i], owner[i] # Null, lock[i] # owner[i]
                 PROVE  \/ lock'[i] # Null /\ pc'[lock'[i]] = "raise"
                        \/ priority'[owner'[i]] >= inherited'[i]
      BY <2>1 DEF EnoughAt
    <3>1. CASE lock[i] # Null /\ pc[lock[i]] = "raise"
      <4>1. lock[i] \in Task
        BY <1>1, <3>1 DEF MutexTypes
      <4>2. pc'[lock[i]] = pc[lock[i]]
        BY <2>3, <4>1 DEF OnlyHere
      <4> QED BY <2>1, <3>1, <4>2
    <3>2. CASE priority[owner[i]] >= inherited[i]
      <4>1. owner[i] \in Task /\ inherited[i] \in Nat
        BY <1>1 DEF MutexTypes, Priority
      <4>2. priority[owner[i]] \in Nat /\ priority'[owner[i]] \in Nat
        BY <1>1, <1>2, <4>1 DEF Types, Priority
      <4>3. priority'[owner[i]] >= priority[owner[i]]
        BY <1>4 DEF PrioritiesKept
      <4> QED BY <2>1, <3>2, <4>1, <4>2, <4>3
    <3> QED BY <2>2, <3>1, <3>2 DEF EnoughAt
  <2>5. KnownAt(i)'
    <3>1. Waiters(i)' = Waiters(i)
      BY <1>1, <1>2, <1>4 DEF WaitersOk
    <3>2. t \notin Waiters(i)
      BY <1>1, <1>4 DEF Waiters
    <3>3. \A w \in Waiters(i) : pc'[w] = pc[w]
      BY <3>2 DEF Waiters, OnlyHere
    <3> QED BY <2>1, <2>2, <3>1, <3>3 DEF KnownAt
  <2> QED BY <2>1, <2>2, <2>4, <2>5 DEF FreshAt
<1> QED BY <1>3, <1>4 DEF BoostOk

\* mutex_init.
LEMMA BoostBegins ==
  ASSUME MutexInit PROVE BoostOk
BY DEF MutexInit, BoostOk, NeededAt, EnoughAt, KnownAt, FreshAt

\* Nobody waits for a free mutex.
LEMMA FreeUnknown ==
  ASSUME CallInv, NEW m \in Mutex, owner[m] = Null
  PROVE  Waiters(m) = {}
BY CallParts DEF WaitersOk

\* mutex_set_inheritance.
LEMMA BoostSets ==
  ASSUME CallInv, CallInv', BoostOk, NEW t \in Task, NEW m \in Mutex, NEW e \in BOOLEAN,
         mutex_set_inheritance(t, m, e)
  PROVE  BoostOk'
<1>1. MutexTypes /\ CallersOk
  BY CallParts
<1>2. /\ lock[m] = Null /\ owner[m] = Null /\ pc[t] = "idle"
      /\ inheritance' = [inheritance EXCEPT ![m] = e]
      /\ UNCHANGED <<priority, owner, waiters, inherited, lock, pc, target>>
  BY DEF mutex_set_inheritance, Calling, MutexIdle, vars
<1>3. OnlyHere(t, m) /\ target[t] = Null
  BY <1>1, <1>2 DEF OnlyHere, MutexTypes, CallersOk
<1>4. PrioritiesKept(t, m)
  BY <1>2, SamePriorities
<1>5. Waiters(m)' = {}
  <2>1. CallInv' /\ owner'[m] = Null
    BY <1>2
  <2>2. WaitersOk'
    BY DEF CallInv
  <2> QED BY <2>1, <2>2 DEF WaitersOk
<1>6. NeededAt(t)' /\ EnoughAt(m)' /\ KnownAt(m)' /\ FreshAt(m)'
  BY <1>2, <1>5 DEF NeededAt, EnoughAt, KnownAt, FreshAt, BoostOk
<1> QED BY <1>2, <1>3, <1>4, <1>6, BoostMoves

\* mutex_lock on a free mutex.
LEMMA BoostTakes ==
  ASSUME CallInv, CallInv', BoostOk, NEW t \in Task, NEW m \in Mutex, lock_free(t, m)
  PROVE  BoostOk'
<1>1. MutexTypes /\ CallersOk /\ WaitersOk /\ Null \notin Task /\ priority \in [Task -> Priority]
  BY CallParts DEF Types
<1>2. /\ lock[m] = Null /\ owner[m] = Null /\ pc[t] = "idle"
      /\ owner' = [owner EXCEPT ![m] = t]
      /\ UNCHANGED <<priority, waiters, inherited, inheritance, lock, pc, target>>
  BY DEF lock_free, Calling, Unlocked, vars
<1>3. OnlyHere(t, m) /\ target[t] = Null /\ owner'[m] = t
  BY <1>1, <1>2 DEF OnlyHere, MutexTypes, CallersOk
<1>4. PrioritiesKept(t, m)
  BY <1>2, SamePriorities
<1>5. Waiters(m)' = {}
  <2>1. Waiters(m) = {}
    BY <1>2, FreeUnknown
  <2>2. WaitersOk'
    BY DEF CallInv
  <2> QED BY <1>1, <1>2, <2>1, <2>2 DEF WaitersOk
<1>6. inherited[m] = 0 /\ priority[t] >= 0
  BY <1>1, <1>2 DEF BoostOk, FreshAt, Priority
<1>7. NeededAt(t)' /\ EnoughAt(m)' /\ KnownAt(m)' /\ FreshAt(m)'
  BY <1>1, <1>2, <1>3, <1>5, <1>6 DEF NeededAt, EnoughAt, KnownAt, FreshAt
<1> QED BY <1>2, <1>3, <1>4, <1>7, BoostMoves

\* mutex_lock on a mutex that is not free.
LEMMA BoostWaits ==
  ASSUME CallInv, CallInv', BoostOk, NEW t \in Task, NEW m \in Mutex, lock_wait(t, m)
  PROVE  BoostOk'
<1>1. MutexTypes /\ CallersOk /\ OwnersOk /\ Null \notin Task /\ Types(state)
  BY CallParts
<1>2. PICK p \in {"check", "waiting"} :
        /\ pc' = [pc EXCEPT ![t] = p]
        /\ lock' = [lock EXCEPT ![m] = IF p = "check" THEN t ELSE Null]
        /\ inheritance[m] => p = "check"
  BY DEF lock_wait, Leave
<1>3. /\ lock[m] = Null /\ owner[m] # Null /\ pc[t] = "idle" /\ m \notin holding[t]
      /\ target'  = [target EXCEPT ![t] = m] /\ state' = [state EXCEPT ![t] = "BLOCKED"]
      /\ waiters' = [waiters EXCEPT ![m] = Append(@, t)]
      /\ UNCHANGED <<priority, owner, inherited, inheritance, next>>
  BY DEF lock_wait, Calling, Unlocked, SleepForever, Sleep
<1>4. /\ \A u \in Task : pc'[u] = IF u = t THEN p ELSE pc[u]
      /\ \A u \in Task : u # t => target'[u] = target[u] /\ state'[u] = state[u]
      /\ \A i \in Mutex : lock'[i] = IF i = m /\ p = "check" THEN t ELSE lock[i]
      /\ \A i \in Mutex : i # m => waiters'[i] = waiters[i]
  BY <1>1, <1>2, <1>3 DEF MutexTypes, Types
<1>5. OnlyHere(t, m) /\ target[t] = Null
  BY <1>1, <1>3, <1>4 DEF OnlyHere, CallersOk
<1>6. PrioritiesKept(t, m)
  BY <1>3, SamePriorities
<1>7. EnoughAt(m)'
  <2>1. inheritance[m] => priority[owner[m]] >= inherited[m]
    BY <1>3 DEF BoostOk, EnoughAt
  <2> QED BY <1>3, <2>1 DEF EnoughAt
<1>8. KnownAt(m)'
  <2> SUFFICES ASSUME inheritance[m], NEW w \in Waiters(m)', pc'[w] # "check"
               PROVE  inherited'[m] >= BasePriority[w]
    BY <1>3 DEF KnownAt
  <2>1. w \in Task /\ w # t
    BY <1>2, <1>4 DEF Waiters
  <2>2. w \in Waiters(m) /\ pc[w] # "check"
    BY <1>3, <1>4, <2>1 DEF Waiters, InLock
  <2> QED BY <1>3, <2>2 DEF BoostOk, KnownAt
<1>9. NeededAt(t)' /\ FreshAt(m)'
  BY <1>3, <1>4 DEF NeededAt, FreshAt
<1> QED BY <1>3, <1>4, <1>5, <1>6, <1>7, <1>8, <1>9, BoostMoves

\* The waiter is counted, and its boost is under way or not needed.
LEMMA BoostChecks ==
  ASSUME CallInv, CallInv', HeldOk, BoostOk, NEW t \in Task, inherit_check(t)
  PROVE  BoostOk'
<1>1. MutexTypes /\ Null \notin Task /\ pc[t] = "check" /\ Types(state) /\ WaitersOk
  BY CallParts DEF inherit_check
<1>2. PICK m \in Mutex : m = target[t]
  BY <1>1, HasOwner
<1>3. lock[m] = t /\ owner[m] \in Task /\ owner[m] # t
  BY <1>1, <1>2, HasOwner
<1>4. /\ inherited' = [inherited EXCEPT ![m] = Inherits(t, m)]
      /\ UNCHANGED <<owner, inheritance, waiters, target, priority>>
      /\ \/ /\ pc' = [pc EXCEPT ![t] = "raise"] /\ lock' = lock
            /\ priority[owner[m]] < Inherits(t, m)
         \/ /\ pc' = [pc EXCEPT ![t] = "waiting"] /\ lock' = [lock EXCEPT ![m] = Null]
            /\ ~ (priority[owner[m]] < Inherits(t, m))
  BY <1>2 DEF inherit_check, Leave, vars
<1>5. /\ Inherits(t, m) \in Nat /\ priority[t] \in Nat /\ inherited[m] \in Nat
      /\ priority[owner[m]] \in Nat
      /\ priority[t] <= Inherits(t, m) /\ inherited[m] <= Inherits(t, m)
  BY <1>1, <1>3, InheritsHigher DEF Types, MutexTypes, Priority
<1>6. /\ inherited'[m] = Inherits(t, m)
      /\ \A i \in Mutex : i # m => inherited'[i] = inherited[i] /\ lock'[i] = lock[i]
      /\ \A u \in Task : u # t => pc'[u] = pc[u]
  BY <1>1, <1>3, <1>4 DEF MutexTypes
<1>7. \/ pc'[t] = "raise" /\ lock'[m] = t /\ priority[owner[m]] < Inherits(t, m)
      \/ pc'[t] = "waiting" /\ lock'[m] = Null /\ priority[owner[m]] >= Inherits(t, m)
  BY <1>1, <1>3, <1>4, <1>5 DEF MutexTypes
<1>8. OnlyHere(t, m)
  BY <1>4, <1>6 DEF OnlyHere
<1>9. PrioritiesKept(t, m)
  BY <1>4, SamePriorities
<1>10. NeededAt(t)' /\ EnoughAt(m)' /\ FreshAt(m)'
  BY <1>1, <1>2, <1>3, <1>4, <1>6, <1>7 DEF NeededAt, EnoughAt, FreshAt
<1>11. KnownAt(m)'
  <2> SUFFICES ASSUME inheritance[m], NEW w \in Waiters(m)'
               PROVE  inherited'[m] >= BasePriority[w]
    BY <1>4 DEF KnownAt
  <2>1. w \in Waiters(m) /\ w \in Task
    <3>1. WaitersOk'
      BY DEF CallInv
    <3> QED BY <1>1, <1>4, <3>1 DEF WaitersOk, Waiters
  <2>2. BasePriority[w] \in Nat
    BY <2>1, SchedulerAssumption DEF Priority
  <2>3. CASE w = t
    <3>1. priority[t] >= BasePriority[t]
      BY DEF HeldOk
    <3> QED BY <1>5, <1>6, <2>2, <2>3, <3>1
  <2>4. CASE w # t
    <3>1. pc[w] # "check"
      BY <1>2, <1>3, <2>1, <2>4, OtherCalls DEF Waiters, Critical
    <3>2. inherited[m] >= BasePriority[w]
      BY <2>1, <3>1 DEF BoostOk, KnownAt
    <3> QED BY <1>5, <1>6, <2>2, <3>2
  <2> QED BY <2>3, <2>4
<1> QED BY <1>2, <1>3, <1>4, <1>8, <1>9, <1>10, <1>11, BoostMoves

\* An owner that one call boosts is above where it was, and no other call is
\* about to boost it.
LEMMA BoostBoosts ==
  ASSUME OneCoreBoosts, CallInv, CallInv', HeldOk, BoostOk, NEW t \in Task, boost_owner(t)
  PROVE  BoostOk'
<1>1. MutexTypes /\ Null \notin Task /\ pc[t] = "raise" /\ Types(state) /\ WaitersOk /\ OwnersOk
  BY CallParts DEF boost_owner
<1>2. PICK m \in Mutex : m = target[t]
  BY <1>1, HasOwner
<1>3. PICK o \in Task : o = owner[m] /\ lock[m] = t /\ o # t /\ inheritance[m]
  BY <1>1, <1>2, HasOwner
<1>4. /\ priority' = [priority EXCEPT ![o] = inherited[m]]
      /\ pc' = [pc EXCEPT ![t] = "waiting"] /\ lock' = [lock EXCEPT ![m] = Null]
      /\ UNCHANGED <<owner, inherited, inheritance, waiters, target>>
  BY <1>2, <1>3 DEF boost_owner, Leave, scheduler_change_task_priority
<1>5. /\ \A u \in Task : pc'[u] = IF u = t THEN "waiting" ELSE pc[u]
      /\ \A u \in Task : priority'[u] = IF u = o THEN inherited[m] ELSE priority[u]
      /\ \A i \in Mutex : lock'[i] = IF i = m THEN Null ELSE lock[i]
  BY <1>1, <1>4 DEF MutexTypes, Types
<1>6. priority[o] < inherited[m] /\ \A u \in Task : priority[u] \in Nat /\ inherited[m] \in Nat
  BY <1>1, <1>2, <1>3 DEF BoostOk, NeededAt, Types, MutexTypes, Priority
<1>7. OnlyHere(t, m)
  BY <1>4, <1>5 DEF OnlyHere
<1>8. PrioritiesKept(t, m)
  <2>1. ASSUME NEW i \in Mutex, owner[i] # Null
        PROVE  priority'[owner[i]] >= priority[owner[i]]
    <3>1. owner[i] \in Task
      BY <1>1, <2>1 DEF MutexTypes
    <3> QED BY <1>5, <1>6, <3>1
  <2>2. ASSUME NEW u \in Task, u # t, pc[u] = "raise"
        PROVE  priority'[owner[target[u]]] = priority[owner[target[u]]]
    <3>1. target[u] \in Mutex /\ target[u] # m /\ inheritance[target[u]]
            /\ owner[target[u]] \in Task /\ owner[target[u]] # u
      BY <1>3, <2>2, HasOwner, OtherCalls DEF Critical
    <3>2. ASSUME owner[target[u]] = o PROVE FALSE
      <4>1. o \in Users[m] /\ o \in Users[target[u]]
        BY <1>1, <1>3, <3>1, <3>2 DEF OwnersOk
      <4>2. pc[t] \in Critical /\ pc[u] \in Critical
        BY <1>1, <2>2 DEF Critical
      <4> QED BY <1>2, <1>3, <2>2, <3>1, <3>2, <4>1, <4>2, BoostersApart
    <3> QED BY <1>5, <3>1, <3>2
  <2> QED BY <2>1, <2>2 DEF PrioritiesKept
<1>9. NeededAt(t)' /\ EnoughAt(m)' /\ FreshAt(m)'
  BY <1>1, <1>3, <1>4, <1>5, <1>6 DEF NeededAt, EnoughAt, FreshAt
<1>10. KnownAt(m)'
  <2>1. Waiters(m)' = Waiters(m)
    <3>1. WaitersOk'
      BY DEF CallInv
    <3> QED BY <1>1, <1>4, <3>1 DEF WaitersOk
  <2>2. \A w \in Waiters(m) : pc[w] = "check" => pc'[w] = "check"
    BY <1>1, <1>5 DEF Waiters
  <2> QED BY <1>4, <2>1, <2>2 DEF KnownAt, BoostOk
<1> QED BY <1>2, <1>3, <1>4, <1>7, <1>8, <1>9, <1>10, BoostMoves

\* The end of mutex_lock.
LEMMA BoostReturns ==
  ASSUME CallInv, CallInv', BoostOk, NEW t \in Task, lock_result(t)
  PROVE  BoostOk'
<1>1. MutexTypes /\ CallersOk /\ WaitersOk
  BY CallParts
<1>2. PICK m \in Mutex : m = target[t]
  BY <1>1 DEF lock_result, CallersOk
<1>3. /\ pc[t] = "waiting" /\ lock[m] = Null
      /\ pc' = [pc EXCEPT ![t] = "idle"] /\ target' = [target EXCEPT ![t] = Null]
      /\ UNCHANGED <<priority, owner, waiters, inherited, inheritance, lock>>
  BY <1>2 DEF lock_result, vars
<1>4. \A u \in Task : pc'[u] = (IF u = t THEN "idle" ELSE pc[u]) /\ (u # t => target'[u] = target[u])
  BY <1>1, <1>3 DEF MutexTypes
<1>5. OnlyHere(t, m)
  BY <1>3, <1>4 DEF OnlyHere
<1>6. PrioritiesKept(t, m)
  BY <1>3, SamePriorities
<1>7. NeededAt(t)' /\ EnoughAt(m)' /\ FreshAt(m)'
  BY <1>3, <1>4 DEF NeededAt, EnoughAt, FreshAt, BoostOk
<1>8. KnownAt(m)'
  <2>1. Waiters(m)' = Waiters(m)
    <3>1. WaitersOk'
      BY DEF CallInv
    <3> QED BY <1>1, <1>3, <3>1 DEF WaitersOk
  <2>2. \A w \in Waiters(m) : pc[w] = "check" => pc'[w] = "check"
    BY <1>3, <1>4 DEF Waiters
  <2> QED BY <1>3, <2>1, <2>2 DEF KnownAt, BoostOk
<1> QED BY <1>2, <1>3, <1>5, <1>6, <1>7, <1>8, BoostMoves

\* mutex_unlock when nobody waits.
LEMMA BoostFrees ==
  ASSUME CallInv, CallInv', BoostOk, NEW t \in Task, NEW m \in Mutex, unlock_idle(t, m)
  PROVE  BoostOk'
<1>1. MutexTypes /\ CallersOk
  BY CallParts
<1>2. /\ lock[m] = Null /\ pc[t] = "idle"
      /\ owner'     = [owner EXCEPT ![m] = Null]
      /\ inherited' = [inherited EXCEPT ![m] = 0]
      /\ UNCHANGED <<inheritance, priority, waiters>>
  BY DEF unlock_idle, Calling, vars
<1>3. /\ owner'[m] = Null /\ inherited'[m] = 0
      /\ \A i \in Mutex : i # m => owner'[i] = owner[i] /\ inherited'[i] = inherited[i]
                                     /\ inheritance'[i] = inheritance[i]
  BY <1>1, <1>2 DEF MutexTypes
<1>4. pc'[t] # "raise" /\ OnlyHere(t, m)
  <2>1. CASE MustRestore(t, m)
    <3>1. /\ lock' = [lock EXCEPT ![m] = t] /\ pc' = [pc EXCEPT ![t] = "restore"]
          /\ target' = [target EXCEPT ![t] = m]
      BY <2>1 DEF unlock_idle
    <3> QED BY <1>1, <1>3, <3>1 DEF MutexTypes, OnlyHere
  <2>2. CASE ~ MustRestore(t, m)
    <3>1. UNCHANGED <<lock, pc, target>>
      BY <2>2 DEF unlock_idle
    <3> QED BY <1>2, <1>3, <3>1 DEF OnlyHere
  <2> QED BY <2>1, <2>2
<1>5. PrioritiesKept(t, m) /\ target[t] = Null
  BY <1>1, <1>2, SamePriorities DEF CallersOk
<1>6. Waiters(m)' = {}
  <2>1. WaitersOk'
    BY DEF CallInv
  <2> QED BY <1>3, <2>1 DEF WaitersOk
<1>7. NeededAt(t)' /\ EnoughAt(m)' /\ KnownAt(m)' /\ FreshAt(m)'
  BY <1>3, <1>4, <1>6 DEF NeededAt, EnoughAt, KnownAt, FreshAt
<1> QED BY <1>2, <1>4, <1>5, <1>7, BoostMoves

\* mutex_unlock when somebody waits: the priorities of those who still do are
\* handed on with the mutex.
LEMMA BoostPops ==
  ASSUME CallInv, CallInv', HeldOk, BoostOk, NEW t \in Task, NEW m \in Mutex, unlock_pop(t, m)
  PROVE  BoostOk'
<1>1. MutexTypes /\ CallersOk /\ OwnersOk /\ UnlockersOk /\ WaitersOk /\ Null \notin Task
        /\ priority \in [Task -> Priority]
  BY CallParts DEF Types
<1>2. /\ m \in holding[t] /\ lock[m] = Null /\ pc[t] = "idle" /\ waiters[m] # <<>>
      /\ inherited' = [inherited EXCEPT ![m] = second_best(waiters[m])]
      /\ waiters' = [waiters EXCEPT ![m] = Unlinked(@, best(waiters[m]))]
      /\ lock' = [lock EXCEPT ![m] = t]
      /\ pc'   = [pc EXCEPT ![t] = IF MustRestore(t, m) THEN "restore" ELSE "handover"]
      /\ target' = [target EXCEPT ![t] = m]
      /\ next'   = [next EXCEPT ![t] = best(waiters[m])]
      /\ UNCHANGED <<state, owner, inheritance, priority>>
  BY DEF unlock_pop, Calling, NoWaiters, vars
<1>3. owner[m] = t /\ lock'[m] = t /\ target[t] = Null /\ next[t] = Null
  BY <1>1, <1>2 DEF OwnersOk, MutexTypes, CallersOk, UnlockersOk
<1>4. pc'[t] \in {"restore", "handover"} /\ next'[t] = best(waiters[m])
      /\ \A u \in Task : u # t => pc'[u] = pc[u] /\ target'[u] = target[u] /\ next'[u] = next[u]
  BY <1>1, <1>2 DEF MutexTypes
<1>5. inherited'[m] = second_best(waiters[m])
      /\ \A i \in Mutex : i # m => waiters'[i] = waiters[i]
  BY <1>1, <1>2 DEF MutexTypes
<1>6. OnlyHere(t, m)
  BY <1>1, <1>2 DEF OnlyHere, MutexTypes
<1>7. PrioritiesKept(t, m)
  BY <1>2, SamePriorities
<1>8. NeededAt(t)' /\ EnoughAt(m)' /\ FreshAt(m)'
  BY <1>1, <1>2, <1>3, <1>4 DEF NeededAt, EnoughAt, FreshAt
<1>9. KnownAt(m)'
  <2> SUFFICES ASSUME NEW w \in Waiters(m)' PROVE inherited'[m] >= BasePriority[w]
    BY DEF KnownAt
  <2>1. w \in Task /\ w # t /\ w # best(waiters[m])
    BY <1>4 DEF Waiters, InLock
  <2>2. w \in Waiters(m)
    BY <1>1, <1>2, <1>3, <1>4, <2>1 DEF Waiters, InLock
  <2>3. waiters[m] \in Seq(Task) /\ ToSet(waiters[m]) = Waiters(m)
    BY <1>1 DEF MutexTypes, WaitersOk
  <2>4. second_best(waiters[m]) \in Priority /\ priority[w] <= second_best(waiters[m])
    BY <1>1, <1>2, <2>1, <2>2, <2>3, BestWaits
  <2>5. priority[w] >= BasePriority[w] /\ priority[w] \in Nat /\ BasePriority[w] \in Nat
    BY <1>1, <2>1, SchedulerAssumption DEF HeldOk, Priority
  <2> QED BY <1>5, <2>4, <2>5 DEF Priority
<1> QED BY <1>2, <1>3, <1>5, <1>6, <1>7, <1>8, <1>9, BoostMoves

\* An owner that is restored owns no inheritance mutex any more.
LEMMA BoostRestores ==
  ASSUME CallInv, CallInv', HeldOk, BoostOk, NEW t \in Task, restore_holder(t)
  PROVE  BoostOk'
<1>1. MutexTypes /\ CallersOk /\ UnlockersOk /\ WaitersOk /\ Null \notin Task /\ Types(state)
  BY CallParts
<1>2. PICK m \in Mutex : m = target[t] /\ lock[m] = t
  BY <1>1 DEF restore_holder, CallersOk, Critical
<1>3. /\ pc[t] = "restore" /\ priority' = [priority EXCEPT ![t] = BasePriority[t]]
      /\ UNCHANGED <<owner, waiters, inherited, inheritance>>
  BY DEF restore_holder, scheduler_change_task_priority
<1>4. /\ pc'[t] \in {"idle", "handover"} /\ \A u \in Task : u # t => pc'[u] = pc[u]
      /\ \A u \in Task : u # t => target'[u] = target[u]
      /\ \A i \in Mutex : i # m => lock'[i] = lock[i]
      /\ (lock'[m] = t /\ owner[m] = t) \/ owner[m] = Null
  <2>1. CASE next[t] = Null
    BY <1>1, <1>2, <1>3, <2>1 DEF restore_holder, Leave, MutexTypes, UnlockersOk
  <2>2. CASE next[t] # Null
    BY <1>1, <1>2, <2>2 DEF restore_holder, MutexTypes, UnlockersOk
  <2> QED BY <2>1, <2>2
<1>5. \A i \in Mutex : ~ (inheritance[i] /\ owner[i] = t /\ lock[i] # t)
  <2>1. Cardinality(Owns(t)) = 0
    BY <1>3 DEF HeldOk
  <2>2. Owns(t) = {}
    BY <2>1, OwnsFinite
  <2> QED BY <2>2 DEF Owns
<1>6. \A u \in Task : u # t => priority'[u] = priority[u] /\ priority[u] \in Nat
  BY <1>1, <1>3 DEF Types, Priority
<1>7. PrioritiesKept(t, m)
  <2>1. ASSUME NEW i \in Mutex, inheritance[i], owner[i] # Null, lock[i] # owner[i]
        PROVE  priority'[owner[i]] >= priority[owner[i]]
    <3>1. owner[i] \in Task /\ owner[i] # t
      BY <1>1, <1>5, <2>1 DEF MutexTypes
    <3> QED BY <1>6, <3>1
  <2>2. ASSUME NEW u \in Task, u # t, pc[u] = "raise"
        PROVE  priority'[owner[target[u]]] = priority[owner[target[u]]]
    <3>1. target[u] \in Mutex /\ lock[target[u]] = u /\ inheritance[target[u]]
            /\ owner[target[u]] \in Task
      BY <2>2, HasOwner
    <3>2. owner[target[u]] # t
      BY <1>5, <2>2, <3>1
    <3> QED BY <1>6, <3>1, <3>2
  <2> QED BY <2>1, <2>2 DEF PrioritiesKept
<1>8. OnlyHere(t, m)
  BY <1>3, <1>4 DEF OnlyHere
<1>9. NeededAt(t)' /\ EnoughAt(m)' /\ FreshAt(m)'
  BY <1>3, <1>4 DEF NeededAt, EnoughAt, FreshAt, BoostOk
<1>10. KnownAt(m)'
  <2>1. Waiters(m)' = Waiters(m)
    <3>1. WaitersOk'
      BY DEF CallInv
    <3> QED BY <1>1, <1>3, <3>1 DEF WaitersOk
  <2>2. \A w \in Waiters(m) : pc[w] = "check" => pc'[w] = "check"
    BY <1>3, <1>4 DEF Waiters
  <2> QED BY <1>3, <2>1, <2>2 DEF KnownAt, BoostOk
<1> QED BY <1>2, <1>3, <1>7, <1>8, <1>9, <1>10, BoostMoves

\* The new owner gets what the mutex hands on, and no other call is about to
\* boost it.
LEMMA BoostHands ==
  ASSUME OneCoreBoosts, CallInv, CallInv', HeldOk, BoostOk, NEW t \in Task, handover(t)
  PROVE  BoostOk'
<1>1. MutexTypes /\ CallersOk /\ OwnersOk /\ WaitersOk /\ Null \notin Task /\ Types(state)
  BY CallParts
<1>2. PICK m \in Mutex, w \in Task, p \in Priority :
           /\ m = target[t] /\ w = next[t] /\ lock[m] = t /\ owner[m] = t /\ t # w
           /\ pc[t] = "handover" /\ pc[w] = "waiting" /\ target[w] = m
           /\ p >= priority[w] /\ (inheritance[m] => p >= inherited[m])
           /\ ~ inheritance[m] => p = priority[w]
           /\ priority' = [priority EXCEPT ![w] = p]
  BY HandoverFacts
<1>3. /\ owner'  = [owner EXCEPT ![m] = w] /\ lock' = [lock EXCEPT ![m] = Null]
      /\ target' = [target EXCEPT ![t] = Null] /\ pc' = [pc EXCEPT ![t] = "idle"]
      /\ UNCHANGED <<waiters, inherited, inheritance>>
  BY <1>2 DEF handover, Leave
<1>4. /\ \A u \in Task : pc'[u] = IF u = t THEN "idle" ELSE pc[u]
      /\ \A u \in Task : u # t => target'[u] = target[u]
      /\ \A i \in Mutex : lock'[i] = IF i = m THEN Null ELSE lock[i]
      /\ \A i \in Mutex : owner'[i] = IF i = m THEN w ELSE owner[i]
      /\ \A u \in Task : priority'[u] = (IF u = w THEN p ELSE priority[u]) /\ priority[u] \in Nat
  BY <1>1, <1>2, <1>3 DEF MutexTypes, Types, Priority
<1>5. OnlyHere(t, m)
  BY <1>3, <1>4 DEF OnlyHere
<1>6. PrioritiesKept(t, m)
  <2>1. ASSUME NEW i \in Mutex, owner[i] # Null
        PROVE  priority'[owner[i]] >= priority[owner[i]]
    <3>1. owner[i] \in Task
      BY <1>1, <2>1 DEF MutexTypes
    <3> QED BY <1>2, <1>4, <3>1
  <2>2. ASSUME NEW u \in Task, u # t, pc[u] = "raise"
        PROVE  priority'[owner[target[u]]] = priority[owner[target[u]]]
    <3>1. target[u] \in Mutex /\ target[u] # m /\ inheritance[target[u]]
            /\ owner[target[u]] \in Task /\ owner[target[u]] # u
      BY <1>2, <2>2, HasOwner, OtherCalls DEF Critical
    <3>2. ASSUME owner[target[u]] = w PROVE ~ inheritance[m]
      <4>1. w \in Users[m] /\ w \in Users[target[u]]
        BY <1>1, <1>2, <3>1, <3>2 DEF OwnersOk, CallersOk
      <4>2. pc[t] \in Critical /\ pc[u] \in Critical
        BY <1>2, <2>2 DEF Critical
      <4> QED BY <1>2, <2>2, <3>1, <3>2, <4>1, <4>2, BoostersApart
    <3> QED BY <1>2, <1>4, <3>1, <3>2
  <2> QED BY <2>1, <2>2 DEF PrioritiesKept
<1>7. NeededAt(t)' /\ EnoughAt(m)' /\ FreshAt(m)'
  BY <1>1, <1>2, <1>3, <1>4 DEF NeededAt, EnoughAt, FreshAt
<1>8. KnownAt(m)'
  <2>1. Waiters(m)' = Waiters(m)
    <3>1. WaitersOk'
      BY DEF CallInv
    <3> QED BY <1>1, <1>3, <3>1 DEF WaitersOk
  <2>2. \A u \in Waiters(m) : pc[u] = "check" => pc'[u] = "check"
    BY <1>2, <1>4 DEF Waiters
  <2> QED BY <1>3, <2>1, <2>2 DEF KnownAt, BoostOk
<1> QED BY <1>2, <1>3, <1>5, <1>6, <1>7, <1>8, BoostMoves

\* The scheduler's own steps let nobody join a list.
LEMMA BoostStands ==
  ASSUME BoostOk, \A i \in Mutex : Waiters(i)' \subseteq Waiters(i),
         UNCHANGED <<priority, owner, inherited, inheritance, lock, pc, target>>
  PROVE  BoostOk'
<1>1. \A t \in Task : NeededAt(t)'
  BY DEF BoostOk, NeededAt
<1>2. \A m \in Mutex : EnoughAt(m)' /\ FreshAt(m)'
  BY DEF BoostOk, EnoughAt, FreshAt
<1>3. \A m \in Mutex : KnownAt(m)'
  BY DEF BoostOk, KnownAt
<1> QED BY <1>1, <1>2, <1>3 DEF BoostOk

\* Every step of every task and core.
LEMMA BoostStep ==
  ASSUME OneCoreBoosts, CallInv, CallInv', HeldOk, BoostOk, [MutexNext]_allVars
  PROVE  BoostOk'
<1>1. ASSUME UNCHANGED <<priority, owner, waiters, inherited, inheritance, lock, pc, target>>
      PROVE  BoostOk'
  <2>1. WaitersOk /\ WaitersOk'
    BY DEF CallInv
  <2>2. \A i \in Mutex : Waiters(i)' \subseteq Waiters(i)
    BY <1>1, <2>1 DEF WaitersOk
  <2> QED BY <1>1, <2>2, BoostStands
<1>2. ASSUME NEW c \in Core, MutexKernel(c) PROVE BoostOk'
  <2>1. priority' = priority
    BY <1>2 DEF MutexKernel, scheduler_start, scheduler_switch_context, Tick, TickDone, TickWake
  <2>2. CASE UNCHANGED mutexVars
    BY <1>1, <2>1, <2>2 DEF mutexVars
  <2>3. CASE /\ TickWake(c)
             /\ UNCHANGED <<owner, inherited, inheritance, lock, held, holding, pc, target, next>>
    <3>1. state' = [state EXCEPT ![blocked[c][1]] = "READY"] /\ state \in [Task -> TaskState]
      BY <2>3, CallParts DEF TickWake, Types
    <3>2. \A u \in Task : state'[u] = "BLOCKED" => state[u] = "BLOCKED"
      BY <3>1
    <3>3. \A i \in Mutex : Waiters(i)' \subseteq Waiters(i)
      BY <2>3, <3>2 DEF Waiters, InLock
    <3> QED BY <2>1, <2>3, <3>3, BoostStands
  <2> QED BY <1>2, <2>2, <2>3 DEF MutexKernel
<1>3. ASSUME NEW t \in Task,
             task_create(t) \/ \E r \in Delays[t] : block_until(t, r), UNCHANGED mutexVars
      PROVE  BoostOk'
  BY <1>1, <1>3 DEF task_create, block_until, Sleep, mutexVars
<1>4. ASSUME NEW t \in Task, Call(t) PROVE BoostOk'
  BY <1>4, BoostTakes, BoostWaits, BoostFrees, BoostPops, BoostSets DEF Call
<1>5. ASSUME NEW t \in Task, Continue(t) PROVE BoostOk'
  BY <1>5, BoostChecks, BoostBoosts, BoostReturns, BoostRestores, BoostHands DEF Continue
<1>6. CASE UNCHANGED allVars
  BY <1>1, <1>6 DEF allVars, vars, mutexVars
<1>7. CASE MutexNext
  BY <1>2, <1>3, <1>4, <1>5, <1>7 DEF MutexNext
<1> QED BY <1>6, <1>7

\* It is an invariant of the specification.
LEMMA BoostInvariance ==
  OneCoreTimeouts /\ OneCoreBoosts => (MutexSpec => [](CallInv /\ HeldOk /\ BoostOk))
<1> SUFFICES ASSUME OneCoreTimeouts, OneCoreBoosts
             PROVE  MutexSpec => [](CallInv /\ HeldOk /\ BoostOk)
  OBVIOUS
<1>1. MutexInit => BoostOk
  BY BoostBegins
<1>2. CallInv /\ CallInv' /\ HeldOk /\ BoostOk /\ [MutexNext]_allVars => BoostOk'
  BY BoostStep
<1>3. MutexSpec => [](CallInv /\ HeldOk)
  BY HeldInvariance
<1> QED BY <1>1, <1>2, <1>3, PTL DEF MutexSpec

\* Priority inheritance works: between calls, the owner of an inheritance mutex
\* runs at no less than the base priority of any task that waits for it.
THEOREM OwnersOutrank ==
  OneCoreTimeouts /\ OneCoreBoosts => (MutexSpec => []OwnerOutranksWaiters)
<1>1. CallInv /\ HeldOk /\ BoostOk => OwnerOutranksWaiters
  <2> SUFFICES ASSUME CallInv, HeldOk, BoostOk, NEW m \in Mutex, inheritance[m], lock[m] = Null,
                      NEW w \in ToSet(waiters[m])
               PROVE  priority[owner[m]] >= BasePriority[w]
    BY DEF OwnerOutranksWaiters
  <2>1. MutexTypes /\ CallersOk /\ WaitersOk /\ Null \notin Task /\ Types(state)
    BY CallParts
  <2>2. w \in Waiters(m) /\ w \in Task /\ owner[m] # Null
    BY <2>1 DEF WaitersOk, Waiters
  <2>3. pc[w] # "check"
    BY <2>1, <2>2 DEF Waiters, CallersOk, Critical
  <2>4. inherited[m] >= BasePriority[w] /\ priority[owner[m]] >= inherited[m]
    BY <2>2, <2>3 DEF BoostOk, KnownAt, EnoughAt
  <2>5. inherited[m] \in Nat /\ BasePriority[w] \in Nat /\ priority[owner[m]] \in Nat
    BY <2>1, <2>2, SchedulerAssumption DEF MutexTypes, Types, Priority
  <2> QED BY <2>4, <2>5
<1> QED BY <1>1, BoostInvariance, PTL

\* The boost of mutex_lock is the only step that ends it.
LEMMA RaiseEnds ==
  ASSUME CallInv, [MutexNext]_allVars, NEW t \in Task, pc[t] = "raise", pc'[t] = "waiting"
  PROVE  boost_owner(t)
<1>1. MutexTypes
  BY CallParts
<1>2. pc' # pc
  OBVIOUS
<1>3. ASSUME NEW c \in Core, MutexKernel(c) PROVE FALSE
  BY <1>2, <1>3 DEF MutexKernel, mutexVars
<1>4. ASSUME NEW u \in Task, Call(u) PROVE FALSE
  <2>1. PICK m \in Mutex :
          \/ lock_free(u, m) \/ lock_wait(u, m) \/ unlock_idle(u, m) \/ unlock_pop(u, m)
          \/ \E e \in BOOLEAN : mutex_set_inheritance(u, m, e)
    BY <1>4 DEF Call
  <2>2. pc[u] = "idle" /\ \E p : pc' = pc \/ pc' = [pc EXCEPT ![u] = p]
    BY <2>1 DEF lock_free, lock_wait, unlock_idle, unlock_pop, mutex_set_inheritance, Calling, Leave
  <2> QED BY <1>1, <2>2 DEF MutexTypes
<1>5. ASSUME NEW u \in Task, Continue(u) PROVE u = t
  <2>1. \E p : pc' = [pc EXCEPT ![u] = p]
    BY <1>5 DEF Continue, inherit_check, boost_owner, lock_result, restore_holder, handover, Leave
  <2> QED BY <1>1, <2>1 DEF MutexTypes
<1>6. Continue(t)
  BY <1>2, <1>3, <1>4, <1>5 DEF MutexNext, allVars, mutexVars
<1> QED BY <1>6 DEF Continue, inherit_check, lock_result, restore_holder, handover

\* The boost of mutex_lock never lowers its owner: what was read without the lock
\* of the owner's core still holds when it is used.
THEOREM BoostsRaise ==
  OneCoreTimeouts /\ OneCoreBoosts => (MutexSpec => BoostRaises)
<1> SUFFICES ASSUME OneCoreTimeouts, OneCoreBoosts PROVE MutexSpec => BoostRaises
  OBVIOUS
<1> DEFINE Raised == \A t \in Task : pc[t] = "raise" /\ pc'[t] = "waiting" =>
                       LET o == owner[target[t]] IN priority'[o] >= priority[o]
<1>1. CallInv /\ BoostOk /\ [MutexNext]_allVars => [Raised]_allVars
  <2> SUFFICES ASSUME CallInv, BoostOk, [MutexNext]_allVars, NEW t \in Task,
                      pc[t] = "raise", pc'[t] = "waiting"
               PROVE  priority'[owner[target[t]]] >= priority[owner[target[t]]]
    OBVIOUS
  <2>1. MutexTypes /\ Types(state)
    BY CallParts
  <2>2. PICK m \in Mutex, o \in Task : m = target[t] /\ o = owner[m]
    BY HasOwner
  <2>3. priority' = [priority EXCEPT ![o] = inherited[m]]
    BY <2>2, RaiseEnds DEF boost_owner, scheduler_change_task_priority
  <2>4. priority[o] < inherited[m] /\ priority[o] \in Nat /\ inherited[m] \in Nat
    BY <2>1, <2>2 DEF BoostOk, NeededAt, Types, MutexTypes, Priority
  <2> QED BY <2>1, <2>2, <2>3, <2>4 DEF Types
<1>2. MutexSpec => [](CallInv /\ HeldOk /\ BoostOk)
  BY BoostInvariance
<1>3. MutexSpec => [][Raised]_allVars
  <2> HIDE DEF Raised
  <2> QED BY <1>1, <1>2, PTL DEF MutexSpec
<1> QED BY <1>3 DEF BoostRaises
===============================================================================
