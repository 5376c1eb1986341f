---------------------------- MODULE SemaphoreProofs ----------------------------
(***************************************************************************)
(* Proofs about Semaphore, for any number of semaphores, tasks and cores:  *)
(* tokens are neither lost nor made, num_items and the waiters agree, and  *)
(* nobody sleeps in semaphore_take out of the reach of a give.             *)
(*                                                                         *)
(* The scheduler's invariant is used with the states that the lists show,  *)
(* `Shown': between take_unready and take_block a task is unlinked but not *)
(* yet BLOCKED.  To it the inductive invariant adds who holds smph->lock   *)
(* between two steps, and that a task which a give has popped still        *)
(* sleeps, out of reach of its core's tick handler.  The latter rests on   *)
(* the hypothesis OneCoreTimeouts; OwnCoreBoosts is what keeps changes of  *)
(* its priority away from a task that is about to block.                   *)
(***************************************************************************)
EXTENDS Semaphore, SchedulerProofs, FiniteSetTheorems

\* The states that the lists show: a task between take_unready and take_block
\* is already unlinked
Shown == [t \in Task |-> IF pc[t] = "block" THEN "BLOCKED" ELSE state[t]]

\* The types of what semaphore.c adds to the scheduler
SemTypes ==
  /\ state     \in [Task -> TaskState]
  /\ count     \in [Sem -> Nat]
  /\ waiters   \in [Sem -> Seq(Task)]
  /\ num_items \in [Sem -> Int]
  /\ container \in [Task -> Sem \cup {Null}]
  /\ reason    \in [Task -> BOOLEAN]
  /\ lock      \in [Sem -> BOOLEAN]
  /\ pc        \in [Task -> {"idle", "try", "unready", "block", "wait"}]
  /\ target    \in [Task -> Sem \cup {Null}]
  /\ timeout   \in [Task -> Nat \cup {Forever}]
  /\ deadline  \in [Task -> Nat]
  /\ giving    \in [Core -> Task \cup {Null}]
  /\ out       \in [Sem -> Int]

\* t is about to block, and holds smph->lock with its core's IRQs masked
Entering(t) == pc[t] \in {"unready", "block"}

\* t sleeps in semaphore_take
Asleep(t) == pc[t] \in {"block", "wait"} /\ Shown[t] = "BLOCKED"

\* t has linked itself into the list of the semaphore
Queued(t) == pc[t] = "unready" \/ Asleep(t)

\* Where in semaphore_take a task is, and what its control block says
TakersOk ==
  \A t \in Task :
    /\ target[t] \in IF pc[t] = "idle" THEN {Null} ELSE Sem
    /\ pc[t] # "idle" => timeout[t] \in Timeouts[target[t]][t]
    /\ container[t] = IF Queued(t) THEN target[t] ELSE Null
    /\ Entering(t) => current[CoreOf[t]] = t
    /\ pc[t] = "unready" => state[t] # "BLOCKED" /\ irq[CoreOf[t]] = "none"
    /\ reason[t] => pc[t] = "wait" /\ ~ Asleep(t)
    /\ Asleep(t) /\ t \in ToSet(blocked[CoreOf[t]]) => timeout[t] > 0

\* A task that a give has popped still sleeps
GiversOk ==
  \A c \in Core : giving[c] # Null =>
    /\ pc[giving[c]] = "wait" /\ Asleep(giving[c])
    /\ c \in Givers[target[giving[c]]]

\* smph->lock is held for one call
LocksOk ==
  /\ \A t \in Task : Entering(t) => lock[target[t]]
  /\ \A c \in Core : giving[c] # Null => lock[target[giving[c]]]
  /\ \A t, u \in Task :
       Entering(t) /\ Entering(u) /\ target[t] = target[u] => t = u
  /\ \A c, d \in Core :
       giving[c] # Null /\ giving[d] # Null /\ target[giving[c]] = target[giving[d]] => c = d
  /\ \A t \in Task, c \in Core :
       Entering(t) /\ giving[c] # Null => target[giving[c]] # target[t]

\* The tasks that are linked in the list of s
Waiters(s) == {t \in Task : container[t] = s /\ \A c \in Core : giving[c] # t}

WaitersOk ==
  \A s \in Sem :
    /\ IsInjective(waiters[s])
    /\ ToSet(waiters[s]) = Waiters(s)
    /\ num_items[s] = Len(waiters[s])
    /\ count[s] > 0 => waiters[s] = <<>>
    /\ count[s] <= MaxCount[s]

SemInv ==
  InvOf(Shown) /\ SemTypes /\ TakersOk /\ GiversOk /\ LocksOk /\ WaitersOk

-------------------------------------------------------------------------------

\* A list without repetition is not longer than there are tasks, so num_items
\* does not wrap.
LEMMA ListFits ==
  ASSUME NEW s \in Seq(Task), IsInjective(s)
  PROVE  Len(s) < CountMod /\ Len(s) \in Nat
  <1>1. /\ IsFiniteSet(Task) /\ Cardinality(Task) \in Nat
        /\ CountMod \in Nat /\ Cardinality(Task) < CountMod
    BY SemaphoreAssumption, FS_CardinalityType
  <1>2. Len(s) \in Nat /\ s \in [1 .. Len(s) -> Task] /\ DOMAIN s = 1 .. Len(s)
    OBVIOUS
  <1>3. IsFiniteSet(1 .. Len(s)) /\ Cardinality(1 .. Len(s)) = Len(s)
    BY <1>2, FS_Interval
  <1>4. \A i, j \in 1 .. Len(s) : s[i] = s[j] => i = j
    BY <1>2 DEF IsInjective
  <1>5. ~ (Cardinality(Task) < Cardinality(1 .. Len(s)))
    <2> SUFFICES ASSUME Cardinality(Task) < Cardinality(1 .. Len(s)) PROVE FALSE
      OBVIOUS
    <2>1. \E i, j \in 1 .. Len(s) : i # j /\ s[i] = s[j]
      BY <1>1, <1>2, <1>3, FS_PigeonHole
    <2>2. QED BY <1>4, <2>1
  <1>6. QED BY <1>1, <1>2, <1>3, <1>5

\* Counting within the width of num_items.
LEMMA SmallMod ==
  ASSUME NEW n \in Nat, NEW m \in Nat, n < m PROVE n % m = n
  OBVIOUS

\* A semaphore_take by one task leaves what the scheduler looks at alone, as long
\* as it does not reach or leave "block".
LEMMA SchedulerStands ==
  ASSUME InvOf(Shown), UNCHANGED vars, Shown' = Shown
  PROVE  InvOf(Shown)'
  <1>1. InvOf(Shown)' <=> InvOf(Shown)
    BY DEF vars, InvOf, Types, On, SleepersOf, SortedBlocked, RunnersOf, NobodyOversleeps
  <1>2. QED BY <1>1

\* semaphore_init.
LEMMA SemBegins ==
  ASSUME CountsFit PROVE SemInit => SemInv
  <1> SUFFICES ASSUME SemInit PROVE SemInv
    OBVIOUS
  <1>1. /\ Init /\ count = InitialCount
        /\ waiters   = [s \in Sem |-> <<>>] /\ num_items = [s \in Sem |-> 0]
        /\ container = [t \in Task |-> Null] /\ reason = [t \in Task |-> FALSE]
        /\ lock      = [s \in Sem |-> FALSE]
        /\ pc        = [t \in Task |-> "idle"] /\ target = [t \in Task |-> Null]
        /\ timeout   = [t \in Task |-> 0] /\ deadline = [t \in Task |-> 0]
        /\ giving    = [c \in Core |-> Null] /\ out = [s \in Sem |-> 0]
    BY DEF SemInit
  <1>2. InvOf(state)
    BY <1>1, InitInv DEF Inv
  <1>3. state \in [Task -> TaskState]
    BY <1>2, InvParts DEF Types
  <1>4. Shown = state
    BY <1>1, <1>3 DEF Shown
  <1>5. InvOf(Shown)
    BY <1>2, <1>4
  <1>6. SemTypes
    BY <1>1, <1>3, SemaphoreAssumption DEF SemTypes
  <1>7. TakersOk /\ GiversOk /\ LocksOk
    BY <1>1 DEF TakersOk, GiversOk, LocksOk, Asleep, Entering, Queued
  <1>8. WaitersOk
    <2>1. ToSet(<<>>) = {} /\ IsInjective(<<>>) /\ Len(<<>>) = 0
      BY DEF ToSet, IsInjective
    <2>2. \A s \in Sem : Waiters(s) = {}
      BY <1>1, SemaphoreAssumption DEF Waiters
    <2>3. QED BY <1>1, <2>1, <2>2 DEF WaitersOk, CountsFit
  <1>9. QED BY <1>5, <1>6, <1>7, <1>8 DEF SemInv

-------------------------------------------------------------------------------
\* semaphore_take

\* The invariant, with the typing facts that the steps below keep using.
LEMMA SemParts ==
  ASSUME SemInv
  PROVE  /\ InvOf(Shown) /\ SemTypes /\ TakersOk /\ GiversOk /\ LocksOk /\ WaitersOk
         /\ Null \notin Task /\ Null \notin Sem /\ CoreOf \in [Task -> Core]
         /\ \A t \in Task : ToSet(blocked[CoreOf[t]]) \subseteq Task
  BY InvParts, SemaphoreAssumption DEF SemInv

\* t, which is awake, goes to label p of the call for x (Null behind its end)
Steps(t, p, x, ms) ==
  /\ pc'      = [pc EXCEPT ![t] = p]
  /\ target'  = [target EXCEPT ![t] = x]
  /\ timeout' = [timeout EXCEPT ![t] = ms]
  /\ reason'  = [reason EXCEPT ![t] = FALSE]
  /\ deadline' \in [Task -> Nat]
  /\ UNCHANGED <<vars, waiters, num_items, container, lock, giving>>

\* The steps of a task that is awake and does not wait: nobody else notices.
LEMMA TakerMoves ==
  ASSUME SemInv, NEW t \in Task, ~ Entering(t), ~ Asleep(t),
         NEW p \in {"idle", "try"}, NEW x \in Sem \cup {Null}, NEW ms \in Nat \cup {Forever},
         x \in IF p = "idle" THEN {Null} ELSE Sem, p = "try" => ms \in Timeouts[x][t],
         Steps(t, p, x, ms),
         count' \in [Sem -> Nat], \A s \in Sem : count'[s] <= count[s], out' \in [Sem -> Int]
  PROVE  SemInv'
  <1>1. /\ InvOf(Shown) /\ SemTypes /\ TakersOk /\ GiversOk /\ LocksOk /\ WaitersOk
        /\ Null \notin Task /\ Null \notin Sem /\ CoreOf \in [Task -> Core]
    BY SemParts
  <1>2. /\ pc'      = [pc EXCEPT ![t] = p]
        /\ target'  = [target EXCEPT ![t] = x]
        /\ timeout' = [timeout EXCEPT ![t] = ms]
        /\ reason'  = [reason EXCEPT ![t] = FALSE]
        /\ deadline' \in [Task -> Nat]
        /\ UNCHANGED <<waiters, num_items, container, lock, giving>>
        /\ UNCHANGED vars /\ UNCHANGED <<blocked, state, current, irq>>
    BY DEF Steps, vars
  <1>3. Shown' = Shown
    BY <1>1, <1>2 DEF Shown, SemTypes, Entering
  <1>4. InvOf(Shown)'
    BY <1>1, <1>2, <1>3, SchedulerStands
  <1>5. SemTypes'
    BY <1>1, <1>2 DEF SemTypes
  <1>6. /\ ~ Asleep(t)' /\ ~ Entering(t)' /\ ~ Queued(t) /\ ~ Queued(t)'
        /\ \A u \in Task : u # t => /\ Asleep(u)' <=> Asleep(u)
                                    /\ Entering(u)' <=> Entering(u)
                                    /\ Queued(u)' <=> Queued(u)
    BY <1>1, <1>2, <1>3 DEF Asleep, Entering, Queued, SemTypes
  <1>7. TakersOk'
    <2>1. /\ pc'[t] = p /\ target'[t] = x /\ timeout'[t] = ms /\ reason'[t] = FALSE
          /\ container'[t] = container[t]
      BY <1>1, <1>2 DEF SemTypes
    <2>2. \A u \in Task : u # t =>
            /\ pc'[u] = pc[u] /\ target'[u] = target[u] /\ timeout'[u] = timeout[u]
            /\ reason'[u] = reason[u] /\ container'[u] = container[u]
      BY <1>1, <1>2 DEF SemTypes
    <2>3. QED BY <1>1, <1>2, <1>6, <2>1, <2>2 DEF TakersOk
  <1>8. \A c \in Core : giving[c] # Null => giving[c] \in Task /\ giving[c] # t
    BY <1>1 DEF GiversOk, SemTypes
  <1>9. GiversOk'
    BY <1>1, <1>2, <1>6, <1>8 DEF GiversOk, SemTypes
  <1>10. LocksOk'
    BY <1>1, <1>2, <1>6, <1>8 DEF LocksOk, SemTypes
  <1>11. WaitersOk'
    <2>1. \A s \in Sem : Waiters(s)' = Waiters(s)
      BY <1>2 DEF Waiters
    <2>2. \A s \in Sem : MaxCount[s] \in Nat /\ count[s] \in Nat /\ count'[s] \in Nat
      BY <1>1, SemaphoreAssumption DEF SemTypes
    <2>3. waiters' = waiters /\ num_items' = num_items
      BY <1>2
    <2>4. \A s \in Sem : count'[s] <= MaxCount[s] /\ (count'[s] > 0 => count[s] > 0)
      BY <1>1, <2>2 DEF WaitersOk
    <2>5. QED BY <1>1, <2>1, <2>3, <2>4 DEF WaitersOk
  <1>12. QED BY <1>4, <1>5, <1>7, <1>9, <1>10, <1>11 DEF SemInv

\* The deadline is computed, ...
LEMMA TakeBegins ==
  ASSUME SemInv, NEW t \in Task, NEW s \in Sem, NEW ms \in Timeouts[s][t], semaphore_take(t, s, ms)
  PROVE  SemInv'
  <1>1. SemTypes /\ TakersOk BY SemParts
  <1>2. ms \in Nat \cup {Forever} BY SemaphoreAssumption
  <1>3. pc[t] = "idle" /\ ~ Entering(t) /\ ~ Asleep(t) /\ reason[t] = FALSE
    BY <1>1 DEF semaphore_take, Asleep, Entering, TakersOk, SemTypes
  <1>4. Steps(t, "try", s, ms)
    <2>1. reason' = [reason EXCEPT ![t] = FALSE]
      BY <1>1, <1>3 DEF semaphore_take, SemTypes
    <2>2. deadline' \in [Task -> Nat]
      BY <1>1, <1>2 DEF semaphore_take, SemTypes, Forever
    <2>3. QED BY <2>1, <2>2 DEF semaphore_take, Steps
  <1>5. count' \in [Sem -> Nat] /\ (\A i \in Sem : count'[i] <= count[i]) /\ out' \in [Sem -> Int]
    BY <1>1 DEF semaphore_take, SemTypes
  <1>6. QED BY <1>2, <1>3, <1>4, <1>5, TakerMoves

\* ... a token is there, or there is no time to wait for one.
LEMMA TakeEnds ==
  ASSUME SemInv, NEW t \in Task, take_now(t) \/ take_timed_out(t)
  PROVE  SemInv'
  <1>1. SemTypes /\ TakersOk BY SemParts
  <1>2. pc[t] = "try" /\ target[t] \in Sem /\ ~ Entering(t) /\ ~ Asleep(t) /\ reason[t] = FALSE
    BY <1>1 DEF take_now, take_timed_out, Asleep, Entering, TakersOk, SemTypes
  <1>3. Steps(t, "idle", Null, 0)
    <2>1. reason' = [reason EXCEPT ![t] = FALSE]
      BY <1>1, <1>2 DEF take_now, take_timed_out, SemTypes
    <2>2. deadline' \in [Task -> Nat]
      <3>1. Return(t)
        BY DEF take_now, take_timed_out
      <3>2. deadline \in [Task -> Nat] /\ deadline' = [deadline EXCEPT ![t] = 0]
        BY <1>1, <3>1 DEF Return, SemTypes
      <3>3. QED BY <3>2
    <2>3. QED BY <2>1, <2>2 DEF take_now, take_timed_out, Return, Steps
  <1>4. count' \in [Sem -> Nat] /\ (\A i \in Sem : count'[i] <= count[i]) /\ out' \in [Sem -> Int]
    <2>1. CASE take_now(t)
      BY <1>1, <1>2, <2>1 DEF take_now, SemTypes
    <2>2. CASE take_timed_out(t)
      BY <1>1, <2>2 DEF take_timed_out, SemTypes
    <2>3. QED BY <2>1, <2>2
  <1>5. QED BY <1>2, <1>3, <1>4, TakerMoves

\* Awake again: with the token, or back to the loop.
LEMMA TakeWoken ==
  ASSUME SemInv, NEW t \in Task, take_woken(t)
  PROVE  SemInv'
  <1>1. SemTypes /\ TakersOk BY SemParts
  <1>2. /\ pc[t] = "wait" /\ target[t] \in Sem /\ ~ Entering(t) /\ ~ Asleep(t)
        /\ timeout[t] \in Timeouts[target[t]][t] /\ timeout[t] \in Nat \cup {Forever}
    BY <1>1 DEF take_woken, Asleep, Entering, TakersOk, SemTypes, Runs, Executing, Shown
  <1>3. count' = count /\ count' \in [Sem -> Nat] /\ \A i \in Sem : count'[i] <= count[i]
    BY <1>1 DEF take_woken, SemTypes
  <1>4. CASE reason[t]
    <2>1. deadline' \in [Task -> Nat] /\ out' \in [Sem -> Int]
      <3>1. /\ Return(t) /\ out' = [out EXCEPT ![target[t]] = @ + 1]
            /\ deadline \in [Task -> Nat] /\ out \in [Sem -> Int]
        BY <1>1, <1>4 DEF take_woken, SemTypes
      <3>2. deadline' = [deadline EXCEPT ![t] = 0]
        BY <3>1 DEF Return
      <3>3. QED BY <1>2, <3>1, <3>2
    <2>2. Steps(t, "idle", Null, 0)
      BY <1>4, <2>1 DEF take_woken, Return, Steps
    <2>3. QED BY <1>2, <1>3, <2>1, <2>2, TakerMoves
  <1>5. CASE ~ reason[t]
    <2>1. /\ pc' = [pc EXCEPT ![t] = "try"]
          /\ UNCHANGED <<reason, out, target, timeout, deadline>>
          /\ UNCHANGED <<vars, count, waiters, num_items, container, lock, giving>>
      BY <1>5 DEF take_woken
    <2>2. Steps(t, "try", target[t], timeout[t])
      <3>1. /\ target' = [target EXCEPT ![t] = target[t]]
            /\ timeout' = [timeout EXCEPT ![t] = timeout[t]]
            /\ deadline' \in [Task -> Nat]
        BY <1>1, <2>1 DEF SemTypes
      <3>2. reason' = [reason EXCEPT ![t] = FALSE]
        BY <1>1, <1>5, <2>1, Zenon DEF SemTypes
      <3>3. QED BY <2>1, <3>1, <3>2 DEF Steps
    <2>3. out' \in [Sem -> Int]
      BY <1>1, <2>1 DEF SemTypes
    <2>4. QED BY <1>2, <1>3, <2>2, <2>3, TakerMoves
  <1>6. QED BY <1>4, <1>5

\* No token and time to wait: the task links itself into the list of the
\* semaphore, ...
LEMMA TakeAppends ==
  ASSUME SemInv, NEW t \in Task, take_append(t)
  PROVE  SemInv'
  <1> DEFINE s == target[t]
  <1>1. /\ InvOf(Shown) /\ SemTypes /\ TakersOk /\ GiversOk /\ LocksOk /\ WaitersOk
        /\ Null \notin Task /\ Null \notin Sem /\ CoreOf \in [Task -> Core]
    BY SemParts
  <1>2. /\ pc[t] = "try" /\ state[t] # "BLOCKED" /\ irq[CoreOf[t]] = "none"
        /\ current[CoreOf[t]] = t /\ ~ lock[s] /\ count[s] = 0
        /\ waiters'   = [waiters EXCEPT ![s] = Append(@, t)]
        /\ num_items' = [num_items EXCEPT ![s] = (@ + 1) % CountMod]
        /\ container' = [container EXCEPT ![t] = s]
        /\ lock'      = [lock EXCEPT ![s] = TRUE]
        /\ pc'        = [pc EXCEPT ![t] = "unready"]
        /\ UNCHANGED vars /\ UNCHANGED <<blocked, state, current, irq>>
        /\ UNCHANGED <<count, reason, target, timeout, deadline, giving, out>>
    BY DEF take_append, Runs, Executing, vars
  <1>3. s \in Sem /\ timeout[t] \in Timeouts[s][t] /\ container[t] = Null /\ ~ reason[t]
    BY <1>1, <1>2 DEF TakersOk, Asleep, Queued
  <1>4. Shown' = Shown
    BY <1>1, <1>2 DEF Shown, SemTypes
  <1>5. InvOf(Shown)'
    BY <1>1, <1>2, <1>4, SchedulerStands
  <1> HIDE DEF s
  <1>6. /\ Append(waiters[s], t) \in Seq(Task) /\ IsInjective(Append(waiters[s], t))
        /\ ToSet(Append(waiters[s], t)) = Waiters(s) \cup {t}
        /\ Len(Append(waiters[s], t)) = Len(waiters[s]) + 1
    <2>1. waiters[s] \in Seq(Task) /\ IsInjective(waiters[s]) /\ ToSet(waiters[s]) = Waiters(s)
      BY <1>1, <1>3 DEF SemTypes, WaitersOk
    <2>2. t \notin ToSet(waiters[s])
      BY <1>1, <1>3, <2>1 DEF Waiters
    <2>3. QED BY <2>1, <2>2, AppendLinks
  <1>7. num_items'[s] = Len(waiters'[s]) /\ num_items'[s] \in Nat
    <2>1. num_items'[s] = (num_items[s] + 1) % CountMod /\ waiters'[s] = Append(waiters[s], t)
      BY <1>1, <1>2, <1>3 DEF SemTypes
    <2>2. num_items[s] = Len(waiters[s]) BY <1>1, <1>3 DEF WaitersOk
    <2>3. Len(waiters[s]) + 1 < CountMod /\ Len(waiters[s]) + 1 \in Nat
      BY <1>6, ListFits
    <2>4. CountMod \in Nat BY SemaphoreAssumption
    <2>5. (Len(waiters[s]) + 1) % CountMod = Len(waiters[s]) + 1
      BY <2>3, <2>4, SmallMod
    <2>6. QED BY <1>6, <2>1, <2>2, <2>3, <2>5
  <1>8. SemTypes'
    <2>1. waiters' \in [Sem -> Seq(Task)] BY <1>1, <1>2, <1>6 DEF SemTypes
    <2>2. num_items' \in [Sem -> Int] BY <1>1, <1>2, <1>3, <1>7 DEF SemTypes
    <2>3. QED BY <1>1, <1>2, <1>3, <2>1, <2>2 DEF SemTypes
  <1>9. /\ ~ Asleep(t)' /\ ~ Entering(t) /\ Entering(t)' /\ Queued(t)'
        /\ \A u \in Task : u # t => /\ Asleep(u)' <=> Asleep(u)
                                    /\ Entering(u)' <=> Entering(u)
                                    /\ Queued(u)' <=> Queued(u)
                                    /\ pc'[u] = pc[u]
    BY <1>1, <1>2, <1>4 DEF Asleep, Entering, Queued, SemTypes
  <1>10. TakersOk'
    BY <1>1, <1>2, <1>3, <1>9 DEF TakersOk, SemTypes, s
  <1>11. \A c \in Core : giving[c] # Null =>
           giving[c] \in Task /\ giving[c] # t /\ target[giving[c]] # s
    BY <1>1, <1>2 DEF GiversOk, LocksOk, SemTypes
  <1>12. GiversOk'
    BY <1>1, <1>2, <1>9, <1>11 DEF GiversOk, SemTypes
  <1>13. LocksOk'
    <2>1. \A u \in Task : u # t /\ Entering(u)' => Entering(u) /\ target[u] # s
      BY <1>1, <1>2, <1>9 DEF LocksOk
    <2>2. lock'[s] /\ \A i \in Sem : lock[i] => lock'[i]
      BY <1>1, <1>2, <1>3 DEF SemTypes
    <2>3. target[t] = s BY DEF s
    <2>4. \A u \in Task : Entering(u) => target[u] \in Sem BY <1>1 DEF TakersOk, Entering
    <2>5. \A c \in Core : giving[c] # Null => target[giving[c]] \in Sem
      BY <1>1, <1>11 DEF TakersOk, GiversOk
    <2>6. QED BY <1>1, <1>2, <1>11, <2>1, <2>2, <2>3, <2>4, <2>5 DEF LocksOk
  <1>14. WaitersOk'
    <2>1. \A i \in Sem : Waiters(i)' = IF i = s THEN Waiters(s) \cup {t} ELSE Waiters(i)
      BY <1>1, <1>2, <1>3, <1>11 DEF Waiters, SemTypes
    <2>2. \A i \in Sem : i # s => waiters'[i] = waiters[i] /\ num_items'[i] = num_items[i]
      BY <1>1, <1>2 DEF SemTypes
    <2>3. waiters'[s] = Append(waiters[s], t) BY <1>1, <1>2, <1>3 DEF SemTypes
    <2>4. ASSUME NEW i \in Sem
          PROVE  /\ IsInjective(waiters'[i]) /\ ToSet(waiters'[i]) = Waiters(i)'
                 /\ num_items'[i] = Len(waiters'[i])
                 /\ count'[i] > 0 => waiters'[i] = <<>>
                 /\ count'[i] <= MaxCount[i]
      <3>1. CASE i = s
        <4>1. waiters'[i] = Append(waiters[s], t) BY <2>3, <3>1
        <4>2. Waiters(i)' = Waiters(s) \cup {t} BY <2>1, <3>1
        <4>3. count'[i] = 0 /\ MaxCount[i] \in Nat BY <1>2, <3>1, SemaphoreAssumption DEF s
        <4>4. num_items'[i] = Len(waiters'[i]) BY <1>7, <3>1
        <4>5. QED BY <1>6, <4>1, <4>2, <4>3, <4>4
      <3>2. CASE i # s
        BY <1>1, <1>2, <2>1, <2>2, <3>2 DEF WaitersOk
      <3>3. QED BY <3>1, <3>2
    <2>5. QED BY <2>4 DEF WaitersOk
  <1>15. QED BY <1>5, <1>8, <1>10, <1>12, <1>13, <1>14 DEF SemInv

\* ... and leaves its ready list, with a timeout for the blocked list.
LEMMA TakeUnreadies ==
  ASSUME SemInv, NEW t \in Task, take_unready(t)
  PROVE  SemInv'
  <1>1. /\ InvOf(Shown) /\ SemTypes /\ TakersOk /\ GiversOk /\ LocksOk /\ WaitersOk
        /\ Null \notin Task /\ Null \notin Sem /\ CoreOf \in [Task -> Core]
    BY SemParts
  <1>2. /\ pc[t] = "unready"
        /\ pc' = [pc EXCEPT ![t] = "block"]
        /\ UNCHANGED <<state, priority, current, irq>>
        /\ UNCHANGED <<count, waiters, num_items, container, reason, lock, target, timeout,
                       deadline, giving, out>>
    BY DEF take_unready
  <1>3. /\ state[t] # "BLOCKED" /\ irq[CoreOf[t]] = "none" /\ current[CoreOf[t]] = t
        /\ ~ reason[t]
    BY <1>1, <1>2 DEF TakersOk, Entering
  <1>4. Shown[t] # "BLOCKED" /\ Shown' = [Shown EXCEPT ![t] = "BLOCKED"]
    BY <1>1, <1>2, <1>3 DEF Shown, SemTypes
  <1>5. /\ InvOf(Shown)'
        /\ t \in ToSet(blocked'[CoreOf[t]]) => timeout[t] > 0
        /\ \A u \in Task : u # t /\ u \in ToSet(blocked'[CoreOf[u]]) => u \in ToSet(blocked[CoreOf[u]])
    <2>1. CASE timeout[t] > 0
      <3>1. GoesToSleep(Shown, Shown', t, deadline[t]) /\ deadline[t] \in Int
        BY <1>1, <1>2, <1>4, <2>1 DEF take_unready, GoesToSleep, SemTypes
      <3>2. InvOf(Shown)' /\ ToSet(blocked'[CoreOf[t]]) = ToSet(blocked[CoreOf[t]]) \cup {t}
        BY <1>1, <1>3, <1>4, <3>1, SleepInv
      <3>3. \A c \in Core : c # CoreOf[t] => blocked'[c] = blocked[c]
        BY <1>1, <3>1, InvParts DEF GoesToSleep, AddToBlocked, Types
      <3>4. QED BY <1>1, <2>1, <3>2, <3>3
    <2>2. CASE ~ (timeout[t] > 0)
      <3>1. /\ ready' = RemoveFromReady(ready, t, priority[t])
            /\ UNCHANGED <<blocked, priority, remaining, current, irq>>
        BY <1>2, <2>2 DEF take_unready
      <3>2. InvOf(Shown)'
        BY <1>1, <1>4, <3>1, SuspendInv
      <3>3. t \notin ToSet(blocked[CoreOf[t]])
        BY <1>1, <1>4, InvParts DEF SleepersOf
      <3>4. QED BY <3>1, <3>2, <3>3
    <2>3. QED BY <2>1, <2>2
  <1>6. SemTypes' BY <1>1, <1>2 DEF SemTypes
  <1>7. /\ Asleep(t)' /\ ~ Asleep(t)
        /\ \A u \in Task : u # t => (Asleep(u)' <=> Asleep(u)) /\ pc'[u] = pc[u]
        /\ \A u \in Task : (Entering(u)' <=> Entering(u)) /\ (Queued(u)' <=> Queued(u))
    BY <1>1, <1>2, <1>4, InvParts DEF Asleep, Entering, Queued, SemTypes, Types
  <1>8. TakersOk'
    BY <1>1, <1>2, <1>3, <1>5, <1>7 DEF TakersOk, SemTypes
  <1>9. GiversOk'
    <2>1. \A c \in Core : giving[c] # Null => giving[c] \in Task /\ giving[c] # t
      BY <1>1, <1>2 DEF GiversOk, SemTypes
    <2>2. QED BY <1>1, <1>2, <1>7, <2>1 DEF GiversOk
  <1>10. LocksOk' BY <1>1, <1>2, <1>7 DEF LocksOk
  <1>11. WaitersOk'
    <2>1. \A i \in Sem : Waiters(i)' = Waiters(i) BY <1>2 DEF Waiters
    <2>2. QED BY <1>1, <1>2, <2>1 DEF WaitersOk
  <1>12. QED BY <1>5, <1>6, <1>8, <1>9, <1>10, <1>11 DEF SemInv

\* The state follows.
LEMMA TakeBlocks ==
  ASSUME SemInv, NEW t \in Task, take_block(t)
  PROVE  SemInv'
  <1> DEFINE s == target[t]
  <1>1. /\ InvOf(Shown) /\ SemTypes /\ TakersOk /\ GiversOk /\ LocksOk /\ WaitersOk
        /\ Null \notin Task /\ Null \notin Sem /\ CoreOf \in [Task -> Core]
    BY SemParts
  <1>2. /\ pc[t] = "block"
        /\ state' = [state EXCEPT ![t] = "BLOCKED"]
        /\ lock'  = [lock EXCEPT ![s] = FALSE]
        /\ pc'    = [pc EXCEPT ![t] = "wait"]
        /\ UNCHANGED <<ready, blocked, priority, remaining, current, irq, count, waiters,
                       num_items, container, reason, target, timeout, deadline, giving, out>>
    BY DEF take_block
  <1>3. s \in Sem BY <1>1, <1>2 DEF TakersOk
  <1>4. Shown' = Shown BY <1>1, <1>2 DEF Shown, SemTypes
  <1>5. InvOf(Shown)'
    BY <1>1, <1>2, <1>4
    DEF InvOf, Types, On, SleepersOf, SortedBlocked, RunnersOf, NobodyOversleeps
  <1> HIDE DEF s
  <1>6. SemTypes' BY <1>1, <1>2, <1>3 DEF SemTypes, TaskState
  <1>7. /\ Asleep(t) /\ Entering(t) /\ ~ Entering(t)'
        /\ \A u \in Task : (Asleep(u)' <=> Asleep(u)) /\ (Queued(u)' <=> Queued(u))
        /\ \A u \in Task : u # t => (Entering(u)' <=> Entering(u)) /\ pc'[u] = pc[u]
    BY <1>1, <1>2, <1>4 DEF Asleep, Entering, Queued, SemTypes, Shown
  <1>8. TakersOk' BY <1>1, <1>2, <1>7 DEF TakersOk, SemTypes
  <1>9. GiversOk'
    <2>1. \A c \in Core : giving[c] # Null => giving[c] \in Task BY <1>1 DEF SemTypes
    <2>2. QED BY <1>1, <1>2, <1>7, <2>1 DEF GiversOk, SemTypes
  <1>10. LocksOk'
    <2>1. /\ \A u \in Task : Entering(u)' => Entering(u) /\ target[u] # s
          /\ \A c \in Core : giving[c] # Null => target[giving[c]] # s
      BY <1>1, <1>2, <1>7 DEF LocksOk, s
    <2>2. \A i \in Sem : i # s => lock'[i] = lock[i] BY <1>1, <1>2 DEF SemTypes
    <2>3. /\ \A u \in Task : Entering(u) => target[u] \in Sem
          /\ \A c \in Core : giving[c] # Null => target[giving[c]] \in Sem
      BY <1>1 DEF TakersOk, GiversOk, SemTypes, Entering
    <2>4. QED BY <1>1, <1>2, <2>1, <2>2, <2>3 DEF LocksOk
  <1>11. WaitersOk'
    <2>1. \A i \in Sem : Waiters(i)' = Waiters(i) BY <1>2 DEF Waiters
    <2>2. QED BY <1>1, <1>2, <2>1 DEF WaitersOk
  <1>12. QED BY <1>5, <1>6, <1>8, <1>9, <1>10, <1>11 DEF SemInv

-------------------------------------------------------------------------------
\* semaphore_give

\* Nobody waits: the count grows.
LEMMA GiveCounts ==
  ASSUME SemInv, NEW c \in Core, NEW s \in Sem, give_count(c, s)
  PROVE  SemInv'
  <1>1. /\ InvOf(Shown) /\ SemTypes /\ TakersOk /\ GiversOk /\ LocksOk /\ WaitersOk
    BY SemParts
  <1>2. /\ num_items[s] = 0 /\ count[s] < MaxCount[s]
        /\ count' = [count EXCEPT ![s] = @ + 1]
        /\ out'   = [out EXCEPT ![s] = @ - 1]
        /\ UNCHANGED vars /\ UNCHANGED <<blocked, state, current, irq>>
        /\ UNCHANGED <<waiters, num_items, container, reason, lock, pc, target, timeout,
                       deadline, giving>>
    BY DEF give_count, HasRoom, vars
  <1>3. Shown' = Shown BY <1>2 DEF Shown
  <1>4. InvOf(Shown)' BY <1>1, <1>2, <1>3, SchedulerStands
  <1>5. SemTypes' BY <1>1, <1>2 DEF SemTypes
  <1>6. \A u \in Task : /\ (Asleep(u)' <=> Asleep(u)) /\ (Queued(u)' <=> Queued(u))
                        /\ Entering(u)' <=> Entering(u)
    BY <1>2, <1>3 DEF Asleep, Queued, Entering
  <1>7. TakersOk' BY <1>1, <1>2, <1>6 DEF TakersOk
  <1>8. GiversOk'
    <2>1. \A d \in Core : giving[d] # Null => giving[d] \in Task BY <1>1 DEF SemTypes
    <2>2. QED BY <1>1, <1>2, <1>6, <2>1 DEF GiversOk
  <1>9. LocksOk' BY <1>1, <1>2, <1>6 DEF LocksOk
  <1>10. WaitersOk'
    <2>1. \A i \in Sem : Waiters(i)' = Waiters(i) BY <1>2 DEF Waiters
    <2>2. waiters[s] \in Seq(Task) /\ Len(waiters[s]) = 0
      BY <1>1, <1>2 DEF WaitersOk, SemTypes
    <2>3. waiters[s] = <<>> BY <2>2
    <2>4. count[s] \in Nat /\ MaxCount[s] \in Nat BY <1>1, SemaphoreAssumption DEF SemTypes
    <2>5. count'[s] <= MaxCount[s] BY <1>1, <1>2, <2>4 DEF SemTypes
    <2>6. \A i \in Sem : i # s => count'[i] = count[i] BY <1>1, <1>2 DEF SemTypes
    <2>7. QED BY <1>1, <1>2, <2>1, <2>3, <2>5, <2>6 DEF WaitersOk
  <1>11. QED BY <1>4, <1>5, <1>7, <1>8, <1>9, <1>10 DEF SemInv

\* The list of s loses a task, and num_items follows.
LEMMA Dequeued ==
  ASSUME SemInv, NEW s \in Sem, NEW u \in Task, NEW w \in Seq(Task), NEW k,
         Grows(w, waiters[s], u, Len(waiters[s]) - 1, k)
  PROVE  /\ (num_items[s] - 1) % CountMod = Len(w)
         /\ count[s] = 0
  <1>1. SemTypes /\ WaitersOk BY SemParts
  <1> DEFINE v == waiters[s]
             n == Len(v)
  <1>2. /\ v \in Seq(Task) /\ IsInjective(v) /\ num_items[s] = n
        /\ count[s] \in Nat /\ (count[s] > 0 => v = <<>>)
    BY <1>1 DEF SemTypes, WaitersOk
  <1> HIDE DEF v
  <1>3. n \in Nat /\ DOMAIN v = 1 .. n BY <1>2
  <1>4. n - 1 \in Nat /\ DOMAIN w = 1 .. n - 1 BY DEF Grows, v
  <1>5. Len(w) = n - 1
    <2>1. DOMAIN w = 1 .. Len(w) /\ Len(w) \in Nat OBVIOUS
    <2> HIDE DEF n
    <2>2. QED BY <1>4, <2>1
  <1>6. v # <<>> BY <1>3, <1>4
  <1>7. n - 1 < CountMod /\ CountMod \in Nat BY <1>2, <1>3, ListFits, SemaphoreAssumption
  <1>8. (n - 1) % CountMod = n - 1 BY <1>4, <1>7, SmallMod
  <1>9. QED BY <1>2, <1>5, <1>6, <1>8

\* The longest waiting task is popped.
LEMMA GivePops ==
  ASSUME SemInv, NEW c \in Core, NEW s \in Sem, give_pop(c, s)
  PROVE  SemInv'
  <1> DEFINE w == Tail(waiters[s])
  <1>1. /\ InvOf(Shown) /\ SemTypes /\ TakersOk /\ GiversOk /\ LocksOk /\ WaitersOk
        /\ Null \notin Task /\ Null \notin Sem
    BY SemParts
  <1>2. /\ num_items[s] > 0 /\ ~ lock[s] /\ c \in Givers[s] /\ giving[c] = Null
        /\ giving'    = [giving EXCEPT ![c] = Head(waiters[s])]
        /\ waiters'   = [waiters EXCEPT ![s] = w]
        /\ num_items' = [num_items EXCEPT ![s] = (@ - 1) % CountMod]
        /\ lock'      = [lock EXCEPT ![s] = TRUE]
        /\ out'       = [out EXCEPT ![s] = @ - 1]
        /\ UNCHANGED vars /\ UNCHANGED <<blocked, state, current, irq>>
        /\ UNCHANGED <<count, container, reason, pc, target, timeout, deadline>>
    BY DEF give_pop, CanGive, Masked, vars
  <1>3. waiters[s] \in Seq(Task) /\ waiters[s] # <<>> /\ IsInjective(waiters[s])
          /\ ToSet(waiters[s]) = Waiters(s)
    BY <1>1, <1>2 DEF SemTypes, WaitersOk
  <1>4. PICK u \in Task : u = Head(waiters[s]) /\ u = waiters[s][1]
    BY <1>3
  <1>5. /\ u \in Waiters(s) /\ w \in Seq(Task) /\ IsInjective(w)
        /\ ToSet(w) = Waiters(s) \ {u}
        /\ Grows(w, waiters[s], u, Len(waiters[s]) - 1, 0)
    BY <1>3, <1>4, TailUnlinks
  <1>6. (num_items[s] - 1) % CountMod = Len(w) /\ count[s] = 0
    BY <1>5, Dequeued
  <1>7. giving' = [giving EXCEPT ![c] = u] BY <1>2, <1>4
  <1> HIDE DEF w
  <1>8. /\ pc[u] = "wait" /\ Asleep(u) /\ target[u] = s
        /\ \A d \in Core : giving[d] # u
    BY <1>1, <1>2, <1>5 DEF Waiters, TakersOk, LocksOk, Asleep, Queued, Entering
  <1>9. Shown' = Shown BY <1>2 DEF Shown
  <1>10. InvOf(Shown)' BY <1>1, <1>2, <1>9, SchedulerStands
  <1>11. SemTypes'
    <2>1. Len(w) \in Int BY <1>5
    <2>2. num_items' \in [Sem -> Int] BY <1>1, <1>2, <1>6, <2>1 DEF SemTypes
    <2>3. waiters' \in [Sem -> Seq(Task)] /\ giving' \in [Core -> Task \cup {Null}]
      BY <1>1, <1>2, <1>5, <1>7 DEF SemTypes
    <2>4. lock' \in [Sem -> BOOLEAN] /\ out' \in [Sem -> Int] BY <1>1, <1>2 DEF SemTypes
    <2>5. UNCHANGED <<state, count, container, reason, pc, target, timeout, deadline>> BY <1>2
    <2>6. QED BY <1>1, <2>2, <2>3, <2>4, <2>5 DEF SemTypes
  <1>12. \A v \in Task : /\ (Asleep(v)' <=> Asleep(v)) /\ (Queued(v)' <=> Queued(v))
                         /\ Entering(v)' <=> Entering(v)
    BY <1>2, <1>9 DEF Asleep, Queued, Entering
  <1>13. TakersOk' BY <1>1, <1>2, <1>12 DEF TakersOk
  <1>14. \A d \in Core : giving'[d] = IF d = c THEN u ELSE giving[d]
    BY <1>1, <1>7 DEF SemTypes
  <1>15. GiversOk'
    <2>1. \A d \in Core : giving[d] # Null => giving[d] \in Task BY <1>1 DEF SemTypes
    <2>2. QED BY <1>1, <1>2, <1>8, <1>12, <1>14, <2>1 DEF GiversOk
  <1>16. LocksOk'
    <2>1. lock'[s] /\ \A i \in Sem : lock[i] => lock'[i]
      BY <1>1, <1>2 DEF SemTypes
    <2>2. /\ \A v \in Task : Entering(v) => target[v] \in Sem /\ target[v] # s
          /\ \A d \in Core : giving[d] # Null => target[giving[d]] \in Sem /\ target[giving[d]] # s
      BY <1>1, <1>2 DEF TakersOk, GiversOk, LocksOk, SemTypes, Entering
    <2>3. QED BY <1>1, <1>2, <1>8, <1>12, <1>14, <2>1, <2>2 DEF LocksOk
  <1>17. WaitersOk'
    <2>1. \A i \in Sem : Waiters(i)' = IF i = s THEN Waiters(s) \ {u} ELSE Waiters(i)
      BY <1>1, <1>2, <1>5, <1>14 DEF Waiters
    <2>2. \A i \in Sem :
            /\ waiters'[i] = IF i = s THEN w ELSE waiters[i]
            /\ num_items'[i] = IF i = s THEN Len(w) ELSE num_items[i]
      BY <1>1, <1>2, <1>6 DEF SemTypes
    <2>3. count' = count BY <1>2
    <2>4. MaxCount[s] \in Nat /\ ~ (count[s] > 0) BY <1>6, SemaphoreAssumption
    <2>5. ASSUME NEW i \in Sem
          PROVE  /\ IsInjective(waiters'[i]) /\ ToSet(waiters'[i]) = Waiters(i)'
                 /\ num_items'[i] = Len(waiters'[i])
                 /\ count'[i] > 0 => waiters'[i] = <<>>
                 /\ count'[i] <= MaxCount[i]
      <3>1. CASE i = s
        <4>1. waiters'[i] = w /\ num_items'[i] = Len(w) /\ Waiters(i)' = Waiters(s) \ {u}
          BY <2>1, <2>2, <3>1
        <4>2. count'[i] = 0 /\ MaxCount[i] \in Nat BY <1>6, <2>3, <2>4, <3>1
        <4>3. QED BY <1>5, <4>1, <4>2
      <3>2. CASE i # s
        <4>1. waiters'[i] = waiters[i] /\ num_items'[i] = num_items[i] /\ Waiters(i)' = Waiters(i)
          BY <2>1, <2>2, <3>2
        <4>2. QED BY <1>1, <2>3, <4>1 DEF WaitersOk
      <3>3. QED BY <3>1, <3>2
    <2>6. QED BY <2>5 DEF WaitersOk
  <1>18. QED BY <1>10, <1>11, <1>13, <1>15, <1>16, <1>17 DEF SemInv

\* It is made ready and told that it has the token.
LEMMA GiveWakes ==
  ASSUME SemInv, NEW c \in Core, give_wake(c)
  PROVE  SemInv'
  <1>1. /\ InvOf(Shown) /\ SemTypes /\ TakersOk /\ GiversOk /\ LocksOk /\ WaitersOk
        /\ Null \notin Task /\ Null \notin Sem
    BY SemParts
  <1>2. PICK u \in Task : u = giving[c]
    BY <1>1 DEF give_wake, SemTypes
  <1>3. /\ pc[u] = "wait" /\ Asleep(u) /\ target[u] \in Sem /\ lock[target[u]]
        /\ u # Null /\ giving[c] # Null /\ container[u] = target[u]
    BY <1>1, <1>2 DEF GiversOk, LocksOk, TakersOk, Queued
  <1>4. PICK s \in Sem : s = target[u] BY <1>3
  <1>5. /\ MakeReady(u)
        /\ state' = [state EXCEPT ![u] = "READY"]
        /\ container' = [container EXCEPT ![u] = Null]
        /\ reason'    = [reason EXCEPT ![u] = TRUE]
        /\ lock'      = [lock EXCEPT ![s] = FALSE]
        /\ giving'    = [giving EXCEPT ![c] = Null]
        /\ UNCHANGED <<count, waiters, num_items, pc, target, timeout, deadline, out>>
        /\ UNCHANGED <<current, irq>>
    BY <1>2, <1>4 DEF give_wake, HandToken, MakeReady
  <1>6. Shown[u] = "BLOCKED" /\ Shown' = [Shown EXCEPT ![u] = "READY"]
    BY <1>1, <1>3, <1>5 DEF Shown, Asleep, SemTypes
  <1>7. InvOf(Shown)' /\ \A d \in Core : ToSet(blocked'[d]) \subseteq ToSet(blocked[d])
    BY <1>1, <1>5, <1>6, MakeReadyInv
  <1>8. SemTypes' BY <1>1, <1>5 DEF SemTypes, TaskState
  <1>9. /\ ~ Asleep(u)' /\ ~ Queued(u)' /\ ~ Entering(u)
        /\ \A v \in Task : Entering(v)' <=> Entering(v)
        /\ \A v \in Task : v # u =>
             /\ (Asleep(v)' <=> Asleep(v)) /\ (Queued(v)' <=> Queued(v))
             /\ state'[v] = state[v]
    BY <1>1, <1>3, <1>5, <1>6, InvParts DEF Asleep, Queued, Entering, SemTypes, Types
  <1>10. \A d \in Core : /\ giving'[d] = IF d = c THEN Null ELSE giving[d]
                         /\ giving[d] # Null => giving[d] \in Task
                         /\ d # c /\ giving[d] # Null => giving[d] # u /\ target[giving[d]] # s
    BY <1>1, <1>2, <1>3, <1>4, <1>5 DEF SemTypes, LocksOk
  <1>11. TakersOk'
    <2>1. \A v \in Task : CoreOf[v] \in Core BY SchedulerAssumption
    <2>2. \A v \in Task : reason'[v] => v = u \/ reason[v] BY <1>1, <1>5 DEF SemTypes
    <2>3. \A v \in Task : container'[v] = IF v = u THEN Null ELSE container[v]
      BY <1>1, <1>5 DEF SemTypes
    <2>4. UNCHANGED <<pc, target, timeout, current, irq>> BY <1>5
    <2>5. ASSUME NEW v \in Task, v # u
          PROVE  /\ target[v] \in IF pc[v] = "idle" THEN {Null} ELSE Sem
                 /\ pc[v] # "idle" => timeout[v] \in Timeouts[target[v]][v]
                 /\ container'[v] = IF Queued(v)' THEN target[v] ELSE Null
                 /\ Entering(v)' => current[CoreOf[v]] = v
                 /\ pc[v] = "unready" => state'[v] # "BLOCKED" /\ irq[CoreOf[v]] = "none"
                 /\ reason'[v] => pc[v] = "wait" /\ ~ Asleep(v)'
                 /\ Asleep(v)' /\ v \in ToSet(blocked'[CoreOf[v]]) => timeout[v] > 0
      BY <1>1, <1>7, <1>9, <2>1, <2>2, <2>3, <2>5 DEF TakersOk
    <2>6. /\ pc[u] = "wait" /\ target[u] \in Sem /\ timeout[u] \in Timeouts[target[u]][u]
          /\ ~ Asleep(u)' /\ ~ Queued(u)' /\ ~ Entering(u)' /\ container'[u] = Null
      BY <1>1, <1>3, <1>9, <2>3 DEF TakersOk
    <2>7. QED BY <2>4, <2>5, <2>6 DEF TakersOk
  <1>12. GiversOk'
    BY <1>1, <1>5, <1>9, <1>10 DEF GiversOk
  <1>13. LocksOk'
    <2>1. \A v \in Task : Entering(v) => target[v] \in Sem /\ target[v] # s
      BY <1>1, <1>2, <1>3, <1>4 DEF TakersOk, LocksOk, Entering
    <2>2. \A d \in Core : giving[d] # Null => target[giving[d]] \in Sem
      BY <1>1, <1>10 DEF TakersOk, GiversOk
    <2>3. \A i \in Sem : i # s => lock'[i] = lock[i] BY <1>1, <1>5 DEF SemTypes
    <2>4. QED BY <1>1, <1>5, <1>9, <1>10, <2>1, <2>2, <2>3 DEF LocksOk
  <1>14. WaitersOk'
    <2>1. \A i \in Sem : Waiters(i)' = Waiters(i)
      <3> SUFFICES ASSUME NEW i \in Sem, NEW v \in Task PROVE v \in Waiters(i)' <=> v \in Waiters(i)
        BY DEF Waiters
      <3>1. CASE v = u
        <4>1. container'[u] = Null BY <1>1, <1>5 DEF SemTypes
        <4>2. QED BY <1>1, <1>2, <3>1, <4>1 DEF Waiters
      <3>2. CASE v # u
        <4>1. container'[v] = container[v] BY <1>1, <1>5, <3>2 DEF SemTypes
        <4>2. \A d \in Core : giving'[d] # v <=> giving[d] # v
          BY <1>1, <1>2, <1>10, <3>2
        <4>3. QED BY <4>1, <4>2 DEF Waiters
      <3>3. QED BY <3>1, <3>2
    <2>2. QED BY <1>1, <1>5, <2>1 DEF WaitersOk
  <1>15. QED BY <1>7, <1>8, <1>11, <1>12, <1>13, <1>14 DEF SemInv

-------------------------------------------------------------------------------
\* The scheduler's own steps

\* A step that wakes or puts to sleep nobody who is in semaphore_take, and takes
\* no core away from a task that is about to block.
LEMMA KernelStands ==
  ASSUME SemInv, InvOf(Shown)', state' \in [Task -> TaskState], deadline' \in [Task -> Nat],
         UNCHANGED <<count, waiters, num_items, container, reason, lock, pc, target, timeout,
                     giving, out>>,
         \A u \in Task : pc[u] \in {"block", "wait"} =>
           /\ (Shown')[u] = "BLOCKED" <=> Shown[u] = "BLOCKED"
           /\ u \in ToSet(blocked'[CoreOf[u]]) => u \in ToSet(blocked[CoreOf[u]]),
         \A u \in Task : Entering(u) => current'[CoreOf[u]] = u,
         \A u \in Task : pc[u] = "unready" => state'[u] # "BLOCKED" /\ irq'[CoreOf[u]] = "none"
  PROVE  SemInv'
  <1>1. /\ SemTypes /\ TakersOk /\ GiversOk /\ LocksOk /\ WaitersOk
    BY SemParts
  <1>2. SemTypes' BY <1>1 DEF SemTypes
  <1>3. \A u \in Task : /\ (Asleep(u)' <=> Asleep(u)) /\ (Queued(u)' <=> Queued(u))
                        /\ Entering(u)' <=> Entering(u)
    BY DEF Asleep, Queued, Entering
  <1>4. TakersOk'
    <2>1. \A u \in Task : Asleep(u) => pc[u] \in {"block", "wait"} BY DEF Asleep
    <2>2. QED BY <1>1, <1>3, <2>1 DEF TakersOk
  <1>5. GiversOk'
    <2>1. \A d \in Core : giving[d] # Null => giving[d] \in Task BY <1>1 DEF SemTypes
    <2>2. QED BY <1>1, <1>3, <2>1 DEF GiversOk
  <1>6. LocksOk' BY <1>1, <1>3 DEF LocksOk
  <1>7. WaitersOk'
    <2>1. \A i \in Sem : Waiters(i)' = Waiters(i) BY DEF Waiters
    <2>2. QED BY <1>1, <2>1 DEF WaitersOk
  <1>8. QED BY <1>2, <1>4, <1>5, <1>6, <1>7 DEF SemInv

\* The core of a task that is about to block takes no interrupt.
LEMMA EnteringMasks ==
  ASSUME SemInv, NEW u \in Task, Entering(u)
  PROVE  Masked(CoreOf[u])
  <1>1. TakersOk /\ Null \notin Task BY SemParts
  <1>2. QED BY <1>1 DEF TakersOk, Entering, Masked

\* scheduler_start and scheduler_switch_context.
LEMMA SemSwitches ==
  ASSUME SemInv, NEW c \in Core, ~ Masked(c),
         scheduler_start(c) \/ scheduler_switch_context(c), UNCHANGED semVars
  PROVE  SemInv'
  <1>1. InvOf(Shown) /\ SemTypes /\ TakersOk /\ Null \notin Task BY SemParts
  <1>2. Types(Shown) /\ Linked(ready, On(Shown)) BY <1>1, InvParts
  <1>3. /\ Dispatch(c) /\ UNCHANGED <<blocked, priority, remaining>>
        /\ irq' \in [Core -> IrqStage] /\ \A d \in Core : irq'[d] = "switch" => irq[d] = "switch"
        /\ \A d \in Core : d # c => irq'[d] = irq[d]
    <2>1. irq \in [Core -> IrqStage] BY <1>2 DEF Types
    <2>2. CASE scheduler_start(c) BY <2>1, <2>2 DEF scheduler_start
    <2>3. CASE scheduler_switch_context(c)
      BY <2>1, <2>3 DEF scheduler_switch_context, IrqStage
    <2>4. QED BY <2>2, <2>3
  <1>4. state \in [Task -> TaskState] /\ pc \in [Task -> {"idle", "try", "unready", "block", "wait"}]
    BY <1>1 DEF SemTypes
  <1>5. PICK next \in Task \cup {Null} :
          /\ Chosen(Shown, c, next)
          /\ current' = [current EXCEPT ![c] = next]
          /\ state' = Switched(state, c, next)
    BY <1>2, <1>3, <1>4, DispatchFacts
  <1>6. ready' = [ready EXCEPT ![c] = RotatedLists(c)]
    BY <1>2, <1>3, <1>4, DispatchFacts
  <1>7. pc' = pc /\ deadline' = deadline BY DEF semVars
  <1>8. next \in Task => Shown[next] \in {"READY", "RUNNING"}
    <2>1. \A t \in Task : On(Shown)[t] \in Priority <=> Shown[t] \in {"READY", "RUNNING"}
      BY <1>2, OnFacts
    <2>2. QED BY <1>1, <1>5, <2>1 DEF Chosen
  <1>9. Shown' = Switched(Shown, c, next)
    <2>1. \A t \in Task : pc[t] = "block" => t # next BY <1>1, <1>8 DEF Shown
    <2>2. QED BY <1>5, <1>7, <2>1 DEF Shown, Switched
  <1>10. InvOf(Shown)'
    BY <1>1, <1>3, <1>5, <1>6, <1>9, DispatchInv
  <1>11. \A u \in Task : (Shown')[u] = "BLOCKED" <=> Shown[u] = "BLOCKED"
    BY <1>8, <1>9 DEF Switched
  <1>12. /\ \A u \in Task : Entering(u) => current'[CoreOf[u]] = u
         /\ \A u \in Task : pc[u] = "unready" => state'[u] # "BLOCKED" /\ irq'[CoreOf[u]] = "none"
    <2>1. \A u \in Task : Entering(u) => current[CoreOf[u]] = u /\ CoreOf[u] # c
      BY <1>1, EnteringMasks DEF TakersOk
    <2>2. current \in [Core -> Task \cup {Null}] /\ \A u \in Task : CoreOf[u] \in Core
      BY <1>2, SchedulerAssumption DEF Types
    <2>3. \A u \in Task : Entering(u) => current'[CoreOf[u]] = u
      BY <1>5, <2>1, <2>2
    <2>4. \A u \in Task : state'[u] = "BLOCKED" => state[u] = "BLOCKED"
      BY <1>4, <1>5 DEF Switched
    <2>5. \A u \in Task : pc[u] = "unready" =>
            state[u] # "BLOCKED" /\ irq[CoreOf[u]] = "none" /\ CoreOf[u] # c
      BY <1>1, <2>1 DEF TakersOk, Entering
    <2>6. QED BY <1>3, <2>2, <2>3, <2>4, <2>5
  <1>13. state' \in [Task -> TaskState] BY <1>4, <1>5 DEF Switched, TaskState
  <1>14. deadline' \in [Task -> Nat] BY <1>1, <1>7 DEF SemTypes
  <1>15. UNCHANGED <<count, waiters, num_items, container, reason, lock, pc, target, timeout,
                     giving, out>>
    BY DEF semVars
  <1>16. QED BY <1>3, <1>10, <1>11, <1>12, <1>13, <1>14, <1>15, KernelStands

\* The tick up to the loop, and the end of its handler.
LEMMA SemTicks ==
  ASSUME SemInv, NEW c \in Core, ~ Masked(c), Tick(c) \/ TickDone(c),
         deadline' \in [Task -> Nat],
         UNCHANGED <<count, waiters, num_items, container, reason, lock, pc, target, timeout,
                     giving, out>>
  PROVE  SemInv'
  <1>1. InvOf(Shown) /\ SemTypes /\ TakersOk BY SemParts
  <1>2. UNCHANGED <<blocked, state, current>> BY DEF Tick, TickDone
  <1>3. Shown' = Shown BY <1>2 DEF Shown
  <1>4. InvOf(Shown)' BY <1>1, <1>3, TickInv, TickDoneInv
  <1>5. irq \in [Core -> IrqStage] /\ CoreOf \in [Task -> Core]
    BY <1>1, SemParts, InvParts DEF Types
  <1>6. \A d \in Core : d # c => irq'[d] = irq[d] BY <1>5 DEF Tick, TickDone
  <1>7. \A u \in Task : pc[u] = "unready" => CoreOf[u] # c
    BY EnteringMasks DEF Entering
  <1>8. \A u \in Task : pc[u] = "unready" => state'[u] # "BLOCKED" /\ irq'[CoreOf[u]] = "none"
    BY <1>1, <1>2, <1>5, <1>6, <1>7 DEF TakersOk
  <1>9. QED BY <1>1, <1>2, <1>3, <1>4, <1>8, KernelStands DEF SemTypes, TakersOk

\* task_create.
LEMMA SemCreates ==
  ASSUME SemInv, NEW t \in Task, task_create(t), UNCHANGED semVars
  PROVE  SemInv'
  <1>1. InvOf(Shown) /\ SemTypes /\ TakersOk /\ Null \notin Task BY SemParts
  <1>2. /\ state[t] = "NONE" /\ current[CoreOf[t]] = Null
        /\ state' = [state EXCEPT ![t] = "READY"] /\ UNCHANGED <<blocked, current, irq>>
    BY DEF task_create
  <1>3. UNCHANGED <<count, waiters, num_items, container, reason, lock, pc, target, timeout,
                    giving, out>> /\ deadline' = deadline
    BY DEF semVars
  <1>4. pc[t] # "block" BY <1>1, <1>2 DEF TakersOk, Entering
  <1>5. Shown[t] = "NONE" /\ Shown' = [Shown EXCEPT ![t] = "READY"]
    BY <1>1, <1>2, <1>3, <1>4 DEF Shown, SemTypes
  <1>6. InvOf(Shown)' BY <1>1, <1>5, CreateInv
  <1>7. \A u \in Task : (Shown')[u] = "BLOCKED" <=> Shown[u] = "BLOCKED"
    BY <1>5 DEF Shown
  <1>8. state' \in [Task -> TaskState] BY <1>1, <1>2 DEF SemTypes, TaskState
  <1>9. deadline' \in [Task -> Nat] BY <1>1, <1>3 DEF SemTypes
  <1>10. /\ \A u \in Task : Entering(u) => current'[CoreOf[u]] = u
         /\ \A u \in Task : pc[u] = "unready" => state'[u] # "BLOCKED" /\ irq'[CoreOf[u]] = "none"
    BY <1>1, <1>2 DEF TakersOk, SemTypes
  <1>11. QED BY <1>2, <1>3, <1>6, <1>7, <1>8, <1>9, <1>10, KernelStands

\* task_delay_ms and task_delay_until_ms.
LEMMA SemDelays ==
  ASSUME SemInv, NEW t \in Task, pc[t] = "idle", NEW r \in Delays[t], block_until(t, r),
         UNCHANGED semVars
  PROVE  SemInv'
  <1>1. InvOf(Shown) /\ SemTypes /\ TakersOk /\ Null \notin Task /\ CoreOf \in [Task -> Core]
    BY SemParts
  <1>2. /\ state[t] # "BLOCKED" /\ irq[CoreOf[t]] = "none" /\ Sleep(t, r)
        /\ state' = [state EXCEPT ![t] = "BLOCKED"] /\ UNCHANGED <<current, irq>>
    BY DEF block_until, Executing, Sleep
  <1>3. UNCHANGED <<count, waiters, num_items, container, reason, lock, pc, target, timeout,
                    giving, out>> /\ deadline' = deadline
    BY DEF semVars
  <1>4. Shown[t] # "BLOCKED" /\ Shown' = [Shown EXCEPT ![t] = "BLOCKED"]
    BY <1>1, <1>2, <1>3 DEF Shown, SemTypes
  <1>5. r \in Int BY SchedulerAssumption
  <1>6. GoesToSleep(Shown, Shown', t, r) BY <1>2, <1>4 DEF Sleep, GoesToSleep
  <1>7. InvOf(Shown)' /\ ToSet(blocked'[CoreOf[t]]) = ToSet(blocked[CoreOf[t]]) \cup {t}
    BY <1>1, <1>2, <1>4, <1>5, <1>6, SleepInv
  <1>8. \A c \in Core : c # CoreOf[t] => blocked'[c] = blocked[c]
    BY <1>1, <1>6, InvParts DEF GoesToSleep, AddToBlocked, Types
  <1>9. \A u \in Task : pc[u] \in {"block", "wait"} =>
          /\ (Shown')[u] = "BLOCKED" <=> Shown[u] = "BLOCKED"
          /\ u \in ToSet(blocked'[CoreOf[u]]) => u \in ToSet(blocked[CoreOf[u]])
    <2> SUFFICES ASSUME NEW u \in Task, u # t
                 PROVE  /\ (Shown')[u] = "BLOCKED" <=> Shown[u] = "BLOCKED"
                        /\ u \in ToSet(blocked'[CoreOf[u]]) => u \in ToSet(blocked[CoreOf[u]])
      OBVIOUS
    <2>1. (Shown')[u] = Shown[u] BY <1>4 DEF Shown
    <2>2. CASE CoreOf[u] = CoreOf[t] BY <1>7, <2>1, <2>2
    <2>3. CASE CoreOf[u] # CoreOf[t] BY <1>1, <1>8, <2>1, <2>3
    <2>4. QED BY <2>2, <2>3
  <1>10. state' \in [Task -> TaskState] BY <1>1, <1>2 DEF SemTypes, TaskState
  <1>11. deadline' \in [Task -> Nat] BY <1>1, <1>3 DEF SemTypes
  <1>12. /\ \A u \in Task : Entering(u) => current'[CoreOf[u]] = u
         /\ \A u \in Task : pc[u] = "unready" => state'[u] # "BLOCKED" /\ irq'[CoreOf[u]] = "none"
    BY <1>1, <1>2 DEF TakersOk, SemTypes
  <1>13. QED BY <1>3, <1>7, <1>9, <1>10, <1>11, <1>12, KernelStands

\* The tick handler wakes a sleeper: one that only slept, ...
LEMMA SemWakesSleeper ==
  ASSUME SemInv, NEW c \in Core, ~ Masked(c), TickWake(c), container[blocked[c][1]] = Null,
         TimeoutUnlink(blocked[c][1]),
         UNCHANGED <<count, reason, lock, pc, target, timeout, deadline, giving, out>>
  PROVE  SemInv'
  <1> DEFINE t == blocked[c][1]
  <1>1. InvOf(Shown) /\ SemTypes /\ TakersOk /\ Null \notin Task /\ Null \notin Sem
          /\ CoreOf \in [Task -> Core]
    BY SemParts
  <1>2. /\ state' = [state EXCEPT ![t] = "READY"] /\ UNCHANGED <<current, irq>>
        /\ UNCHANGED <<waiters, num_items, container>>
    BY DEF TickWake, TimeoutUnlink
  <1>3. /\ t \in Task /\ CoreOf[t] = c /\ t \in ToSet(blocked[c]) /\ Shown[t] = "BLOCKED"
        /\ ToSet(blocked'[c]) = ToSet(blocked[c]) \ {t}
        /\ \A d \in Core : d # c => blocked'[d] = blocked[d]
    BY <1>1, TickWakeHead
  <1>4. pc[t] # "block" BY <1>3, EnteringMasks DEF Entering
  <1>5. pc[t] # "wait" BY <1>1, <1>3 DEF TakersOk, Asleep, Queued
  <1> HIDE DEF t
  <1>6. Shown' = [Shown EXCEPT ![t] = "READY"]
    BY <1>1, <1>2, <1>3, <1>4 DEF Shown, SemTypes
  <1>7. InvOf(Shown)' BY <1>1, <1>6, TickWakeInv DEF t
  <1>8. \A u \in Task : pc[u] \in {"block", "wait"} =>
          /\ (Shown')[u] = "BLOCKED" <=> Shown[u] = "BLOCKED"
          /\ u \in ToSet(blocked'[CoreOf[u]]) => u \in ToSet(blocked[CoreOf[u]])
    <2> SUFFICES ASSUME NEW u \in Task, u # t
                 PROVE  /\ (Shown')[u] = "BLOCKED" <=> Shown[u] = "BLOCKED"
                        /\ u \in ToSet(blocked'[CoreOf[u]]) => u \in ToSet(blocked[CoreOf[u]])
      BY <1>4, <1>5
    <2>1. (Shown')[u] = Shown[u] BY <1>6 DEF Shown
    <2>2. QED BY <1>1, <1>3, <2>1
  <1>9. state' \in [Task -> TaskState] BY <1>1, <1>2 DEF SemTypes, TaskState
  <1>10. deadline' \in [Task -> Nat] BY <1>1 DEF SemTypes
  <1>11. /\ \A u \in Task : Entering(u) => current'[CoreOf[u]] = u
         /\ \A u \in Task : pc[u] = "unready" => state'[u] # "BLOCKED" /\ irq'[CoreOf[u]] = "none"
    BY <1>1, <1>2 DEF TakersOk, SemTypes
  <1>12. QED BY <1>2, <1>7, <1>8, <1>9, <1>10, <1>11, KernelStands

\* ... or one whose timeout has passed, which no give can have popped.
LEMMA SemTimesOut ==
  ASSUME OneCoreTimeouts, SemInv, NEW c \in Core, ~ Masked(c), TickWake(c),
         container[blocked[c][1]] # Null, TimeoutUnlink(blocked[c][1]),
         UNCHANGED <<count, reason, lock, pc, target, timeout, deadline, giving, out>>
  PROVE  SemInv'
  <1>1. /\ InvOf(Shown) /\ SemTypes /\ TakersOk /\ GiversOk /\ LocksOk /\ WaitersOk
        /\ Null \notin Task /\ Null \notin Sem /\ CoreOf \in [Task -> Core]
    BY SemParts
  <1>2. /\ blocked[c][1] \in Task /\ CoreOf[blocked[c][1]] = c
        /\ blocked[c][1] \in ToSet(blocked[c]) /\ Shown[blocked[c][1]] = "BLOCKED"
        /\ ToSet(blocked'[c]) = ToSet(blocked[c]) \ {blocked[c][1]}
        /\ \A d \in Core : d # c => blocked'[d] = blocked[d]
    BY <1>1, TickWakeHead
  <1>3. PICK t \in Task : t = blocked[c][1] BY <1>2
  <1>4. /\ CoreOf[t] = c /\ t \in ToSet(blocked[c]) /\ Shown[t] = "BLOCKED"
        /\ ToSet(blocked'[c]) = ToSet(blocked[c]) \ {t}
        /\ container[t] # Null /\ TimeoutUnlink(t)
        /\ state' = [state EXCEPT ![t] = "READY"] /\ UNCHANGED <<current, irq>>
    BY <1>2, <1>3 DEF TickWake
  <1>5. PICK s \in Sem : s = container[t] BY <1>1, <1>4 DEF SemTypes
  <1>6. /\ pc[t] = "wait" /\ Asleep(t) /\ target[t] = s
        /\ timeout[t] \in Timeouts[s][t] /\ timeout[t] > 0 /\ ~ reason[t]
    <2>1. ~ Entering(t) BY <1>4, EnteringMasks
    <2>2. QED BY <1>1, <1>4, <1>5, <2>1 DEF TakersOk, Asleep, Queued, Entering
  <1>7. \A d \in Core : giving[d] # t
    <2> SUFFICES ASSUME NEW d \in Core, giving[d] = t PROVE FALSE
      OBVIOUS
    <2>1. d \in Givers[s] BY <1>1, <1>6 DEF GiversOk
    <2>2. Givers[s] \subseteq {c} BY <1>4, <1>6 DEF OneCoreTimeouts
    <2>3. QED BY <1>1, <2>1, <2>2 DEF Masked
  <1>8. t \in Waiters(s) BY <1>5, <1>7 DEF Waiters
  <1> DEFINE w == Unlinked(waiters[s], t)
  <1>9. waiters[s] \in Seq(Task) /\ IsInjective(waiters[s]) /\ ToSet(waiters[s]) = Waiters(s)
    BY <1>1 DEF SemTypes, WaitersOk
  <1>10. /\ w \in Seq(Task) /\ IsInjective(w) /\ ToSet(w) = Waiters(s) \ {t}
         /\ Grows(w, waiters[s], t, Len(waiters[s]) - 1, PosOf(waiters[s], t) - 1)
    BY <1>8, <1>9, Unlinks
  <1>11. /\ waiters'   = [waiters EXCEPT ![s] = w]
         /\ num_items' = [num_items EXCEPT ![s] = (@ - 1) % CountMod]
         /\ container' = [container EXCEPT ![t] = Null]
    BY <1>4, <1>5, <1>8, <1>9 DEF TimeoutUnlink
  <1> HIDE DEF w
  <1>12. (num_items[s] - 1) % CountMod = Len(w) /\ count[s] = 0
    BY <1>10, Dequeued
  <1>13. Shown' = [Shown EXCEPT ![t] = "READY"]
    BY <1>1, <1>4, <1>6 DEF Shown, SemTypes
  <1>14. InvOf(Shown)' BY <1>1, <1>3, <1>13, TickWakeInv
  <1>15. SemTypes'
    <2>1. Len(w) \in Int BY <1>10
    <2>2. num_items' \in [Sem -> Int] BY <1>1, <1>11, <1>12, <2>1 DEF SemTypes
    <2>3. waiters' \in [Sem -> Seq(Task)] /\ container' \in [Task -> Sem \cup {Null}]
      BY <1>1, <1>10, <1>11 DEF SemTypes
    <2>4. state' \in [Task -> TaskState] BY <1>1, <1>4 DEF SemTypes, TaskState
    <2>5. QED BY <1>1, <2>2, <2>3, <2>4 DEF SemTypes
  <1>16. /\ ~ Asleep(t)' /\ ~ Queued(t)' /\ ~ Entering(t)'
         /\ \A u \in Task : Entering(u)' <=> Entering(u)
         /\ \A u \in Task : u # t =>
              /\ (Asleep(u)' <=> Asleep(u)) /\ (Queued(u)' <=> Queued(u))
              /\ state'[u] = state[u]
    <2>1. \A u \in Task : (Shown')[u] = IF u = t THEN "READY" ELSE Shown[u]
      BY <1>13 DEF Shown
    <2>2. QED BY <1>1, <1>4, <1>6, <2>1 DEF Asleep, Queued, Entering, SemTypes
  <1>17. TakersOk'
    <2>1. \A u \in Task : container'[u] = IF u = t THEN Null ELSE container[u]
      BY <1>1, <1>11 DEF SemTypes
    <2>2. \A u \in Task : u \in ToSet(blocked'[CoreOf[u]]) => u \in ToSet(blocked[CoreOf[u]])
      BY <1>1, <1>2, <1>4
    <2>3. ASSUME NEW u \in Task, u # t
          PROVE  /\ target[u] \in IF pc[u] = "idle" THEN {Null} ELSE Sem
                 /\ pc[u] # "idle" => timeout[u] \in Timeouts[target[u]][u]
                 /\ container'[u] = IF Queued(u)' THEN target[u] ELSE Null
                 /\ Entering(u)' => current[CoreOf[u]] = u
                 /\ pc[u] = "unready" => state'[u] # "BLOCKED" /\ irq[CoreOf[u]] = "none"
                 /\ reason[u] => pc[u] = "wait" /\ ~ Asleep(u)'
                 /\ Asleep(u)' /\ u \in ToSet(blocked'[CoreOf[u]]) => timeout[u] > 0
      BY <1>1, <1>16, <2>1, <2>2, <2>3 DEF TakersOk
    <2>4. QED BY <1>4, <1>6, <1>16, <2>1, <2>3 DEF TakersOk
  <1>18. GiversOk'
    <2>1. \A d \in Core : giving[d] # Null => giving[d] \in Task BY <1>1 DEF SemTypes
    <2>2. QED BY <1>1, <1>7, <1>16, <2>1 DEF GiversOk
  <1>19. LocksOk' BY <1>1, <1>16 DEF LocksOk
  <1>20. WaitersOk'
    <2>1. \A u \in Task : container'[u] = IF u = t THEN Null ELSE container[u]
      BY <1>1, <1>11 DEF SemTypes
    <2>2. \A i \in Sem : Waiters(i)' = IF i = s THEN Waiters(s) \ {t} ELSE Waiters(i)
      BY <1>1, <1>5, <2>1 DEF Waiters
    <2>3. \A i \in Sem :
            /\ waiters'[i] = IF i = s THEN w ELSE waiters[i]
            /\ num_items'[i] = IF i = s THEN Len(w) ELSE num_items[i]
      BY <1>1, <1>11, <1>12 DEF SemTypes
    <2>4. ASSUME NEW i \in Sem
          PROVE  /\ IsInjective(waiters'[i]) /\ ToSet(waiters'[i]) = Waiters(i)'
                 /\ num_items'[i] = Len(waiters'[i])
                 /\ count[i] > 0 => waiters'[i] = <<>>
                 /\ count[i] <= MaxCount[i]
      <3>1. CASE i = s
        <4>1. waiters'[i] = w /\ num_items'[i] = Len(w) /\ Waiters(i)' = Waiters(s) \ {t}
          BY <2>2, <2>3, <3>1
        <4>2. count[i] = 0 /\ MaxCount[i] \in Nat BY <1>12, <3>1, SemaphoreAssumption
        <4>3. QED BY <1>10, <4>1, <4>2
      <3>2. CASE i # s
        <4>1. waiters'[i] = waiters[i] /\ num_items'[i] = num_items[i] /\ Waiters(i)' = Waiters(i)
          BY <2>2, <2>3, <3>2
        <4>2. QED BY <1>1, <4>1 DEF WaitersOk
      <3>3. QED BY <3>1, <3>2
    <2>5. QED BY <2>4 DEF WaitersOk
  <1>21. QED BY <1>14, <1>15, <1>17, <1>18, <1>19, <1>20 DEF SemInv

\* A mutex call changes the priority of a task, which is not about to block.
LEMMA SemBoosts ==
  ASSUME OwnCoreBoosts, SemInv, NEW c \in Core, NEW t \in Task, NEW p \in Priority, boost(c, t, p)
  PROVE  SemInv'
  <1>1. InvOf(Shown) /\ SemTypes /\ TakersOk /\ CoreOf \in [Task -> Core]
    BY SemParts
  <1>2. /\ c \in Boosters[t] /\ ~ Masked(c)
        /\ ready'    = ReadyAtPriority(ready, t, p)
        /\ blocked'  = IF state[t] = "BLOCKED" THEN blocked ELSE RemoveFromBlocked(blocked, t)
        /\ priority' = [priority EXCEPT ![t] = p]
        /\ UNCHANGED <<state, remaining, current, irq>> /\ UNCHANGED semVars
    BY DEF boost, InTask
  <1>3. UNCHANGED <<count, waiters, num_items, container, reason, lock, pc, target, timeout,
                    giving, out>> /\ deadline' = deadline
    BY <1>2 DEF semVars
  <1>4. ~ Entering(t)
    <2> SUFFICES ASSUME Entering(t) PROVE FALSE
      OBVIOUS
    <2>1. target[t] \in Sem /\ timeout[t] \in Timeouts[target[t]][t]
      BY <1>1 DEF TakersOk, Entering
    <2>2. CoreOf[t] = c BY <1>2, <2>1 DEF Taker, OwnCoreBoosts
    <2>3. QED BY <1>2, <2>2, EnteringMasks
  <1>5. Shown' = Shown /\ Shown[t] = state[t]
    BY <1>2, <1>3, <1>4 DEF Shown, Entering
  <1>6. blocked' = blocked
    <2>1. state[t] # "BLOCKED" => t \notin ToSet(blocked[CoreOf[t]])
      BY <1>1, <1>5, InvParts DEF SleepersOf
    <2>2. QED BY <1>2, <2>1 DEF RemoveFromBlocked
  <1>7. InvOf(Shown)' BY <1>1, <1>2, <1>5, <1>6, MovedInv
  <1>8. /\ \A u \in Task : Entering(u) => current'[CoreOf[u]] = u
        /\ \A u \in Task : pc[u] = "unready" => state'[u] # "BLOCKED" /\ irq'[CoreOf[u]] = "none"
    BY <1>1, <1>2 DEF TakersOk
  <1>9. state' \in [Task -> TaskState] /\ deadline' \in [Task -> Nat]
    BY <1>1, <1>2, <1>3 DEF SemTypes
  <1>10. QED BY <1>3, <1>5, <1>6, <1>7, <1>8, <1>9, KernelStands

-------------------------------------------------------------------------------
\* The invariant, and what it says.

\* Every step of tasks, ticks and givers keeps the invariant.
LEMMA SemStep ==
  ASSUME OneCoreTimeouts, OwnCoreBoosts, SemInv, [SemNext]_allVars
  PROVE  SemInv'
  <1>1. SemTypes BY SemParts
  <1>2. ASSUME NEW c \in Core, SemKernel(c) PROVE SemInv'
    <2>0. ~ Masked(c) BY <1>2 DEF SemKernel
    <2>1. CASE (scheduler_start(c) \/ scheduler_switch_context(c)) /\ UNCHANGED semVars
      BY <2>0, <2>1, SemSwitches
    <2>2. CASE TickDone(c) /\ UNCHANGED semVars
      <3>1. deadline' \in [Task -> Nat] BY <1>1, <2>2 DEF SemTypes, semVars
      <3>2. QED BY <2>0, <2>2, <3>1, SemTicks DEF semVars
    <2>3. CASE /\ Tick(c)
               /\ deadline' = [t \in Task |->
                    IF CoreOf[t] = c /\ deadline[t] > 0 THEN deadline[t] - 1 ELSE deadline[t]]
               /\ UNCHANGED <<count, waiters, num_items, container, reason, lock, pc, target,
                              timeout, giving, out>>
      <3>1. deadline' \in [Task -> Nat] BY <1>1, <2>3 DEF SemTypes
      <3>2. QED BY <2>0, <2>3, <3>1, SemTicks
    <2>4. CASE /\ TickWake(c) /\ TimeoutUnlink(blocked[c][1])
               /\ UNCHANGED <<count, reason, lock, pc, target, timeout, deadline, giving, out>>
      BY <2>0, <2>4, SemWakesSleeper, SemTimesOut
    <2>5. QED BY <1>2, <2>1, <2>2, <2>3, <2>4 DEF SemKernel
  <1>3. ASSUME NEW c \in Core,
               give_wake(c) \/ \E s \in Sem : give_count(c, s) \/ give_pop(c, s)
        PROVE  SemInv'
    BY <1>3, GiveWakes, GiveCounts, GivePops
  <1>4. ASSUME NEW t \in Task,
               \/ task_create(t) /\ ~ Masked(CoreOf[t]) /\ UNCHANGED semVars
               \/ pc[t] = "idle" /\ ~ Masked(CoreOf[t])
                    /\ (\E r \in Delays[t] : block_until(t, r)) /\ UNCHANGED semVars
        PROVE  SemInv'
    BY <1>4, SemCreates, SemDelays
  <1>5. ASSUME NEW t \in Task,
               Continue(t) \/ \E s \in Sem : \E ms \in Timeouts[s][t] : semaphore_take(t, s, ms)
        PROVE  SemInv'
    BY <1>5, TakeBegins, TakeEnds, TakeAppends, TakeUnreadies, TakeBlocks, TakeWoken DEF Continue
  <1>6. CASE UNCHANGED allVars
    <2>1. UNCHANGED vars /\ UNCHANGED semVars BY <1>6 DEF allVars
    <2>2. UNCHANGED <<blocked, state, current, irq>> /\ pc' = pc BY <2>1 DEF vars, semVars
    <2>3. Shown' = Shown BY <2>2 DEF Shown
    <2>4. InvOf(Shown) /\ TakersOk BY SemParts
    <2>5. InvOf(Shown)' BY <2>1, <2>3, <2>4, SchedulerStands
    <2>6. state' \in [Task -> TaskState] /\ deadline' \in [Task -> Nat]
      BY <1>1, <2>1, <2>2 DEF SemTypes, semVars
    <2>7. /\ \A u \in Task : Entering(u) => current'[CoreOf[u]] = u
          /\ \A u \in Task : pc[u] = "unready" => state'[u] # "BLOCKED" /\ irq'[CoreOf[u]] = "none"
      BY <2>2, <2>4 DEF TakersOk
    <2>8. QED BY <2>1, <2>2, <2>3, <2>5, <2>6, <2>7, KernelStands DEF semVars
  <1>7. ASSUME NEW c \in Core, \E t \in Task, p \in Priority : boost(c, t, p) PROVE SemInv'
    BY <1>7, SemBoosts
  <1>8. CASE SemNext
    BY <1>2, <1>3, <1>4, <1>5, <1>7, <1>8 DEF SemNext
  <1>9. QED BY <1>6, <1>8

\* The invariant holds in every reachable state.
LEMMA SemInvariance ==
  SemHypotheses => (SemSpec => []SemInv)
  <1> SUFFICES ASSUME CountsFit, OneCoreTimeouts, OwnCoreBoosts PROVE SemSpec => []SemInv
    BY DEF SemHypotheses
  <1>1. SemInit => SemInv BY SemBegins
  <1>2. SemInv /\ [SemNext]_allVars => SemInv' BY SemStep
  <1>3. QED BY <1>1, <1>2, PTL DEF SemSpec

\* What the invariant says of each type.
LEMMA SemTyped ==
  SemInv => SemTypeOK
  <1> SUFFICES ASSUME SemInv PROVE SemTypeOK
    OBVIOUS
  <1>1. InvOf(Shown) /\ SemTypes /\ WaitersOk BY SemParts
  <1>2. Types(Shown) /\ Linked(ready, On(Shown)) BY <1>1, InvParts
  <1>3. TypeOK BY <1>1, <1>2 DEF TypeOK, Types, Linked, ListType, SemTypes
  <1>4. \A s \in Sem : num_items[s] \in 0 .. CountMod - 1
    <2> TAKE s \in Sem
    <2>1. waiters[s] \in Seq(Task) /\ IsInjective(waiters[s]) /\ num_items[s] = Len(waiters[s])
      BY <1>1 DEF SemTypes, WaitersOk
    <2>2. Len(waiters[s]) < CountMod /\ Len(waiters[s]) \in Nat BY <2>1, ListFits
    <2>3. QED BY <2>1, <2>2, SemaphoreAssumption
  <1>5. num_items \in [Sem -> 0 .. CountMod - 1] BY <1>1, <1>4 DEF SemTypes
  <1>6. QED BY <1>1, <1>3, <1>5 DEF SemTypeOK, SemTypes, WaitersOk

\* Every variable of semaphore.c keeps its type: no count passes its maximum, and
\* num_items, an unsigned number, is never decremented below zero.
THEOREM SemTypeCorrect ==
  SemHypotheses => (SemSpec => []SemTypeOK)
  <1>1. QED BY SemInvariance, SemTyped, PTL

\* num_items counts the tasks linked in semaphore_blocked_list, these are the
\* tasks whose event_list_item names it and that no give has popped, and nobody
\* waits while there is a token.
THEOREM WaitersAgree ==
  SemHypotheses => (SemSpec => []WaitersExact)
  <1>1. SemInv => WaitersExact BY DEF SemInv, WaitersOk, WaitersExact, Waiters
  <1>2. QED BY <1>1, SemInvariance, PTL

\* Nobody sleeps in semaphore_take out of the reach of a give, and a task is in
\* its ready list exactly when it does not sleep.
THEOREM TakersFound ==
  SemHypotheses => (SemSpec => []NoLostTaker)
  <1>1. SemInv => NoLostTaker
    <2> SUFFICES ASSUME SemInv, NEW t \in Task
                 PROVE  /\ pc[t] = "wait" /\ state[t] = "BLOCKED" => container[t] = target[t]
                        /\ t \in ToSet(ready[CoreOf[t]][priority[t]].items)
                             <=> state[t] \in {"READY", "RUNNING"} /\ pc[t] # "block"
      BY DEF NoLostTaker
    <2>1. InvOf(Shown) /\ TakersOk /\ CoreOf[t] \in Core BY SemParts
    <2>2. Types(Shown) /\ Linked(ready, On(Shown)) BY <2>1, InvParts
    <2>3. priority[t] \in Priority BY <2>2 DEF Types
    <2>4. ToSet(ready[CoreOf[t]][priority[t]].items) = Members(On(Shown), CoreOf[t], priority[t])
      BY <2>1, <2>2, <2>3 DEF Linked, IsListOf
    <2>5. On(Shown)[t] = priority[t] <=> Shown[t] \in {"READY", "RUNNING"}
      BY <2>2, <2>3, OnFacts
    <2>6. Shown[t] = IF pc[t] = "block" THEN "BLOCKED" ELSE state[t] BY DEF Shown
    <2>7. pc[t] = "wait" /\ state[t] = "BLOCKED" => container[t] = target[t]
      BY <2>1, <2>6 DEF TakersOk, Asleep, Queued
    <2>8. t \in Members(On(Shown), CoreOf[t], priority[t]) <=> On(Shown)[t] = priority[t]
      BY DEF Members
    <2>9. QED BY <2>4, <2>5, <2>6, <2>7, <2>8
  <1>2. QED BY <1>1, SemInvariance, PTL

-------------------------------------------------------------------------------
\* The tokens.

\* The tasks that have been handed a token of s, and the cores that are handing
\* one over
Handed(s)  == {t \in Task : target[t] = s /\ reason[t]}
Handing(s) == {c \in Core : giving[c] # Null /\ target[giving[c]] = s}

\* The tokens of a semaphore, wherever they are
Tokens(s) == count[s] + out[s] + Cardinality(Handed(s)) + Cardinality(Handing(s))

\* Tokens on their way from a give to a take can be counted.
LEMMA TokenSets ==
  ASSUME NEW s
  PROVE  /\ IsFiniteSet(Handed(s)) /\ Cardinality(Handed(s)) \in Nat
         /\ IsFiniteSet(Handing(s)) /\ Cardinality(Handing(s)) \in Nat
  <1>1. Handed(s) \subseteq Task /\ Handing(s) \subseteq Core BY DEF Handed, Handing
  <1>2. IsFiniteSet(Task) /\ IsFiniteSet(Core) BY SemaphoreAssumption
  <1>3. IsFiniteSet(Handed(s)) /\ IsFiniteSet(Handing(s)) BY <1>1, <1>2, FS_Subset
  <1>4. QED BY <1>3, FS_CardinalityType

\* A step that hands nothing over.
LEMMA TokensStand ==
  ASSUME SemTypes, NEW s \in Sem, Handed(s)' = Handed(s), Handing(s)' = Handing(s),
         count'[s] \in Nat, out'[s] \in Int, count'[s] + out'[s] = count[s] + out[s]
  PROVE  Tokens(s)' = Tokens(s)
  <1>1. count[s] \in Nat /\ out[s] \in Int BY DEF SemTypes
  <1>2. Cardinality(Handed(s)) \in Nat /\ Cardinality(Handing(s)) \in Nat BY TokenSets
  <1>3. QED BY <1>1, <1>2 DEF Tokens

\* Nobody in a take moves a token but the one that is there or handed to it.
LEMMA TakeTokens ==
  ASSUME SemInv, NEW t \in Task, NEW s \in Sem,
         Continue(t) \/ \E x \in Sem : \E ms \in Timeouts[x][t] : semaphore_take(t, x, ms)
  PROVE  Tokens(s)' = Tokens(s)
  <1>1. SemTypes /\ TakersOk /\ GiversOk /\ Null \notin Task /\ Null \notin Sem BY SemParts
  <1>2. count[s] \in Nat /\ out[s] \in Int BY <1>1 DEF SemTypes
  <1>3. \A c \in Core : giving[c] # Null => giving[c] \in Task BY <1>1 DEF SemTypes
  <1>4. CASE \E x \in Sem : \E ms \in Timeouts[x][t] : semaphore_take(t, x, ms)
    <2>1. PICK x \in Sem : \E ms \in Timeouts[x][t] : semaphore_take(t, x, ms) BY <1>4
    <2>2. /\ pc[t] = "idle" /\ target' = [target EXCEPT ![t] = x]
          /\ UNCHANGED <<reason, giving, count, out>>
      BY <2>1 DEF semaphore_take
    <2>3. ~ reason[t] /\ \A c \in Core : giving[c] # t BY <1>1, <2>2 DEF TakersOk, GiversOk
    <2>4. Handed(s)' = Handed(s) BY <1>1, <2>2, <2>3 DEF Handed, SemTypes
    <2>5. Handing(s)' = Handing(s) BY <1>1, <1>3, <2>2, <2>3 DEF Handing, SemTypes
    <2>6. QED BY <1>1, <1>2, <2>2, <2>4, <2>5, TokensStand
  <1>5. CASE take_now(t) \/ take_timed_out(t)
    <2>1. /\ pc[t] = "try" /\ target' = [target EXCEPT ![t] = Null]
          /\ UNCHANGED <<reason, giving>>
      BY <1>5 DEF take_now, take_timed_out, Return
    <2>2. ~ reason[t] /\ \A c \in Core : giving[c] # t BY <1>1, <2>1 DEF TakersOk, GiversOk
    <2>3. Handed(s)' = Handed(s) BY <1>1, <2>1, <2>2 DEF Handed, SemTypes
    <2>4. Handing(s)' = Handing(s) BY <1>1, <1>3, <2>1, <2>2 DEF Handing, SemTypes
    <2>5. count'[s] \in Nat /\ out'[s] \in Int /\ count'[s] + out'[s] = count[s] + out[s]
      <3>1. CASE take_now(t) BY <1>1, <1>2, <3>1 DEF take_now, SemTypes
      <3>2. CASE take_timed_out(t) BY <1>2, <3>2 DEF take_timed_out
      <3>3. QED BY <1>5, <3>1, <3>2
    <2>6. QED BY <1>1, <2>3, <2>4, <2>5, TokensStand
  <1>6. CASE take_append(t) \/ take_unready(t) \/ take_block(t)
    <2>1. UNCHANGED <<reason, giving, target, count, out>>
      BY <1>6 DEF take_append, take_unready, take_block
    <2>2. Handed(s)' = Handed(s) /\ Handing(s)' = Handing(s) BY <2>1 DEF Handed, Handing
    <2>3. QED BY <1>1, <1>2, <2>1, <2>2, TokensStand
  <1>7. CASE take_woken(t) /\ ~ reason[t]
    <2>1. UNCHANGED <<reason, giving, target, count, out>> BY <1>7 DEF take_woken
    <2>2. Handed(s)' = Handed(s) /\ Handing(s)' = Handing(s) BY <2>1 DEF Handed, Handing
    <2>3. QED BY <1>1, <1>2, <2>1, <2>2, TokensStand
  <1>8. CASE take_woken(t) /\ reason[t]
    <2>1. /\ pc[t] = "wait" /\ target' = [target EXCEPT ![t] = Null]
          /\ reason' = [reason EXCEPT ![t] = FALSE]
          /\ out' = [out EXCEPT ![target[t]] = @ + 1]
          /\ UNCHANGED <<giving, count>>
      BY <1>8 DEF take_woken, Return
    <2>2. target[t] \in Sem /\ \A c \in Core : giving[c] # t
      BY <1>1, <1>8, <2>1 DEF TakersOk, GiversOk
    <2>3. Handing(s)' = Handing(s) BY <1>1, <1>3, <2>1, <2>2 DEF Handing, SemTypes
    <2>4. Handed(s)' = Handed(s) \ {t} BY <1>1, <2>1 DEF Handed, SemTypes
    <2>5. CASE target[t] # s
      <3>1. Handed(s)' = Handed(s) BY <2>4, <2>5 DEF Handed
      <3>2. out'[s] = out[s] BY <1>1, <2>1, <2>5 DEF SemTypes
      <3>3. QED BY <1>1, <1>2, <2>1, <2>3, <3>1, <3>2, TokensStand
    <2>6. CASE target[t] = s
      <3>1. t \in Handed(s) BY <1>8, <2>6 DEF Handed
      <3>2. Cardinality(Handed(s) \ {t}) = Cardinality(Handed(s)) - 1
        BY <3>1, TokenSets, FS_RemoveElement
      <3>3. out'[s] = out[s] + 1 BY <1>1, <2>1, <2>6 DEF SemTypes
      <3>4. Cardinality(Handed(s)) \in Nat /\ Cardinality(Handing(s)) \in Nat BY TokenSets
      <3>5. QED BY <1>2, <2>1, <2>3, <2>4, <3>2, <3>3, <3>4 DEF Tokens
    <2>7. QED BY <2>5, <2>6
  <1>9. QED BY <1>4, <1>5, <1>6, <1>7, <1>8 DEF Continue

\* A give makes one: it goes to the count, or to a waiter in two steps.
LEMMA GiveTokens ==
  ASSUME SemInv, NEW c \in Core, NEW s \in Sem,
         give_wake(c) \/ \E x \in Sem : give_count(c, x) \/ give_pop(c, x)
  PROVE  Tokens(s)' = Tokens(s)
  <1>1. /\ SemTypes /\ TakersOk /\ GiversOk /\ LocksOk /\ WaitersOk
        /\ Null \notin Task /\ Null \notin Sem
    BY SemParts
  <1>2. /\ count[s] \in Nat /\ out[s] \in Int
        /\ Cardinality(Handed(s)) \in Nat /\ Cardinality(Handing(s)) \in Nat
    BY <1>1, TokenSets DEF SemTypes
  <1>3. CASE \E x \in Sem : give_count(c, x)
    <2>1. PICK x \in Sem : give_count(c, x) BY <1>3
    <2>2. /\ count' = [count EXCEPT ![x] = @ + 1] /\ out' = [out EXCEPT ![x] = @ - 1]
          /\ UNCHANGED <<reason, giving, target>>
      BY <2>1 DEF give_count
    <2>3. Handed(s)' = Handed(s) /\ Handing(s)' = Handing(s) BY <2>2 DEF Handed, Handing
    <2>4. count'[s] \in Nat /\ out'[s] \in Int /\ count'[s] + out'[s] = count[s] + out[s]
      BY <1>1, <1>2, <2>2 DEF SemTypes
    <2>5. QED BY <1>1, <2>3, <2>4, TokensStand
  <1>4. CASE \E x \in Sem : give_pop(c, x)
    <2>1. PICK x \in Sem : give_pop(c, x) BY <1>4
    <2>2. /\ num_items[x] > 0 /\ giving[c] = Null
          /\ giving' = [giving EXCEPT ![c] = Head(waiters[x])]
          /\ out' = [out EXCEPT ![x] = @ - 1]
          /\ UNCHANGED <<reason, count, target>>
      BY <2>1 DEF give_pop, CanGive, Masked
    <2>3. waiters[x] \in Seq(Task) /\ waiters[x] # <<>> /\ ToSet(waiters[x]) = Waiters(x)
            /\ IsInjective(waiters[x])
      BY <1>1, <2>2 DEF SemTypes, WaitersOk
    <2>4. PICK u \in Task : u = Head(waiters[x]) /\ u = waiters[x][1] BY <2>3
    <2>5. u \in Waiters(x) BY <2>3, <2>4, TailUnlinks
    <2>6. target[u] = x BY <1>1, <2>5 DEF Waiters, TakersOk
    <2>7. \A d \in Core : giving'[d] = IF d = c THEN u ELSE giving[d]
      BY <1>1, <2>2, <2>4 DEF SemTypes
    <2>8. Handed(s)' = Handed(s) BY <2>2 DEF Handed
    <2>9. Handing(s)' = IF x = s THEN Handing(s) \cup {c} ELSE Handing(s)
      BY <1>1, <2>2, <2>6, <2>7 DEF Handing
    <2>10. CASE x # s
      <3>1. out'[s] = out[s] BY <1>1, <2>2, <2>10 DEF SemTypes
      <3>2. Handing(s)' = Handing(s) BY <2>9, <2>10
      <3>3. QED BY <1>1, <1>2, <2>2, <2>8, <3>1, <3>2, TokensStand
    <2>11. CASE x = s
      <3>1. c \notin Handing(s) BY <2>2 DEF Handing
      <3>2. Cardinality(Handing(s) \cup {c}) = Cardinality(Handing(s)) + 1
        BY <3>1, TokenSets, FS_AddElement
      <3>3. out'[s] = out[s] - 1 BY <1>1, <2>2, <2>11 DEF SemTypes
      <3>4. Handing(s)' = Handing(s) \cup {c} BY <2>9, <2>11
      <3>5. QED BY <1>2, <2>2, <2>8, <3>2, <3>3, <3>4 DEF Tokens
    <2>12. QED BY <2>10, <2>11
  <1>5. CASE give_wake(c)
    <2>1. PICK u \in Task : u = giving[c] BY <1>1, <1>5 DEF give_wake, SemTypes
    <2>2. /\ reason' = [reason EXCEPT ![u] = TRUE] /\ giving' = [giving EXCEPT ![c] = Null]
          /\ UNCHANGED <<count, target, out>>
      BY <1>5, <2>1 DEF give_wake, HandToken
    <2>3. giving[c] # Null /\ target[u] \in Sem /\ ~ reason[u]
      BY <1>1, <2>1 DEF GiversOk, TakersOk
    <2>4. Handed(s)' = IF target[u] = s THEN Handed(s) \cup {u} ELSE Handed(s)
      BY <1>1, <2>2 DEF Handed, SemTypes
    <2>5. Handing(s)' = Handing(s) \ {c}
      BY <1>1, <2>2 DEF Handing, SemTypes
    <2>6. CASE target[u] # s
      <3>1. c \notin Handing(s) BY <2>1, <2>6 DEF Handing
      <3>2. Handing(s)' = Handing(s) /\ Handed(s)' = Handed(s) BY <2>4, <2>5, <2>6, <3>1
      <3>3. QED BY <1>1, <1>2, <2>2, <3>2, TokensStand
    <2>7. CASE target[u] = s
      <3>1. c \in Handing(s) /\ u \notin Handed(s)
        BY <2>1, <2>3, <2>7 DEF Handing, Handed
      <3>2. Cardinality(Handing(s) \ {c}) = Cardinality(Handing(s)) - 1
        BY <3>1, TokenSets, FS_RemoveElement
      <3>3. Cardinality(Handed(s) \cup {u}) = Cardinality(Handed(s)) + 1
        BY <3>1, TokenSets, FS_AddElement
      <3>4. Handed(s)' = Handed(s) \cup {u} BY <2>4, <2>7
      <3>5. QED BY <1>2, <2>2, <2>5, <3>2, <3>3, <3>4 DEF Tokens
    <2>8. QED BY <2>6, <2>7
  <1>6. QED BY <1>3, <1>4, <1>5

\* No step changes the number of tokens.
LEMMA TokensStep ==
  ASSUME SemInv, [SemNext]_allVars, NEW s \in Sem
  PROVE  Tokens(s)' = Tokens(s)
  <1>1. SemTypes /\ count[s] \in Nat /\ out[s] \in Int BY SemParts DEF SemTypes
  <1>2. ASSUME UNCHANGED <<reason, giving, target, count, out>> PROVE Tokens(s)' = Tokens(s)
    <2>1. Handed(s)' = Handed(s) /\ Handing(s)' = Handing(s) BY <1>2 DEF Handed, Handing
    <2>2. QED BY <1>1, <1>2, <2>1, TokensStand
  <1>3. CASE UNCHANGED allVars BY <1>2, <1>3 DEF allVars, semVars
  <1>4. ASSUME NEW c \in Core, SemKernel(c) PROVE Tokens(s)' = Tokens(s)
    BY <1>2, <1>4 DEF SemKernel, semVars
  <1>5. ASSUME NEW t \in Task, UNCHANGED semVars PROVE Tokens(s)' = Tokens(s)
    BY <1>2, <1>5 DEF semVars
  <1>6. ASSUME NEW c \in Core, \E t \in Task, p \in Priority : boost(c, t, p)
        PROVE  Tokens(s)' = Tokens(s)
    BY <1>2, <1>6 DEF boost, semVars
  <1>7. CASE SemNext
    BY <1>4, <1>5, <1>6, <1>7, TakeTokens, GiveTokens DEF SemNext
  <1>8. QED BY <1>3, <1>7

\* No interleaving of takes, gives and timeouts loses a token or makes one.
THEOREM TokensKept ==
  SemHypotheses => (SemSpec => []TokensConserved)
  <1> SUFFICES ASSUME SemHypotheses PROVE SemSpec => []TokensConserved
    OBVIOUS
  <1> DEFINE Kept == \A s \in Sem : Tokens(s) = InitialCount[s]
  <1>1. SemInit => Kept
    <2> SUFFICES ASSUME SemInit, NEW s \in Sem PROVE Tokens(s) = InitialCount[s]
      OBVIOUS
    <2>1. /\ count = InitialCount /\ reason = [t \in Task |-> FALSE]
          /\ giving = [c \in Core |-> Null] /\ out = [i \in Sem |-> 0]
      BY DEF SemInit
    <2>2. Handed(s) = {} /\ Handing(s) = {} BY <2>1 DEF Handed, Handing
    <2>3. Cardinality({}) = 0 BY FS_EmptySet
    <2>4. InitialCount[s] \in Nat BY SemaphoreAssumption
    <2>5. QED BY <2>1, <2>2, <2>3, <2>4 DEF Tokens
  <1>2. SemInv /\ Kept /\ [SemNext]_allVars => Kept'
    BY TokensStep
  <1>3. Kept <=> TokensConserved
    BY DEF TokensConserved, Tokens, Handed, Handing
  <1>4. SemSpec => []SemInv BY SemInvariance
  <1> HIDE DEF Kept
  <1>5. QED BY <1>1, <1>2, <1>3, <1>4, PTL DEF SemSpec
===============================================================================
