---------------------------- MODULE SchedulerProofs ----------------------------
(***************************************************************************)
(* Proofs about Scheduler, for any number of cores, tasks and priorities.  *)
(*                                                                         *)
(* The inductive invariant says where every task is linked: `On' gives the *)
(* priority of the ready list a task belongs to, and Linked(ready, On)     *)
(* that every ready list has exactly the tasks that belong to it, once     *)
(* each, with its cursor at one of them.  To it belong the order of the    *)
(* blocked lists, without which the tick handler's look at the head would  *)
(* not be enough, and the agreement of current_state with                  *)
(* p_task_control_block.                                                   *)
(*                                                                         *)
(* The states are a parameter of the invariant.  Here they are `state';    *)
(* semaphore_take unlinks a task before it sets its state, and there they  *)
(* are the states that the lists already show.                             *)
(***************************************************************************)
EXTENDS Scheduler, TaskListsProofs

\* The priority of the ready list that t belongs to, or -1
On(st) == [t \in Task |-> IF st[t] \in {"READY", "RUNNING"} THEN priority[t] ELSE -1]

\* The tasks that belong to the ready list of core c and priority p
Members(on, c, p) == {t \in Task : CoreOf[t] = c /\ on[t] = p}

\* Every ready list links exactly the tasks that belong to it
Linked(rdy, on) ==
  /\ rdy \in [Core -> [Priority -> ListType(Task)]]
  /\ \A c \in Core, p \in Priority : IsListOf(rdy[c][p], Members(on, c, p))

\* The types but for the ready lists, which Linked has
Types(st) ==
  /\ blocked   \in [Core -> Seq(Task)]
  /\ st        \in [Task -> TaskState]
  /\ priority  \in [Task -> Priority]
  /\ remaining \in [Task -> Int]
  /\ current   \in [Core -> Task \cup {Null}]
  /\ irq       \in [Core -> IrqStage]

\* BlockedListExact and OneRunning
SleepersOf(st) ==
  \A c \in Core :
    /\ IsInjective(blocked[c])
    /\ \A t \in ToSet(blocked[c]) : CoreOf[t] = c /\ st[t] = "BLOCKED"

RunnersOf(st) == \A t \in Task : st[t] = "RUNNING" => current[CoreOf[t]] = t

\* The blocked lists are sorted by wake-up time
SortedBlocked == \A c \in Core : Sorted(blocked[c], remaining)

InvOf(st) ==
  /\ Types(st)
  /\ Linked(ready, On(st))
  /\ SleepersOf(st)
  /\ SortedBlocked
  /\ RunnersOf(st)
  /\ NobodyOversleeps

Inv == InvOf(state)

-------------------------------------------------------------------------------
\* The list operations.

\* scheduler_add_to_ready_list of a task that is in no ready list.
LEMMA AddReadyLinked ==
  ASSUME NEW rdy, NEW on, NEW on2, Linked(rdy, on),
         NEW t \in Task, NEW p \in Priority, on[t] \notin Priority,
         \A u \in Task : on2[u] = IF u = t THEN p ELSE on[u]
  PROVE  Linked(AddToReady(rdy, t, p), on2)
<1> DEFINE k == CoreOf[t]
           new == AddToReady(rdy, t, p)
<1>1. k \in Core
  BY SchedulerAssumption
<1>2. rdy \in [Core -> [Priority -> ListType(Task)]]
  BY DEF Linked
<1>3. IsListOf(rdy[k][p], Members(on, k, p)) /\ rdy[k][p] \in ListType(Task)
  BY <1>1, <1>2 DEF Linked
<1>4. t \notin Members(on, k, p)
  BY DEF Members
<1>5. Members(on2, k, p) = Members(on, k, p) \cup {t}
  BY DEF Members
<1>6. \A c \in Core, q \in Priority :
        c # k \/ q # p => Members(on2, c, q) = Members(on, c, q)
  BY DEF Members
<1>7. /\ ListAppend(rdy[k][p], t) \in ListType(Task)
      /\ IsListOf(ListAppend(rdy[k][p], t), Members(on2, k, p))
  BY <1>3, <1>4, <1>5, AppendToList
<1>8. /\ new \in [Core -> [Priority -> ListType(Task)]]
      /\ \A c \in Core, q \in Priority :
           new[c][q] = IF c = k /\ q = p THEN ListAppend(rdy[k][p], t) ELSE rdy[c][q]
  BY <1>1, <1>2, <1>7 DEF AddToReady
<1> HIDE DEF k, new
<1>9. \A c \in Core, q \in Priority : IsListOf(new[c][q], Members(on2, c, q))
  <2> TAKE c \in Core, q \in Priority
  <2>1. CASE c = k /\ q = p
    BY <1>7, <1>8, <2>1
  <2>2. CASE c # k \/ q # p
    BY <1>6, <1>8, <2>2 DEF Linked
  <2> QED BY <2>1, <2>2
<1> QED BY <1>8, <1>9 DEF Linked, new

\* scheduler_remove_from_ready_list, with the priority of the list that the task
\* belongs to if it belongs to any.
LEMMA RemoveReadyLinked ==
  ASSUME NEW rdy, NEW on, NEW on2, Linked(rdy, on),
         NEW t \in Task, NEW p \in Priority, on[t] \in {p, -1},
         \A u \in Task : on2[u] = IF u = t THEN -1 ELSE on[u]
  PROVE  Linked(RemoveFromReady(rdy, t, p), on2)
<1> DEFINE k == CoreOf[t]
           new == RemoveFromReady(rdy, t, p)
<1>1. k \in Core /\ -1 \notin Priority
  BY SchedulerAssumption DEF Priority
<1>2. rdy \in [Core -> [Priority -> ListType(Task)]]
  BY DEF Linked
<1>3. IsListOf(rdy[k][p], Members(on, k, p)) /\ rdy[k][p] \in ListType(Task)
  BY <1>1, <1>2 DEF Linked
<1>4. ToSet(rdy[k][p].items) = Members(on, k, p)
  BY <1>3 DEF IsListOf
<1>5. \A c \in Core, q \in Priority :
        c # k \/ q # p => Members(on2, c, q) = Members(on, c, q)
  BY <1>1 DEF Members
<1>6. CASE on[t] = -1
  <2>1. new = rdy
    BY <1>1, <1>4, <1>6 DEF RemoveFromReady, Members
  <2>2. \A u \in Task : on2[u] = on[u]
    BY <1>6
  <2>3. \A c \in Core, q \in Priority : Members(on2, c, q) = Members(on, c, q)
    BY <2>2 DEF Members
  <2> QED BY <2>1, <2>3 DEF Linked
<1>7. CASE on[t] = p
  <2>1. t \in Members(on, k, p)
    BY <1>7 DEF Members
  <2>2. Members(on2, k, p) = Members(on, k, p) \ {t}
    BY <1>1 DEF Members
  <2>3. /\ ListUnlink(rdy[k][p], t) \in ListType(Task)
        /\ IsListOf(ListUnlink(rdy[k][p], t), Members(on2, k, p))
    BY <1>3, <2>1, <2>2, UnlinkFromList
  <2>4. new = [rdy EXCEPT ![k][p] = ListUnlink(@, t)]
    BY <1>4, <2>1 DEF RemoveFromReady
  <2>5. /\ new \in [Core -> [Priority -> ListType(Task)]]
        /\ \A c \in Core, q \in Priority :
             new[c][q] = IF c = k /\ q = p THEN ListUnlink(rdy[k][p], t) ELSE rdy[c][q]
    BY <1>1, <1>2, <2>3, <2>4
  <2> HIDE DEF k, new
  <2>6. \A c \in Core, q \in Priority : IsListOf(new[c][q], Members(on2, c, q))
    <3> TAKE c \in Core, q \in Priority
    <3>1. CASE c = k /\ q = p
      BY <2>3, <2>5, <3>1
    <3>2. CASE c # k \/ q # p
      BY <1>5, <2>5, <3>2 DEF Linked
    <3> QED BY <3>1, <3>2
  <2> QED BY <2>5, <2>6 DEF Linked, new
<1> QED BY <1>6, <1>7

\* scheduler_add_to_blocked_list: the list stays sorted and gains the task.
LEMMA InsertSortedLinks ==
  ASSUME NEW s \in Seq(Task), IsInjective(s), NEW t \in Task, t \notin ToSet(s),
         NEW rem \in [Task -> Int], NEW r \in Int, Sorted(s, rem)
  PROVE  /\ InsertSorted(s, t, rem, r) \in Seq(Task)
         /\ IsInjective(InsertSorted(s, t, rem, r))
         /\ ToSet(InsertSorted(s, t, rem, r)) = ToSet(s) \cup {t}
         /\ Sorted(InsertSorted(s, t, rem, r), [rem EXCEPT ![t] = r])
<1>1. CASE s = <<>> \/ r <= rem[s[1]]
  <2>1. InsertSorted(s, t, rem, r) = Cons(t, s)
    BY <1>1 DEF InsertSorted
  <2>2. Links(Task, s, Cons(t, s), t, [rem EXCEPT ![t] = r])
    BY <1>1, InsertedInFront
  <2> QED BY <2>1, <2>2, Zenon DEF Links
<1>2. CASE s # <<>> /\ ~ (r <= rem[s[1]])
  <2>1. rem[s[1]] <= r
    <3>1. s[1] \in Task
      BY <1>2
    <3> QED BY <1>2, <3>1
  <2> DEFINE k == CHOOSE k \in DOMAIN s : Fits(s, rem, r, k)
  <2>d. DOMAIN s = 1 .. Len(s) /\ Len(s) \in Nat
    OBVIOUS
  <2>2. InsertSorted(s, t, rem, r) = InsertAt(s, k + 1, t)
    BY <1>2, Zenon DEF InsertSorted, Fits
  <2>3. k \in 1 .. Len(s) /\ Fits(s, rem, r, k)
    BY <1>2, <2>d, PlaceExists
  <2> HIDE DEF k
  <2>4. Links(Task, s, InsertAt(s, k + 1, t), t, [rem EXCEPT ![t] = r])
    BY <1>2, <2>1, <2>3, InsertedBehind
  <2> QED BY <2>2, <2>4, Zenon DEF Links
<1> QED BY <1>1, <1>2

-------------------------------------------------------------------------------
\* The dispatcher.

\* Where the states st say that each task is linked: at its own priority, or nowhere.
LEMMA OnFacts ==
  ASSUME NEW st, Types(st)
  PROVE  /\ On(st) \in [Task -> Priority \cup {-1}]
         /\ -1 \notin Priority
         /\ \A t \in Task : On(st)[t] \in Priority <=> st[t] \in {"READY", "RUNNING"}
         /\ \A t \in Task : On(st)[t] \in Priority => On(st)[t] = priority[t]
         /\ \A t \in Task : On(st)[t] \in {priority[t], -1}
BY SchedulerAssumption DEF Types, On, Priority

\* The rotation moves a cursor and nothing else.
LEMMA RotatedLinked ==
  ASSUME NEW st, Types(st), Linked(ready, On(st)), NEW c \in Core
  PROVE  /\ RotatedLists(c) \in [Priority -> ListType(Task)]
         /\ \A p \in Priority : IsListOf(RotatedLists(c)[p], Members(On(st), c, p))
<1>1. /\ ready[c] \in [Priority -> ListType(Task)]
      /\ \A p \in Priority : IsListOf(ready[c][p], Members(On(st), c, p))
  BY DEF Linked
<1>2. CASE ~ (current[c] # Null /\ state[current[c]] = "RUNNING")
  BY <1>1, <1>2 DEF RotatedLists
<1>3. CASE current[c] # Null /\ state[current[c]] = "RUNNING"
  <2> DEFINE q == priority[current[c]]
             new == RotatedLists(c)
  <2>1. q \in Priority
    BY <1>3 DEF Types
  <2>2. new = [ready[c] EXCEPT ![q] = ListAdvance(@)]
    BY <1>3 DEF RotatedLists
  <2>3. /\ ListAdvance(ready[c][q]) \in ListType(Task)
        /\ IsListOf(ListAdvance(ready[c][q]), Members(On(st), c, q))
    BY <1>1, <2>1, AdvanceInList, SchedulerAssumption
  <2> HIDE DEF q, new
  <2>4. /\ new \in [Priority -> ListType(Task)]
        /\ \A p \in Priority : new[p] = IF p = q THEN ListAdvance(ready[c][q]) ELSE ready[c][p]
    BY <1>1, <2>1, <2>2, <2>3
  <2>5. \A p \in Priority : IsListOf(new[p], Members(On(st), c, p))
    BY <1>1, <2>3, <2>4
  <2> QED BY <2>4, <2>5 DEF new
<1> QED BY <1>2, <1>3

\* next is a task of the highest priority that core c can run, Null if none
Chosen(st, c, next) ==
  \/ next = Null /\ \A t \in Task : CoreOf[t] = c => On(st)[t] \notin Priority
  \/ /\ next \in Task /\ CoreOf[next] = c /\ On(st)[next] \in Priority
     /\ \A t \in Task : CoreOf[t] = c /\ On(st)[t] \in Priority => On(st)[t] <= On(st)[next]

\* The states when core c has switched to next
Switched(st, c, next) ==
  [t \in Task |-> IF t = next THEN "RUNNING"
                  ELSE IF t = current[c] /\ st[t] = "RUNNING" THEN "READY"
                  ELSE st[t]]

\* What scheduler_switch_context leaves behind.
LEMMA DispatchFacts ==
  ASSUME NEW st, Types(st), Linked(ready, On(st)), state \in [Task -> TaskState],
         NEW c \in Core, Dispatch(c)
  PROVE  /\ ready' = [ready EXCEPT ![c] = RotatedLists(c)]
         /\ \E next \in Task \cup {Null} :
              /\ Chosen(st, c, next)
              /\ current' = [current EXCEPT ![c] = next]
              /\ state' = Switched(state, c, next)
<1> DEFINE lists    == RotatedLists(c)
           nonEmpty == {p \in Priority : lists[p].items # <<>>}
           next     == IF nonEmpty = {} THEN Null ELSE lists[Max(nonEmpty)].index
           on       == On(st)
<1>1. /\ lists \in [Priority -> ListType(Task)]
      /\ \A p \in Priority : IsListOf(lists[p], Members(on, c, p))
  BY RotatedLinked
<1>2. /\ ready' = [ready EXCEPT ![c] = lists]
      /\ current' = [current EXCEPT ![c] = next]
      /\ state'   = IF next = Null THEN OutgoingState(c)
                    ELSE [OutgoingState(c) EXCEPT ![next] = "RUNNING"]
  BY DEF Dispatch
<1> HIDE DEF lists
<1>3. \A p \in Priority : /\ lists[p].items \in Seq(Task)
                          /\ ToSet(lists[p].items) = Members(on, c, p)
                          /\ lists[p].items # <<>> => lists[p].index \in Members(on, c, p)
  BY <1>1 DEF IsListOf, ListType
<1>4. \A t \in Task : CoreOf[t] = c /\ on[t] \in Priority => on[t] \in nonEmpty
  <2> HIDE DEF on
  <2> TAKE t \in Task
  <2> HAVE CoreOf[t] = c /\ on[t] \in Priority
  <2>1. t \in ToSet(lists[on[t]].items)
    BY <1>3 DEF Members
  <2> QED BY <1>3, <2>1, LinkedNotEmpty
<1>5. next \in Task \cup {Null} /\ Chosen(st, c, next)
  <2>1. CASE nonEmpty = {}
    BY <1>4, <2>1 DEF Chosen
  <2>2. CASE nonEmpty # {}
    <3> DEFINE m == Max(nonEmpty)
    <3>1. NumPriorities - 1 \in Nat /\ nonEmpty \in SUBSET (0 .. NumPriorities - 1)
      BY SchedulerAssumption DEF Priority
    <3> HIDE DEF nonEmpty
    <3>2. m \in nonEmpty /\ \A k \in nonEmpty : k <= m
      BY <2>2, <3>1, GreatestBelow
    <3>3. next = lists[m].index
      BY <2>2
    <3> HIDE DEF m, next
    <3>4. m \in Priority /\ lists[m].items # <<>>
      BY <3>2 DEF nonEmpty
    <3>5. next \in Members(on, c, m)
      BY <1>3, <3>3, <3>4
    <3>6. next \in Task /\ CoreOf[next] = c /\ on[next] = m
      BY <3>5 DEF Members
    <3> QED BY <1>4, <3>2, <3>4, <3>6 DEF Chosen
  <2> QED BY <2>1, <2>2
<1> HIDE DEF next
<1>6. OutgoingState(c) = [t \in Task |->
        IF t = current[c] /\ state[t] = "RUNNING" THEN "READY" ELSE state[t]]
  <2>1. state \in [Task -> TaskState] /\ current[c] \in Task \cup {Null} /\ Null \notin Task
    BY SchedulerAssumption DEF Types
  <2> QED BY <2>1 DEF OutgoingState
<1>7. state' = Switched(state, c, next)
  <2>1. Null \notin Task
    BY SchedulerAssumption
  <2> QED BY <1>2, <1>5, <1>6, <2>1 DEF Switched
<1> QED BY <1>2, <1>5, <1>7 DEF lists

-------------------------------------------------------------------------------
\* The invariant is preserved: first the operations, then the actions.

\* The invariant over the states st, with the typing facts that the steps below keep using.
LEMMA InvParts ==
  ASSUME NEW st, InvOf(st)
  PROVE  /\ Types(st) /\ Linked(ready, On(st))
         /\ SleepersOf(st) /\ SortedBlocked /\ RunnersOf(st) /\ NobodyOversleeps
         /\ CoreOf \in [Task -> Core] /\ Null \notin Task
         /\ \A c \in Core : ToSet(blocked[c]) \subseteq Task
<1>1. Types(st)
  BY DEF InvOf
<1>2. \A c \in Core : ToSet(blocked[c]) \subseteq Task
  BY <1>1 DEF Types, ToSet
<1> QED BY <1>2, SchedulerAssumption DEF InvOf

\* A BLOCKED task moves from the blocked list, where it may be, to the ready list
\* of a priority, which becomes its own.
LEMMA WakeAtInv ==
  ASSUME NEW st, NEW st2, InvOf(st), NEW t \in Task, NEW s \in Seq(Task),
         NEW p \in Priority, st[t] = "BLOCKED", IsInjective(s),
         ToSet(s) = ToSet(blocked[CoreOf[t]]) \ {t}, Sorted(s, remaining),
         blocked' = [blocked EXCEPT ![CoreOf[t]] = s],
         ready' = AddToReady(ready, t, p), priority' = [priority EXCEPT ![t] = p],
         st2 = [st EXCEPT ![t] = "READY"],
         remaining' = [remaining EXCEPT ![t] = 0],
         UNCHANGED <<current, irq>>
  PROVE  InvOf(st2)'
<1> DEFINE k == CoreOf[t]
<1>1. /\ Types(st) /\ Linked(ready, On(st))
      /\ SleepersOf(st) /\ SortedBlocked /\ RunnersOf(st) /\ NobodyOversleeps
      /\ k \in Core /\ \A c \in Core : ToSet(blocked[c]) \subseteq Task
  BY InvParts
<1>2. Types(st2)'
  BY <1>1 DEF Types, TaskState
<1>3. Linked(ready', On(st2)')
  <2> DEFINE on2 == On(st2)'
  <2>1. \A u \in Task : on2[u] = IF u = t THEN p ELSE On(st)[u]
    BY <1>1 DEF On, Types
  <2>2. On(st)[t] \notin Priority
    BY <1>1, OnFacts
  <2> HIDE DEF on2
  <2>3. Linked(ready', on2)
    BY <1>1, <2>1, <2>2, AddReadyLinked
  <2> QED BY <2>3 DEF on2
<1>4. \A c \in Core : /\ blocked'[c] = IF c = k THEN s ELSE blocked[c]
                      /\ ToSet(blocked'[c]) \subseteq ToSet(blocked[c]) \ {t}
                      /\ IsInjective(blocked'[c])
                      /\ Sorted(blocked'[c], remaining)
  BY <1>1 DEF Types, SleepersOf, SortedBlocked
<1>5. \A c \in Core : \A u \in ToSet(blocked'[c]) :
        /\ u \in Task /\ u # t /\ CoreOf[u] = c /\ st[u] = "BLOCKED"
  BY <1>1, <1>4 DEF SleepersOf
<1>6. \A u \in Task : u # t => remaining'[u] = remaining[u] /\ st2[u] = st[u]
  BY <1>1 DEF Types
<1>7. SleepersOf(st2)'
  BY <1>4, <1>5, <1>6 DEF SleepersOf
<1>8. SortedBlocked'
  <2> SUFFICES ASSUME NEW c \in Core PROVE Sorted(blocked'[c], remaining')
    BY DEF SortedBlocked
  <2>1. \A u \in ToSet(blocked'[c]) : remaining'[u] = remaining[u]
    BY <1>5, <1>6
  <2>2. Sorted(blocked'[c], remaining)
    BY <1>4
  <2> QED BY <2>1, <2>2, SortedSameKeys
<1>9. RunnersOf(st2)'
  BY <1>1 DEF RunnersOf, Types
<1>10. NobodyOversleeps'
  BY <1>1, <1>4, <1>5, <1>6 DEF NobodyOversleeps
<1> QED BY <1>2, <1>3, <1>7, <1>8, <1>9, <1>10 DEF InvOf

\* ... or to the ready list of the priority it has.
LEMMA WakeInv ==
  ASSUME NEW st, NEW st2, InvOf(st), NEW t \in Task, NEW s \in Seq(Task),
         st[t] = "BLOCKED", IsInjective(s),
         ToSet(s) = ToSet(blocked[CoreOf[t]]) \ {t}, Sorted(s, remaining),
         blocked' = [blocked EXCEPT ![CoreOf[t]] = s],
         ready' = AddToReady(ready, t, priority[t]),
         st2 = [st EXCEPT ![t] = "READY"],
         remaining' = [remaining EXCEPT ![t] = 0],
         UNCHANGED <<priority, current, irq>>
  PROVE  InvOf(st2)'
<1>1. priority[t] \in Priority /\ priority' = [priority EXCEPT ![t] = priority[t]]
  BY InvParts DEF Types
<1> QED BY <1>1, WakeAtInv

\* The lists and states when t goes to sleep for r ticks
GoesToSleep(st, st2, t, r) ==
  /\ ready'     = RemoveFromReady(ready, t, priority[t])
  /\ blocked'   = AddToBlocked(blocked, t, remaining, r)
  /\ remaining' = [remaining EXCEPT ![t] = r]
  /\ st2        = [st EXCEPT ![t] = "BLOCKED"]
  /\ UNCHANGED <<priority, current, irq>>

\* The running task moves from its ready list to the blocked list.
LEMMA SleepInv ==
  ASSUME NEW st, NEW st2, InvOf(st), NEW t \in Task, NEW r \in Int,
         irq[CoreOf[t]] = "none", st[t] # "BLOCKED", GoesToSleep(st, st2, t, r)
  PROVE  InvOf(st2)' /\ ToSet(blocked'[CoreOf[t]]) = ToSet(blocked[CoreOf[t]]) \cup {t}
<1> DEFINE k == CoreOf[t]
           s == InsertSorted(blocked[k], t, remaining, r)
<1>1. /\ Types(st) /\ Linked(ready, On(st))
      /\ SleepersOf(st) /\ SortedBlocked /\ RunnersOf(st) /\ NobodyOversleeps
      /\ k \in Core /\ \A c \in Core : ToSet(blocked[c]) \subseteq Task
  BY InvParts
<1>2. /\ ready'     = RemoveFromReady(ready, t, priority[t])
      /\ blocked'   = [blocked EXCEPT ![k] = s]
      /\ remaining' = [remaining EXCEPT ![t] = r]
      /\ st2        = [st EXCEPT ![t] = "BLOCKED"]
      /\ UNCHANGED <<priority, current, irq>>
  BY DEF GoesToSleep, AddToBlocked
<1>4. blocked[k] \in Seq(Task) /\ IsInjective(blocked[k]) /\ t \notin ToSet(blocked[k])
        /\ remaining \in [Task -> Int] /\ Sorted(blocked[k], remaining)
  BY <1>1 DEF Types, SleepersOf, SortedBlocked
<1>5. /\ s \in Seq(Task) /\ IsInjective(s) /\ ToSet(s) = ToSet(blocked[k]) \cup {t}
      /\ Sorted(s, [remaining EXCEPT ![t] = r])
  <2> DEFINE b == blocked[k]
  <2> HIDE DEF b
  <2>1. /\ InsertSorted(b, t, remaining, r) \in Seq(Task)
        /\ IsInjective(InsertSorted(b, t, remaining, r))
        /\ ToSet(InsertSorted(b, t, remaining, r)) = ToSet(b) \cup {t}
        /\ Sorted(InsertSorted(b, t, remaining, r), [remaining EXCEPT ![t] = r])
    <3>1. b \in Seq(Task) /\ IsInjective(b) /\ t \notin ToSet(b)
            /\ remaining \in [Task -> Int] /\ Sorted(b, remaining)
      BY <1>4 DEF b
    <3> QED BY <3>1, InsertSortedLinks
  <2> QED BY <2>1 DEF b
<1> HIDE DEF s
<1>6. Types(st2)'
  BY <1>1, <1>2, <1>5 DEF Types, TaskState
<1>7. Linked(ready', On(st2)')
  <2> DEFINE on2 == On(st2)'
  <2>1. \A u \in Task : on2[u] = IF u = t THEN -1 ELSE On(st)[u]
    BY <1>1, <1>2 DEF On, Types
  <2>2. priority[t] \in Priority /\ On(st)[t] \in {priority[t], -1}
    BY <1>1, OnFacts DEF Types
  <2>3. ready' = RemoveFromReady(ready, t, priority[t])
    BY <1>2
  <2> HIDE DEF on2
  <2>4. Linked(ready', on2)
    BY <1>1, <2>1, <2>2, <2>3, RemoveReadyLinked
  <2> QED BY <2>4 DEF on2
<1>8. blocked'[k] = s /\ \A c \in Core : c # k => blocked'[c] = blocked[c]
  BY <1>1, <1>2 DEF Types
<1>9. \A c \in Core : \A u \in ToSet(blocked[c]) :
        /\ u \in Task /\ u # t /\ CoreOf[u] = c /\ st[u] = "BLOCKED"
  BY <1>1 DEF SleepersOf
<1>10. /\ \A u \in Task : u # t => remaining'[u] = remaining[u] /\ st2[u] = st[u]
       /\ st2[t] = "BLOCKED"
  BY <1>1, <1>2 DEF Types
<1>11. SleepersOf(st2)'
  BY <1>1, <1>5, <1>8, <1>9, <1>10 DEF SleepersOf
<1>12. SortedBlocked'
  <2> SUFFICES ASSUME NEW c \in Core PROVE Sorted(blocked'[c], remaining')
    BY DEF SortedBlocked
  <2>1. CASE c = k
    BY <1>2, <1>5, <1>8, <2>1
  <2>2. CASE c # k
    <3>1. Sorted(blocked[c], remaining)
      BY <1>1 DEF SortedBlocked
    <3>2. \A u \in ToSet(blocked[c]) : remaining'[u] = remaining[u]
      BY <1>9, <1>10
    <3>3. Sorted(blocked[c], remaining')
      BY <3>1, <3>2, SortedSameKeys
    <3> QED BY <1>8, <2>2, <3>3
  <2> QED BY <2>1, <2>2
<1>13. RunnersOf(st2)'
  BY <1>1, <1>2, <1>10 DEF RunnersOf
<1>14. NobodyOversleeps'
  BY <1>1, <1>2, <1>8, <1>9, <1>10 DEF NobodyOversleeps
<1> QED BY <1>5, <1>6, <1>7, <1>8, <1>11, <1>12, <1>13, <1>14 DEF InvOf

\* A change of the ready lists, states and priorities only, in which the BLOCKED
\* tasks stay so and no core leaves its tick handler.
LEMMA ReadyInv ==
  ASSUME NEW st, NEW st2, InvOf(st), Types(st2)', Linked(ready', On(st2)'),
         \A t \in Task : st[t] = "BLOCKED" => st2[t] = "BLOCKED",
         RunnersOf(st2)', UNCHANGED <<blocked, remaining>>,
         \A c \in Core : irq'[c] = "switch" => irq[c] = "switch"
  PROVE  InvOf(st2)'
<1>1. /\ Types(st) /\ SleepersOf(st) /\ SortedBlocked /\ NobodyOversleeps
      /\ \A c \in Core : ToSet(blocked[c]) \subseteq Task
  BY InvParts
<1>3. SleepersOf(st2)'
  BY <1>1 DEF SleepersOf
<1>4. SortedBlocked' /\ NobodyOversleeps'
  BY <1>1 DEF SortedBlocked, NobodyOversleeps
<1> QED BY <1>3, <1>4 DEF InvOf

\* scheduler_switch_context, when the tasks of the core agree with st.
LEMMA DispatchInv ==
  ASSUME NEW st, NEW st2, InvOf(st), NEW c \in Core, NEW next \in Task \cup {Null},
         Chosen(st, c, next), st2 = Switched(st, c, next),
         ready' = [ready EXCEPT ![c] = RotatedLists(c)],
         current' = [current EXCEPT ![c] = next],
         UNCHANGED <<blocked, priority, remaining>>,
         irq' \in [Core -> IrqStage],
         \A d \in Core : irq'[d] = "switch" => irq[d] = "switch"
  PROVE  InvOf(st2)'
<1>1. Types(st) /\ Linked(ready, On(st)) /\ RunnersOf(st) /\ Null \notin Task
  BY InvParts
<1>2. st2 = [t \in Task |->
             IF t = next THEN "RUNNING"
             ELSE IF t = current[c] /\ st[t] = "RUNNING" THEN "READY"
             ELSE st[t]]
  BY DEF Switched
<1>3. next \in Task => CoreOf[next] = c /\ st[next] \in {"READY", "RUNNING"}
  BY <1>1, OnFacts DEF Chosen
<1>4. \A t \in Task : st2[t] \in {"READY", "RUNNING"} <=> st[t] \in {"READY", "RUNNING"}
  BY <1>2, <1>3
<1>5. \A t \in Task : st[t] = "BLOCKED" => st2[t] = "BLOCKED"
  BY <1>2, <1>3
<1>6. Types(st2)'
  BY <1>1, <1>2 DEF Types, TaskState
<1>7. On(st2)' = On(st)
  BY <1>4 DEF On
<1>8. Linked(ready', On(st2)')
  <2>2. /\ RotatedLists(c) \in [Priority -> ListType(Task)]
        /\ \A p \in Priority : IsListOf(RotatedLists(c)[p], Members(On(st), c, p))
    BY <1>1, RotatedLinked
  <2>3. ready \in [Core -> [Priority -> ListType(Task)]]
    BY <1>1 DEF Linked
  <2>4. ready' \in [Core -> [Priority -> ListType(Task)]]
    BY <2>2, <2>3
  <2>5. \A d \in Core, p \in Priority : IsListOf(ready'[d][p], Members(On(st), d, p))
    <3> TAKE d \in Core, p \in Priority
    <3>1. ready'[d] = IF d = c THEN RotatedLists(c) ELSE ready[d]
      BY <2>3
    <3>2. IsListOf(ready[d][p], Members(On(st), d, p))
      BY <1>1 DEF Linked
    <3> QED BY <2>2, <3>1, <3>2
  <2>6. \A d \in Core, p \in Priority : IsListOf(ready'[d][p], Members(On(st2)', d, p))
    BY <1>7, <2>5
  <2> QED BY <2>4, <2>6 DEF Linked
<1>9. RunnersOf(st2)'
  <2> SUFFICES ASSUME NEW t \in Task, st2[t] = "RUNNING"
               PROVE  current'[CoreOf[t]] = t
    BY DEF RunnersOf
  <2>1. current'[c] = next /\ \A d \in Core : d # c => current'[d] = current[d]
    BY <1>1 DEF Types
  <2>2. CASE t = next
    BY <1>3, <2>1, <2>2
  <2>3. CASE t # next
    <3>1. st[t] = "RUNNING" /\ t # current[c]
      BY <1>2, <2>3
    <3>2. current[CoreOf[t]] = t /\ CoreOf[t] \in Core
      BY <1>1, <3>1, SchedulerAssumption DEF RunnersOf
    <3> QED BY <2>1, <3>1, <3>2
  <2> QED BY <2>2, <2>3
<1> QED BY <1>5, <1>6, <1>8, <1>9, ReadyInv

\* timer_tick_handler up to its loop: the sleepers of the core come closer.
LEMMA TickInv ==
  ASSUME NEW st, InvOf(st), NEW c \in Core, Tick(c)
  PROVE  InvOf(st)'
<1>1. /\ Types(st) /\ Linked(ready, On(st))
      /\ SleepersOf(st) /\ SortedBlocked /\ RunnersOf(st) /\ NobodyOversleeps
      /\ \A d \in Core : ToSet(blocked[d]) \subseteq Task
  BY InvParts
<1>2. /\ irq' = [irq EXCEPT ![c] = "tick"]
      /\ remaining' = [t \in Task |->
           IF t \in ToSet(blocked[c]) THEN remaining[t] - 1 ELSE remaining[t]]
      /\ UNCHANGED <<ready, blocked, priority, current>>
  BY DEF Tick
<1>3. Types(st)'
  BY <1>1, <1>2 DEF Types, IrqStage
<1>4. On(st)' = On(st)
  BY <1>2 DEF On
<1>5. SleepersOf(st)' /\ RunnersOf(st)'
  BY <1>1, <1>2 DEF SleepersOf, RunnersOf
<1>6. \A d \in Core : \A t \in ToSet(blocked[d]) :
        remaining[t] \in Int /\ remaining'[t] = IF d = c THEN remaining[t] - 1 ELSE remaining[t]
  BY <1>1, <1>2 DEF Types, SleepersOf
<1>7. SortedBlocked'
  <2> SUFFICES ASSUME NEW d \in Core PROVE Sorted(blocked[d], remaining')
    BY <1>2 DEF SortedBlocked
  <2>1. Sorted(blocked[d], remaining)
    BY <1>1 DEF SortedBlocked
  <2>2. CASE d = c
    <3>1. \A t \in ToSet(blocked[d]) :
            remaining[t] \in Int /\ remaining'[t] = remaining[t] - 1
      BY <1>6, <2>2
    <3> QED BY <2>1, <3>1, SortedShifted
  <2>3. CASE d # c
    <3>1. \A t \in ToSet(blocked[d]) : remaining'[t] = remaining[t]
      BY <1>6, <2>3
    <3> QED BY <2>1, <3>1, SortedSameKeys
  <2> QED BY <2>2, <2>3
<1>8. \A d \in Core : irq'[d] = "switch" => d # c /\ irq[d] = "switch"
  BY <1>1, <1>2 DEF Types
<1>9. NobodyOversleeps'
  BY <1>1, <1>2, <1>6, <1>8 DEF NobodyOversleeps
<1>10. Linked(ready', On(st)')
  BY <1>1, <1>2, <1>4
<1> QED BY <1>3, <1>5, <1>7, <1>9, <1>10 DEF InvOf

\* One iteration of the loop unlinks the head of the blocked list ...
LEMMA TickWakeHead ==
  ASSUME NEW st, InvOf(st), NEW c \in Core, TickWake(c)
  PROVE  /\ blocked[c][1] \in Task /\ CoreOf[blocked[c][1]] = c
         /\ blocked[c][1] \in ToSet(blocked[c]) /\ st[blocked[c][1]] = "BLOCKED"
         /\ ToSet(blocked'[c]) = ToSet(blocked[c]) \ {blocked[c][1]}
         /\ \A d \in Core : d # c => blocked'[d] = blocked[d]
         /\ Tail(blocked[c]) \in Seq(Task) /\ IsInjective(Tail(blocked[c]))
         /\ ToSet(Tail(blocked[c])) = ToSet(blocked[c]) \ {blocked[c][1]}
         /\ Sorted(Tail(blocked[c]), remaining)
<1> DEFINE t == blocked[c][1]
<1>1. /\ Types(st) /\ SleepersOf(st) /\ SortedBlocked
      /\ \A d \in Core : ToSet(blocked[d]) \subseteq Task
  BY InvParts
<1>2. blocked[c] # <<>> /\ blocked' = [blocked EXCEPT ![c] = Tail(@)]
  BY DEF TickWake, Due
<1>3. blocked[c] \in Seq(Task) /\ IsInjective(blocked[c]) /\ Sorted(blocked[c], remaining)
  BY <1>1 DEF Types, SleepersOf, SortedBlocked
<1>4. /\ t \in ToSet(blocked[c])
      /\ Tail(blocked[c]) \in Seq(Task)
      /\ IsInjective(Tail(blocked[c]))
      /\ ToSet(Tail(blocked[c])) = ToSet(blocked[c]) \ {t}
      /\ Grows(Tail(blocked[c]), blocked[c], t, Len(blocked[c]) - 1, 0)
  BY <1>2, <1>3, TailUnlinks
<1>5. Sorted(Tail(blocked[c]), remaining)
  BY <1>3, <1>4, ShrunkSorted
<1>6. t \in Task /\ CoreOf[t] = c /\ st[t] = "BLOCKED"
  BY <1>1, <1>4 DEF SleepersOf
<1>7. ToSet(blocked'[c]) = ToSet(blocked[c]) \ {t} /\ \A d \in Core : d # c => blocked'[d] = blocked[d]
  BY <1>1, <1>2, <1>4 DEF Types
<1> QED BY <1>4, <1>5, <1>6, <1>7

\* ... and makes it ready.
LEMMA TickWakeInv ==
  ASSUME NEW st, NEW st2, InvOf(st), NEW c \in Core, TickWake(c),
         st2 = [st EXCEPT ![blocked[c][1]] = "READY"]
  PROVE  InvOf(st2)'
<1> DEFINE t == blocked[c][1]
<1>1. /\ blocked'   = [blocked EXCEPT ![c] = Tail(@)]
      /\ ready'     = AddToReady(ready, t, priority[t])
      /\ remaining' = [remaining EXCEPT ![t] = 0]
      /\ UNCHANGED <<priority, current, irq>>
  BY DEF TickWake
<1>2. /\ t \in Task /\ CoreOf[t] = c /\ st[t] = "BLOCKED"
      /\ Tail(blocked[c]) \in Seq(Task) /\ IsInjective(Tail(blocked[c]))
      /\ ToSet(Tail(blocked[c])) = ToSet(blocked[c]) \ {t}
      /\ Sorted(Tail(blocked[c]), remaining)
  BY TickWakeHead
<1>3. blocked' = [blocked EXCEPT ![CoreOf[t]] = Tail(blocked[c])]
  BY <1>1, <1>2
<1>4. st2 = [st EXCEPT ![t] = "READY"]
  OBVIOUS
<1> HIDE DEF t
<1> QED BY <1>1, <1>2, <1>3, <1>4, WakeInv

\* The loop ends when the head is not due, and then nobody is.
LEMMA TickDoneInv ==
  ASSUME NEW st, InvOf(st), NEW c \in Core, TickDone(c)
  PROVE  InvOf(st)'
<1>1. /\ Types(st) /\ Linked(ready, On(st))
      /\ SleepersOf(st) /\ SortedBlocked /\ RunnersOf(st) /\ NobodyOversleeps
      /\ \A d \in Core : ToSet(blocked[d]) \subseteq Task
  BY InvParts
<1>2. /\ ~ Due(c)
      /\ irq' = [irq EXCEPT ![c] = "switch"]
      /\ UNCHANGED <<ready, blocked, priority, remaining, current>>
  BY DEF TickDone
<1>3. Types(st)'
  BY <1>1, <1>2 DEF Types, IrqStage
<1>4. On(st)' = On(st)
  BY <1>2 DEF On
<1>5. SleepersOf(st)' /\ RunnersOf(st)' /\ SortedBlocked'
  BY <1>1, <1>2 DEF SleepersOf, RunnersOf, SortedBlocked
<1>6. \A t \in ToSet(blocked[c]) : remaining[t] > 0
  <2>1. blocked[c] \in Seq(Task) /\ Sorted(blocked[c], remaining)
          /\ remaining \in [Task -> Int]
    BY <1>1 DEF Types, SortedBlocked
  <2> TAKE t \in ToSet(blocked[c])
  <2>2. remaining[blocked[c][1]] <= remaining[t]
    BY <2>1, SortedHead
  <2>3. blocked[c] # <<>>
    BY <2>1, LinkedNotEmpty
  <2>4. blocked[c][1] \in Task /\ t \in Task
    BY <1>1, <2>1, <2>3, HeadLinked
  <2>5. ~ (remaining[blocked[c][1]] <= 0)
    BY <1>2, <2>3 DEF Due
  <2> QED BY <2>1, <2>2, <2>4, <2>5
<1>7. \A d \in Core : irq'[d] = "switch" => d = c \/ irq[d] = "switch"
  BY <1>1, <1>2 DEF Types
<1>8. NobodyOversleeps'
  BY <1>1, <1>2, <1>6, <1>7 DEF NobodyOversleeps
<1>9. Linked(ready', On(st)')
  BY <1>1, <1>2, <1>4
<1> QED BY <1>3, <1>5, <1>8, <1>9 DEF InvOf

\* task_create.
LEMMA CreateInv ==
  ASSUME NEW st, NEW st2, InvOf(st), NEW t \in Task, task_create(t), st[t] = "NONE",
         st2 = [st EXCEPT ![t] = "READY"]
  PROVE  InvOf(st2)'
<1>1. Types(st) /\ Linked(ready, On(st)) /\ RunnersOf(st)
  BY InvParts
<1>2. /\ ready' = AddToReady(ready, t, priority[t])
      /\ UNCHANGED <<blocked, priority, remaining, current, irq>>
  BY DEF task_create
<1>3. Types(st2)'
  BY <1>1, <1>2 DEF Types, TaskState
<1>4. Linked(ready', On(st2)')
  <2> DEFINE on2 == On(st2)'
  <2>1. \A u \in Task : on2[u] = IF u = t THEN priority[t] ELSE On(st)[u]
    BY <1>1, <1>2 DEF On, Types
  <2>2. priority[t] \in Priority /\ On(st)[t] \notin Priority
    BY <1>1, OnFacts DEF Types
  <2> HIDE DEF on2
  <2>3. Linked(ready', on2)
    BY <1>1, <1>2, <2>1, <2>2, AddReadyLinked
  <2> QED BY <2>3 DEF on2
<1>5. RunnersOf(st2)' /\ \A u \in Task : st[u] = "BLOCKED" => st2[u] = "BLOCKED"
  BY <1>1, <1>2 DEF RunnersOf, Types
<1> QED BY <1>2, <1>3, <1>4, <1>5, ReadyInv

\* A task that waits without a timeout leaves its ready list.
LEMMA SuspendInv ==
  ASSUME NEW st, NEW st2, InvOf(st), NEW t \in Task,
         ready' = RemoveFromReady(ready, t, priority[t]),
         st2 = [st EXCEPT ![t] = "BLOCKED"],
         UNCHANGED <<blocked, priority, remaining, current, irq>>
  PROVE  InvOf(st2)'
<1>1. Types(st) /\ Linked(ready, On(st)) /\ RunnersOf(st)
  BY InvParts
<1>2. Types(st2)'
  BY <1>1 DEF Types, TaskState
<1>3. Linked(ready', On(st2)')
  <2> DEFINE on2 == On(st2)'
  <2>1. \A u \in Task : on2[u] = IF u = t THEN -1 ELSE On(st)[u]
    BY <1>1 DEF On, Types
  <2>2. priority[t] \in Priority /\ On(st)[t] \in {priority[t], -1}
    BY <1>1, OnFacts DEF Types
  <2> HIDE DEF on2
  <2>3. Linked(ready', on2)
    BY <1>1, <2>1, <2>2, RemoveReadyLinked
  <2> QED BY <2>3 DEF on2
<1>4. RunnersOf(st2)' /\ \A u \in Task : st[u] = "BLOCKED" => st2[u] = "BLOCKED"
  BY <1>1 DEF RunnersOf, Types
<1> QED BY <1>2, <1>3, <1>4, ReadyInv

\* scheduler_remove_from_blocked_list: the others stay, in their order.
LEMMA OffBlocked ==
  ASSUME NEW st, InvOf(st), NEW t \in Task
  PROVE  \E s \in Seq(Task) :
           /\ RemoveFromBlocked(blocked, t) = [blocked EXCEPT ![CoreOf[t]] = s]
           /\ IsInjective(s) /\ ToSet(s) = ToSet(blocked[CoreOf[t]]) \ {t}
           /\ Sorted(s, remaining)
<1> DEFINE k == CoreOf[t]
           s == IF t \in ToSet(blocked[k]) THEN Unlinked(blocked[k], t) ELSE blocked[k]
<1>1. /\ Types(st) /\ SleepersOf(st) /\ SortedBlocked /\ k \in Core
  BY InvParts
<1>2. blocked[k] \in Seq(Task) /\ IsInjective(blocked[k]) /\ Sorted(blocked[k], remaining)
  BY <1>1 DEF Types, SleepersOf, SortedBlocked
<1>3. s \in Seq(Task) /\ IsInjective(s) /\ ToSet(s) = ToSet(blocked[k]) \ {t}
        /\ Sorted(s, remaining)
  <2>1. CASE t \in ToSet(blocked[k])
    <3>1. /\ s \in Seq(Task) /\ IsInjective(s) /\ ToSet(s) = ToSet(blocked[k]) \ {t}
          /\ Grows(s, blocked[k], t, Len(blocked[k]) - 1, PosOf(blocked[k], t) - 1)
      BY <1>2, <2>1, Unlinks
    <3> QED BY <1>2, <3>1, ShrunkSorted
  <2>2. CASE t \notin ToSet(blocked[k])
    BY <1>2, <2>2
  <2> QED BY <2>1, <2>2
<1>4. RemoveFromBlocked(blocked, t) = [blocked EXCEPT ![k] = s]
  BY <1>1 DEF RemoveFromBlocked, Types
<1> HIDE DEF s
<1> QED BY <1>3, <1>4

\* A BLOCKED task is made ready at a priority, by whoever wakes it.
LEMMA ReadyAtInv ==
  ASSUME NEW st, NEW st2, InvOf(st), NEW t \in Task, NEW p \in Priority, st[t] = "BLOCKED",
         blocked'   = RemoveFromBlocked(blocked, t),
         ready'     = AddToReady(ready, t, p),
         priority'  = [priority EXCEPT ![t] = p],
         st2        = [st EXCEPT ![t] = "READY"],
         remaining' = [remaining EXCEPT ![t] = 0],
         UNCHANGED <<current, irq>>
  PROVE  /\ InvOf(st2)'
         /\ \A c \in Core : ToSet(blocked'[c]) \subseteq ToSet(blocked[c])
<1>1. PICK s \in Seq(Task) :
           /\ RemoveFromBlocked(blocked, t) = [blocked EXCEPT ![CoreOf[t]] = s]
           /\ IsInjective(s) /\ ToSet(s) = ToSet(blocked[CoreOf[t]]) \ {t}
           /\ Sorted(s, remaining)
  BY OffBlocked
<1>2. blocked' = [blocked EXCEPT ![CoreOf[t]] = s]
  BY <1>1
<1>3. InvOf(st2)'
  BY <1>1, <1>2, WakeAtInv
<1>4. \A c \in Core : ToSet(blocked'[c]) \subseteq ToSet(blocked[c])
  <2>1. blocked \in [Core -> Seq(Task)]
    BY InvParts DEF Types
  <2> QED BY <1>1, <1>2, <2>1
<1> QED BY <1>3, <1>4

\* ... which is the one it has.
LEMMA MakeReadyInv ==
  ASSUME NEW st, NEW st2, InvOf(st), NEW t \in Task, MakeReady(t), st[t] = "BLOCKED",
         st2 = [st EXCEPT ![t] = "READY"]
  PROVE  /\ InvOf(st2)'
         /\ \A c \in Core : ToSet(blocked'[c]) \subseteq ToSet(blocked[c])
<1>1. /\ blocked'   = RemoveFromBlocked(blocked, t)
      /\ ready'     = AddToReady(ready, t, priority[t])
      /\ remaining' = [remaining EXCEPT ![t] = 0]
      /\ UNCHANGED <<priority, current, irq>>
  BY DEF MakeReady
<1>2. priority[t] \in Priority /\ priority' = [priority EXCEPT ![t] = priority[t]]
  BY <1>1, InvParts DEF Types
<1> QED BY <1>1, <1>2, ReadyAtInv

\* A task changes its priority, and its ready list if the lists show it ready.
LEMMA MovedInv ==
  ASSUME NEW st, NEW st2, InvOf(st), NEW t \in Task, NEW p \in Priority,
         st[t] = state[t], st2 = st,
         ready'    = ReadyAtPriority(ready, t, p),
         priority' = [priority EXCEPT ![t] = p],
         UNCHANGED <<blocked, remaining, current, irq>>
  PROVE  InvOf(st2)'
<1>1. Types(st) /\ Linked(ready, On(st)) /\ RunnersOf(st)
  BY InvParts
<1>2. /\ ready'    = ReadyAtPriority(ready, t, p)
      /\ priority' = [priority EXCEPT ![t] = p]
      /\ UNCHANGED <<blocked, remaining, current, irq>>
  OBVIOUS
<1>3. Types(st2)'
  BY <1>1, <1>2 DEF Types
<1>4. RunnersOf(st2)' /\ \A u \in Task : st[u] = "BLOCKED" => st2[u] = "BLOCKED"
  BY <1>1, <1>2 DEF RunnersOf
<1>5. /\ priority[t] \in Priority /\ On(st)[t] \in {priority[t], -1}
      /\ On(st) \in [Task -> Priority \cup {-1}] /\ -1 \notin Priority
  BY <1>1, OnFacts DEF Types
<1>6. Linked(ready', On(st2)')
  <2> DEFINE on == On(st)
             on2 == On(st2)'
  <2>1. CASE state[t] \in {"READY", "RUNNING"}
    <3> DEFINE mid == [on EXCEPT ![t] = -1]
               off == RemoveFromReady(ready, t, priority[t])
    <3>1. Linked(off, mid)
      <4>1. \A u \in Task : mid[u] = IF u = t THEN -1 ELSE on[u]
        BY <1>5
      <4> HIDE DEF mid
      <4> QED BY <1>1, <1>5, <4>1, RemoveReadyLinked
    <3>2. ready' = AddToReady(off, t, p)
      BY <1>2, <2>1 DEF ReadyAtPriority
    <3>3. \A u \in Task : on2[u] = IF u = t THEN p ELSE mid[u]
      BY <1>1, <1>2, <1>5, <2>1 DEF On, Types
    <3>4. mid[t] \notin Priority
      BY <1>5
    <3> HIDE DEF mid, off, on2
    <3>5. Linked(ready', on2)
      BY <3>1, <3>2, <3>3, <3>4, AddReadyLinked
    <3> QED BY <3>5 DEF on2
  <2>2. CASE state[t] \notin {"READY", "RUNNING"}
    <3>1. ready' = ready
      BY <1>2, <2>2 DEF ReadyAtPriority
    <3>2. on2 = on
      BY <1>1, <1>2, <2>2 DEF On, Types
    <3> QED BY <1>1, <3>1, <3>2
  <2> QED BY <2>1, <2>2
<1> QED BY <1>2, <1>3, <1>4, <1>6, ReadyInv

\* scheduler_change_task_priority on any task.
LEMMA PriorityInv ==
  ASSUME Inv, NEW t \in Task, NEW p \in Priority, scheduler_change_task_priority(t, p)
  PROVE  Inv'
<1>1. /\ ready'    = ReadyAtPriority(ready, t, p)
      /\ priority' = [priority EXCEPT ![t] = p]
      /\ UNCHANGED <<blocked, state, remaining, current, irq>>
  BY DEF scheduler_change_task_priority
<1>2. InvOf(state)'
  BY <1>1, MovedInv DEF Inv
<1> QED BY <1>2 DEF Inv

\* It holds when the scheduler starts.
LEMMA InitInv ==
  ASSUME Init PROVE Inv
<1>1. Types(state)
  BY SchedulerAssumption DEF Init, Types, TaskState, IrqStage
<1>2. Linked(ready, On(state))
  <2> DEFINE empty == EmptyList
             one(c) == ListAppend(EmptyList, Idle[c])
  <2>1. 0 \in Priority /\ -1 \notin Priority
    BY SchedulerAssumption DEF Priority
  <2>2. \A c \in Core : Idle[c] \in Task /\ CoreOf[Idle[c]] = c /\ BasePriority[Idle[c]] = 0
    BY SchedulerAssumption
  <2>3. \A t \in Task : On(state)[t] = IF t = Idle[CoreOf[t]] THEN BasePriority[t] ELSE -1
    BY DEF On, Init
  <2>4. \A c \in Core, p \in Priority :
          Members(On(state), c, p) = IF p = 0 THEN {Idle[c]} ELSE {}
    BY <2>1, <2>2, <2>3 DEF Members
  <2>5. empty \in ListType(Task) /\ IsListOf(empty, {})
    <3>1. empty \in ListType(Task)
      BY DEF EmptyList, ListType
    <3>2. ToSet(<<>>) = {} /\ IsInjective(<<>>)
      BY DEF ToSet, IsInjective
    <3> QED BY <3>1, <3>2 DEF EmptyList, IsListOf
  <2>6. \A c \in Core : one(c) \in ListType(Task) /\ IsListOf(one(c), {Idle[c]})
    <3> TAKE c \in Core
    <3>1. Idle[c] \in Task /\ Idle[c] \notin {} /\ {} \cup {Idle[c]} = {Idle[c]}
      BY <2>2
    <3> QED BY <2>5, <3>1, AppendToList
  <2>7. ready = [c \in Core |-> [p \in Priority |-> IF p = 0 THEN one(c) ELSE empty]]
    BY DEF Init
  <2> HIDE DEF one, empty
  <2>8. ready \in [Core -> [Priority -> ListType(Task)]]
    BY <2>5, <2>6, <2>7
  <2>9. \A c \in Core, p \in Priority : IsListOf(ready[c][p], Members(On(state), c, p))
    <3> TAKE c \in Core, p \in Priority
    <3>1. ready[c][p] = IF p = 0 THEN one(c) ELSE empty
      BY <2>7
    <3>2. CASE p = 0
      BY <2>4, <2>6, <3>1, <3>2
    <3>3. CASE p # 0
      BY <2>4, <2>5, <3>1, <3>3
    <3> QED BY <3>2, <3>3
  <2> QED BY <2>8, <2>9 DEF Linked
<1>3. \A c \in Core : blocked[c] = <<>> /\ irq[c] = "none"
  BY DEF Init
<1>4. SleepersOf(state) /\ SortedBlocked
  <2>1. ToSet(<<>>) = {} /\ IsInjective(<<>>) /\ Sorted(<<>>, remaining)
    BY DEF ToSet, IsInjective, Sorted
  <2> QED BY <1>3, <2>1 DEF SleepersOf, SortedBlocked
<1>5. RunnersOf(state)
  BY DEF Init, RunnersOf
<1>6. NobodyOversleeps
  BY <1>3 DEF NobodyOversleeps
<1> QED BY <1>1, <1>2, <1>4, <1>5, <1>6 DEF Inv, InvOf

\* A core that switches, when st is the states themselves.
LEMMA SwitchInv ==
  ASSUME Inv, NEW c \in Core, Dispatch(c), UNCHANGED <<blocked, priority, remaining>>,
         irq' \in [Core -> IrqStage],
         \A d \in Core : irq'[d] = "switch" => irq[d] = "switch"
  PROVE  Inv'
<1>1. InvOf(state) /\ Types(state) /\ Linked(ready, On(state)) /\ state \in [Task -> TaskState]
  BY InvParts DEF Inv, Types
<1>2. PICK next \in Task \cup {Null} :
        /\ Chosen(state, c, next)
        /\ current' = [current EXCEPT ![c] = next]
        /\ state' = Switched(state, c, next)
  BY <1>1, DispatchFacts
<1>3. ready' = [ready EXCEPT ![c] = RotatedLists(c)]
  BY <1>1, DispatchFacts
<1>4. InvOf(state)'
  BY <1>1, <1>2, <1>3, DispatchInv
<1> QED BY <1>4 DEF Inv

\* Every step of every actor preserves the invariant.
LEMMA NextInv ==
  ASSUME Inv, [Next]_vars PROVE Inv'
<1>1. InvOf(state) /\ Types(state) /\ Null \notin Task
  BY InvParts DEF Inv
<1>2. SUFFICES InvOf(state)'
  BY DEF Inv
<1>3. ASSUME NEW c \in Core, scheduler_start(c) PROVE InvOf(state)'
  <2>1. Dispatch(c) /\ UNCHANGED <<blocked, priority, remaining, irq>>
    BY <1>3 DEF scheduler_start
  <2> QED BY <1>1, <2>1, SwitchInv DEF Types, Inv
<1>4. ASSUME NEW c \in Core, scheduler_switch_context(c) PROVE InvOf(state)'
  <2>1. Dispatch(c) /\ UNCHANGED <<blocked, priority, remaining>>
          /\ irq' = [irq EXCEPT ![c] = "none"]
    BY <1>4 DEF scheduler_switch_context
  <2>2. irq' \in [Core -> IrqStage] /\ \A d \in Core : irq'[d] = "switch" => irq[d] = "switch"
    BY <1>1, <2>1 DEF Types, IrqStage
  <2> QED BY <2>1, <2>2, SwitchInv DEF Inv
<1>5. ASSUME NEW c \in Core, Tick(c) PROVE InvOf(state)'
  <2>1. UNCHANGED state
    BY <1>5 DEF Tick
  <2> QED BY <1>1, <1>5, <2>1, TickInv
<1>6. ASSUME NEW c \in Core, TickWake(c) PROVE InvOf(state)'
  <2>1. state' = [state EXCEPT ![blocked[c][1]] = "READY"]
    BY <1>6 DEF TickWake
  <2> QED BY <1>1, <1>6, <2>1, TickWakeInv
<1>7. ASSUME NEW c \in Core, TickDone(c) PROVE InvOf(state)'
  <2>1. UNCHANGED state
    BY <1>7 DEF TickDone
  <2> QED BY <1>1, <1>7, <2>1, TickDoneInv
<1>8. ASSUME NEW t \in Task, task_create(t) PROVE InvOf(state)'
  <2>1. state[t] = "NONE" /\ state' = [state EXCEPT ![t] = "READY"]
    BY <1>8 DEF task_create
  <2> QED BY <1>1, <1>8, <2>1, CreateInv
<1>9. ASSUME NEW t \in Task, NEW r \in Delays[t], block_until(t, r) PROVE InvOf(state)'
  <2>1. r \in Int
    BY SchedulerAssumption
  <2>2. irq[CoreOf[t]] = "none" /\ state[t] # "BLOCKED" /\ GoesToSleep(state, state', t, r)
    BY <1>9 DEF block_until, Executing, Sleep, GoesToSleep
  <2> QED BY <1>1, <2>1, <2>2, SleepInv
<1>10. ASSUME NEW t \in Task, Suspend(t) PROVE InvOf(state)'
  <2>1. /\ ready' = RemoveFromReady(ready, t, priority[t])
        /\ state' = [state EXCEPT ![t] = "BLOCKED"]
        /\ UNCHANGED <<blocked, priority, remaining, current, irq>>
    BY <1>10 DEF Suspend, SleepForever
  <2> QED BY <1>1, <2>1, SuspendInv
<1>11. ASSUME NEW t \in Task, Wake(t) PROVE InvOf(state)'
  <2>1. state[t] = "BLOCKED" /\ MakeReady(t) /\ state' = [state EXCEPT ![t] = "READY"]
    BY <1>11 DEF Wake, MakeReady
  <2> QED BY <1>1, <2>1, MakeReadyInv
<1>12. ASSUME NEW t \in Task, NEW p \in Priority, Inherit(t, p) PROVE InvOf(state)'
  BY <1>12, PriorityInv DEF Inherit, Inv
<1>13. CASE UNCHANGED vars
  BY <1>1, <1>13
  DEF vars, InvOf, Types, On, SleepersOf, SortedBlocked, RunnersOf, NobodyOversleeps
<1> QED
  BY <1>3, <1>4, <1>5, <1>6, <1>7, <1>8, <1>9, <1>10, <1>11, <1>12, <1>13 DEF Next, Kernel

-------------------------------------------------------------------------------

\* It holds in every reachable state.
LEMMA Invariance ==
  Spec => []Inv
<1>1. Init => Inv
  BY InitInv
<1>2. Inv /\ [Next]_vars => Inv'
  BY NextInv
<1> QED BY <1>1, <1>2, PTL DEF Spec

\* Every variable of scheduler.c keeps its type: in particular every list that
\* the code links stays a sequence of tasks with a cursor.
THEOREM TypeCorrect ==
  Spec => []TypeOK
<1>1. Inv => TypeOK
  BY DEF Inv, InvOf, Types, Linked, ListType, TypeOK
<1> QED BY <1>1, Invariance, PTL

\* The lists that the invariant describes are the ones that ReadyListsExact asks for.
LEMMA ReadyOfInv ==
  Inv => ReadyListsExact
<1> SUFFICES ASSUME Inv, NEW c \in Core, NEW p \in Priority
             PROVE  /\ IsInjective(ready[c][p].items)
                    /\ ToSet(ready[c][p].items) =
                         {t \in Task : /\ CoreOf[t] = c
                                       /\ priority[t] = p
                                       /\ state[t] \in {"READY", "RUNNING"}}
  BY DEF ReadyListsExact
<1>1. /\ IsInjective(ready[c][p].items)
      /\ ToSet(ready[c][p].items) = Members(On(state), c, p)
  BY InvParts DEF Inv, Linked, IsListOf
<1>2. Members(On(state), c, p) = {t \in Task : /\ CoreOf[t] = c
                                       /\ priority[t] = p
                                       /\ state[t] \in {"READY", "RUNNING"}}
  BY InvParts, OnFacts DEF Inv, Members
<1> QED BY <1>1, <1>2

\* The ready lists hold exactly the tasks that can run, each at its own priority
\* and once, whatever tick, wake-up and priority change is in progress.
THEOREM ReadyIntegrity ==
  Spec => []ReadyListsExact
BY ReadyOfInv, Invariance, PTL

\* The round-robin cursor of a non-empty list is at a task of the list, and that
\* of an empty list is NULL, so the dispatcher never follows a dangling cursor.
THEOREM CursorIntegrity ==
  Spec => []CursorInList
<1>1. Inv => CursorInList
  BY InvParts DEF Inv, Linked, IsListOf, CursorInList
<1> QED BY <1>1, Invariance, PTL

\* The blocked list links only BLOCKED tasks of its core, each once.
THEOREM BlockedIntegrity ==
  Spec => []BlockedListExact
<1>1. Inv => BlockedListExact
  BY DEF Inv, InvOf, SleepersOf, BlockedListExact
<1> QED BY <1>1, Invariance, PTL

\* At most one task of a core is RUNNING, the one in p_task_control_block.
THEOREM SingleRunner ==
  Spec => []OneRunning
<1>1. Inv => OneRunning
  BY DEF Inv, InvOf, RunnersOf, OneRunning
<1> QED BY <1>1, Invariance, PTL

\* The tick handler, which only looks at the head of the blocked list, leaves no
\* sleeper behind that is due.
THEOREM WakesOnTime ==
  Spec => []NobodyOversleeps
<1>1. Inv => NobodyOversleeps
  BY DEF Inv, InvOf
<1> QED BY <1>1, Invariance, PTL

\* A context switch picks a ready task that no ready task of its core outranks.
THEOREM PriorityDispatch ==
  Spec => RunsHighest
<1> DEFINE Picks == \A c \in Core : irq[c] = "switch" /\ irq'[c] = "none" =>
             \A t \in Task : CoreOf[t] = c /\ state'[t] \in {"READY", "RUNNING"} =>
               current'[c] # Null /\ priority'[t] <= priority'[current'[c]]
<1>1. ASSUME Inv, [Next]_vars PROVE [Picks]_vars
  <2> SUFFICES ASSUME NEW c \in Core, irq[c] = "switch", irq'[c] = "none",
                      NEW t \in Task, CoreOf[t] = c, state'[t] \in {"READY", "RUNNING"}
               PROVE  current'[c] # Null /\ priority'[t] <= priority'[current'[c]]
    OBVIOUS
  <2>1. /\ Types(state) /\ Linked(ready, On(state)) /\ Null \notin Task
        /\ state \in [Task -> TaskState]
    BY <1>1, InvParts DEF Inv, Types
  <2>2. scheduler_switch_context(c)
    <3>1. ~ UNCHANGED irq
      OBVIOUS
    <3>2. PICK d \in Core : Tick(d) \/ TickDone(d) \/ scheduler_switch_context(d)
      BY <1>1, <3>1 DEF Next, Kernel, vars, scheduler_start, TickWake, task_create,
           block_until, Sleep, Suspend, SleepForever, Wake, MakeReady, Inherit,
           scheduler_change_task_priority
    <3> QED BY <2>1, <3>2 DEF Types, Tick, TickDone, scheduler_switch_context
  <2>3. Dispatch(c) /\ priority' = priority
    BY <2>2 DEF scheduler_switch_context
  <2>4. PICK next \in Task \cup {Null} :
          /\ Chosen(state, c, next)
          /\ current' = [current EXCEPT ![c] = next]
          /\ state' = Switched(state, c, next)
    BY <2>1, <2>3, DispatchFacts
  <2>5. current'[c] = next
    BY <2>1, <2>4 DEF Types
  <2>6. next \in Task => state[next] \in {"READY", "RUNNING"}
    BY <2>1, <2>4, OnFacts DEF Chosen
  <2>7. state[t] \in {"READY", "RUNNING"}
    BY <2>4, <2>6 DEF Switched
  <2>8. On(state)[t] \in Priority /\ On(state)[t] = priority[t]
    BY <2>1, <2>7, OnFacts
  <2>9. next # Null /\ next \in Task /\ On(state)[t] <= On(state)[next] /\ On(state)[next] \in Priority
    BY <2>1, <2>4, <2>8 DEF Chosen
  <2>10. On(state)[next] = priority[next]
    BY <2>1, <2>9, OnFacts
  <2> QED BY <2>3, <2>5, <2>8, <2>9, <2>10
<1>2. Inv /\ [Next]_vars => [Picks]_vars
  BY <1>1
<1>3. [][Picks]_vars => RunsHighest
  BY DEF RunsHighest
<1> HIDE DEF Picks
<1> QED BY <1>2, <1>3, Invariance, PTL DEF Spec
===============================================================================
