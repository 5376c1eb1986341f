----------------------------- MODULE ServicesProofs ----------------------------
(***************************************************************************)
(* Proofs about two services that share no state: SoftwareTimer, for any   *)
(* set of timers, none of them Careless, and any periods, and              *)
(* CompanionCores, for any number of cores.                                *)
(*                                                                         *)
(* The inductive invariant of the timers has a part about the lists        *)
(* (ListsOk: list_id names the list that a timer is in, and the blocked    *)
(* list is sorted, without which the tick's look at the head would not be  *)
(* enough) and a part about the service task (ServiceOk: a cancelled timer *)
(* is in no list, so that it can only come back through a call that arms   *)
(* it, and a periodic timer that the service task has in hand is in no     *)
(* list, so that arming it again does not link it twice).  That of the     *)
(* companion cores counts how often a core may still feed the watchdog     *)
(* after another one is gone (LateBound).                                  *)
(***************************************************************************)
EXTENDS SoftwareTimer, CompanionCores, TaskListsProofs

\* ---- Software timers ----

\* The lists b and a link the timers that id says, b in the order of key
ListsOk(b, a, id, key) ==
  /\ b \in Seq(Timer) /\ a \in Seq(Timer)
  /\ id \in [Timer -> {"NONE", "BLOCKED", "ACTIVE"}]
  /\ key \in [Timer -> Int]
  /\ IsInjective(b) /\ IsInjective(a)
  /\ ToSet(b) = {t \in Timer : id[t] = "BLOCKED"}
  /\ ToSet(a) = {t \in Timer : id[t] = "ACTIVE"}
  /\ Sorted(b, key)

\* The timer in the service task's hands, and those that were cancelled
ServiceOk(svc, srv, canc, id) ==
  /\ svc \in {"wait", "pop", "callback"}
  /\ srv \in Timer \cup {Null} /\ canc \subseteq Timer
  /\ srv # Null <=> svc = "callback"
  /\ srv \notin canc
  /\ srv \in Periodic => id[srv] = "NONE"
  /\ \A t \in canc : id[t] = "NONE"

\* The tokens on the way to the service task are enough for the active list a
TokensFor(a, tok, svc) ==
  tok \in Nat /\ Len(a) <= tok + (IF svc = "pop" THEN 1 ELSE 0)

TimerInv ==
  /\ ListsOk(timer_blocked, timer_active, list_id, left)
  /\ ServiceOk(service, serving, cancelled, list_id)
  /\ TokensFor(timer_active, tokens, service)
  /\ period \in [Timer -> Nat]
  /\ in_tick \in BOOLEAN /\ started \in BOOLEAN

-------------------------------------------------------------------------------
\* The list operations.

\* A timer that is not in the list cuts nothing off it.
LEMMA NothingCut == ASSUME NEW s, NEW t, t \notin ToSet(s) PROVE Cut(s, t) = s
BY DEF Cut

\* software_timer_add_to_blocked_list of a timer that is in no list.
LEMMA ArmedLists ==
  ASSUME NEW s, NEW a, NEW id, ListsOk(s, a, id, left),
         NEW t \in Timer, id[t] = "NONE", NEW r \in Int
  PROVE  ListsOk(TimerInsert(Cut(s, t), t, r), Cut(a, t), [id EXCEPT ![t] = "BLOCKED"],
                 [left EXCEPT ![t] = r])
<1> DEFINE u == TimerInsert(s, t, r)
           id2 == [id EXCEPT ![t] = "BLOCKED"]
           key == [left EXCEPT ![t] = r]
<1>1. /\ s \in Seq(Timer) /\ IsInjective(s) /\ Sorted(s, left) /\ left \in [Timer -> Int]
      /\ t \notin ToSet(s) /\ t \notin ToSet(a)
  BY DEF ListsOk
<1>2. Cut(s, t) = s /\ Cut(a, t) = a
  BY <1>1, NothingCut
<1>3. \A i \in DOMAIN s : s[i] \in Timer /\ key[s[i]] = left[s[i]]
  BY <1>1 DEF ToSet
<1>4. Links(Timer, s, u, t, key)
  <2>1. CASE s = <<>> \/ r < left[s[1]]
    <3>1. s # <<>> => key[s[1]] = left[s[1]]
      BY <1>1, <1>3
    <3>2. u = Cons(t, s)
      BY <2>1, <3>1 DEF TimerInsert
    <3>3. s = <<>> \/ r <= left[s[1]]
      <4>1. s # <<>> => s[1] \in Timer
        BY <1>1
      <4> QED BY <1>1, <2>1, <4>1
    <3> HIDE DEF u, key
    <3> QED BY <1>1, <3>2, <3>3, InsertedInFront DEF key
  <2>2. CASE s # <<>> /\ ~ (r < left[s[1]])
    <3> DEFINE k == CHOOSE k \in DOMAIN s : Fits(s, left, r, k)
    <3>1. DOMAIN s = 1 .. Len(s) /\ Len(s) \in Nat /\ s[1] \in Timer
      BY <1>1, <2>2
    <3>2. left[s[1]] <= r
      BY <1>1, <2>2, <3>1
    <3> DEFINE m == CHOOSE m \in DOMAIN s : Fits(s, key, r, m)
    <3>3. u = InsertAt(s, m + 1, t)
      <4>1. ~ (s = <<>> \/ r < key[s[1]])
        BY <1>3, <2>2, <3>1
      <4> QED BY <4>1, Zenon DEF TimerInsert, Fits
    <3>4. \A i \in DOMAIN s : Fits(s, key, r, i) <=> Fits(s, left, r, i)
      BY <1>3, <3>1 DEF Fits
    <3>5. m = k
      BY <3>4, Zenon
    <3>6. u = InsertAt(s, k + 1, t)
      BY <3>3, <3>5
    <3>7. k \in 1 .. Len(s) /\ Fits(s, left, r, k)
      BY <1>1, <2>2, <3>1, PlaceExists
    <3> HIDE DEF u, k, m
    <3> QED BY <1>1, <2>2, <3>2, <3>6, <3>7, InsertedBehind
  <2> QED BY <2>1, <2>2
<1>5. /\ u \in Seq(Timer) /\ IsInjective(u) /\ ToSet(u) = ToSet(s) \cup {t}
      /\ Sorted(u, key)
  BY <1>4, Zenon DEF Links
<1>6. /\ id \in [Timer -> {"NONE", "BLOCKED", "ACTIVE"}]
      /\ a \in Seq(Timer) /\ IsInjective(a)
      /\ ToSet(s) = {v \in Timer : id[v] = "BLOCKED"}
      /\ ToSet(a) = {v \in Timer : id[v] = "ACTIVE"}
  BY DEF ListsOk
<1>7. /\ id2 \in [Timer -> {"NONE", "BLOCKED", "ACTIVE"}]
      /\ \A v \in Timer : id2[v] = IF v = t THEN "BLOCKED" ELSE id[v]
      /\ key \in [Timer -> Int]
  BY <1>1, <1>6
<1> HIDE DEF u, id2, key
<1>8. ToSet(u) = {v \in Timer : id2[v] = "BLOCKED"}
  BY <1>5, <1>6, <1>7
<1>9. ToSet(a) = {v \in Timer : id2[v] = "ACTIVE"}
  BY <1>6, <1>7
<1>10. ListsOk(u, a, id2, key)
  BY <1>5, <1>6, <1>7, <1>8, <1>9 DEF ListsOk
<1> QED BY <1>10, <1>2 DEF u, id2, key

\* What stop and reset do first: t is in no list afterwards.
LEMMA WithoutLists ==
  ASSUME ListsOk(timer_blocked, timer_active, list_id, left), NEW t \in Timer
  PROVE  /\ ListsOk(BlockedWithout(t), ActiveWithout(t),
                    [list_id EXCEPT ![t] = "NONE"], left)
         /\ Len(ActiveWithout(t)) <= Len(timer_active)
<1> DEFINE b == BlockedWithout(t)
           a == ActiveWithout(t)
           id2 == [list_id EXCEPT ![t] = "NONE"]
<1>1. /\ timer_blocked \in Seq(Timer) /\ timer_active \in Seq(Timer)
      /\ list_id \in [Timer -> {"NONE", "BLOCKED", "ACTIVE"}]
      /\ left \in [Timer -> Int]
      /\ IsInjective(timer_blocked) /\ IsInjective(timer_active)
      /\ ToSet(timer_blocked) = {v \in Timer : list_id[v] = "BLOCKED"}
      /\ ToSet(timer_active) = {v \in Timer : list_id[v] = "ACTIVE"}
      /\ Sorted(timer_blocked, left)
  BY DEF ListsOk
<1>2. /\ id2 \in [Timer -> {"NONE", "BLOCKED", "ACTIVE"}]
      /\ \A v \in Timer : id2[v] = IF v = t THEN "NONE" ELSE list_id[v]
  BY <1>1
<1> HIDE DEF id2
<1>3. /\ b \in Seq(Timer) /\ IsInjective(b) /\ ToSet(b) = ToSet(timer_blocked) \ {t}
      /\ Sorted(b, left)
  <2>1. CASE list_id[t] = "BLOCKED"
    <3>1. t \in ToSet(timer_blocked)
      BY <1>1, <2>1
    <3>2. b = Unlinked(timer_blocked, t)
      BY <2>1, <3>1 DEF BlockedWithout, TimerUnlink
    <3> HIDE DEF b
    <3>3. /\ b \in Seq(Timer) /\ IsInjective(b) /\ ToSet(b) = ToSet(timer_blocked) \ {t}
          /\ Grows(b, timer_blocked, t, Len(timer_blocked) - 1, PosOf(timer_blocked, t) - 1)
      BY <1>1, <3>1, <3>2, Unlinks
    <3> QED BY <1>1, <3>3, ShrunkSorted
  <2>2. CASE list_id[t] # "BLOCKED"
    BY <1>1, <2>2 DEF BlockedWithout
  <2> QED BY <2>1, <2>2
<1>4. /\ a \in Seq(Timer) /\ IsInjective(a) /\ ToSet(a) = ToSet(timer_active) \ {t}
      /\ Len(a) <= Len(timer_active)
  <2>1. CASE list_id[t] = "ACTIVE"
    <3>1. t \in ToSet(timer_active)
      BY <1>1, <2>1
    <3>2. a = Unlinked(timer_active, t)
      BY <2>1, <3>1 DEF ActiveWithout, TimerUnlink
    <3> HIDE DEF a
    <3>3. /\ a \in Seq(Timer) /\ IsInjective(a) /\ ToSet(a) = ToSet(timer_active) \ {t}
          /\ Grows(a, timer_active, t, Len(timer_active) - 1, PosOf(timer_active, t) - 1)
      BY <1>1, <3>1, <3>2, Unlinks
    <3>4. Len(timer_active) - 1 \in Nat /\ DOMAIN a = 1 .. Len(timer_active) - 1
      BY <3>3 DEF Grows
    <3>5. Len(a) = Len(timer_active) - 1
      BY <3>3, <3>4
    <3> QED BY <1>1, <3>3, <3>5
  <2>2. CASE list_id[t] # "ACTIVE"
    BY <1>1, <2>2 DEF ActiveWithout
  <2> QED BY <2>1, <2>2
<1> HIDE DEF a, b
<1>5. ToSet(b) = {v \in Timer : id2[v] = "BLOCKED"}
  BY <1>1, <1>2, <1>3
<1>6. ToSet(a) = {v \in Timer : id2[v] = "ACTIVE"}
  BY <1>1, <1>2, <1>4
<1>7. ListsOk(b, a, id2, left)
  BY <1>1, <1>2, <1>3, <1>4, <1>5, <1>6 DEF ListsOk
<1> QED BY <1>4, <1>7 DEF a, b, id2

\* The expiry of a timer that is not in the blocked list is nobody's key.
LEMMA ForgottenKey ==
  ASSUME NEW b, NEW a, NEW id, NEW key, ListsOk(b, a, id, key),
         NEW t \in Timer, id[t] # "BLOCKED"
  PROVE  ListsOk(b, a, id, [key EXCEPT ![t] = 0])
<1> DEFINE key2 == [key EXCEPT ![t] = 0]
<1>1. key \in [Timer -> Int] /\ Sorted(b, key)
      /\ ToSet(b) = {v \in Timer : id[v] = "BLOCKED"}
  BY DEF ListsOk
<1>2. key2 \in [Timer -> Int] /\ \A u \in ToSet(b) : key2[u] = key[u]
  BY <1>1
<1> HIDE DEF key2
<1>3. Sorted(b, key2)
  BY <1>1, <1>2, SortedSameKeys
<1>4. ListsOk(b, a, id, key2)
  BY <1>2, <1>3 DEF ListsOk
<1> QED BY <1>4 DEF key2

\* A tick brings all the timers of the blocked list nearer to their expiry.
LEMMA TickedKeys ==
  ASSUME NEW b, NEW a, NEW id, NEW key, ListsOk(b, a, id, key),
         NEW key2 \in [Timer -> Int],
         \A t \in Timer : id[t] # "NONE" => key2[t] = key[t] - 1
  PROVE  ListsOk(b, a, id, key2)
<1>1. key \in [Timer -> Int] /\ Sorted(b, key)
      /\ ToSet(b) = {v \in Timer : id[v] = "BLOCKED"}
  BY DEF ListsOk
<1>2. \A u \in ToSet(b) : key[u] \in Int /\ key2[u] = key[u] - 1
  BY <1>1
<1>3. Sorted(b, key2)
  BY <1>1, <1>2, SortedShifted
<1> QED BY <1>3 DEF ListsOk

\* software_timer_pop_to_active.
LEMMA ActivatedLists ==
  ASSUME NEW b, NEW a, NEW id, NEW key, ListsOk(b, a, id, key), b # <<>>
  PROVE  /\ b[1] \in Timer /\ id[b[1]] = "BLOCKED"
         /\ ListsOk(Tail(b), Cons(b[1], a), [id EXCEPT ![b[1]] = "ACTIVE"], key)
         /\ Len(Cons(b[1], a)) = Len(a) + 1
<1> DEFINE t == b[1]
           b2 == Tail(b)
           a2 == Cons(t, a)
           id2 == [id EXCEPT ![t] = "ACTIVE"]
<1>1. /\ b \in Seq(Timer) /\ a \in Seq(Timer)
      /\ id \in [Timer -> {"NONE", "BLOCKED", "ACTIVE"}]
      /\ key \in [Timer -> Int]
      /\ IsInjective(b) /\ IsInjective(a)
      /\ ToSet(b) = {v \in Timer : id[v] = "BLOCKED"}
      /\ ToSet(a) = {v \in Timer : id[v] = "ACTIVE"}
      /\ Sorted(b, key)
  BY DEF ListsOk
<1>2. /\ t \in ToSet(b) /\ b2 \in Seq(Timer) /\ IsInjective(b2)
      /\ ToSet(b2) = ToSet(b) \ {t}
      /\ Grows(b2, b, t, Len(b) - 1, 0)
  BY <1>1, TailUnlinks
<1>3. t \in Timer /\ id[t] = "BLOCKED" /\ t \notin ToSet(a)
  BY <1>1, <1>2
<1> HIDE DEF t
<1>4. /\ a2 \in Seq(Timer) /\ IsInjective(a2) /\ ToSet(a2) = ToSet(a) \cup {t}
      /\ Grows(a, a2, t, Len(a), 0)
  BY <1>1, <1>3, ConsLinks
<1>5. Len(a2) = Len(a) + 1
  <2>1. DOMAIN a2 = 1 .. Len(a) + 1 /\ Len(a) \in Nat
    BY <1>1, <1>4 DEF Grows
  <2> HIDE DEF a2
  <2> QED BY <1>4, <2>1
<1>6. /\ id2 \in [Timer -> {"NONE", "BLOCKED", "ACTIVE"}]
      /\ \A v \in Timer : id2[v] = IF v = t THEN "ACTIVE" ELSE id[v]
  BY <1>1
<1> HIDE DEF b2, a2, id2
<1>7. Sorted(b2, key)
  BY <1>1, <1>2, ShrunkSorted
<1>8. ToSet(b2) = {v \in Timer : id2[v] = "BLOCKED"}
  BY <1>1, <1>2, <1>6
<1>9. ToSet(a2) = {v \in Timer : id2[v] = "ACTIVE"}
  BY <1>1, <1>3, <1>4, <1>6
<1>10. ListsOk(b2, a2, id2, key)
  BY <1>1, <1>2, <1>4, <1>6, <1>7, <1>8, <1>9 DEF ListsOk
<1> QED BY <1>3, <1>5, <1>10 DEF t, b2, a2, id2

\* software_timer_pop_from_active.
LEMMA PoppedLists ==
  ASSUME NEW b, NEW a, NEW id, NEW key, ListsOk(b, a, id, key), a # <<>>
  PROVE  /\ a[1] \in Timer /\ id[a[1]] = "ACTIVE"
         /\ ListsOk(b, Tail(a), [id EXCEPT ![a[1]] = "NONE"], key)
         /\ Len(Tail(a)) = Len(a) - 1
<1> DEFINE t == a[1]
           a2 == Tail(a)
           id2 == [id EXCEPT ![t] = "NONE"]
<1>1. /\ b \in Seq(Timer) /\ a \in Seq(Timer)
      /\ id \in [Timer -> {"NONE", "BLOCKED", "ACTIVE"}]
      /\ key \in [Timer -> Int]
      /\ IsInjective(b) /\ IsInjective(a)
      /\ ToSet(b) = {v \in Timer : id[v] = "BLOCKED"}
      /\ ToSet(a) = {v \in Timer : id[v] = "ACTIVE"}
      /\ Sorted(b, key)
  BY DEF ListsOk
<1>2. /\ t \in ToSet(a) /\ a2 \in Seq(Timer) /\ IsInjective(a2)
      /\ ToSet(a2) = ToSet(a) \ {t}
  BY <1>1, TailUnlinks
<1>3. Len(a2) = Len(a) - 1
  BY <1>1
<1>4. t \in Timer /\ id[t] = "ACTIVE"
  BY <1>1, <1>2
<1> HIDE DEF t
<1>5. /\ id2 \in [Timer -> {"NONE", "BLOCKED", "ACTIVE"}]
      /\ \A v \in Timer : id2[v] = IF v = t THEN "NONE" ELSE id[v]
  BY <1>1
<1> HIDE DEF a2, id2
<1>6. ToSet(b) = {v \in Timer : id2[v] = "BLOCKED"}
  BY <1>1, <1>4, <1>5
<1>7. ToSet(a2) = {v \in Timer : id2[v] = "ACTIVE"}
  BY <1>1, <1>2, <1>5
<1>8. ListsOk(b, a2, id2, key)
  BY <1>1, <1>2, <1>5, <1>6, <1>7 DEF ListsOk
<1> QED BY <1>3, <1>4, <1>8 DEF t, a2, id2

-------------------------------------------------------------------------------
\* The steps.

\* What the invariant says of the parts that the steps assign.
LEMMA InvFacts ==
  ASSUME TimerInv
  PROVE  /\ ListsOk(timer_blocked, timer_active, list_id, left)
         /\ list_id \in [Timer -> {"NONE", "BLOCKED", "ACTIVE"}]
         /\ left \in [Timer -> Int] /\ period \in [Timer -> Nat] /\ tokens \in Nat
         /\ timer_active \in Seq(Timer)
         /\ Len(timer_active) \in Nat
         /\ in_tick \in BOOLEAN /\ started \in BOOLEAN
BY DEF TimerInv, ListsOk, TokensFor

\* Static storage: both lists are empty and no timer was cancelled.
LEMMA InitTimerInv == TimerInit => TimerInv
<1> SUFFICES ASSUME TimerInit PROVE TimerInv
  OBVIOUS
<1> USE TimerAssumption DEF TimerInit
<1>1. /\ <<>> \in Seq(Timer) /\ IsInjective(<<>>) /\ ToSet(<<>>) = {} /\ Len(<<>>) = 0
  BY DEF IsInjective, ToSet
<1>2. Sorted(timer_blocked, left)
  BY DEF Sorted
<1>3. /\ list_id \in [Timer -> {"NONE", "BLOCKED", "ACTIVE"}] /\ left \in [Timer -> Int]
      /\ \A t \in Timer : list_id[t] = "NONE"
      /\ period \in [Timer -> Nat]
  OBVIOUS
<1>4. {v \in Timer : list_id[v] = "BLOCKED"} = {} /\ {v \in Timer : list_id[v] = "ACTIVE"} = {}
  BY <1>3
<1>5. ListsOk(timer_blocked, timer_active, list_id, left)
  BY <1>1, <1>2, <1>3, <1>4 DEF ListsOk
<1>6. ServiceOk(service, serving, cancelled, list_id)
  BY DEF ServiceOk
<1>7. TokensFor(timer_active, tokens, service)
  BY <1>1 DEF TokensFor
<1> QED BY <1>3, <1>5, <1>6, <1>7 DEF TimerInv

\* software_timer_create: an armed timer is no longer cancelled.
LEMMA CreateInv ==
  ASSUME Careless = {}, TimerInv,
         NEW t \in Timer, NEW p \in Periods, software_timer_create(t, p)
  PROVE  TimerInv'
<1> USE DEF software_timer_create
<1>1. p \in Nat /\ p \in Int
  BY TimerAssumption
<1>2. period' \in [Timer -> Nat]
  BY <1>1, InvFacts
<1>3. list_id[t] = "NONE" /\ ~ InService(t)
  OBVIOUS
<1>4. t \notin ToSet(timer_blocked) /\ t \notin ToSet(timer_active)
  BY <1>3, InvFacts DEF ListsOk
<1>5. timer_active' = timer_active
  BY <1>4, NothingCut DEF Arm
<1>6. ListsOk(timer_blocked, timer_active, list_id, left)'
  <2>1. CASE started
    <3>1. /\ timer_blocked' = TimerInsert(Cut(timer_blocked, t), t, p)
          /\ timer_active' = Cut(timer_active, t)
          /\ list_id' = [list_id EXCEPT ![t] = "BLOCKED"]
          /\ left' = [left EXCEPT ![t] = p]
      BY <2>1 DEF Arm
    <3> QED BY <1>1, <1>3, <3>1, InvFacts, ArmedLists
  <2>2. CASE ~ started
    <3>1. timer_blocked' = timer_blocked /\ list_id' = list_id
          /\ left' = [left EXCEPT ![t] = 0]
      BY <1>3, <1>4, <2>2, NothingCut, InvFacts
    <3> QED BY <1>3, <1>5, <3>1, InvFacts, ForgottenKey
  <2> QED BY <2>1, <2>2
<1>7. ServiceOk(service, serving, cancelled, list_id)'
  <2>1. CASE started
    <3>1. /\ cancelled' = cancelled \ {t}
          /\ \A v \in Timer : list_id'[v] = IF v = t THEN "BLOCKED" ELSE list_id[v]
      BY <2>1, InvFacts DEF Arm
    <3> QED BY <1>3, <3>1, TimerAssumption DEF TimerInv, ServiceOk, InService
  <2>2. CASE ~ started
    <3>1. list_id' = list_id
      BY <1>3, <2>2, InvFacts
    <3> QED BY <2>2, <3>1 DEF TimerInv, ServiceOk
  <2> QED BY <2>1, <2>2
<1> QED BY <1>2, <1>6, <1>7, <1>5 DEF TimerInv, TokensFor

\* software_timer_stop: a cancelled timer is in no list and not in service.
LEMMA StopInv ==
  ASSUME TimerInv, NEW t \in Timer, software_timer_stop(t)
  PROVE  TimerInv'
<1> USE DEF software_timer_stop
<1> DEFINE id2 == [list_id EXCEPT ![t] = "NONE"]
<1>1. \A v \in Timer : id2[v] = IF v = t THEN "NONE" ELSE list_id[v]
  BY InvFacts
<1>2. /\ ListsOk(timer_blocked', timer_active', id2, left)
      /\ Len(timer_active') <= Len(timer_active)
  BY InvFacts, WithoutLists
<1>3. list_id' = id2
  OBVIOUS
<1> HIDE DEF id2
<1>4. ListsOk(timer_blocked, timer_active, list_id, left)'
  <2>1. CASE InService(t)
    BY <1>2, <1>3, <2>1
  <2>2. CASE ~ InService(t)
    <3>1. ListsOk(timer_blocked', timer_active', id2, [left EXCEPT ![t] = 0])
      BY <1>1, <1>2, ForgottenKey
    <3> QED BY <1>3, <2>2, <3>1
  <2> QED BY <2>1, <2>2
<1>5. ServiceOk(service, serving, cancelled, list_id)'
  BY <1>1, <1>3, TimerAssumption DEF TimerInv, ServiceOk
<1>6. TokensFor(timer_active, tokens, service)'
  <2>1. Len(timer_active') \in Nat
    BY <1>2 DEF ListsOk
  <2> QED BY <1>2, <2>1, InvFacts DEF TimerInv, TokensFor
<1> QED BY <1>4, <1>5, <1>6 DEF TimerInv

\* software_timer_reset: the timer leaves the list it is in before it is linked.
LEMMA ResetInv ==
  ASSUME Careless = {}, TimerInv, NEW t \in Timer, software_timer_reset(t)
  PROVE  TimerInv'
<1> USE DEF software_timer_reset
<1> DEFINE id2 == [list_id EXCEPT ![t] = "NONE"]
           s   == BlockedWithout(t)
           a   == ActiveWithout(t)
<1>1. /\ \A v \in Timer : id2[v] = IF v = t THEN "NONE" ELSE list_id[v]
      /\ [id2 EXCEPT ![t] = "BLOCKED"] = [list_id EXCEPT ![t] = "BLOCKED"]
  BY InvFacts
<1>2. ListsOk(s, a, id2, left) /\ Len(a) <= Len(timer_active)
  BY InvFacts, WithoutLists
<1>3. /\ timer_blocked' = TimerInsert(Cut(s, t), t, period[t])
      /\ timer_active' = Cut(a, t)
      /\ list_id' = [id2 EXCEPT ![t] = "BLOCKED"]
      /\ left' = [left EXCEPT ![t] = period[t]]
  BY <1>1 DEF Arm
<1>4. period[t] \in Int
  BY InvFacts
<1> HIDE DEF id2, s, a
<1>5. timer_active' = a
  <2>1. t \notin ToSet(a)
    BY <1>1, <1>2 DEF ListsOk
  <2> QED BY <1>3, <2>1, NothingCut
<1>6. ListsOk(timer_blocked, timer_active, list_id, left)'
  BY <1>1, <1>2, <1>3, <1>4, ArmedLists
<1>7. ServiceOk(service, serving, cancelled, list_id)'
  <2>1. \A v \in Timer : list_id'[v] = IF v = t THEN "BLOCKED" ELSE list_id[v]
    BY InvFacts DEF Arm
  <2> QED BY <2>1, TimerAssumption DEF TimerInv, ServiceOk, InService
<1>8. TokensFor(timer_active, tokens, service)'
  <2>1. Len(timer_active') \in Nat
    BY <1>2, <1>5 DEF ListsOk
  <2> QED BY <1>2, <1>5, <2>1, InvFacts DEF TimerInv, TokensFor
<1> QED BY <1>6, <1>7, <1>8 DEF TimerInv

\* The tick count moves on.
LEMMA TickInv ==
  ASSUME TimerInv, TimerTick
  PROVE  TimerInv'
<1> USE DEF TimerTick
<1>1. left' \in [Timer -> Int]
  BY InvFacts
<1>2. \A t \in Timer : list_id[t] # "NONE" => left'[t] = left[t] - 1
  BY DEF Counting
<1>3. ListsOk(timer_blocked, timer_active, list_id, left')
  BY <1>1, <1>2, InvFacts, TickedKeys
<1> QED BY <1>3 DEF TimerInv

\* The tick handler moves the head to the active list and gives a token for it.
LEMMA ExpireInv ==
  ASSUME TimerInv, software_timer_tick
  PROVE  TimerInv'
<1> USE DEF software_timer_tick
<1> DEFINE t == timer_blocked[1]
<1>1. timer_blocked # <<>>
  BY DEF Expired
<1>2. /\ t \in Timer /\ list_id[t] = "BLOCKED"
      /\ ListsOk(Tail(timer_blocked), Cons(t, timer_active),
                 [list_id EXCEPT ![t] = "ACTIVE"], left)
      /\ Len(Cons(t, timer_active)) = Len(timer_active) + 1
  BY <1>1, InvFacts, ActivatedLists
<1>3. \A v \in Timer : list_id'[v] = IF v = t THEN "ACTIVE" ELSE list_id[v]
  BY InvFacts
<1> HIDE DEF t
<1>4. ListsOk(timer_blocked, timer_active, list_id, left)'
  BY <1>2 DEF t
<1>5. ServiceOk(service, serving, cancelled, list_id)'
  BY <1>2, <1>3, TimerAssumption DEF TimerInv, ServiceOk
<1>6. TokensFor(timer_active, tokens, service)'
  BY <1>2, InvFacts DEF TimerInv, TokensFor, t
<1> QED BY <1>4, <1>5, <1>6 DEF TimerInv

\* The service task takes the token that it pops a timer for.
LEMMA TakeInv ==
  ASSUME TimerInv, service_take
  PROVE  TimerInv'
<1> USE DEF service_take
<1>1. ServiceOk(service, serving, cancelled, list_id)'
  BY DEF TimerInv, ServiceOk
<1>2. TokensFor(timer_active, tokens, service)'
  BY InvFacts DEF TimerInv, TokensFor
<1> QED BY <1>1, <1>2 DEF TimerInv

\* The service task takes the head of the active list, which was not cancelled.
LEMMA PopInv ==
  ASSUME TimerInv, service_pop
  PROVE  TimerInv'
<1> USE DEF service_pop
<1>1. CASE timer_active = <<>>
  <2>1. ServiceOk(service, serving, cancelled, list_id)'
    BY <1>1, TimerAssumption DEF TimerInv, ServiceOk
  <2>2. Len(timer_active) = 0
    BY <1>1
  <2>3. TokensFor(timer_active, tokens, service)'
    BY <1>1, <2>2, InvFacts DEF TokensFor
  <2> QED BY <1>1, <2>1, <2>3 DEF TimerInv
<1>2. CASE timer_active # <<>>
  <2> DEFINE t == timer_active[1]
             id2 == [list_id EXCEPT ![t] = "NONE"]
  <2>1. /\ t \in Timer /\ list_id[t] = "ACTIVE"
        /\ ListsOk(timer_blocked, Tail(timer_active), id2, left)
        /\ Len(Tail(timer_active)) = Len(timer_active) - 1
    BY <1>2, InvFacts, PoppedLists
  <2>2. /\ \A v \in Timer : id2[v] = IF v = t THEN "NONE" ELSE list_id[v]
        /\ list_id' = id2 /\ serving' = t /\ service' = "callback"
        /\ left' = IF t \in Periodic THEN left ELSE [left EXCEPT ![t] = 0]
        /\ timer_active' = Tail(timer_active)
    BY <1>2, InvFacts
  <2> HIDE DEF t, id2
  <2>3. ListsOk(timer_blocked, timer_active, list_id, left)'
    <3>1. CASE t \in Periodic
      BY <2>1, <2>2, <3>1
    <3>2. CASE t \notin Periodic
      <4>1. ListsOk(timer_blocked, timer_active', id2, [left EXCEPT ![t] = 0])
        BY <2>1, <2>2, ForgottenKey
      <4> QED BY <2>2, <3>2, <4>1
    <3> QED BY <3>1, <3>2
  <2>4. ServiceOk(service, serving, cancelled, list_id)'
    BY <2>1, <2>2, TimerAssumption DEF TimerInv, ServiceOk
  <2>5. TokensFor(timer_active, tokens, service)'
    BY <2>1, <2>2, InvFacts DEF TimerInv, TokensFor
  <2> QED BY <2>3, <2>4, <2>5 DEF TimerInv
<1> QED BY <1>1, <1>2

\* A periodic timer is armed again: it was in no list.
LEMMA EndInv ==
  ASSUME TimerInv, service_end
  PROVE  TimerInv'
<1> USE DEF service_end
<1>1. ListsOk(timer_blocked, timer_active, list_id, left)'
  <2>1. CASE serving \in Periodic
    <3>1. /\ serving \in Timer /\ list_id[serving] = "NONE"
          /\ left[serving] + period[serving] \in Int
      BY <2>1, InvFacts, TimerAssumption DEF TimerInv, ServiceOk
    <3>2. /\ timer_blocked' = TimerInsert(Cut(timer_blocked, serving), serving,
                                          left[serving] + period[serving])
          /\ timer_active' = Cut(timer_active, serving)
          /\ list_id' = [list_id EXCEPT ![serving] = "BLOCKED"]
          /\ left' = [left EXCEPT ![serving] = left[serving] + period[serving]]
      BY <2>1 DEF Arm
    <3> QED BY <3>1, <3>2, InvFacts, ArmedLists
  <2>2. CASE serving \notin Periodic
    BY <2>2 DEF TimerInv
  <2> QED BY <2>1, <2>2
<1>2. ServiceOk(service, serving, cancelled, list_id)'
  <2>1. \A v \in cancelled : list_id'[v] = "NONE"
    BY InvFacts DEF Arm, TimerInv, ServiceOk
  <2> QED BY <2>1, TimerAssumption DEF TimerInv, ServiceOk
<1>3. TokensFor(timer_active, tokens, service)'
  <2>1. serving \in Periodic => serving \in Timer /\ list_id[serving] = "NONE"
    BY TimerAssumption DEF TimerInv, ServiceOk
  <2>2. serving \in Periodic => serving \notin ToSet(timer_active)
    BY <2>1 DEF TimerInv, ListsOk
  <2>3. timer_active' = timer_active
    BY <2>2, NothingCut DEF Arm
  <2> QED BY <2>3 DEF TimerInv, TokensFor
<1> QED BY <1>1, <1>2, <1>3 DEF TimerInv

\* Every step keeps the invariant.
LEMMA NextTimerInv ==
  ASSUME Careless = {}, TimerInv, [TimerNext]_timerVars
  PROVE  TimerInv'
<1>1. CASE TimerStart
  BY <1>1 DEF TimerInv, TimerStart
<1>2. CASE TimerTick
  BY <1>2, TickInv
<1>3. CASE software_timer_tick
  BY <1>3, ExpireInv
<1>4. CASE TimerTickDone
  BY <1>4 DEF TimerInv, TimerTickDone
<1>5. CASE service_take
  BY <1>5, TakeInv
<1>6. CASE service_pop
  BY <1>6, PopInv
<1>7. CASE service_end
  BY <1>7, EndInv
<1>8. ASSUME NEW t \in Timer, NEW p \in Periods, software_timer_create(t, p) PROVE TimerInv'
  BY <1>8, CreateInv
<1>9. ASSUME NEW t \in Timer, software_timer_stop(t) PROVE TimerInv'
  BY <1>9, StopInv
<1>10. ASSUME NEW t \in Timer, software_timer_reset(t) PROVE TimerInv'
  BY <1>10, ResetInv
<1>11. CASE UNCHANGED timerVars
  BY <1>11 DEF TimerInv, timerVars
<1> QED BY <1>1, <1>2, <1>3, <1>4, <1>5, <1>6, <1>7, <1>8, <1>9, <1>10, <1>11
        DEF TimerNext

\* The invariant holds throughout.
LEMMA TimerInvariance == ASSUME Careless = {} PROVE TimerSpec => []TimerInv
<1>1. TimerInv /\ [TimerNext]_timerVars => TimerInv'
  BY NextTimerInv
<1> QED BY <1>1, InitTimerInv, PTL DEF TimerSpec

-------------------------------------------------------------------------------

\* Every variable of the timers has its type: no list ever holds anything but
\* timers, and the token count is never negative.
THEOREM TimerTypeCorrect == ASSUME Careless = {} PROVE TimerSpec => []TimerTypeOK
<1>1. TimerInv => TimerTypeOK
  BY DEF TimerInv, ListsOk, ServiceOk, TokensFor, TimerTypeOK
<1> QED BY <1>1, TimerInvariance, PTL

\* As creates, stops and resets by callers that are not Careless, the tick and the
\* service task take turns, a timer is linked in the list that list_id names, once,
\* and in no other.
THEOREM TimerListsAgree == ASSUME Careless = {} PROVE TimerSpec => []TimerListsExact
<1>1. TimerInv => TimerListsExact
  BY DEF TimerInv, ListsOk, TimerListsExact
<1> QED BY <1>1, TimerInvariance, PTL

\* However many timers expire in one tick, and however many are stopped or reset
\* before the service task gets to them, each one on the active list has a token.
THEOREM ExpiredTimersAreServed == ASSUME Careless = {} PROVE TimerSpec => []NoStrandedTimer
<1>1. TimerInv => NoStrandedTimer
  BY DEF TimerInv, TokensFor, NoStrandedTimer
<1> QED BY <1>1, TimerInvariance, PTL

\* A timer that was stopped before the service task picked it up stays quiet
\* until it is created or reset.
THEOREM StoppedTimersStayQuiet == ASSUME Careless = {} PROVE TimerSpec => []StoppedStaysQuiet
<1>1. TimerInv => StoppedStaysQuiet
  BY DEF TimerInv, ServiceOk, StoppedStaysQuiet
<1> QED BY <1>1, TimerInvariance, PTL

\* What ExpiresOnTime says of a step.
LEMMA StepExpiresOnTime ==
  ASSUME TimerInv, [TimerNext]_timerVars
  PROVE  /\ in_tick /\ ~ in_tick' => \A t \in ToSet(timer_blocked') : left'[t] > 0
         /\ \A t \in Timer : list_id[t] # "ACTIVE" /\ list_id'[t] = "ACTIVE" => left[t] <= 0
<1> DEFINE P == in_tick /\ ~ in_tick' => \A t \in ToSet(timer_blocked') : left'[t] > 0
           Q == \A t \in Timer :
                  list_id[t] # "ACTIVE" /\ list_id'[t] = "ACTIVE" => left[t] <= 0
<1>1. CASE TimerTickDone
  <2>1. timer_blocked' = timer_blocked /\ left' = left /\ list_id' = list_id /\ ~ Expired
    BY <1>1 DEF TimerTickDone
  <2>2. /\ timer_blocked \in Seq(Timer) /\ left \in [Timer -> Int]
        /\ Sorted(timer_blocked, left)
    BY DEF TimerInv, ListsOk
  <2>3. \A t \in ToSet(timer_blocked) : left[timer_blocked[1]] <= left[t]
    BY <2>2, SortedHead
  <2>4. ASSUME NEW t \in ToSet(timer_blocked) PROVE left[t] > 0
    <3>1. timer_blocked # <<>> /\ t \in Timer
      BY <2>2, <2>4, LinkedNotEmpty DEF ToSet
    <3>2. timer_blocked[1] \in Timer
      BY <2>2, <3>1
    <3>3. left[timer_blocked[1]] > 0
      BY <2>1, <2>2, <3>1, <3>2 DEF Expired
    <3> QED BY <2>2, <2>3, <3>1, <3>2, <3>3
  <2> QED BY <2>1, <2>4
<1>2. CASE software_timer_tick
  <2>1. in_tick' = in_tick
    BY <1>2 DEF software_timer_tick
  <2>2. left[timer_blocked[1]] <= 0 /\ list_id' = [list_id EXCEPT ![timer_blocked[1]] = "ACTIVE"]
    BY <1>2 DEF software_timer_tick, Expired
  <2> QED BY <2>1, <2>2, InvFacts
<1>3. CASE UNCHANGED timerVars
  BY <1>3 DEF timerVars
<1>4. CASE TimerStart \/ TimerTick \/ service_take
  BY <1>4 DEF TimerStart, TimerTick, service_take
<1>5. CASE service_pop
  BY <1>5, InvFacts DEF service_pop
<1>6. CASE service_end
  BY <1>6, InvFacts DEF service_end, Arm
<1>7. ASSUME NEW u \in Timer, NEW p \in Periods, software_timer_create(u, p) PROVE P /\ Q
  BY <1>7, InvFacts DEF software_timer_create, Arm
<1>8. ASSUME NEW u \in Timer, software_timer_stop(u) PROVE P /\ Q
  BY <1>8, InvFacts DEF software_timer_stop
<1>9. ASSUME NEW u \in Timer, software_timer_reset(u) PROVE P /\ Q
  BY <1>9, InvFacts DEF software_timer_reset, Arm
<1> QED BY <1>1, <1>2, <1>3, <1>4, <1>5, <1>6, <1>7, <1>8, <1>9 DEF TimerNext

\* When the tick handler returns no timer of the blocked list is due, and no timer
\* is moved to the active list early.
THEOREM TimersExpireOnTime == ASSUME Careless = {} PROVE TimerSpec => ExpiresOnTime
BY TimerInvariance, StepExpiresOnTime, PTL DEF ExpiresOnTime, TimerSpec

-------------------------------------------------------------------------------
\* ---- Companion cores and the watchdog ----

\* The loops of watchdog_core_kick begin at core 0
CounterInv == \A k \in Cores : kick_pc[k] \in {"idle", "mask", "kick"} => kick_i[k] = 0

\* Who is expected was released by core 0, or is core 0
ExpectedInv ==
  /\ expected_mask \subseteq alive_mask \cup {0}
  /\ app = "down" => expected_mask = {} /\ starting = 0

\* k has seen, or will not look again at, the report of d in this round
PastCheck(d, k) ==
  \/ kick_pc[k] = "scan" /\ (kick_i[k] > d \/ d \notin kick_mask[k])
  \/ kick_pc[k] \in {"reset", "kick"}

\* k has withdrawn the report of d, and another one has come since
PastReset(d, k) == kick_pc[k] = "kick" \/ (kick_pc[k] = "reset" /\ kick_i[k] > d)

\* How often k may have fed the watchdog since d is gone: the last report of d is
\* still there, or k is in a round that has used it up, or k is held up by d
LateBound(d, k) ==
  /\ late[k] <= 2
  /\ core_kicked[d] => late[k] <= 1
  /\ core_kicked[d] /\ PastReset(d, k) => late[k] = 0
  /\ ~ core_kicked[d] /\ PastCheck(d, k) => late[k] <= 1

LateInv ==
  \/ \A k \in Cores : late[k] = 0
  \/ \E d \in Cores : Gone(d) /\ \A k \in Cores : LateBound(d, k)

Inv == CoresTypeOK /\ CounterInv /\ ExpectedInv /\ LateInv

-------------------------------------------------------------------------------
\* What stays

\* A core is gone for good: core 0 does not release it a second time before the
\* next reboot (companion_core_start, the park loop).
LEMMA GoneStays ==
  ASSUME Inv, NEW d \in Cores, Gone(d), d \in expected_mask',
         \/ UNCHANGED <<mode, mailbox>>
         \/ \E c \in Companions : \/ companion_core_start(c) \/ unpark(c)
                                  \/ mailbox_park_request(c) \/ companion_core_park(c)
         \/ \E c \in Cores : hang(c)
  PROVE  Gone(d)'
  <1>1. /\ mode \in [Cores -> {"parked", "running", "parking", "hung"}]
        /\ mailbox \in [Cores -> BOOLEAN]
        /\ d \in alive_mask \cup {0}
    BY DEF Inv, CoresTypeOK, ExpectedInv, Gone
  <1>2. mode[d] # "running" /\ ~ (mode[d] = "parked" /\ mailbox[d]) BY DEF Gone
  <1>3. CASE UNCHANGED <<mode, mailbox>> BY <1>3 DEF Gone
  <1>4. ASSUME NEW c \in Companions, companion_core_start(c) PROVE Gone(d)'
    <2>1. c # d BY <1>1, <1>4 DEF companion_core_start, Companions
    <2>2. mode' = mode /\ mailbox'[d] = mailbox[d]
      BY <1>1, <1>4, <2>1 DEF companion_core_start
    <2>3. QED BY <1>2, <2>2 DEF Gone
  <1>5. ASSUME NEW c \in Companions, unpark(c) PROVE Gone(d)'
    <2>1. c # d BY <1>2, <1>5 DEF unpark
    <2>2. mode'[d] = mode[d] /\ mailbox' = mailbox BY <1>1, <1>5, <2>1 DEF unpark
    <2>3. QED BY <1>2, <2>2 DEF Gone
  <1>6. ASSUME NEW c \in Companions, mailbox_park_request(c) PROVE Gone(d)'
    <2>1. c # d BY <1>2, <1>6 DEF mailbox_park_request
    <2>2. mode'[d] = mode[d] /\ mailbox' = mailbox BY <1>1, <1>6, <2>1 DEF mailbox_park_request
    <2>3. QED BY <1>2, <2>2 DEF Gone
  <1>7. ASSUME NEW c \in Companions, companion_core_park(c) PROVE Gone(d)'
    <2>1. CASE c = d
      <3>1. mode'[d] = "parked" /\ ~ mailbox'[d]
        BY <1>1, <1>7, <2>1 DEF companion_core_park
      <3>2. QED BY <3>1 DEF Gone
    <2>2. CASE c # d
      <3>1. mode'[d] = mode[d] /\ mailbox'[d] = mailbox[d]
        BY <1>1, <1>7, <2>2 DEF companion_core_park, Companions
      <3>2. QED BY <1>2, <3>1 DEF Gone
    <2>3. QED BY <2>1, <2>2
  <1>8. ASSUME NEW c \in Cores, hang(c) PROVE Gone(d)'
    <2>1. c # d BY <1>2, <1>8 DEF hang
    <2>2. mode'[d] = mode[d] /\ mailbox' = mailbox BY <1>1, <1>8, <2>1 DEF hang
    <2>3. QED BY <1>2, <2>2 DEF Gone
  <1>9. QED BY <1>3, <1>4, <1>5, <1>6, <1>7, <1>8

\* It is enough that a step keeps the bound for a core that is gone (the history
\* of hardware kicks).
LEMMA LateKept ==
  ASSUME Inv, late' = late,
         \A d \in Cores : Gone(d) => Gone(d)',
         \A d \in Cores : \A k \in Cores : Gone(d) /\ LateBound(d, k) => LateBound(d, k)'
  PROVE  LateInv'
  <1>1. CASE \A k \in Cores : late[k] = 0 BY <1>1 DEF LateInv
  <1>2. CASE \E d \in Cores : Gone(d) /\ \A k \in Cores : LateBound(d, k)
    BY <1>2 DEF LateInv
  <1>3. QED BY <1>1, <1>2 DEF Inv, LateInv

\* Nothing about reports changes (the steps of core 0 and of the park loop).
LEMMA QuietLate ==
  ASSUME Inv, UNCHANGED kickVars, \A d \in Cores : Gone(d) => Gone(d)'
  PROVE  LateInv' /\ CounterInv'
  <1>1. \A d, k \in Cores : LateBound(d, k) => LateBound(d, k)'
    BY DEF LateBound, PastCheck, PastReset, kickVars
  <1>2. late' = late BY DEF kickVars
  <1>3. LateInv' BY <1>1, <1>2, LateKept
  <1>4. CounterInv' BY DEF Inv, CounterInv, kickVars
  <1>5. QED BY <1>3, <1>4

\* A core leaves watchdog_core_kick in the middle (it parks or hangs).
LEMMA LeavesLate ==
  ASSUME Inv, NEW c \in Cores, LeaveKick(c), UNCHANGED <<core_kicked, late>>,
         \A d \in Cores : Gone(d) => Gone(d)'
  PROVE  LateInv' /\ CounterInv'
  <1>1. /\ kick_pc \in [Cores -> {"idle", "mask", "scan", "reset", "kick"}]
        /\ kick_i \in [Cores -> Cores] /\ kick_mask \in [Cores -> SUBSET Cores]
    BY DEF Inv, CoresTypeOK
  <1>2. ASSUME NEW k \in Cores
        PROVE  \/ k # c /\ kick_pc'[k] = kick_pc[k] /\ kick_i'[k] = kick_i[k]
                        /\ kick_mask'[k] = kick_mask[k]
               \/ kick_pc'[k] = "idle" /\ kick_i'[k] = 0
    BY <1>1 DEF LeaveKick
  <1>3. ASSUME NEW d \in Cores, NEW k \in Cores, LateBound(d, k) PROVE LateBound(d, k)'
    BY <1>2, <1>3 DEF LateBound, PastCheck, PastReset
  <1>4. LateInv' BY <1>3, LateKept
  <1>5. CounterInv' BY <1>2 DEF Inv, CounterInv
  <1>6. QED BY <1>4, <1>5

-------------------------------------------------------------------------------
\* watchdog_core_kick

\* What the type invariant says of a kick (cc_ctx and the locals of the loops).
LEMMA KickTypes ==
  ASSUME Inv
  PROVE  /\ core_kicked \in [Cores -> BOOLEAN]
         /\ kick_pc \in [Cores -> {"idle", "mask", "scan", "reset", "kick"}]
         /\ kick_i \in [Cores -> Cores]
         /\ kick_mask \in [Cores -> SUBSET Cores]
         /\ late \in [Cores -> Nat]
         /\ NumCores \in Nat \ {0} /\ 0 \in Cores
         /\ CounterInv
  <1>1. NumCores \in Nat \ {0} /\ 0 \in Cores BY CoresAssumption DEF Cores
  <1>2. QED BY <1>1 DEF Inv, CoresTypeOK

\* A kick does not bring a core back (watchdog_core_kick).
LEMMA KickGone ==
  ASSUME NEW d \in Cores, Gone(d), UNCHANGED <<mode, mailbox, expected_mask>>
  PROVE  Gone(d)'
  BY DEF Gone

\* A core reports: the report of a core that is gone stays as it is.
LEMMA Reports ==
  ASSUME Inv, NEW k \in Cores, kick_report(k) PROVE Inv'
  <1>1. /\ mode[k] = "running" /\ kick_pc[k] = "idle"
        /\ core_kicked' = [core_kicked EXCEPT ![k] = TRUE]
        /\ kick_pc' = [kick_pc EXCEPT ![k] = "mask"]
        /\ UNCHANGED <<mailbox, ipi, mode, alive_mask, starting, app, armed, expected_mask,
                       kick_i, kick_mask, late>>
    BY DEF kick_report
  <1>2. ASSUME NEW d \in Cores, NEW j \in Cores, Gone(d), LateBound(d, j)
        PROVE  LateBound(d, j)'
    <2>1. core_kicked'[d] = core_kicked[d] BY <1>1, <1>2, KickTypes DEF Gone
    <2>2. CASE j = k
      <3>1. kick_pc'[j] = "mask" BY <1>1, <2>2, KickTypes
      <3>2. QED BY <1>1, <1>2, <2>1, <3>1 DEF LateBound, PastCheck, PastReset
    <2>3. CASE j # k
      <3>1. kick_pc'[j] = kick_pc[j] BY <1>1, <2>3, KickTypes
      <3>2. QED BY <1>1, <1>2, <2>1, <3>1 DEF LateBound, PastCheck, PastReset
    <2>4. QED BY <2>2, <2>3
  <1>3. LateInv' BY <1>1, <1>2, KickGone, LateKept
  <1>4. CounterInv' BY <1>1, KickTypes DEF CounterInv
  <1>5. CoresTypeOK' /\ ExpectedInv'
    BY <1>1 DEF Inv, CoresTypeOK, ExpectedInv
  <1>6. QED BY <1>3, <1>4, <1>5 DEF Inv

\* The mask that a round is checked against names the core that is gone.
LEMMA ReadsMask ==
  ASSUME Inv, NEW k \in Cores, kick_read_mask(k) PROVE Inv'
  <1>1. /\ kick_pc[k] = "mask"
        /\ kick_mask' = [kick_mask EXCEPT ![k] = expected_mask]
        /\ kick_pc' = [kick_pc EXCEPT ![k] = "scan"]
        /\ UNCHANGED <<mailbox, ipi, mode, alive_mask, starting, app, armed, expected_mask,
                       core_kicked, kick_i, late>>
    BY DEF kick_read_mask
  <1>2. ASSUME NEW d \in Cores, NEW j \in Cores, Gone(d), LateBound(d, j)
        PROVE  LateBound(d, j)'
    <2>1. CASE j = k
      <3>1. kick_pc'[j] = "scan" /\ d \in kick_mask'[j] /\ kick_i'[j] = 0
        BY <1>1, <1>2, <2>1, KickTypes DEF Gone, CounterInv
      <3>2. ~ PastCheck(d, j)' /\ ~ PastReset(d, j)'
        BY <3>1 DEF PastCheck, PastReset, Cores
      <3>3. QED BY <1>1, <1>2, <3>2 DEF LateBound
    <2>2. CASE j # k
      <3>1. kick_pc'[j] = kick_pc[j] /\ kick_mask'[j] = kick_mask[j] BY <1>1, <2>2, KickTypes
      <3>2. QED BY <1>1, <1>2, <3>1 DEF LateBound, PastCheck, PastReset
    <2>3. QED BY <2>1, <2>2
  <1>3. LateInv' BY <1>1, <1>2, KickGone, LateKept
  <1>4. CounterInv' BY <1>1, KickTypes DEF CounterInv
  <1>5. CoresTypeOK' /\ ExpectedInv'
    BY <1>1 DEF Inv, CoresTypeOK, ExpectedInv
  <1>6. QED BY <1>3, <1>4, <1>5 DEF Inv

\* One core of the check: nobody gets past a core that has not reported.
LEMMA Scans ==
  ASSUME Inv, NEW k \in Cores, kick_scan(k) PROVE Inv'
  <1> DEFINE i == kick_i[k]
             miss == StillMissing(k, i)
             done == miss \/ i = NumCores - 1
  <1>1. /\ kick_pc[k] = "scan"
        /\ kick_pc' = IF miss THEN [kick_pc EXCEPT ![k] = "idle"]
                      ELSE IF done THEN [kick_pc EXCEPT ![k] = "reset"] ELSE kick_pc
        /\ kick_i' = [kick_i EXCEPT ![k] = IF done THEN 0 ELSE i + 1]
        /\ kick_mask' = IF done THEN [kick_mask EXCEPT ![k] = {}] ELSE kick_mask
        /\ UNCHANGED <<mailbox, ipi, mode, alive_mask, starting, app, armed, expected_mask,
                       core_kicked, late>>
    BY DEF kick_scan
  <1>2. i \in 0 .. NumCores - 1 BY KickTypes DEF Cores
  <1>3. \/ miss /\ kick_pc'[k] = "idle" /\ kick_i'[k] = 0
        \/ ~ miss /\ i = NumCores - 1 /\ kick_pc'[k] = "reset" /\ kick_i'[k] = 0
        \/ ~ miss /\ i < NumCores - 1 /\ kick_pc'[k] = "scan" /\ kick_i'[k] = i + 1
           /\ kick_mask'[k] = kick_mask[k]
    BY <1>1, <1>2, KickTypes
  <1>4. ASSUME NEW j \in Cores, j # k
        PROVE  kick_pc'[j] = kick_pc[j] /\ kick_i'[j] = kick_i[j] /\ kick_mask'[j] = kick_mask[j]
    BY <1>1, <1>4, KickTypes
  <1>5. ASSUME NEW d \in Cores, NEW j \in Cores, Gone(d), LateBound(d, j)
        PROVE  LateBound(d, j)'
    <2>1. CASE j # k
      <3>1. kick_pc'[j] = kick_pc[j] /\ kick_i'[j] = kick_i[j] /\ kick_mask'[j] = kick_mask[j]
        BY <1>4, <2>1
      <3>2. QED BY <1>1, <1>5, <3>1 DEF LateBound, PastCheck, PastReset
    <2>2. CASE j = k
      <3>1. ~ PastReset(d, k)' BY <1>3 DEF PastReset, Cores
      <3>2. ASSUME ~ core_kicked[d], PastCheck(d, k)' PROVE PastCheck(d, k)
        <4>1. ~ miss BY <1>3, <3>2 DEF PastCheck
        <4>2. d # i \/ d \notin kick_mask[k] BY <3>2, <4>1 DEF StillMissing
        <4>3. i > d \/ d \notin kick_mask[k]
          BY <1>2, <1>3, <3>2, <4>1, <4>2, CoresAssumption DEF PastCheck, Cores
        <4>4. QED BY <1>1, <4>3 DEF PastCheck
      <3>3. late'[k] = late[k] /\ core_kicked'[d] = core_kicked[d] BY <1>1
      <3>4. QED BY <1>5, <2>2, <3>1, <3>2, <3>3 DEF LateBound
    <2>3. QED BY <2>1, <2>2
  <1>6. LateInv' BY <1>1, <1>5, KickGone, LateKept
  <1>7. CounterInv' BY <1>3, <1>4, KickTypes DEF CounterInv
  <1>8. CoresTypeOK'
    <2>1. kick_i' \in [Cores -> Cores]
      <3>1. 0 \in Cores /\ (~ done => i + 1 \in Cores)
        BY <1>2, CoresAssumption DEF Cores
      <3>2. (IF done THEN 0 ELSE i + 1) \in Cores BY <3>1
      <3>3. QED BY <1>1, <3>2, KickTypes
    <2>2. kick_pc' \in [Cores -> {"idle", "mask", "scan", "reset", "kick"}]
      BY <1>1, KickTypes
    <2>3. kick_mask' \in [Cores -> SUBSET Cores]
      BY <1>1, KickTypes
    <2>4. QED BY <1>1, <2>1, <2>2, <2>3 DEF Inv, CoresTypeOK
  <1>9. ExpectedInv' BY <1>1 DEF Inv, ExpectedInv
  <1>10. QED BY <1>6, <1>7, <1>8, <1>9 DEF Inv

\* One core of the loop that withdraws the reports: the last report of a core
\* that is gone is used up here.
LEMMA Withdraws ==
  ASSUME Inv, NEW k \in Cores, kick_reset(k) PROVE Inv'
  <1> DEFINE i == kick_i[k]
  <1>1. /\ kick_pc[k] = "reset"
        /\ core_kicked' = [core_kicked EXCEPT ![i] = FALSE]
        /\ kick_i' = [kick_i EXCEPT ![k] = IF i = NumCores - 1 THEN 0 ELSE i + 1]
        /\ kick_pc' = IF i = NumCores - 1 THEN [kick_pc EXCEPT ![k] = "kick"] ELSE kick_pc
        /\ UNCHANGED <<mailbox, ipi, mode, alive_mask, starting, app, armed, expected_mask,
                       kick_mask, late>>
    BY DEF kick_reset
  <1>2. i \in 0 .. NumCores - 1 /\ i \in Cores BY KickTypes DEF Cores
  <1>3. \/ i = NumCores - 1 /\ kick_pc'[k] = "kick" /\ kick_i'[k] = 0
        \/ i < NumCores - 1 /\ kick_pc'[k] = "reset" /\ kick_i'[k] = i + 1
    BY <1>1, <1>2, KickTypes
  <1>4. ASSUME NEW j \in Cores, j # k PROVE kick_pc'[j] = kick_pc[j] /\ kick_i'[j] = kick_i[j]
    BY <1>1, <1>4, KickTypes
  <1>5. ASSUME NEW d \in Cores PROVE core_kicked'[d] <=> (core_kicked[d] /\ d # i)
    BY <1>1, <1>2, KickTypes
  <1>6. ASSUME NEW d \in Cores, NEW j \in Cores, Gone(d), LateBound(d, j)
        PROVE  LateBound(d, j)'
    <2>1. CASE j # k
      <3>1. kick_pc'[j] = kick_pc[j] /\ kick_i'[j] = kick_i[j] /\ kick_mask'[j] = kick_mask[j]
        BY <1>1, <1>4, <2>1
      <3>2. QED BY <1>1, <1>5, <1>6, <3>1 DEF LateBound, PastCheck, PastReset
    <2>2. CASE j = k
      <3>1. late'[k] = late[k] BY <1>1
      <3>2. late[k] <= 1 BY <1>1, <1>6, <2>2 DEF LateBound, PastCheck
      <3>3. core_kicked'[d] /\ PastReset(d, k)' => core_kicked[d] /\ PastReset(d, k)
        BY <1>1, <1>2, <1>3, <1>5 DEF PastReset, Cores
      <3>4. QED BY <1>5, <1>6, <2>2, <3>1, <3>2, <3>3 DEF LateBound
    <2>3. QED BY <2>1, <2>2
  <1>7. LateInv' BY <1>1, <1>6, KickGone, LateKept
  <1>8. CounterInv' BY <1>3, <1>4, KickTypes DEF CounterInv
  <1>9. CoresTypeOK'
    <2>1. kick_i' \in [Cores -> Cores]
      <3>1. (IF i = NumCores - 1 THEN 0 ELSE i + 1) \in Cores
        BY <1>2, CoresAssumption DEF Cores
      <3>2. QED BY <1>1, <3>1, KickTypes
    <2>2. kick_pc' \in [Cores -> {"idle", "mask", "scan", "reset", "kick"}]
      BY <1>1, KickTypes
    <2>3. core_kicked' \in [Cores -> BOOLEAN] BY <1>1, KickTypes
    <2>4. QED BY <1>1, <2>1, <2>2, <2>3 DEF Inv, CoresTypeOK
  <1>10. ExpectedInv' BY <1>1 DEF Inv, ExpectedInv
  <1>11. QED BY <1>7, <1>8, <1>9, <1>10 DEF Inv

\* The hardware is fed: the first or the second time since a core is gone.
LEMMA Feeds ==
  ASSUME Inv, NEW k \in Cores, watchdog_kick(k) PROVE Inv'
  <1>1. /\ kick_pc[k] = "kick" /\ kick_pc' = [kick_pc EXCEPT ![k] = "idle"]
        /\ late' = IF \E c \in Cores : Gone(c) THEN [late EXCEPT ![k] = @ + 1] ELSE late
        /\ UNCHANGED <<mailbox, ipi, mode, alive_mask, starting, app, armed, expected_mask,
                       core_kicked, kick_i, kick_mask>>
    BY DEF watchdog_kick
  <1>2. kick_pc'[k] = "idle" /\ \A j \in Cores : j # k => kick_pc'[j] = kick_pc[j]
    BY <1>1, KickTypes
  <1>3. LateInv'
    <2>1. CASE ~ \E c \in Cores : Gone(c)
      <3>1. late' = late /\ \A j \in Cores : late[j] = 0
        BY <1>1, <2>1 DEF Inv, LateInv
      <3>2. QED BY <3>1 DEF LateInv
    <2>2. CASE \E c \in Cores : Gone(c)
      <3>1. PICK d \in Cores : Gone(d) /\ \A j \in Cores : LateBound(d, j)
        <4>1. CASE \A j \in Cores : late[j] = 0
          <5>1. PICK c \in Cores : Gone(c) BY <2>2
          <5>2. \A j \in Cores : LateBound(c, j) BY <4>1 DEF LateBound
          <5>3. QED BY <5>1, <5>2
        <4>2. CASE ~ \A j \in Cores : late[j] = 0 BY <4>2 DEF Inv, LateInv
        <4>3. QED BY <4>1, <4>2
      <3>2. Gone(d)' BY <1>1, <3>1, KickGone
      <3>3. ASSUME NEW j \in Cores PROVE LateBound(d, j)'
        <4>1. CASE j # k
          <5>1. kick_pc'[j] = kick_pc[j] /\ late'[j] = late[j]
            BY <1>1, <1>2, <2>2, <4>1, KickTypes
          <5>2. QED BY <1>1, <3>1, <5>1 DEF LateBound, PastCheck, PastReset
        <4>2. CASE j = k
          <5>1. late'[k] = late[k] + 1 /\ late[k] \in Nat BY <1>1, <2>2, KickTypes
          <5>2. ~ PastCheck(d, k)' /\ ~ PastReset(d, k)' BY <1>2 DEF PastCheck, PastReset
          <5>3. /\ core_kicked[d] => late[k] = 0
                /\ ~ core_kicked[d] => late[k] <= 1
            BY <1>1, <3>1 DEF LateBound, PastCheck, PastReset
          <5>4. core_kicked'[d] = core_kicked[d] BY <1>1
          <5>5. QED BY <4>2, <5>1, <5>2, <5>3, <5>4 DEF LateBound
        <4>3. QED BY <4>1, <4>2
      <3>4. QED BY <3>2, <3>3 DEF LateInv
    <2>3. QED BY <2>1, <2>2
  <1>4. CounterInv' BY <1>1, <1>2, KickTypes DEF CounterInv
  <1>5. CoresTypeOK'
    <2>1. late' \in [Cores -> Nat] BY <1>1, KickTypes
    <2>2. kick_pc' \in [Cores -> {"idle", "mask", "scan", "reset", "kick"}]
      BY <1>1, KickTypes
    <2>3. QED BY <1>1, <2>1, <2>2 DEF Inv, CoresTypeOK
  <1>6. ExpectedInv' BY <1>1 DEF Inv, ExpectedInv
  <1>7. QED BY <1>3, <1>4, <1>5, <1>6 DEF Inv

-------------------------------------------------------------------------------
\* Core 0 and the park loop

\* Nobody is expected before companion_core_init, so nobody can be gone.
LEMMA Comes ==
  ASSUME Inv, companion_core_init PROVE Inv'
  <1>1. /\ app = "down" /\ app' = "up" /\ armed' = TRUE /\ expected_mask' = {0}
        /\ core_kicked' = Off
        /\ UNCHANGED <<mailbox, ipi, mode, alive_mask, starting, kick_pc, kick_i,
                       kick_mask, late>>
    BY DEF companion_core_init
  <1>2. \A k \in Cores : late[k] = 0 BY <1>1 DEF Inv, LateInv, ExpectedInv, Gone
  <1>3. LateInv' BY <1>1, <1>2 DEF LateInv
  <1>4. CounterInv' /\ ExpectedInv' BY <1>1 DEF Inv, CounterInv, ExpectedInv
  <1>5. CoresTypeOK'
    <2>1. core_kicked' \in [Cores -> BOOLEAN] BY <1>1 DEF Off
    <2>2. expected_mask' \subseteq Cores BY <1>1, CoresAssumption DEF Cores
    <2>3. QED BY <1>1, <2>1, <2>2 DEF Inv, CoresTypeOK
  <1>6. QED BY <1>3, <1>4, <1>5 DEF Inv

\* companion_core_start publishes an entry for a core that is not out.
LEMMA Starts ==
  ASSUME Inv, NEW c \in Companions, companion_core_start(c) PROVE Inv'
  <1>1. /\ mailbox' = [mailbox EXCEPT ![c] = TRUE] /\ starting' = c
        /\ UNCHANGED <<ipi, mode, alive_mask, app, armed, expected_mask>> /\ UNCHANGED kickVars
    BY DEF companion_core_start
  <1>2. \A d \in Cores : Gone(d) => Gone(d)'
    <2>1. SUFFICES ASSUME NEW d \in Cores, Gone(d) PROVE Gone(d)' OBVIOUS
    <2>2. d \in expected_mask' BY <1>1, <2>1 DEF Gone
    <2>3. QED BY <2>1, <2>2, GoneStays
  <1>3. LateInv' /\ CounterInv' BY <1>1, <1>2, QuietLate
  <1>4. CoresTypeOK'
    <2>1. starting' \in Cores /\ mailbox' \in [Cores -> BOOLEAN]
      BY <1>1 DEF Inv, CoresTypeOK, Companions
    <2>2. QED BY <1>1, <2>1 DEF Inv, CoresTypeOK, kickVars
  <1>5. app = "up" BY DEF companion_core_start
  <1>6. ExpectedInv' BY <1>1, <1>5 DEF Inv, ExpectedInv
  <1>7. QED BY <1>3, <1>4, <1>6 DEF Inv

\* Core 0 notes the core in both masks.
LEMMA Marks ==
  ASSUME Inv, start_mark PROVE Inv'
  <1>1. /\ starting # 0 /\ alive_mask' = alive_mask \cup {starting}
        /\ expected_mask' = expected_mask \cup {starting} /\ starting' = 0
        /\ UNCHANGED <<mailbox, ipi, mode, app, armed>> /\ UNCHANGED kickVars
    BY DEF start_mark
  <1>2. \A d \in Cores : Gone(d) => Gone(d)' BY <1>1 DEF Gone
  <1>3. LateInv' /\ CounterInv' BY <1>1, <1>2, QuietLate
  <1>4. CoresTypeOK'
    <2>1. starting \in Companions /\ starting \in Cores /\ starting' \in Cores
      BY <1>1, CoresAssumption DEF Inv, CoresTypeOK, Companions, Cores
    <2>2. alive_mask' \subseteq Companions /\ expected_mask' \subseteq Cores
      BY <1>1, <2>1 DEF Inv, CoresTypeOK
    <2>3. QED BY <1>1, <2>1, <2>2 DEF Inv, CoresTypeOK, kickVars
  <1>5. app = "up" BY <1>1 DEF Inv, ExpectedInv, CoresTypeOK
  <1>6. ExpectedInv' BY <1>1, <1>5 DEF Inv, ExpectedInv
  <1>7. QED BY <1>3, <1>4, <1>6 DEF Inv

\* The history starts anew: nobody is expected (enter_bootloader and the reset).
LEMMA Restarts ==
  ASSUME late' = Zero PROVE LateInv'
  BY DEF LateInv, Zero

\* enter_bootloader, up to the start-up code of the next application.
LEMMA Reboots ==
  ASSUME Inv, enter_bootloader PROVE Inv'
  <1>1. /\ starting = 0 /\ alive_mask' = {} /\ mailbox' = Off /\ app' = "down"
        /\ ipi' = [c \in Cores |-> ipi[c] \/ c \in alive_mask]
        /\ expected_mask' = {} /\ core_kicked' = Off /\ LeaveKick(0) /\ late' = Zero
        /\ UNCHANGED <<mode, starting, armed>>
    BY DEF enter_bootloader, companion_core_reset_active
  <1>2. LateInv' BY <1>1, Restarts
  <1>3. ExpectedInv' BY <1>1 DEF ExpectedInv
  <1>4. CounterInv' BY <1>1, KickTypes DEF CounterInv, LeaveKick
  <1>5. CoresTypeOK'
    <2>1. ipi' \in [Cores -> BOOLEAN]
      <3>1. \A c \in Cores : (ipi[c] \/ c \in alive_mask) \in BOOLEAN OBVIOUS
      <3>2. QED BY <1>1, <3>1
    <2>2. /\ mailbox' \in [Cores -> BOOLEAN] /\ core_kicked' \in [Cores -> BOOLEAN]
          /\ late' \in [Cores -> Nat]
      BY <1>1 DEF Off, Zero
    <2>3. /\ kick_pc' \in [Cores -> {"idle", "mask", "scan", "reset", "kick"}]
          /\ kick_i' \in [Cores -> Cores] /\ kick_mask' \in [Cores -> SUBSET Cores]
      BY <1>1, KickTypes DEF LeaveKick
    <2>4. /\ mode' \in [Cores -> {"parked", "running", "parking", "hung"}]
          /\ alive_mask' \subseteq Companions /\ starting' \in Cores
          /\ app' \in {"down", "up"} /\ armed' \in BOOLEAN /\ expected_mask' \subseteq Cores
      BY <1>1, CoresAssumption DEF Inv, CoresTypeOK, Cores
    <2>5. QED BY <2>1, <2>2, <2>3, <2>4 DEF CoresTypeOK
  <1>6. QED BY <1>2, <1>3, <1>4, <1>5 DEF Inv

\* A parked core finds its entry.
LEMMA Unparks ==
  ASSUME Inv, NEW c \in Companions, unpark(c) PROVE Inv'
  <1>1. /\ mode' = [mode EXCEPT ![c] = "running"]
        /\ UNCHANGED <<mailbox, ipi, alive_mask, starting, app, armed, expected_mask>>
        /\ UNCHANGED kickVars
    BY DEF unpark
  <1>2. \A d \in Cores : Gone(d) => Gone(d)'
    <2>1. SUFFICES ASSUME NEW d \in Cores, Gone(d) PROVE Gone(d)' OBVIOUS
    <2>2. d \in expected_mask' BY <1>1, <2>1 DEF Gone
    <2>3. QED BY <2>1, <2>2, GoneStays
  <1>3. LateInv' /\ CounterInv' BY <1>1, <1>2, QuietLate
  <1>4. CoresTypeOK' /\ ExpectedInv' BY <1>1 DEF Inv, CoresTypeOK, ExpectedInv, kickVars
  <1>5. QED BY <1>3, <1>4 DEF Inv

\* A running core takes the IPI and abandons what it was doing.
LEMMA TakesIpi ==
  ASSUME Inv, NEW c \in Companions, mailbox_park_request(c) PROVE Inv'
  <1>1. /\ mode' = [mode EXCEPT ![c] = "parking"] /\ ipi' = [ipi EXCEPT ![c] = FALSE]
        /\ LeaveKick(c)
        /\ UNCHANGED <<mailbox, alive_mask, starting, app, armed, expected_mask,
                       core_kicked, late>>
    BY DEF mailbox_park_request
  <1>2. \A d \in Cores : Gone(d) => Gone(d)'
    <2>1. SUFFICES ASSUME NEW d \in Cores, Gone(d) PROVE Gone(d)' OBVIOUS
    <2>2. d \in expected_mask' BY <1>1, <2>1 DEF Gone
    <2>3. QED BY <2>1, <2>2, GoneStays
  <1>3. c \in Cores BY DEF Companions
  <1>4. LateInv' /\ CounterInv' BY <1>1, <1>2, <1>3, LeavesLate
  <1>5. CoresTypeOK' BY <1>1, KickTypes DEF Inv, CoresTypeOK, LeaveKick
  <1>6. ExpectedInv' BY <1>1 DEF Inv, ExpectedInv
  <1>7. QED BY <1>4, <1>5, <1>6 DEF Inv

\* The park loop clears its mailbox: the core stays gone if it was expected.
LEMMA Parks ==
  ASSUME Inv, NEW c \in Companions, companion_core_park(c) PROVE Inv'
  <1>1. /\ mode' = [mode EXCEPT ![c] = "parked"] /\ mailbox' = [mailbox EXCEPT ![c] = FALSE]
        /\ UNCHANGED <<ipi, alive_mask, starting, app, armed, expected_mask>>
        /\ UNCHANGED kickVars
    BY DEF companion_core_park
  <1>2. \A d \in Cores : Gone(d) => Gone(d)'
    <2>1. SUFFICES ASSUME NEW d \in Cores, Gone(d) PROVE Gone(d)' OBVIOUS
    <2>2. d \in expected_mask' BY <1>1, <2>1 DEF Gone
    <2>3. QED BY <2>1, <2>2, GoneStays
  <1>3. LateInv' /\ CounterInv' BY <1>1, <1>2, QuietLate
  <1>4. CoresTypeOK' /\ ExpectedInv' BY <1>1 DEF Inv, CoresTypeOK, ExpectedInv, kickVars
  <1>5. QED BY <1>3, <1>4 DEF Inv

\* A fault handler's loop.
LEMMA Hangs ==
  ASSUME Inv, NEW c \in Cores, hang(c) PROVE Inv'
  <1>1. /\ mode' = [mode EXCEPT ![c] = "hung"] /\ LeaveKick(c)
        /\ UNCHANGED <<mailbox, ipi, alive_mask, starting, app, armed, expected_mask,
                       core_kicked, late>>
    BY DEF hang
  <1>2. \A d \in Cores : Gone(d) => Gone(d)'
    <2>1. SUFFICES ASSUME NEW d \in Cores, Gone(d) PROVE Gone(d)' OBVIOUS
    <2>2. d \in expected_mask' BY <1>1, <2>1 DEF Gone
    <2>3. QED BY <2>1, <2>2, GoneStays
  <1>3. LateInv' /\ CounterInv' BY <1>1, <1>2, LeavesLate
  <1>4. CoresTypeOK' BY <1>1, KickTypes DEF Inv, CoresTypeOK, LeaveKick
  <1>5. ExpectedInv' BY <1>1 DEF Inv, ExpectedInv
  <1>6. QED BY <1>3, <1>4, <1>5 DEF Inv

\* Power-on, and what the watchdog's reset makes of the board.
LEMMA Begins == CoresInit => Inv
  <1>1. SUFFICES ASSUME CoresInit PROVE Inv OBVIOUS
  <1>2. CoresTypeOK
    <2>1. 0 \in Cores BY CoresAssumption DEF Cores
    <2>2. QED BY <1>1, <2>1 DEF CoresInit, CoresTypeOK, Off, Zero
  <1>3. CounterInv /\ ExpectedInv /\ LateInv
    BY <1>1 DEF CoresInit, CounterInv, ExpectedInv, LateInv, Zero
  <1>4. QED BY <1>2, <1>3 DEF Inv

\* The hardware resets the board.
LEMMA Resets ==
  ASSUME WatchdogReset PROVE Inv'
  <1>1. CoresTypeOK'
    <2>1. 0 \in Cores BY CoresAssumption DEF Cores
    <2>2. QED BY <2>1 DEF WatchdogReset, CoresTypeOK, Off, Zero
  <1>2. CounterInv' /\ ExpectedInv'
    BY DEF WatchdogReset, CounterInv, ExpectedInv, Zero
  <1>3. LateInv' BY Restarts DEF WatchdogReset
  <1>4. QED BY <1>1, <1>2, <1>3 DEF Inv

-------------------------------------------------------------------------------
\* The theorems

\* The invariant holds throughout.
LEMMA Invariance == CoresSpec => []Inv
  <1>1. ASSUME Inv, [CoresNext]_coreVars PROVE Inv'
    <2>1. CASE companion_core_init BY <1>1, <2>1, Comes
    <2>2. CASE start_mark BY <1>1, <2>2, Marks
    <2>3. CASE enter_bootloader BY <1>1, <2>3, Reboots
    <2>4. CASE WatchdogReset BY <2>4, Resets
    <2>5. ASSUME NEW c \in Companions,
                 \/ companion_core_start(c) \/ unpark(c)
                 \/ mailbox_park_request(c) \/ companion_core_park(c)
          PROVE  Inv'
      BY <1>1, <2>5, Starts, Unparks, TakesIpi, Parks
    <2>6. ASSUME NEW k \in Cores, watchdog_core_kick(k) \/ hang(k) PROVE Inv'
      BY <1>1, <2>6, Reports, ReadsMask, Scans, Withdraws, Feeds, Hangs
      DEF watchdog_core_kick
    <2>7. CASE UNCHANGED coreVars
      <3>1. LateInv'
        <4>1. \A d \in Cores : Gone(d) => Gone(d)' BY <2>7 DEF coreVars, Gone
        <4>2. UNCHANGED kickVars BY <2>7 DEF coreVars, kickVars
        <4>3. QED BY <1>1, <4>1, <4>2, QuietLate
      <3>2. CoresTypeOK' /\ CounterInv' /\ ExpectedInv'
        BY <1>1, <2>7 DEF coreVars, Inv, CoresTypeOK, CounterInv, ExpectedInv
      <3>3. QED BY <3>1, <3>2 DEF Inv
    <2>8. QED BY <1>1, <2>1, <2>2, <2>3, <2>4, <2>5, <2>6, <2>7 DEF CoresNext
  <1>2. QED BY <1>1, Begins, PTL DEF CoresSpec

\* The masks name cores, the loops stay inside core_kicked.
THEOREM TypeCorrect == CoresSpec => []CoresTypeOK
  <1>1. Inv => CoresTypeOK BY DEF Inv
  <1>2. QED BY <1>1, Invariance, PTL

\* A core that is gone stops the watchdog from being fed: every other core does
\* so at most twice more, without any lock around cc_ctx.
THEOREM GateCloses == CoresSpec => []LateKicksBounded
  <1>1. ASSUME Inv PROVE LateKicksBounded
    BY <1>1 DEF Inv, LateInv, LateBound, LateKicksBounded
  <1>2. QED BY <1>1, Invariance, PTL
===============================================================================
