---------------------------- MODULE SpinlockProofs ----------------------------
(***************************************************************************)
(* Mutual exclusion, first-come-first-served order and the refinement of   *)
(* SharedLock, for every number of cores, as long as no ticket wraps.      *)
(***************************************************************************)
EXTENDS Spinlock, TLAPS

\* No ticket wraps to 0.  Tickets restart at 1 whenever the line is empty, so
\* this excludes only an unbroken chain of 2^32 contended acquires.
NoWrap == \A c \in Core : max_ticket[c] + 1 < TicketMod

\* (ticket, core_id) order
Before(c, d) == ticket[c] < ticket[d] \/ (ticket[c] = ticket[d] /\ c < d)

\* c's wait loop no longer waits for d
Passed(c, d) ==
  \/ pc[c] = "held"
  \/ pc[c] \in {"await", "compare"} /\ d < i[c]

\* d, wherever it is, will find c's ticket in its way
Behind(d, c) ==
  /\ ticket[c] > 0
  /\ \/ pc[d] = "out"
     \/ pc[d] = "scan" /\ (i[d] <= c \/ max_ticket[d] >= ticket[c])
     \/ pc[d] = "drawn" /\ Before(c, d)
     \/ pc[d] \in {"await", "compare"} /\ Before(c, d) /\ i[d] <= c

TicketInv == \A c \in Core :
  /\ ticket[c] = 0 <=> pc[c] \in {"out", "scan"}
  /\ choosing[c] = 1 <=> pc[c] \in {"scan", "drawn"}
  /\ pc[c] = "compare" => i[c] < N /\ i[c] # c

\* A core that c is about to compare with, and that drew a ticket since c saw
\* it not choosing, took c's ticket into account.
CompareInv == \A c, d \in Core :
  pc[c] = "compare" /\ i[c] = d /\ pc[d] = "scan" /\ i[d] > c
    => max_ticket[d] >= ticket[c]

PassedInv == \A c, d \in Core : c # d /\ Passed(c, d) => Behind(d, c)

AheadInv == \A c \in Core : \A a \in ahead[c] :
  a # c /\ InLine(a) /\ Behind(c, a)

IInv == TypeOK /\ TicketInv /\ CompareInv /\ PassedInv /\ AheadInv

-------------------------------------------------------------------------------

\* A ticket below the modulus is stored as it is.
LEMMA ModSmall == ASSUME NEW a \in Nat, NEW b \in Nat, a < b
                  PROVE  a % b = a
  OBVIOUS

\* All locks start free with nobody in line.
LEMMA InitInv == Init => IInv
  BY NAssumption DEF Init, spinlock_init, IInv, TypeOK, TicketInv, CompareInv,
     PassedInv, AheadInv, Passed, Behind, InLine, Core, Label

\* Every load and store of spinlock.c stays within the types.
LEMMA TypeStep == TypeOK /\ TicketInv /\ [Next]_vars => TypeOK'
  <1> USE DEF TypeOK, Label, Goto
  <1> SUFFICES ASSUME TypeOK, TicketInv, [Next]_vars PROVE TypeOK'
    OBVIOUS
  <1>1. CASE UNCHANGED vars
    BY <1>1 DEF vars
  <1>2. ASSUME NEW c \in Core, Step(c) PROVE TypeOK'
    <2>0. /\ 0 \in 0 .. N
          /\ i[c] < N => i[c] + 1 \in 0 .. N /\ i[c] \in Core
          /\ i[c] = c => i[c] + 1 \in 0 .. N
          /\ pc[c] = "compare" => i[c] < N
      <3>1. i[c] \in 0 .. N
        OBVIOUS
      <3>2. c \in 0 .. N - 1
        BY DEF Core
      <3>3. pc[c] = "compare" => i[c] < N
        BY DEF TicketInv
      <3> HIDE DEF TypeOK
      <3> QED BY <3>1, <3>2, <3>3, NAssumption DEF Core
    <2>1. CASE Announce(c)
      <3>1. {d \in Core : InLine(d)} \in SUBSET Core
        OBVIOUS
      <3>2. ahead' \in [Core -> SUBSET Core]
        BY <2>1, <3>1, Zenon DEF Announce
      <3> QED BY <2>0, <2>1, <3>2 DEF Announce
    <2>2. CASE ReadTicket(c)
      <3>1. ticket[i[c]] \in Nat
        BY <2>0, <2>2 DEF ReadTicket
      <3> QED BY <2>0, <2>2, <3>1 DEF ReadTicket
    <2>3. CASE DrawTicket(c)
      <3>1. (max_ticket[c] + 1) % TicketMod \in Nat
        BY TicketModAssumption
      <3> QED BY <2>3, <3>1 DEF DrawTicket
    <2>4. CASE EndChoosing(c)    BY <2>0, <2>4 DEF EndChoosing
    <2>5. CASE SkipSelf(c)       BY <2>0, <2>5 DEF SkipSelf
    <2>6. CASE AwaitChoosing(c)  BY <2>6 DEF AwaitChoosing
    <2>7. CASE CompareTicket(c)  BY <2>0, <2>7 DEF CompareTicket
    <2>8. CASE Acquired(c)       BY <2>8 DEF Acquired
    <2>9. CASE spinlock_release(c)
      <3>1. ahead' \in [Core -> SUBSET Core]
        BY <2>9 DEF spinlock_release
      <3> QED BY <2>9, <3>1 DEF spinlock_release
    <2> QED
      BY <1>2, <2>1, <2>2, <2>3, <2>4, <2>5, <2>6, <2>7, <2>8, <2>9
         DEF Step, spinlock_acquire
  <1> QED
    BY <1>1, <1>2 DEF Next
\* Core ids are naturals below N, and every loop index below N is a core.
LEMMA CoreFacts ==
  /\ N \in Nat
  /\ \A c \in Core : c \in Nat /\ c < N
  /\ \A k \in 0 .. N : k \in Nat /\ (k < N => k \in Core)
  BY NAssumption DEF Core

\* Each step keeps the order that the tickets impose.
LEMMA OrderStep ==
  ASSUME IInv, NoWrap, NEW c \in Core, Step(c), TypeOK'
  PROVE  TicketInv' /\ CompareInv' /\ PassedInv' /\ AheadInv'
  <1>0. TypeOK /\ TicketInv /\ CompareInv /\ PassedInv /\ AheadInv
    BY DEF IInv
  <1>1. CASE Announce(c)
    BY <1>0, <1>1, CoreFacts DEF Announce, TypeOK, Label, Goto, TicketInv,
       CompareInv, PassedInv, AheadInv, Passed, Behind, Before, InLine
  <1>2. CASE ReadTicket(c)
    <2>1. /\ pc' = pc /\ ticket' = ticket /\ choosing' = choosing /\ ahead' = ahead
          /\ pc[c] = "scan" /\ i[c] \in Core
          /\ i'[c] = i[c] + 1
          /\ max_ticket'[c] >= max_ticket[c] /\ max_ticket'[c] >= ticket[i[c]]
          /\ \A d \in Core : d # c => i'[d] = i[d] /\ max_ticket'[d] = max_ticket[d]
      BY <1>0, <1>2, CoreFacts DEF ReadTicket, TypeOK, Goto
    <2>2. TicketInv'
      BY <1>0, <2>1, CoreFacts DEF TicketInv, TypeOK
    <2>3. CompareInv'
      <3> SUFFICES ASSUME NEW x \in Core, NEW y \in Core, pc'[x] = "compare",
                          i'[x] = y, pc'[y] = "scan", i'[y] > x
                   PROVE  max_ticket'[y] >= ticket'[x]
        BY Zenon DEF CompareInv
      <3>1. CASE y # c BY <1>0, <2>1, <3>1 DEF CompareInv
      <3>2. CASE y = c /\ x = i[c] BY <2>1, <3>2
      <3>3. CASE y = c /\ x # i[c]
        <4>1. i[c] > x /\ x # c
          BY <1>0, <2>1, <3>3, CoreFacts DEF TypeOK
        <4> QED BY <1>0, <2>1, <3>3, <4>1 DEF CompareInv, TypeOK
      <3> QED BY <3>1, <3>2, <3>3
    <2>4. ASSUME NEW x \in Core, Behind(c, x) PROVE Behind(c, x)'
      <3>1. i[c] <= x \/ max_ticket[c] >= ticket[x]
        BY <2>1, <2>4 DEF Behind
      <3>2. i'[c] <= x \/ max_ticket'[c] >= ticket[x]
        <4>1. CASE x = i[c] BY <2>1, <4>1
        <4>2. CASE x # i[c] /\ i[c] <= x
          <5>1. i[c] \in Nat /\ x \in Nat BY <2>1, CoreFacts
          <5> QED BY <2>1, <4>2, <5>1
        <4>3. CASE max_ticket[c] >= ticket[x]
          <5>1. max_ticket[c] \in Nat /\ max_ticket'[c] \in Nat /\ ticket[x] \in Nat
            BY <1>0 DEF TypeOK
          <5> QED BY <2>1, <4>3, <5>1
        <4> QED BY <3>1, <4>1, <4>2, <4>3
      <3> QED BY <2>1, <2>4, <3>2 DEF Behind
    <2>5. ASSUME NEW x \in Core, NEW y \in Core, y # c, Behind(y, x)
          PROVE  Behind(y, x)'
      BY <2>1, <2>5 DEF Behind, Before
    <2>6. ASSUME NEW x \in Core, NEW y \in Core, Passed(x, y)' PROVE Passed(x, y)
      BY <2>1, <2>6 DEF Passed
    <2>7. PassedInv'
      BY <1>0, <2>4, <2>5, <2>6, Zenon DEF PassedInv
    <2>8. AheadInv'
      <3> SUFFICES ASSUME NEW x \in Core, NEW a \in ahead'[x]
                   PROVE  a # x /\ InLine(a)' /\ Behind(x, a)'
        BY Zenon DEF AheadInv
      <3>1. a \in Core /\ a # x /\ InLine(a) /\ Behind(x, a)
        BY <1>0, <2>1 DEF AheadInv, TypeOK
      <3> QED BY <2>1, <2>4, <2>5, <3>1 DEF InLine
    <2> QED BY <2>2, <2>3, <2>7, <2>8
  <1>3. CASE DrawTicket(c)
    <2>1. ticket' = [ticket EXCEPT ![c] = max_ticket[c] + 1]
      <3>1. /\ max_ticket[c] + 1 \in Nat
            /\ TicketMod \in Nat
            /\ max_ticket[c] + 1 < TicketMod
        BY <1>0, TicketModAssumption DEF NoWrap, TypeOK
      <3>2. (max_ticket[c] + 1) % TicketMod = max_ticket[c] + 1
        BY <3>1, ModSmall
      <3> QED BY <1>3, <3>2 DEF DrawTicket
    <2> QED
      BY <1>0, <1>3, <2>1, CoreFacts DEF DrawTicket, TypeOK, Label, Goto, TicketInv,
         CompareInv, PassedInv, AheadInv, Passed, Behind, Before, InLine
  <1>4. CASE EndChoosing(c)
    BY <1>0, <1>4, CoreFacts DEF EndChoosing, TypeOK, Label, Goto, TicketInv,
       CompareInv, PassedInv, AheadInv, Passed, Behind, Before, InLine
  <1>5. CASE SkipSelf(c)
    <2>1. /\ pc' = pc /\ ticket' = ticket /\ max_ticket' = max_ticket
          /\ choosing' = choosing /\ ahead' = ahead
          /\ pc[c] = "await" /\ i[c] = c /\ i'[c] = c + 1
          /\ \A d \in Core : d # c => i'[d] = i[d]
      BY <1>0, <1>5 DEF SkipSelf, TypeOK, Goto
    <2>2. TicketInv' /\ CompareInv'
      BY <1>0, <2>1 DEF TicketInv, CompareInv
    <2>3. ASSUME NEW x \in Core, NEW y \in Core, x # y, Behind(y, x)
          PROVE  Behind(y, x)'
      <3>1. CASE y # c BY <2>1, <2>3, <3>1 DEF Behind, Before
      <3>2. CASE y = c
        <4>1. c + 1 <= x
          BY <2>1, <2>3, <3>2, CoreFacts DEF Behind
        <4> QED BY <2>1, <2>3, <3>2, <4>1 DEF Behind, Before
      <3> QED BY <3>1, <3>2
    <2>4. ASSUME NEW x \in Core, NEW y \in Core, x # y, Passed(x, y)'
          PROVE  Passed(x, y)
      <3>1. CASE x # c BY <2>1, <2>4, <3>1 DEF Passed
      <3>2. CASE x = c
        <4>1. y < c + 1
          BY <2>1, <2>4, <3>2 DEF Passed
        <4>2. y < c
          BY <2>4, <3>2, <4>1, CoreFacts
        <4> QED BY <2>1, <3>2, <4>2 DEF Passed
      <3> QED BY <3>1, <3>2
    <2>5. PassedInv'
      BY <1>0, <2>3, <2>4, Zenon DEF PassedInv
    <2>6. AheadInv'
      <3> SUFFICES ASSUME NEW x \in Core, NEW a \in ahead'[x]
                   PROVE  a # x /\ InLine(a)' /\ Behind(x, a)'
        BY Zenon DEF AheadInv
      <3>1. a \in Core /\ a # x /\ InLine(a) /\ Behind(x, a)
        BY <1>0, <2>1 DEF AheadInv, TypeOK
      <3> QED BY <2>1, <2>3, <3>1 DEF InLine
    <2> QED BY <2>2, <2>5, <2>6
  <1>6. CASE AwaitChoosing(c)
    BY <1>0, <1>6, CoreFacts DEF AwaitChoosing, TypeOK, Label, Goto, TicketInv,
       CompareInv, PassedInv, AheadInv, Passed, Behind, Before, InLine
  <1>7. CASE CompareTicket(c)
    <2>0. PICK e \in Core : e = i[c] /\ e # c
      BY <1>0, <1>7, CoreFacts DEF CompareTicket, TypeOK, Goto, TicketInv
    <2>1. /\ ticket' = ticket /\ max_ticket' = max_ticket
          /\ choosing' = choosing /\ ahead' = ahead
          /\ GoesFirst(c, e)
          /\ pc[c] = "compare" /\ pc'[c] = "await" /\ i'[c] = e + 1
          /\ \A d \in Core : d # c => i'[d] = i[d] /\ pc'[d] = pc[d]
      BY <1>0, <1>7, <2>0 DEF CompareTicket, TypeOK, Goto
    <2>2. TicketInv' /\ CompareInv'
      BY <1>0, <2>0, <2>1 DEF TicketInv, CompareInv
    <2>3. ~ Behind(c, e)
      BY <1>0, <2>0, <2>1, CoreFacts DEF GoesFirst, Behind, Before, TypeOK
    <2>4. ASSUME NEW x \in Core, NEW y \in Core, Behind(y, x), y # c \/ x # e
          PROVE  Behind(y, x)'
      BY <1>0, <2>0, <2>1, <2>4, CoreFacts DEF Behind, Before, TypeOK
    <2>5. ASSUME NEW x \in Core, NEW y \in Core, x # c \/ y # e, Passed(x, y)'
          PROVE  Passed(x, y)
      BY <1>0, <2>0, <2>1, <2>5, CoreFacts DEF Passed, TypeOK
    <2>6. Behind(e, c)'
      <3>1. ~ Passed(e, c)
        BY <1>0, <2>0, <2>3 DEF PassedInv
      <3>2. ticket[c] > 0
        BY <1>0, <2>1 DEF TicketInv, TypeOK
      <3>3. CASE ticket[e] = 0
        <4>1. pc[e] \in {"out", "scan"}
          BY <1>0, <3>3 DEF TicketInv
        <4> QED
          BY <1>0, <2>0, <2>1, <3>2, <4>1, CoreFacts DEF CompareInv, Behind, TypeOK
      <3>4. CASE ticket[e] # 0
        <4>1. pc[e] \in {"drawn", "await", "compare"}
          BY <1>0, <3>1, <3>4 DEF TicketInv, Passed, TypeOK, Label
        <4>2. Before(c, e)
          BY <2>1, <3>4 DEF GoesFirst, Before
        <4>3. pc[e] \in {"await", "compare"} => i[e] <= c
          BY <1>0, <3>1, CoreFacts DEF Passed, TypeOK
        <4> QED
          BY <2>0, <2>1, <3>2, <4>1, <4>2, <4>3 DEF Behind, Before
      <3> QED BY <3>3, <3>4
    <2>7. PassedInv'
      <3> SUFFICES ASSUME NEW x \in Core, NEW y \in Core, x # y, Passed(x, y)'
                   PROVE  Behind(y, x)'
        BY Zenon DEF PassedInv
      <3>1. CASE x = c /\ y = e BY <2>6, <3>1
      <3>2. CASE x # c \/ y # e
        <4>1. Behind(y, x)
          BY <1>0, <2>5, <3>2, Zenon DEF PassedInv
        <4> QED BY <2>3, <2>4, <4>1, Zenon
      <3> QED BY <3>1, <3>2, Zenon
    <2>8. AheadInv'
      <3> SUFFICES ASSUME NEW x \in Core, NEW a \in ahead'[x]
                   PROVE  a # x /\ InLine(a)' /\ Behind(x, a)'
        BY Zenon DEF AheadInv
      <3>1. a \in Core /\ a # x /\ InLine(a) /\ Behind(x, a)
        BY <1>0, <2>1 DEF AheadInv, TypeOK
      <3>2. InLine(a)'
        BY <2>1, <3>1 DEF InLine
      <3>3. Behind(x, a)'
        BY <2>3, <2>4, <3>1, Zenon
      <3> QED BY <3>1, <3>2, <3>3
    <2> QED BY <2>2, <2>7, <2>8
  <1>8. CASE Acquired(c)
    BY <1>0, <1>8, CoreFacts DEF Acquired, TypeOK, Label, Goto, TicketInv,
       CompareInv, PassedInv, AheadInv, Passed, Behind, Before, InLine
  <1>9. CASE spinlock_release(c)
    BY <1>0, <1>9, CoreFacts DEF spinlock_release, TypeOK, Label, Goto, TicketInv,
       CompareInv, PassedInv, AheadInv, Passed, Behind, Before, InLine
  <1> QED
    BY <1>1, <1>2, <1>3, <1>4, <1>5, <1>6, <1>7, <1>8, <1>9
       DEF Step, spinlock_acquire
\* The whole inductive invariant.
LEMMA InductiveInvariant == Spec /\ []NoWrap => []IInv
  <1>1. IInv /\ NoWrap /\ [Next]_vars => IInv'
    <2> SUFFICES ASSUME IInv, NoWrap, [Next]_vars PROVE IInv'
      OBVIOUS
    <2>1. TypeOK'
      BY TypeStep DEF IInv
    <2>2. CASE UNCHANGED vars
      BY <2>2 DEF vars, IInv, TypeOK, TicketInv, CompareInv, PassedInv, AheadInv,
         Passed, Behind, Before, InLine
    <2>3. CASE Next
      <3>1. PICK c \in Core : Step(c) BY <2>3 DEF Next
      <3> QED BY <2>1, <3>1, OrderStep DEF IInv
    <2> QED BY <2>2, <2>3
  <1> QED BY <1>1, InitInv, PTL DEF Spec

\* Types of the lock words and of the locals (spinlock.h:6-20, spinlock.c:11-63).
THEOREM TypeCorrect == Spec /\ []NoWrap => []TypeOK
  <1>1. IInv => TypeOK
    BY DEF IInv
  <1> QED BY <1>1, InductiveInvariant, PTL

\* For any number of cores: no two cores are past spinlock_acquire at once.
THEOREM Exclusion == Spec /\ []NoWrap => []MutualExclusion
  <1>1. IInv => MutualExclusion
    BY DEF IInv, PassedInv, Passed, Behind, MutualExclusion
  <1> QED BY <1>1, InductiveInvariant, PTL

\* For any number of cores: nobody overtakes a core that already has its ticket.
THEOREM ServedInOrder == Spec /\ []NoWrap => []FirstComeFirstServed
  <1>1. IInv => FirstComeFirstServed
    BY DEF IInv, TypeOK, AheadInv, Behind, FirstComeFirstServed
  <1> QED BY <1>1, InductiveInvariant, PTL

\* Single loads and stores implement the atomic lock the kernel relies on.
THEOREM Refinement == Spec /\ []NoWrap => ImplementsSharedLock
  <1>1. Init => Abstract!Init
    BY NAssumption DEF Init, Abstract!Init, HeldBy
  <1>2. IInv /\ MutualExclusion /\ MutualExclusion' /\ TypeOK' /\ [Next]_vars
          => [Abstract!Next]_HeldBy
    <2> SUFFICES ASSUME IInv, MutualExclusion, MutualExclusion', TypeOK', [Next]_vars
                 PROVE  [Abstract!Next]_HeldBy
      OBVIOUS
    <2>0. ASSUME NEW c \in Core PROVE c # N
      BY NAssumption DEF Core
    <2>1. CASE UNCHANGED vars
      BY <2>1 DEF vars, HeldBy
    <2>2. ASSUME NEW c \in Core, Acquired(c) PROVE Abstract!Next
      <3>1. \A d \in Core : pc'[d] = "held" <=> d = c
        BY <2>2 DEF Acquired, Goto, IInv, TypeOK, MutualExclusion
      <3>2. ~ \E d \in Core : pc[d] = "held"
        BY <2>2, <3>1 DEF Acquired, Goto, IInv, TypeOK
      <3>3. HeldBy = N /\ HeldBy' = c
        BY <3>1, <3>2 DEF HeldBy
      <3> QED BY <3>3 DEF Abstract!Next, Abstract!Acquire
    <2>3. ASSUME NEW c \in Core, spinlock_release(c) PROVE Abstract!Next
      <3>1. \A d \in Core : pc[d] = "held" <=> d = c
        BY <2>3 DEF spinlock_release, Goto, MutualExclusion
      <3>2. ~ \E d \in Core : pc'[d] = "held"
        BY <2>3, <3>1 DEF spinlock_release, Goto, IInv, TypeOK
      <3>3. HeldBy = c /\ HeldBy' = N
        BY <3>1, <3>2 DEF HeldBy
      <3> QED BY <3>3 DEF Abstract!Next, Abstract!Release
    <2>4. ASSUME NEW c \in Core, pc[c] # "held", pc'[c] # "held",
                 pc' = [pc EXCEPT ![c] = pc'[c]]
          PROVE  UNCHANGED HeldBy
      <3>1. \A d \in Core : pc'[d] = "held" <=> pc[d] = "held"
        BY <2>4 DEF IInv, TypeOK
      <3> QED BY <3>1 DEF HeldBy
    <2>5. ASSUME NEW c \in Core, Step(c) PROVE [Abstract!Next]_HeldBy
      <3>1. CASE Acquired(c) BY <2>2, <3>1
      <3>2. CASE spinlock_release(c) BY <2>3, <3>2
      <3>3. CASE ~ Acquired(c) /\ ~ spinlock_release(c)
        <4>1. \E from, to \in Label \ {"held"} : Goto(c, from, to)
          BY <2>5, <3>3 DEF Step, spinlock_acquire, Announce, ReadTicket, DrawTicket,
             EndChoosing, SkipSelf, AwaitChoosing, CompareTicket, Label
        <4>2. /\ pc[c] # "held" /\ pc'[c] # "held"
              /\ pc' = [pc EXCEPT ![c] = pc'[c]]
          BY <4>1 DEF Goto, Label, IInv, TypeOK
        <4> QED BY <2>4, <4>2
      <3> QED BY <3>1, <3>2, <3>3
    <2> QED BY <2>1, <2>5 DEF Next
  <1>3. QED
    BY <1>1, <1>2, InductiveInvariant, Exclusion, TypeCorrect, PTL
       DEF ImplementsSharedLock, Abstract!Spec, Spec
===============================================================================
