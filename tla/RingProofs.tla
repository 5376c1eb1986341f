------------------------------ MODULE RingProofs ------------------------------
(***************************************************************************)
(* The three rings of the system are bounded FIFOs: the kernel's queue,    *)
(* the tick rings of telemetry, the transmit buffer of the UART.  Proved   *)
(* for any sizes, items and numbers of tasks and cores, from what a ring   *)
(* does when an item is written behind its last one or its oldest one is   *)
(* given back.                                                             *)
(***************************************************************************)
EXTENDS Queue, Telemetry, UartTx, FiniteSetTheorems, TLAPS

\* Rings

\* The n items of a ring of N slots, from the slot `first' on
Ring(buf, first, n, N) == [i \in 1 .. n |-> buf[(first + i - 1) % N]]

\* An index is taken modulo the size at most once round the ring (the increments
\* of q->head, q->tail, ring->head, ring->tail and the UART's two indices).
LEMMA Wrap ==
  ASSUME NEW N \in Nat \ {0}, NEW a \in 0 .. N - 1, NEW b \in 0 .. N
  PROVE  (a + b) % N = IF a + b < N THEN a + b ELSE (a + b) - N
  OBVIOUS

\* Two places less than a round apart are different slots.
LEMMA Apart ==
  ASSUME NEW N \in Nat \ {0}, NEW a \in 0 .. N - 1, NEW i \in 0 .. N - 1, NEW j \in 0 .. N - 1,
         i # j
  PROVE  (a + i) % N # (a + j) % N
  <1>1. /\ (a + i) % N = IF a + i < N THEN a + i ELSE (a + i) - N
        /\ (a + j) % N = IF a + j < N THEN a + j ELSE (a + j) - N
    OBVIOUS
  <1>2. QED BY <1>1

\* The slot behind the last item is where it was when the oldest one is given back,
LEMMA FreedEnd ==
  ASSUME NEW N \in Nat \ {0}, NEW a \in 0 .. N - 1, NEW n \in 0 .. N, n > 0
  PROVE  (a + n) % N = (((a + 1) % N) + (n - 1)) % N
  <1>1. CASE a + 1 < N
    <2>1. (a + 1) % N = a + 1 /\ (a + 1) + (n - 1) = a + n BY <1>1
    <2>2. QED BY <2>1
  <1>2. CASE a + 1 = N
    <2>1. (a + 1) % N = 0 /\ 0 + (n - 1) = n - 1 BY <1>2
    <2>2. (n - 1) % N = n - 1 BY <1>2
    <2>3. (a + n) % N = (a + n) - N BY <1>2
    <2>4. QED BY <1>2, <2>1, <2>2, <2>3
  <1>3. QED BY <1>1, <1>2

\* and one further when an item is written there.
LEMMA WrittenEnd ==
  ASSUME NEW N \in Nat \ {0}, NEW a \in 0 .. N - 1, NEW n \in 0 .. N, n < N
  PROVE  (((a + n) % N) + 1) % N = (a + (n + 1)) % N
  <1>1. CASE a + n < N
    <2>1. (a + n) % N = a + n /\ (a + n) + 1 = a + (n + 1) BY <1>1
    <2>2. QED BY <2>1
  <1>2. CASE a + n >= N
    <2>1. (a + n) % N = (a + n) - N BY <1>2
    <2>2. ((a + n) - N) + 1 \in 0 .. N - 1 BY <1>2
    <2>3. (((a + n) - N) + 1) % N = ((a + n) - N) + 1 BY <2>2
    <2>4. (a + (n + 1)) % N = (a + (n + 1)) - N BY <1>2
    <2>5. QED BY <1>2, <2>1, <2>3, <2>4
  <1>3. QED BY <1>1, <1>2

\* n of the N slots of a ring are filled, from `first' on, with items of S
IsRing(buf, first, n, N, S) ==
  /\ N \in Nat \ {0} /\ buf \in [0 .. N - 1 -> S]
  /\ first \in 0 .. N - 1 /\ n \in 0 .. N

\* The items of a ring are a sequence.
LEMMA RingIsSeq ==
  ASSUME NEW N \in Nat, NEW first \in Nat, NEW n \in Nat,
         NEW S, NEW buf, IsRing(buf, first, n, N, S)
  PROVE  Ring(buf, first, n, N) \in Seq(S) /\ Len(Ring(buf, first, n, N)) = n
  <1>1. /\ N \in Nat \ {0} /\ buf \in [0 .. N - 1 -> S] /\ first \in 0 .. N - 1 /\ n \in Nat
    BY DEF IsRing
  <1>2. \A i \in 1 .. n : (first + i - 1) % N \in 0 .. N - 1 BY <1>1
  <1>3. \A i \in 1 .. n : buf[(first + i - 1) % N] \in S BY <1>1, <1>2
  <1>4. Ring(buf, first, n, N) \in [1 .. n -> S] BY <1>3 DEF Ring
  <1>5. QED BY <1>1, <1>4

\* v is written behind the last item
Written(buf, new, first, n, m, N, v) ==
  n < N /\ m = n + 1 /\ new = [buf EXCEPT ![(first + n) % N] = v]

\* The slot of the oldest item is given back
Freed(first, next, n, m, N) ==
  n = m + 1 /\ next = (first + 1) % N

\* An item that is written behind the last one of a ring that is not full goes to
\* the end of the sequence, in a slot that none of the others is in.
LEMMA RingPut ==
  ASSUME NEW N \in Nat, NEW first \in Nat, NEW n \in Nat, NEW m \in Nat,
         NEW S, NEW buf, IsRing(buf, first, n, N, S),
         NEW v \in S, NEW new, Written(buf, new, first, n, m, N, v)
  PROVE  /\ IsRing(new, first, m, N, S)
         /\ Ring(new, first, m, N) = Append(Ring(buf, first, n, N), v)
  <1> DEFINE r == Ring(buf, first, n, N)
             u == Ring(new, first, m, N)
             slot == (first + n) % N
  <1>1. /\ N \in Nat \ {0} /\ buf \in [0 .. N - 1 -> S] /\ first \in 0 .. N - 1
        /\ n \in 0 .. N - 1 /\ m = n + 1 /\ new = [buf EXCEPT ![slot] = v]
    BY DEF IsRing, Written
  <1>2. slot \in 0 .. N - 1 BY <1>1
  <1>3. new \in [0 .. N - 1 -> S] BY <1>1
  <1>4. IsRing(new, first, m, N, S) BY <1>1, <1>3 DEF IsRing
  <1>5. r \in Seq(S) /\ Len(r) = n BY RingIsSeq
  <1>6. u \in Seq(S) /\ Len(u) = m BY <1>4, RingIsSeq
  <1>7. ASSUME NEW i \in 1 .. n PROVE u[i] = r[i]
    <2>1. first + n \in 0 .. 2 * N - 1 /\ first + i - 1 \in 0 .. 2 * N - 1 BY <1>1
    <2>2. (first + i - 1) % N # slot
      <3>1. i - 1 \in 0 .. N - 1 /\ n \in 0 .. N /\ i - 1 # n /\ first + i - 1 = first + (i - 1)
        BY <1>1
      <3>2. QED BY <1>1, <3>1, Apart
    <2>3. (first + i - 1) % N \in 0 .. N - 1 BY <1>1, <2>1
    <2>4. new[(first + i - 1) % N] = buf[(first + i - 1) % N] BY <1>1, <2>2, <2>3
    <2>5. i \in 1 .. m BY <1>1
    <2>6. QED BY <2>4, <2>5 DEF Ring
  <1>8. u[m] = v
    <2>1. m \in 1 .. m /\ first + m - 1 = first + n BY <1>1
    <2>2. new[slot] = v BY <1>1, <1>2
    <2>3. QED BY <2>1, <2>2 DEF Ring
  <1> HIDE DEF u, r
  <1>9. u = Append(r, v) BY <1>1, <1>5, <1>6, <1>7, <1>8
  <1>10. QED BY <1>4, <1>9 DEF u, r

\* The oldest item is in the first slot, and without it the others move up.
LEMMA RingGet ==
  ASSUME NEW N \in Nat, NEW first \in Nat, NEW n \in Nat, NEW m \in Nat,
         NEW S, NEW buf, IsRing(buf, first, n, N, S),
         NEW next \in Nat, Freed(first, next, n, m, N)
  PROVE  /\ IsRing(buf, next, m, N, S)
         /\ Ring(buf, first, n, N) # <<>>
         /\ Head(Ring(buf, first, n, N)) = buf[first]
         /\ Ring(buf, next, m, N) = Tail(Ring(buf, first, n, N))
  <1> DEFINE r == Ring(buf, first, n, N)
             u == Ring(buf, next, m, N)
  <1>1. /\ N \in Nat \ {0} /\ buf \in [0 .. N - 1 -> S] /\ first \in 0 .. N - 1
        /\ n \in 1 .. N /\ n = m + 1 /\ next = (first + 1) % N
    BY DEF IsRing, Freed
  <1>2. next = IF first + 1 < N THEN first + 1 ELSE 0
    <2>1. (first + 1) % N = IF first + 1 < N THEN first + 1 ELSE (first + 1) - N BY <1>1
    <2>2. QED BY <1>1, <2>1
  <1>3. IsRing(buf, next, m, N, S) BY <1>1, <1>2 DEF IsRing
  <1>4. r \in Seq(S) /\ Len(r) = n BY RingIsSeq
  <1>5. u \in Seq(S) /\ Len(u) = m BY <1>3, RingIsSeq
  <1>6. r[1] = buf[first]
    <2>1. 1 \in 1 .. n /\ first + 1 - 1 = first /\ first % N = first BY <1>1
    <2>2. QED BY <2>1 DEF Ring
  <1>7. ASSUME NEW i \in 1 .. m PROVE u[i] = r[i + 1]
    <2>1. i + 1 \in 1 .. n /\ first + (i + 1) - 1 = first + i BY <1>1
    <2>2. (next + i - 1) % N = (first + i) % N
      <3>1. first + i \in 0 .. 2 * N - 1 BY <1>1
      <3>2. CASE first + 1 < N
        <4>1. next + i - 1 = first + i BY <1>1, <1>2, <3>2
        <4>2. QED BY <4>1
      <3>3. CASE ~ (first + 1 < N)
        <4>1. next + i - 1 = i - 1 /\ first + i = N + (i - 1) BY <1>1, <1>2, <3>3
        <4>2. i - 1 \in 0 .. 2 * N - 1 /\ i - 1 < N BY <1>1
        <4>3. (first + i) % N = (first + i) - N
          <5>1. i \in 0 .. N /\ ~ (first + i < N) BY <1>1, <3>3
          <5>2. (first + i) % N = IF first + i < N THEN first + i ELSE (first + i) - N
            BY <1>1, <5>1
          <5>3. QED BY <5>1, <5>2
        <4>4. (i - 1) % N = i - 1 BY <1>1, <4>2
        <4>5. (first + i) % N = i - 1 BY <1>1, <4>1, <4>3
        <4>6. (next + i - 1) % N = (i - 1) % N BY <4>1
        <4>7. QED BY <4>4, <4>5, <4>6, Zenon
      <3>4. QED BY <3>2, <3>3
    <2>3. QED BY <2>1, <2>2 DEF Ring
  <1> HIDE DEF u, r
  <1>8. u = Tail(r) BY <1>1, <1>4, <1>5, <1>7
  <1>9. QED BY <1>1, <1>3, <1>4, <1>6, <1>8 DEF u, r

-------------------------------------------------------------------------------
\* The queue

QueuePc == {"idle", "take_space", "write", "give_data", "take_data", "read", "give_space"}

\* How many calls are at a place
Calls(pc) == Cardinality(At(pc))

\* The next slot to write is the one behind the items
HeadBehind == head = (tail + fill) % Capacity

QueueShape ==
  /\ slots \in [0 .. Capacity - 1 -> QueueItem]
  /\ head \in 0 .. Capacity - 1 /\ tail \in 0 .. Capacity - 1
  /\ space_available \in Nat /\ data_available \in Nat
  /\ user_pc \in [User -> QueuePc]
  /\ fill \in Nat
  /\ received \in {<<>>} \cup {<<v>> : v \in QueueItem}

QueueInv == QueueShape /\ HeadBehind /\ SlotsAccounted

\* The same for the indices of the queue (q->head and q->tail).
LEMMA WrapCapacity ==
  ASSUME NEW a \in 0 .. 2 * Capacity - 1
  PROVE  a % Capacity = IF a < Capacity THEN a ELSE a - Capacity
  BY QueueAssumption

\* The calls at a place are a finite number (the steps of queue_send and queue_recv).
LEMMA CallsFinite ==
  ASSUME NEW pc PROVE IsFiniteSet(At(pc)) /\ Calls(pc) \in Nat
  <1>1. At(pc) \subseteq User BY DEF At
  <1>2. IsFiniteSet(User) BY QueueAssumption
  <1>3. IsFiniteSet(At(pc)) BY <1>1, <1>2, FS_Subset
  <1>4. QED BY <1>3, FS_CardinalityType DEF Calls

\* A call that goes on leaves one place, reaches another and no other place is
\* touched (each step of queue_send and queue_recv).
LEMMA Moves ==
  ASSUME QueueShape, NEW u \in User, NEW from, NEW to \in QueuePc, from # to,
         UserGoes(u, from, to)
  PROVE  /\ Calls(from)' = Calls(from) - 1 /\ Calls(from) > 0
         /\ Calls(to)' = Calls(to) + 1
         /\ \A pc \in QueuePc : pc # from /\ pc # to => Calls(pc)' = Calls(pc)
         /\ user_pc' \in [User -> QueuePc]
  <1>1. user_pc \in [User -> QueuePc] /\ user_pc[u] = from /\ user_pc' = [user_pc EXCEPT ![u] = to]
    BY DEF QueueShape, UserGoes
  <1>2. user_pc' \in [User -> QueuePc] BY <1>1
  <1>3. At(from)' = At(from) \ {u} /\ u \in At(from) BY <1>1 DEF At
  <1>4. At(to)' = At(to) \cup {u} /\ u \notin At(to) BY <1>1 DEF At
  <1>5. ASSUME NEW pc \in QueuePc, pc # from, pc # to PROVE At(pc)' = At(pc)
    BY <1>1, <1>5 DEF At
  <1>6. Calls(from)' = Calls(from) - 1
    BY <1>3, CallsFinite, FS_RemoveElement DEF Calls
  <1>7. Calls(to)' = Calls(to) + 1
    BY <1>4, CallsFinite, FS_AddElement DEF Calls
  <1>8. Calls(from) > 0
    <2>1. At(from) # {} BY <1>3
    <2>2. QED BY <2>1, CallsFinite, FS_EmptySet DEF Calls
  <1>9. QED BY <1>2, <1>5, <1>6, <1>7, <1>8 DEF Calls

\* What the account says in numbers (the counts of the two semaphores).
LEMMA Account ==
  ASSUME QueueInv
  PROVE  /\ space_available + Calls("write") + fill + Calls("give_space") = Capacity
         /\ data_available + Calls("give_data") + Calls("read") = fill
         /\ space_available \in Nat /\ data_available \in Nat /\ fill \in Nat
         /\ Capacity \in Nat \ {0}
         /\ \A pc \in QueuePc : Calls(pc) \in Nat
  BY CallsFinite, QueueAssumption DEF QueueInv, QueueShape, SlotsAccounted, Calls

-------------------------------------------------------------------------------
\* The steps of a call

\* A step that only moves a call from one place to another, neither of which
\* holds a slot (a call begins, or its take times out).
LEMMA Idles ==
  ASSUME QueueInv, NEW u \in User, NEW from \in {"idle", "take_space", "take_data"},
         NEW to \in {"idle", "take_space", "take_data"}, from # to, UserGoes(u, from, to),
         UNCHANGED <<slots, head, tail, space_available, data_available, fill, received>>
  PROVE  QueueInv'
  <1>1. QueueShape BY DEF QueueInv
  <1>2. to \in QueuePc BY DEF QueuePc
  <1>3. /\ \A pc \in QueuePc : pc # from /\ pc # to => Calls(pc)' = Calls(pc)
        /\ user_pc' \in [User -> QueuePc]
    BY <1>1, <1>2, Moves
  <1>4. /\ Calls("write")' = Calls("write") /\ Calls("give_space")' = Calls("give_space")
        /\ Calls("give_data")' = Calls("give_data") /\ Calls("read")' = Calls("read")
    BY <1>3 DEF QueuePc
  <1>5. SlotsAccounted' BY <1>4, Account DEF SlotsAccounted, Calls
  <1>6. QueueShape' /\ HeadBehind' BY <1>3 DEF QueueInv, QueueShape, HeadBehind
  <1>7. QED BY <1>5, <1>6 DEF QueueInv

\* semaphore_take(&q->space_available) returns E_OK.
LEMMA TakesSpace ==
  ASSUME QueueInv, NEW u \in User, take_space(u) PROVE QueueInv'
  <1>1. QueueShape BY DEF QueueInv
  <1>2. /\ UserGoes(u, "take_space", "write") /\ space_available' = space_available - 1
        /\ space_available > 0
        /\ UNCHANGED <<slots, head, tail, data_available, fill, received>>
    BY DEF take_space
  <1>3. /\ Calls("write")' = Calls("write") + 1
        /\ \A pc \in QueuePc : pc # "take_space" /\ pc # "write" => Calls(pc)' = Calls(pc)
        /\ user_pc' \in [User -> QueuePc]
    BY <1>1, <1>2, Moves DEF QueuePc
  <1>4. /\ Calls("give_space")' = Calls("give_space")
        /\ Calls("give_data")' = Calls("give_data") /\ Calls("read")' = Calls("read")
    BY <1>3 DEF QueuePc
  <1>5. Calls("write") \in Nat /\ Calls("give_space") \in Nat BY CallsFinite
  <1>6. SlotsAccounted' BY <1>2, <1>3, <1>4, <1>5, Account DEF SlotsAccounted, Calls
  <1>7. QueueShape' /\ HeadBehind' BY <1>2, <1>3 DEF QueueInv, QueueShape, HeadBehind
  <1>8. QED BY <1>6, <1>7 DEF QueueInv

\* A call that is about to copy an item in has a slot to itself, and one that
\* is about to copy one out has an item (queue_send's and queue_recv's copies).
LEMMA CopyHasRoom ==
  ASSUME QueueInv
  PROVE  /\ fill \in 0 .. Capacity
         /\ Calls("write") > 0 => fill < Capacity
         /\ Calls("read") > 0 => fill > 0
  <1>1. /\ Calls("write") \in Nat /\ Calls("give_space") \in Nat
        /\ Calls("give_data") \in Nat /\ Calls("read") \in Nat
    BY CallsFinite
  <1>2. QED BY <1>1, Account

\* The copy of an item into the ring.
LEMMA Writes ==
  ASSUME QueueInv, NEW u \in User, NEW v \in QueueItem, write_item(u, v) PROVE QueueInv'
  <1>1. QueueShape BY DEF QueueInv
  <1>2. /\ UserGoes(u, "write", "give_data") /\ slots' = [slots EXCEPT ![head] = v]
        /\ head' = (head + 1) % Capacity /\ fill' = fill + 1
        /\ UNCHANGED <<tail, space_available, data_available, received>>
    BY DEF write_item
  <1>3. /\ Calls("write")' = Calls("write") - 1 /\ Calls("write") > 0
        /\ Calls("give_data")' = Calls("give_data") + 1
        /\ \A pc \in QueuePc : pc # "write" /\ pc # "give_data" => Calls(pc)' = Calls(pc)
        /\ user_pc' \in [User -> QueuePc]
    BY <1>1, <1>2, Moves DEF QueuePc
  <1>4. Calls("give_space")' = Calls("give_space") /\ Calls("read")' = Calls("read")
    BY <1>3 DEF QueuePc
  <1>5. /\ Calls("write") \in Nat /\ Calls("give_space") \in Nat
        /\ Calls("give_data") \in Nat /\ Calls("read") \in Nat
    BY CallsFinite
  <1>6. SlotsAccounted' BY <1>2, <1>3, <1>4, <1>5, Account DEF SlotsAccounted, Calls
  <1>7. fill < Capacity /\ fill \in Nat /\ Capacity \in Nat \ {0}
    BY <1>3, CopyHasRoom, Account
  <1>8. HeadBehind'
    <2>1. head = (tail + fill) % Capacity /\ tail \in 0 .. Capacity - 1 /\ head \in 0 .. Capacity - 1
      BY DEF QueueInv, QueueShape, HeadBehind
    <2>2. /\ tail + fill \in 0 .. 2 * Capacity - 1 /\ head + 1 \in 0 .. 2 * Capacity - 1
          /\ tail + fill + 1 \in 0 .. 2 * Capacity - 1
      BY <1>7, <2>1
    <2>3. (tail + fill + 1) % Capacity = (head + 1) % Capacity
      BY <1>7, <2>1, <2>2, WrapCapacity
    <2>4. QED BY <1>2, <1>7, <2>1, <2>3 DEF HeadBehind
  <1>9. QueueShape'
    <2>1. head' \in 0 .. Capacity - 1 BY <1>1, <1>2, <1>7 DEF QueueShape
    <2>2. slots' \in [0 .. Capacity - 1 -> QueueItem] BY <1>1, <1>2 DEF QueueShape
    <2>3. QED BY <1>1, <1>2, <1>3, <2>1, <2>2 DEF QueueShape
  <1>10. QED BY <1>6, <1>8, <1>9 DEF QueueInv

\* The copy of an item out of the ring.
LEMMA Reads ==
  ASSUME QueueInv, NEW u \in User, read_item(u) PROVE QueueInv'
  <1>1. QueueShape BY DEF QueueInv
  <1>2. /\ UserGoes(u, "read", "give_space") /\ received' = <<slots[tail]>>
        /\ tail' = (tail + 1) % Capacity /\ fill' = fill - 1
        /\ UNCHANGED <<slots, head, space_available, data_available>>
    BY DEF read_item
  <1>3. /\ Calls("read")' = Calls("read") - 1 /\ Calls("read") > 0
        /\ Calls("give_space")' = Calls("give_space") + 1
        /\ \A pc \in QueuePc : pc # "read" /\ pc # "give_space" => Calls(pc)' = Calls(pc)
        /\ user_pc' \in [User -> QueuePc]
    BY <1>1, <1>2, Moves DEF QueuePc
  <1>4. Calls("write")' = Calls("write") /\ Calls("give_data")' = Calls("give_data")
    BY <1>3 DEF QueuePc
  <1>5. /\ Calls("write") \in Nat /\ Calls("give_space") \in Nat
        /\ Calls("give_data") \in Nat /\ Calls("read") \in Nat
    BY CallsFinite
  <1>6. SlotsAccounted' BY <1>2, <1>3, <1>4, <1>5, Account DEF SlotsAccounted, Calls
  <1>7. fill > 0 /\ fill \in 0 .. Capacity /\ Capacity \in Nat \ {0}
    BY <1>3, CopyHasRoom, Account
  <1>8. HeadBehind'
    <2>1. head = (tail + fill) % Capacity /\ tail \in 0 .. Capacity - 1
      BY DEF QueueInv, QueueShape, HeadBehind
    <2>2. tail + fill \in 0 .. 2 * Capacity - 1 /\ tail + 1 \in 0 .. 2 * Capacity - 1
      BY <1>7, <2>1
    <2>3. tail' = IF tail + 1 < Capacity THEN tail + 1 ELSE 0
      BY <1>2, <1>7, <2>1, <2>2, WrapCapacity
    <2>4. (tail + fill) % Capacity = (tail' + (fill - 1)) % Capacity
      <3>1. CASE tail + 1 < Capacity
        <4>1. tail' + (fill - 1) = tail + fill BY <1>7, <2>1, <2>3, <3>1
        <4>2. QED BY <4>1
      <3>2. CASE ~ (tail + 1 < Capacity)
        <4>1. tail' + (fill - 1) = fill - 1 /\ tail + fill = Capacity + (fill - 1)
          BY <1>7, <2>1, <2>3, <3>2
        <4>2. fill - 1 \in 0 .. 2 * Capacity - 1 /\ fill - 1 < Capacity BY <1>7
        <4>3. QED BY <1>7, <2>2, <4>1, <4>2, WrapCapacity
      <3>3. QED BY <3>1, <3>2
    <2>5. QED BY <1>2, <1>7, <2>1, <2>4 DEF HeadBehind
  <1>9. QueueShape'
    <2>1. tail' \in 0 .. Capacity - 1 BY <1>1, <1>2, <1>7 DEF QueueShape
    <2>2. received' \in {<<>>} \cup {<<v>> : v \in QueueItem} BY <1>1, <1>2 DEF QueueShape
    <2>3. fill' \in Nat BY <1>2, <1>7
    <2>4. QED BY <1>1, <1>2, <1>3, <2>1, <2>2, <2>3 DEF QueueShape
  <1>10. QED BY <1>6, <1>8, <1>9 DEF QueueInv

\* semaphore_give(&q->data_available) is never refused, so the item gets its token.
LEMMA GivesData ==
  ASSUME QueueInv, NEW u \in User, give_data(u) PROVE QueueInv'
  <1>1. QueueShape BY DEF QueueInv
  <1>2. /\ UserGoes(u, "give_data", "idle") /\ data_available' = Given(data_available)
        /\ UNCHANGED <<slots, head, tail, space_available, fill, received>>
    BY DEF give_data
  <1>3. /\ Calls("give_data")' = Calls("give_data") - 1 /\ Calls("give_data") > 0
        /\ \A pc \in QueuePc : pc # "give_data" /\ pc # "idle" => Calls(pc)' = Calls(pc)
        /\ user_pc' \in [User -> QueuePc]
    BY <1>1, <1>2, Moves DEF QueuePc
  <1>4. /\ Calls("write")' = Calls("write") /\ Calls("give_space")' = Calls("give_space")
        /\ Calls("read")' = Calls("read")
    BY <1>3 DEF QueuePc
  <1>5. /\ Calls("write") \in Nat /\ Calls("give_space") \in Nat
        /\ Calls("give_data") \in Nat /\ Calls("read") \in Nat
    BY CallsFinite
  <1>6. data_available' = data_available + 1
    BY <1>2, <1>3, <1>5, Account, CopyHasRoom DEF Given
  <1>7. SlotsAccounted' BY <1>2, <1>3, <1>4, <1>5, <1>6, Account DEF SlotsAccounted, Calls
  <1>8. QueueShape' /\ HeadBehind' BY <1>2, <1>3, <1>6 DEF QueueInv, QueueShape, HeadBehind
  <1>9. QED BY <1>7, <1>8 DEF QueueInv

\* semaphore_take(&q->data_available) returns E_OK.
LEMMA TakesData ==
  ASSUME QueueInv, NEW u \in User, take_data(u) PROVE QueueInv'
  <1>1. QueueShape BY DEF QueueInv
  <1>2. /\ UserGoes(u, "take_data", "read") /\ data_available' = data_available - 1
        /\ data_available > 0
        /\ UNCHANGED <<slots, head, tail, space_available, fill, received>>
    BY DEF take_data
  <1>3. /\ Calls("read")' = Calls("read") + 1
        /\ \A pc \in QueuePc : pc # "take_data" /\ pc # "read" => Calls(pc)' = Calls(pc)
        /\ user_pc' \in [User -> QueuePc]
    BY <1>1, <1>2, Moves DEF QueuePc
  <1>4. /\ Calls("write")' = Calls("write") /\ Calls("give_space")' = Calls("give_space")
        /\ Calls("give_data")' = Calls("give_data")
    BY <1>3 DEF QueuePc
  <1>5. Calls("give_data") \in Nat /\ Calls("read") \in Nat BY CallsFinite
  <1>6. SlotsAccounted' BY <1>2, <1>3, <1>4, <1>5, Account DEF SlotsAccounted, Calls
  <1>7. QueueShape' /\ HeadBehind' BY <1>2, <1>3 DEF QueueInv, QueueShape, HeadBehind
  <1>8. QED BY <1>6, <1>7 DEF QueueInv

\* semaphore_give(&q->space_available) is never refused, so the slot is not lost.
LEMMA GivesSpace ==
  ASSUME QueueInv, NEW u \in User, give_space(u) PROVE QueueInv'
  <1>1. QueueShape BY DEF QueueInv
  <1>2. /\ UserGoes(u, "give_space", "idle") /\ space_available' = Given(space_available)
        /\ UNCHANGED <<slots, head, tail, data_available, fill, received>>
    BY DEF give_space
  <1>3. /\ Calls("give_space")' = Calls("give_space") - 1 /\ Calls("give_space") > 0
        /\ \A pc \in QueuePc : pc # "give_space" /\ pc # "idle" => Calls(pc)' = Calls(pc)
        /\ user_pc' \in [User -> QueuePc]
    BY <1>1, <1>2, Moves DEF QueuePc
  <1>4. /\ Calls("write")' = Calls("write") /\ Calls("read")' = Calls("read")
        /\ Calls("give_data")' = Calls("give_data")
    BY <1>3 DEF QueuePc
  <1>5. Calls("write") \in Nat /\ Calls("give_space") \in Nat BY CallsFinite
  <1>6. space_available' = space_available + 1
    BY <1>2, <1>3, <1>5, Account DEF Given
  <1>7. SlotsAccounted' BY <1>2, <1>3, <1>4, <1>5, <1>6, Account DEF SlotsAccounted, Calls
  <1>8. QueueShape' /\ HeadBehind' BY <1>2, <1>3, <1>6 DEF QueueInv, QueueShape, HeadBehind
  <1>9. QED BY <1>7, <1>8 DEF QueueInv

\* Every step of a call keeps the invariant.
LEMMA QueueStep ==
  ASSUME QueueInv, NEW u \in User, UserNext(u) PROVE QueueInv'
  <1>1. CASE queue_send(u) BY <1>1, Idles DEF queue_send
  <1>2. CASE take_space(u) BY <1>2, TakesSpace
  <1>3. CASE send_timed_out(u) BY <1>3, Idles DEF send_timed_out
  <1>4. CASE \E v \in QueueItem : write_item(u, v) BY <1>4, Writes
  <1>5. CASE give_data(u) BY <1>5, GivesData
  <1>6. CASE queue_recv(u) BY <1>6, Idles DEF queue_recv
  <1>7. CASE take_data(u) BY <1>7, TakesData
  <1>8. CASE recv_timed_out(u) BY <1>8, Idles DEF recv_timed_out
  <1>9. CASE read_item(u) BY <1>9, Reads
  <1>10. CASE give_space(u) BY <1>10, GivesSpace
  <1>11. QED BY <1>1, <1>2, <1>3, <1>4, <1>5, <1>6, <1>7, <1>8, <1>9, <1>10 DEF UserNext

\* queue_init leaves an empty ring with all its slots free.
LEMMA QueueBegins == QueueInit => QueueInv
  <1>1. SUFFICES ASSUME QueueInit PROVE QueueInv OBVIOUS
  <1>2. \A pc \in QueuePc \ {"idle"} : At(pc) = {} BY <1>1 DEF QueueInit, At
  <1>3. \A pc \in QueuePc \ {"idle"} : Calls(pc) = 0 BY <1>2, FS_EmptySet DEF Calls
  <1>4. SlotsAccounted
    <2>1. /\ Calls("write") = 0 /\ Calls("give_space") = 0
          /\ Calls("give_data") = 0 /\ Calls("read") = 0
      BY <1>3 DEF QueuePc
    <2>2. QED BY <1>1, <2>1, QueueAssumption DEF QueueInit, SlotsAccounted, Calls
  <1>5. QueueShape /\ HeadBehind
    BY <1>1, QueueAssumption DEF QueueInit, QueueShape, HeadBehind, QueuePc
  <1>6. QED BY <1>4, <1>5 DEF QueueInv

\* The invariant holds throughout.
LEMMA QueueInvariance == QueueSpec => []QueueInv
  <1>1. ASSUME QueueInv, [QueueNext]_queueVars PROVE QueueInv'
    <2>1. CASE QueueNext BY <1>1, <2>1, QueueStep DEF QueueNext
    <2>2. CASE UNCHANGED queueVars
      BY <1>1, <2>2 DEF queueVars, QueueInv, QueueShape, HeadBehind, SlotsAccounted, At
    <2>3. QED BY <1>1, <2>1, <2>2
  <1>2. QED BY <1>1, QueueBegins, PTL DEF QueueSpec

\* The counts and indices of the queue stay in range.  queue.c never checks
\* them: this is what keeps q->buf from being overrun.
THEOREM QueueTypeCorrect == QueueSpec => []QueueTypeOK
  <1>1. ASSUME QueueInv PROVE QueueTypeOK
    <2>1. /\ Calls("write") \in Nat /\ Calls("give_space") \in Nat
          /\ Calls("give_data") \in Nat /\ Calls("read") \in Nat
      BY CallsFinite
    <2>2. fill \in 0 .. Capacity /\ space_available \in 0 .. Capacity
          /\ data_available \in 0 .. Capacity
      BY <1>1, <2>1, Account, CopyHasRoom
    <2>3. QED BY <1>1, <2>2 DEF QueueInv, QueueShape, QueueTypeOK, QueuePc
  <1>2. QED BY <1>1, QueueInvariance, PTL

\* No slot and no item is lost to a timeout or a refused give, and none is
\* promised twice (the semaphores of queue_send and queue_recv).
THEOREM SlotsKept == QueueSpec => []SlotsAccounted
  <1>1. QueueInv => SlotsAccounted BY DEF QueueInv
  <1>2. QED BY <1>1, QueueInvariance, PTL

-------------------------------------------------------------------------------
\* The queue as a FIFO

\* A sent item goes behind those that are there, in a slot none of them is in.
LEMMA PutsBehind ==
  ASSUME QueueInv, NEW u \in User, NEW v \in QueueItem, write_item(u, v)
  PROVE  QueueFifo!Put(v)
  <1>1. /\ UserGoes(u, "write", "give_data") /\ slots' = [slots EXCEPT ![head] = v]
        /\ fill' = fill + 1 /\ tail' = tail /\ received' = received
    BY DEF write_item
  <1>2. Calls("write") > 0 BY <1>1, Moves DEF QueueInv, QueuePc
  <1>3. fill \in 0 .. Capacity - 1 /\ fill \in Nat /\ fill < Capacity /\ Capacity \in Nat \ {0}
    BY <1>2, CopyHasRoom, Account
  <1>4. /\ tail \in 0 .. Capacity - 1 /\ slots \in [0 .. Capacity - 1 -> QueueItem]
        /\ head = (tail + fill) % Capacity
    BY DEF QueueInv, QueueShape, HeadBehind
  <1>5. IsRing(slots, tail, fill, Capacity, QueueItem) BY <1>3, <1>4 DEF IsRing
  <1>6. Ring(slots', tail, fill', Capacity) = Append(Ring(slots, tail, fill, Capacity), v)
    <2>1. fill' \in Nat /\ tail \in Nat /\ head \in Nat BY <1>1, <1>3, <1>4
    <2>2. Written(slots, slots', tail, fill, fill', Capacity, v)
      BY <1>1, <1>3, <1>4 DEF Written
    <2>3. QED BY <1>3, <1>5, <2>1, <2>2, RingPut
  <1>7. Items' = Append(Items, v) BY <1>1, <1>6 DEF Items, Ring
  <1>8. Len(Items) = fill
    <2>1. Len(Ring(slots, tail, fill, Capacity)) = fill BY <1>3, <1>4, <1>5, RingIsSeq
    <2>2. QED BY <2>1 DEF Items, Ring
  <1>9. QED BY <1>1, <1>3, <1>7, <1>8 DEF QueueFifo!Put

\* A received item is the oldest one, and the others move up.
LEMMA GetsOldest ==
  ASSUME QueueInv, NEW u \in User, read_item(u)
  PROVE  QueueFifo!Get
  <1>1. /\ UserGoes(u, "read", "give_space") /\ received' = <<slots[tail]>>
        /\ tail' = (tail + 1) % Capacity /\ fill' = fill - 1 /\ slots' = slots
    BY DEF read_item
  <1>2. Calls("read") > 0 BY <1>1, Moves DEF QueueInv, QueuePc
  <1>3. fill \in 1 .. Capacity /\ Capacity \in Nat \ {0}
    BY <1>2, CopyHasRoom, Account
  <1>4. tail \in 0 .. Capacity - 1 /\ slots \in [0 .. Capacity - 1 -> QueueItem]
    BY DEF QueueInv, QueueShape
  <1>5. IsRing(slots, tail, fill, Capacity, QueueItem) /\ fill > 0 BY <1>3, <1>4 DEF IsRing
  <1>6. /\ Ring(slots, tail, fill, Capacity) # <<>>
        /\ Head(Ring(slots, tail, fill, Capacity)) = slots[tail]
        /\ Ring(slots, tail', fill', Capacity) = Tail(Ring(slots, tail, fill, Capacity))
    <2>1. fill' \in Nat /\ tail \in Nat /\ tail' \in Nat BY <1>1, <1>3, <1>4
    <2>2. Freed(tail, tail', fill, fill', Capacity) BY <1>1, <1>3 DEF Freed
    <2>3. Capacity \in Nat /\ fill \in Nat BY <1>3
    <2>4. QED BY <1>5, <2>1, <2>2, <2>3, RingGet
  <1>7. Items = Ring(slots, tail, fill, Capacity) /\ Items' = Ring(slots, tail', fill', Capacity)
    BY <1>1 DEF Items, Ring
  <1>8. QED BY <1>1, <1>6, <1>7 DEF QueueFifo!Get

\* queue.c implements the bounded FIFO, whoever sends and receives.
THEOREM QueueRefinement == QueueSpec => QueueIsFifo
  <1>1. QueueInit => QueueFifo!Init BY DEF QueueInit, QueueFifo!Init, Items
  <1>2. ASSUME QueueInv, [QueueNext]_queueVars PROVE [QueueFifo!Next]_<<Items, received>>
    <2>1. CASE \E u \in User, v \in QueueItem : write_item(u, v)
      BY <1>2, <2>1, PutsBehind DEF QueueFifo!Next
    <2>2. CASE \E u \in User : read_item(u)
      BY <1>2, <2>2, GetsOldest DEF QueueFifo!Next
    <2>3. CASE UNCHANGED <<slots, tail, fill, received>>
      BY <2>3 DEF Items
    <2>4. QED
      <3>1. CASE UNCHANGED queueVars BY <2>3, <3>1 DEF queueVars
      <3>2. CASE QueueNext
        <4>1. PICK u \in User : UserNext(u) BY <3>2 DEF QueueNext
        <4>2. QED
          BY <2>1, <2>2, <2>3, <4>1
          DEF UserNext, queue_send, take_space, send_timed_out, give_data, queue_recv,
              take_data, recv_timed_out, give_space
      <3>3. QED BY <1>2, <3>1, <3>2
  <1>3. QED BY <1>1, <1>2, QueueInvariance, PTL DEF QueueSpec, QueueIsFifo, QueueFifo!Spec

-------------------------------------------------------------------------------
\* Telemetry: the reports

\* A report that is on the wire has the lock, whatever the publisher does to it
ReportInv ==
  /\ report_pc \in [TCore -> {"none", "wait", "register", "frame"}]
  /\ \A c \in TCore : report_pc[c] = "frame" => telemetry_lock = c

\* A core that has no report in progress may draw a new ticket (spinlock_acquire).
LEMMA TicketKeeps ==
  ASSUME ReportInv, NEW c \in TCore, report_pc[c] = "none", NewTicket(c),
         NEW to \in {"none", "wait", "register"}, report_pc' = [report_pc EXCEPT ![c] = to]
  PROVE  ReportInv'
  BY DEF ReportInv, NewTicket

\* The first frame of a report has the lock, and so has every other one.
LEMMA TelemetryBegins == TelemetryInit => ReportInv
  BY DEF TelemetryInit, ReportInv

\* Every step of telemetry.c keeps the kernel's reports apart.
LEMMA ReportStep == ReportInv /\ [TelemetryNext]_telemetryVars => ReportInv'
  <1> SUFFICES ASSUME ReportInv, [TelemetryNext]_telemetryVars PROVE ReportInv'
    OBVIOUS
  <1>p. Publisher \in TCore /\ NoCore \notin TCore BY TelemetryAssumption DEF TCore
  <1>1. ASSUME NEW c \in TCore, report_event(c) \/ report_boot(c) PROVE ReportInv'
    BY <1>1, TicketKeeps DEF report_event, report_boot
  <1>2. ASSUME NEW c \in TCore, telemetry_register_sync(c) PROVE ReportInv'
    BY <1>2, TicketKeeps DEF telemetry_register_sync
  <1>3. ASSUME NEW c \in TCore, scheduler_started(c) PROVE ReportInv'
    BY <1>3 DEF scheduler_started, ReportInv
  <1>4. ASSUME NEW c \in TCore, report_begin(c) PROVE ReportInv'
    BY <1>4, <1>p DEF report_begin, ReportInv, LockFor
  <1>5. ASSUME NEW c \in TCore, report_end(c) PROVE ReportInv'
    BY <1>5 DEF report_end, ReportInv
  <1>6. ASSUME NEW c \in TCore, NEW r \in Record[c], telemetry_report_tick_state(c, r)
        PROVE  ReportInv'
    BY <1>6 DEF telemetry_report_tick_state, ReportInv
  <1>7. ASSUME UNCHANGED <<telemetry_lock, report_pc>> PROVE ReportInv'
    BY <1>7 DEF ReportInv
  <1>8. CASE drain_pop \/ drain_load \/ drain_store \/ drain_next \/ heartbeat
             \/ roster_begin \/ roster_done \/ publisher_wakes
    BY <1>7, <1>8 DEF drain_pop, drain_load, drain_store, drain_next, heartbeat,
                      roster_begin, roster_done, publisher_wakes
  <1>9. CASE send_begin
    BY <1>9, <1>p DEF send_begin, ReportInv, LockFor
  <1>10. CASE send_end
    BY <1>10, <1>p DEF send_end, ReportInv, PublisherRuns
  <1>11. CASE roster_entry
    BY <1>11, <1>p, TicketKeeps DEF roster_entry, PublisherRuns
  <1>12. CASE publisher_delay
    BY <1>12, <1>p, TicketKeeps DEF publisher_delay, PublisherRuns
  <1>13. CASE UNCHANGED telemetryVars
    BY <1>7, <1>13 DEF telemetryVars
  <1>14. QED
    BY <1>1, <1>2, <1>3, <1>4, <1>5, <1>6, <1>8, <1>9, <1>10, <1>11, <1>12, <1>13
    DEF TelemetryNext, telemetry_publisher_task

\* Whatever the publisher's core does to telemetry_lock behind its own back, no two
\* reports of the kernel are on the wire at once, for any number of cores.
THEOREM KernelReportsExclude == TelemetrySpec => []ReportsExclude
  <1>1. ReportInv => ReportsExclude BY DEF ReportInv, ReportsExclude
  <1>2. QED BY <1>1, TelemetryBegins, ReportStep, PTL DEF TelemetrySpec

-------------------------------------------------------------------------------
\* Telemetry: the tick rings

\* The ring of core c: its head is behind its records
RingOk(c) ==
  /\ g_tick_rings[c].records \in [0 .. RingDepth - 1 -> Record[c]]
  /\ g_tick_rings[c].tail \in 0 .. RingDepth - 1
  /\ g_tick_rings[c].count \in 0 .. RingDepth
  /\ g_tick_rings[c].head = (g_tick_rings[c].tail + g_tick_rings[c].count) % RingDepth

\* The publisher is in the two halves of ring->count-- only with its own core's ring
PublisherOk ==
  /\ pub_ring \in TCore
  /\ pub_pc = "store" => pub_ring = Publisher
  /\ pub_after \in {"heartbeat", "entry"} /\ pub_return \in {"drain", "roster"}

TickRingInv ==
  /\ DOMAIN g_tick_rings = TCore /\ DOMAIN taken = TCore
  /\ PublisherOk
  /\ \A c \in TCore \ {Publisher} : RingOk(c)

\* What a step does with the ring of core c: nothing, a record is pushed, or the
\* oldest one is taken out
RingStill(c) == g_tick_rings'[c] = g_tick_rings[c] /\ taken'[c] = taken[c]

RingPush(c, r) ==
  /\ g_tick_rings[c].count < RingDepth
  /\ g_tick_rings'[c].records = [g_tick_rings[c].records EXCEPT ![g_tick_rings[c].head] = r]
  /\ g_tick_rings'[c].head = (g_tick_rings[c].head + 1) % RingDepth
  /\ g_tick_rings'[c].tail = g_tick_rings[c].tail
  /\ g_tick_rings'[c].count = g_tick_rings[c].count + 1
  /\ taken'[c] = taken[c]

RingPop(c) ==
  /\ g_tick_rings[c].count > 0
  /\ g_tick_rings'[c].records = g_tick_rings[c].records
  /\ g_tick_rings'[c].head = g_tick_rings[c].head
  /\ g_tick_rings'[c].tail = (g_tick_rings[c].tail + 1) % RingDepth
  /\ g_tick_rings'[c].count = g_tick_rings[c].count - 1
  /\ taken'[c] = <<g_tick_rings[c].records[g_tick_rings[c].tail]>>

\* One of these three is what happens to the ring of any core but the publisher's.
LEMMA RingStep ==
  ASSUME TickRingInv, [TelemetryNext]_telemetryVars, NEW c \in TCore \ {Publisher}
  PROVE  RingStill(c) \/ RingPop(c) \/ \E r \in Record[c] : RingPush(c, r)
  <1> DEFINE Goal == RingStill(c) \/ RingPop(c) \/ \E r \in Record[c] : RingPush(c, r)
  <1>1. CASE UNCHANGED <<g_tick_rings, taken>>
    BY <1>1 DEF RingStill
  <1>2. ASSUME NEW d \in TCore, NEW r \in Record[d], telemetry_report_tick_state(d, r)
        PROVE  Goal
    <2>1. CASE d = c /\ RingHasRoom(g_tick_rings[c])
      <3>1. g_tick_rings[c].count < RingDepth
        BY <2>1, TelemetryAssumption DEF RingHasRoom, TickRingInv, RingOk
      <3>2. g_tick_rings' = [g_tick_rings EXCEPT ![c] =
              [records |-> [@.records EXCEPT ![@.head] = r], head |-> (@.head + 1) % RingDepth,
               tail |-> @.tail, count |-> @.count + 1]]
        BY <1>2, <2>1 DEF telemetry_report_tick_state
      <3>3. DOMAIN g_tick_rings = TCore /\ taken' = taken
        BY <1>2 DEF TickRingInv, telemetry_report_tick_state
      <3>4. RingPush(c, r)
        BY <3>1, <3>2, <3>3 DEF RingPush
      <3>5. QED BY <2>1, <3>4
    <2>2. CASE d # c
      BY <1>2, <2>2 DEF telemetry_report_tick_state, TickRingInv, RingStill
    <2>3. CASE d = c /\ ~ RingHasRoom(g_tick_rings[c])
      BY <1>2, <2>3 DEF telemetry_report_tick_state, RingStill
    <2>4. QED BY <2>1, <2>2, <2>3
  <1>3. CASE drain_pop
    <2>1. CASE pub_ring = c
      <3>1. /\ g_tick_rings[c].count > 0
            /\ g_tick_rings' = [g_tick_rings EXCEPT ![c].tail = (g_tick_rings[c].tail + 1) % RingDepth,
                                                    ![c].count = @ - 1]
            /\ taken' = [taken EXCEPT ![c] = <<g_tick_rings[c].records[g_tick_rings[c].tail]>>]
        BY <1>3, <2>1 DEF drain_pop, TakeRecord, TailAfter
      <3>2. RingPop(c)
        BY <3>1 DEF RingPop, TickRingInv
      <3>3. QED BY <3>2
    <2>2. CASE pub_ring # c
      BY <1>3, <2>2 DEF drain_pop, TakeRecord, TailAfter, TickRingInv, RingStill
    <2>3. QED BY <2>1, <2>2
  <1>4. CASE drain_load
    BY <1>4 DEF drain_load, TakeRecord, TailAfter, TickRingInv, RingStill
  <1>5. CASE drain_store
    BY <1>5 DEF drain_store, TickRingInv, PublisherOk, RingStill
  <1>6. QED
    BY <1>1, <1>2, <1>3, <1>4, <1>5
    DEF TelemetryNext, telemetry_publisher_task, report_event, report_boot,
        telemetry_register_sync, scheduler_started, report_begin, report_end, drain_next,
        send_begin, send_end, heartbeat, roster_begin, roster_entry, roster_done,
        publisher_delay, publisher_wakes, telemetryVars

\* The ring as a sequence of records.
LEMMA RingOkIsRing ==
  ASSUME NEW c \in TCore, RingOk(c)
  PROVE  IsRing(g_tick_rings[c].records, g_tick_rings[c].tail, g_tick_rings[c].count,
                RingDepth, Record[c])
  BY TelemetryAssumption DEF RingOk, IsRing

\* Both kinds of step keep the ring in order.
LEMMA RingStaysOk ==
  ASSUME NEW c \in TCore, RingOk(c),
         RingStill(c) \/ RingPop(c) \/ \E r \in Record[c] : RingPush(c, r)
  PROVE  RingOk(c)'
  <1> DEFINE D == RingDepth
             g == g_tick_rings[c]
             h == g_tick_rings'[c]
  <1>1. /\ D \in Nat \ {0} /\ g.records \in [0 .. D - 1 -> Record[c]]
        /\ g.tail \in 0 .. D - 1 /\ g.count \in 0 .. D /\ g.head = (g.tail + g.count) % D
    BY TelemetryAssumption DEF RingOk
  <1>2. CASE RingStill(c)
    BY <1>2 DEF RingStill, RingOk
  <1>3. CASE RingPop(c)
    <2>1. /\ h.records = g.records /\ h.head = g.head /\ h.count = g.count - 1
          /\ h.tail = (g.tail + 1) % D /\ g.count > 0
      BY <1>3 DEF RingPop
    <2>2. h.tail \in 0 .. D - 1 /\ h.count \in 0 .. D
      <3> DEFINE x == g.tail
                 n == g.count
      <3>1. x \in 0 .. D - 1 /\ n \in 0 .. D /\ n > 0 /\ D \in Nat \ {0} BY <1>1, <2>1
      <3>2. h.tail = (x + 1) % D /\ h.count = n - 1 BY <2>1
      <3> HIDE DEF D, g, h, x, n
      <3>3. (x + 1) % D \in 0 .. D - 1 /\ n - 1 \in 0 .. D BY <3>1
      <3>4. QED BY <3>2, <3>3
    <2>3. (g.tail + g.count) % D = (h.tail + h.count) % D
      BY <1>1, <2>1, FreedEnd
    <2>4. QED BY <1>1, <2>1, <2>2, <2>3 DEF RingOk
  <1>4. ASSUME NEW r \in Record[c], RingPush(c, r) PROVE RingOk(c)'
    <2>1. /\ h.records = [g.records EXCEPT ![g.head] = r] /\ h.head = (g.head + 1) % D
          /\ h.count = g.count + 1 /\ h.tail = g.tail /\ g.count < D
      BY <1>4 DEF RingPush
    <2>2. h.count \in 0 .. D BY <1>1, <2>1
    <2>3. (g.head + 1) % D = (g.tail + (g.count + 1)) % D
      <3>1. (((g.tail + g.count) % D) + 1) % D = (g.tail + (g.count + 1)) % D
        <4> HIDE DEF g, D
        <4>1. QED BY <1>1, <2>1, WrittenEnd
      <3>2. QED BY <1>1, <3>1
    <2>r. h.records \in [0 .. D - 1 -> Record[c]]
      <3> DEFINE b == g.records
                 k == g.head
      <3>1. b \in [0 .. D - 1 -> Record[c]] BY <1>1
      <3>2. h.records = [b EXCEPT ![k] = r] BY <2>1
      <3> HIDE DEF b, k, h
      <3>3. QED BY <3>1, <3>2
    <2>4. QED BY <1>1, <2>1, <2>2, <2>3, <2>r DEF RingOk
  <1>5. QED BY <1>2, <1>3, <1>4

\* The publisher never gets into the halves of ring->count-- with another ring.
LEMMA PublisherStaysOk ==
  ASSUME TickRingInv, [TelemetryNext]_telemetryVars
  PROVE  PublisherOk'
  <1>1. PublisherOk /\ NumRings \in Nat /\ Publisher \in TCore /\ 0 \in TCore
    BY TelemetryAssumption DEF TickRingInv, TCore
  <1>2. CASE UNCHANGED pubVars
    BY <1>1, <1>2 DEF PublisherOk, pubVars
  <1>3. CASE drain_pop \/ drain_load \/ drain_store
    BY <1>1, <1>3 DEF drain_pop, drain_load, drain_store, PublisherOk
  <1>4. CASE drain_next
    <2>1. pub_ring # NumRings - 1 => pub_ring + 1 \in TCore
      BY <1>1 DEF PublisherOk, TCore
    <2>2. QED BY <1>1, <1>4, <2>1 DEF drain_next, PublisherOk
  <1>5. CASE send_begin \/ send_end \/ heartbeat
    BY <1>1, <1>5 DEF send_begin, send_end, heartbeat, PublisherOk
  <1>6. CASE roster_begin \/ roster_entry \/ roster_done \/ publisher_delay \/ publisher_wakes
    BY <1>1, <1>6 DEF roster_begin, roster_entry, roster_done, publisher_delay,
                      publisher_wakes, DrainAll, PublisherOk
  <1>7. QED
    BY <1>2, <1>3, <1>4, <1>5, <1>6
    DEF TelemetryNext, telemetry_publisher_task, report_event, report_boot,
        telemetry_register_sync, scheduler_started, report_begin, report_end,
        telemetry_report_tick_state, telemetryVars

\* Every step keeps the invariant.
LEMMA TickRingStep == TickRingInv /\ [TelemetryNext]_telemetryVars => TickRingInv'
  <1> SUFFICES ASSUME TickRingInv, [TelemetryNext]_telemetryVars PROVE TickRingInv'
    OBVIOUS
  <1>1. DOMAIN g_tick_rings' = TCore /\ DOMAIN taken' = TCore
    BY DEF TickRingInv, TelemetryNext, telemetry_publisher_task, report_event, report_boot,
           telemetry_register_sync, scheduler_started, report_begin, report_end,
           telemetry_report_tick_state, drain_pop, drain_load, drain_store, drain_next,
           send_begin, send_end, heartbeat, roster_begin, roster_entry, roster_done,
           publisher_delay, publisher_wakes, telemetryVars, TakeRecord
  <1>2. PublisherOk' BY PublisherStaysOk
  <1>3. ASSUME NEW c \in TCore \ {Publisher} PROVE RingOk(c)'
    BY <1>3, RingStep, RingStaysOk DEF TickRingInv
  <1>4. QED BY <1>1, <1>2, <1>3 DEF TickRingInv

\* .bss: the rings are empty.
LEMMA TickRingsBegin == TelemetryInit => TickRingInv
  <1> SUFFICES ASSUME TelemetryInit PROVE TickRingInv
    OBVIOUS
  <1>1. \A c \in TCore : Record[c] # {} /\ RingDepth \in Nat \ {0}
    BY TelemetryAssumption DEF TCore
  <1>2. \A c \in TCore : RingOk(c)
    <2> TAKE c \in TCore
    <2>1. (CHOOSE r \in Record[c] : TRUE) \in Record[c] BY <1>1
    <2>2. QED BY <1>1, <2>1 DEF TelemetryInit, RingOk
  <1>3. PublisherOk BY TelemetryAssumption DEF TelemetryInit, PublisherOk, TCore
  <1>4. QED BY <1>2, <1>3 DEF TelemetryInit, TickRingInv

\* telemetry_report_tick_state puts its record behind the others, and
\* telemetry_drain_tick_rings gets the oldest one.
LEMMA RingStepIsFifo ==
  ASSUME NEW c \in TCore, RingOk(c),
         RingStill(c) \/ RingPop(c) \/ \E r \in Record[c] : RingPush(c, r)
  PROVE  RingFifo(c)!Next \/ UNCHANGED <<RingItems(g_tick_rings[c]), taken[c]>>
  <1> DEFINE D == RingDepth
             g == g_tick_rings[c]
             h == g_tick_rings'[c]
             items == RingItems(g)
             after == RingItems(h)
  <1>1. IsRing(g.records, g.tail, g.count, D, Record[c]) BY RingOkIsRing
  <1>2. D \in Nat /\ g.tail \in Nat /\ g.count \in Nat
    BY TelemetryAssumption DEF RingOk
  <1>3. items = Ring(g.records, g.tail, g.count, D) /\ after = Ring(h.records, h.tail, h.count, D)
    BY DEF RingItems, Ring
  <1>4. CASE RingStill(c)
    BY <1>4 DEF RingStill
  <1>5. CASE RingPop(c)
    <2>1. h.records = g.records /\ taken'[c] = <<g.records[g.tail]>>
      BY <1>5 DEF RingPop
    <2>n. h.count \in Nat /\ h.tail \in Nat
      BY <1>2, <1>5, TelemetryAssumption DEF RingPop
    <2>2. Freed(g.tail, h.tail, g.count, h.count, D)
      BY <1>2, <1>5 DEF RingPop, Freed
    <2> HIDE DEF g, h, D
    <2>3. /\ Ring(g.records, g.tail, g.count, D) # <<>>
          /\ Head(Ring(g.records, g.tail, g.count, D)) = g.records[g.tail]
          /\ Ring(g.records, h.tail, h.count, D) = Tail(Ring(g.records, g.tail, g.count, D))
      <3> DEFINE b == g.records
                 t == g.tail
                 n == g.count
                 t2 == h.tail
                 n2 == h.count
                 S == Record[c]
      <3>1. IsRing(b, t, n, D, S) /\ Freed(t, t2, n, n2, D) BY <1>1, <2>2
      <3>2. D \in Nat /\ t \in Nat /\ n \in Nat /\ t2 \in Nat /\ n2 \in Nat BY <1>2, <2>n
      <3> HIDE DEF b, t, n, t2, n2, S
      <3>3. /\ Ring(b, t, n, D) # <<>> /\ Head(Ring(b, t, n, D)) = b[t]
            /\ Ring(b, t2, n2, D) = Tail(Ring(b, t, n, D))
        BY <3>1, <3>2, RingGet
      <3>4. QED BY <3>3 DEF b, t, n, t2, n2
    <2> HIDE DEF items, after
    <2>4. items # <<>> /\ after = Tail(items) /\ taken'[c] = <<Head(items)>>
      BY <1>3, <2>1, <2>3
    <2>5. RingFifo(c)!Get
      BY <2>4 DEF RingFifo!Get, items, after, g, h
    <2>6. QED BY <2>5 DEF RingFifo!Next
  <1>6. ASSUME NEW r \in Record[c], RingPush(c, r) PROVE RingFifo(c)!Next
    <2>1. h.tail = g.tail /\ taken'[c] = taken[c] /\ g.count < D
      BY <1>6 DEF RingPush
    <2>n. h.count \in Nat
      BY <1>2, <1>6 DEF RingPush
    <2>2. Written(g.records, h.records, g.tail, g.count, h.count, D, r)
      BY <1>2, <1>6 DEF RingPush, Written, RingOk
    <2> HIDE DEF g, h, D
    <2>3. Ring(h.records, g.tail, h.count, D) = Append(Ring(g.records, g.tail, g.count, D), r)
      BY <1>1, <1>2, <2>n, <2>2, RingPut
    <2>4. Len(Ring(g.records, g.tail, g.count, D)) = g.count
      BY <1>1, <1>2, RingIsSeq
    <2> HIDE DEF items, after
    <2>5. Len(items) < D /\ after = Append(items, r)
      BY <1>3, <2>1, <2>3, <2>4
    <2>6. RingFifo(c)!Put(r)
      BY <2>1, <2>5 DEF RingFifo!Put, items, after, g, h, D
    <2>7. QED BY <2>6 DEF RingFifo!Next
  <1>7. QED BY <1>4, <1>5, <1>6

\* The tick rings of all cores but the publisher's are FIFOs that refuse a record
\* when they are full, for any number of cores and any depth.
THEOREM TickRingsRefine == TelemetrySpec => TickRingsAreFifo
  <1>1. TelemetryInit => \A c \in TCore \ {Publisher} : RingFifo(c)!Init
    <2> SUFFICES ASSUME TelemetryInit, NEW c \in TCore \ {Publisher} PROVE RingFifo(c)!Init
      OBVIOUS
    <2>1. g_tick_rings[c].count = 0 /\ taken[c] = <<>> BY DEF TelemetryInit
    <2>2. RingItems(g_tick_rings[c]) = <<>> BY <2>1 DEF RingItems
    <2>3. QED BY <2>1, <2>2 DEF RingFifo!Init
  <1>2. ASSUME TickRingInv, [TelemetryNext]_telemetryVars
        PROVE  \A c \in TCore \ {Publisher} :
                 RingFifo(c)!Next \/ UNCHANGED <<RingItems(g_tick_rings[c]), taken[c]>>
    BY <1>2, RingStep, RingStepIsFifo DEF TickRingInv
  <1>3. QED
    BY <1>1, <1>2, TickRingsBegin, TickRingStep, PTL DEF TelemetrySpec, TickRingsAreFifo

-------------------------------------------------------------------------------
\* The UART

\* The bytes between the two indices
Dist == IF p_uart_buf_left <= p_uart_buf_right
          THEN p_uart_buf_right - p_uart_buf_left
          ELSE (p_uart_buf_right - p_uart_buf_left) + UartSize

\* Slot i, k slots further
Onward(i, k) == IF i + k < UartSize THEN i + k ELSE (i + k) - UartSize

\* The slot of the oldest byte that is not out
Oldest == IF tx_pc = "raw" THEN p_uart_buf_left
          ELSE IF tx_pc = "wait" THEN dma_next
          ELSE Onward(p_uart_buf_left, 1)

\* Only the printer that has the lock is at the ring, and the slot that it has
\* stored a byte in is not one that is waiting to go out
PrintersOk ==
  \A p \in Printer :
    /\ print_pc[p] \in {"tx", "publish"} => uart_buf_lock = p
    /\ print_pc[p] = "publish" => chunk[p] > 0 /\ Dist <= UartSize - 2

\* The engine and the transmit task: which bytes are out, and which are given back
EngineOk ==
  /\ tx_pc \in {"take", "loop", "run", "pio"} =>
       /\ dma_left = 0 /\ ~ dma_irq /\ uart_dma_done = 0
       /\ inside = Dist
  /\ tx_pc \in {"run", "pio"} => Dist > 0
  /\ tx_pc = "raw" =>
       /\ dma_left = 0 /\ ~ dma_irq /\ uart_dma_done = 0
       /\ inside = Dist + 1
  /\ tx_pc = "wait" =>
       /\ tx_run \in 1 .. Dist /\ dma_left \in 0 .. tx_run
       /\ inside = (Dist - tx_run) + dma_left
       /\ dma_next = Onward(p_uart_buf_left, 1 + (tx_run - dma_left))
       /\ dma_left > 0 => ~ dma_irq /\ uart_dma_done = 0
       /\ ~ (dma_irq /\ uart_dma_done = 1)

UartInv == UartTypeOK /\ PrintersOk /\ EngineOk

\* The indices of the ring (the increments modulo UART_BUFFER_SIZE).
LEMMA WrapUart ==
  ASSUME NEW a \in 0 .. 2 * UartSize - 1
  PROVE  a % UartSize = IF a < UartSize THEN a ELSE a - UartSize
  BY UartAssumption

\* The modulo of uart.c wraps at most once.
LEMMA OnwardWraps ==
  ASSUME NEW i \in Slot, NEW k \in 0 .. UartSize
  PROVE  (i + k) % UartSize = Onward(i, k) /\ Onward(i, k) \in Slot
  BY UartAssumption DEF Onward, Slot

\* The next slot is one slot onward.
LEMMA AfterIsOnward ==
  ASSUME NEW i \in Slot PROVE After(i) = Onward(i, 1) /\ After(i) \in Slot
  <1>1. 1 \in 0 .. UartSize BY UartAssumption
  <1>2. QED BY <1>1, OnwardWraps DEF After

\* What the code computes from the two indices: whether the ring is full, and how
\* many bytes are in it.
LEMMA DistFacts ==
  ASSUME UartTypeOK
  PROVE  /\ Dist \in Slot
         /\ (p_uart_buf_right - p_uart_buf_left + UartSize) % UartSize = Dist
         /\ RingFull <=> Dist = UartSize - 1
         /\ p_uart_buf_right = p_uart_buf_left <=> Dist = 0
  <1>1. /\ p_uart_buf_left \in 0 .. UartSize - 1 /\ p_uart_buf_right \in 0 .. UartSize - 1
        /\ UartSize \in Nat /\ UartSize > 1
    BY UartAssumption DEF UartTypeOK, Slot
  <1>2. Dist \in Slot BY <1>1 DEF Dist, Slot
  <1>3. (p_uart_buf_right - p_uart_buf_left + UartSize) % UartSize = Dist
    <2>1. p_uart_buf_right - p_uart_buf_left + UartSize \in 0 .. 2 * UartSize - 1 BY <1>1
    <2>2. QED BY <1>1, <2>1, WrapUart DEF Dist
  <1>4. RingFull <=> Dist = UartSize - 1
    <2>1. After(p_uart_buf_right) = Onward(p_uart_buf_right, 1)
      BY AfterIsOnward DEF UartTypeOK
    <2>2. QED BY <1>1, <2>1 DEF RingFull, Dist, Onward
  <1>5. p_uart_buf_right = p_uart_buf_left <=> Dist = 0 BY <1>1 DEF Dist
  <1>6. QED BY <1>2, <1>3, <1>4, <1>5

\* UartInit: nothing is in the ring.
LEMMA UartBegins == UartInit => UartInv
  <1> SUFFICES ASSUME UartInit PROVE UartInv
    OBVIOUS
  <1> USE UartAssumption DEF UartInit
  <1>1. UartTypeOK
    <2>1. 0 \in Slot /\ 0 \in 0 .. UartSize /\ 0 \in 0 .. ChunkSize BY DEF Slot
    <2>2. wire \in {<<>>} \cup {<<b>> : b \in Byte} BY Zenon
    <2>3. dma_irq \in BOOLEAN /\ is_dma_enabled \in BOOLEAN BY Zenon
    <2>4. chunk \in [Printer -> 0 .. ChunkSize] /\ line \in [Printer -> Nat] BY <2>1
    <2>5. QED BY <2>1, <2>2, <2>3, <2>4 DEF UartTypeOK
  <1>2. Dist = 0 BY DEF Dist
  <1>3. PrintersOk BY DEF PrintersOk
  <1>4. EngineOk BY <1>2 DEF EngineOk
  <1>5. QED BY <1>1, <1>3, <1>4 DEF UartInv

\* A step that leaves the two indices, the engine and the transmit task alone.
LEMMA EngineStands ==
  ASSUME UartInv,
         UNCHANGED <<p_uart_buf_left, p_uart_buf_right, uart_dma_done, txVars, inside>>
  PROVE  Dist' = Dist /\ EngineOk'
  <1>1. Dist' = Dist BY DEF Dist
  <1>2. QED BY <1>1 DEF UartInv, EngineOk, Onward, txVars

\* uart_channel_printf up to the ring, and behind it.
LEMMA PrintsAround ==
  ASSUME UartInv, NEW p \in Printer,
         \/ \E n \in LineLengths[p] : uart_printf(p, n)
         \/ print_lock(p) \/ drop_byte(p) \/ print_unlock(p) \/ print_give(p)
  PROVE  UartInv'
  <1>1. UartTypeOK /\ PrintersOk /\ ChunkSize \in Nat \ {0} /\ Nobody \notin Printer
        /\ \A n \in LineLengths[p] : n \in Nat
    BY UartAssumption DEF UartInv
  <1>2. \A n \in Nat : Piece(n) \in 0 .. ChunkSize /\ n - Piece(n) \in Nat
    BY <1>1 DEF Piece
  <1>3. Dist' = Dist /\ EngineOk'
    BY EngineStands DEF uart_printf, print_lock, drop_byte, print_unlock, print_give
  <1>4. CASE \E n \in LineLengths[p] : uart_printf(p, n)
    <2>1. PICK n \in LineLengths[p] : uart_printf(p, n) BY <1>4
    <2>2. n \in Nat BY <1>1
    <2>3. UartTypeOK' BY <1>1, <1>2, <2>1, <2>2 DEF uart_printf, PrintGoes, UartTypeOK, txVars
    <2>4. PrintersOk' BY <1>1, <1>3, <2>1 DEF uart_printf, PrintGoes, PrintersOk, UartTypeOK
    <2>5. QED BY <1>3, <2>3, <2>4 DEF UartInv
  <1>5. CASE print_lock(p)
    <2>1. UartTypeOK' BY <1>1, <1>5 DEF print_lock, PrintGoes, UartTypeOK, txVars
    <2>2. PrintersOk' BY <1>1, <1>3, <1>5 DEF print_lock, PrintGoes, PrintersOk, UartTypeOK
    <2>3. QED BY <1>3, <2>1, <2>2 DEF UartInv
  <1>6. CASE drop_byte(p)
    <2>1. UartTypeOK' BY <1>1, <1>6 DEF drop_byte, PrintGoes, UartTypeOK, txVars
    <2>2. PrintersOk' BY <1>1, <1>3, <1>6 DEF drop_byte, PrintGoes, PrintersOk, UartTypeOK
    <2>3. QED BY <1>3, <2>1, <2>2 DEF UartInv
  <1>7. CASE print_unlock(p)
    <2>1. UartTypeOK' BY <1>1, <1>7 DEF print_unlock, PrintGoes, UartTypeOK, txVars
    <2>2. PrintersOk' BY <1>1, <1>3, <1>7 DEF print_unlock, PrintGoes, PrintersOk, UartTypeOK
    <2>3. QED BY <1>3, <2>1, <2>2 DEF UartInv
  <1>8. CASE print_give(p)
    <2>n. line[p] \in Nat BY <1>1 DEF UartTypeOK
    <2>1. UartTypeOK' BY <1>1, <1>2, <1>8, <2>n DEF print_give, PrintGoes, UartTypeOK, txVars
    <2>2. PrintersOk' BY <1>1, <1>3, <1>8 DEF print_give, PrintGoes, PrintersOk, UartTypeOK
    <2>3. QED BY <1>3, <2>1, <2>2 DEF UartInv
  <1>9. QED BY <1>4, <1>5, <1>6, <1>7, <1>8

\* uart_channel_tx, first half: the ring has room, so the slot is free.
LEMMA StoresByte ==
  ASSUME UartInv, NEW p \in Printer, NEW b \in Byte, store_byte(p, b)
  PROVE  UartInv'
  <1>1. UartTypeOK /\ PrintersOk BY DEF UartInv
  <1>2. Dist' = Dist /\ EngineOk' BY EngineStands DEF store_byte
  <1>3. Dist <= UartSize - 2 BY <1>1, DistFacts, UartAssumption DEF store_byte, Slot
  <1>4. UartTypeOK'
    <2>1. uart_buf' \in [Slot -> Byte] BY <1>1 DEF store_byte, UartTypeOK
    <2>2. QED BY <1>1, <2>1 DEF store_byte, PrintGoes, UartTypeOK, txVars
  <1>5. PrintersOk'
    BY <1>1, <1>2, <1>3 DEF store_byte, PrintGoes, PrintersOk, UartTypeOK
  <1>6. QED BY <1>2, <1>4, <1>5 DEF UartInv

\* uart_channel_tx, second half: one more byte between the indices.
LEMMA PublishesByte ==
  ASSUME UartInv, NEW p \in Printer, publish_byte(p)
  PROVE  UartInv' /\ Oldest' = Oldest
  <1>1. UartTypeOK /\ PrintersOk /\ EngineOk BY DEF UartInv
  <1>2. /\ print_pc[p] = "publish" /\ chunk[p] > 0 /\ Dist <= UartSize - 2
        /\ uart_buf_lock = p
    BY <1>1 DEF publish_byte, PrintGoes, PrintersOk
  <1>3. p_uart_buf_right' = Onward(p_uart_buf_right, 1) /\ p_uart_buf_right' \in Slot
    BY <1>1, AfterIsOnward DEF publish_byte, UartTypeOK
  <1>4. Dist' = Dist + 1
    <2>1. p_uart_buf_left' = p_uart_buf_left BY DEF publish_byte
    <2>2. QED BY <1>1, <1>2, <1>3, <2>1, UartAssumption DEF UartTypeOK, Slot, Dist, Onward
  <1>5. Dist \in Nat BY <1>1, DistFacts, UartAssumption DEF Slot
  <1>6. inside' \in 0 .. UartSize
    <2>1. inside <= Dist + 1
      BY <1>1, <1>5 DEF UartTypeOK, EngineOk
    <2>2. QED BY <1>1, <1>2, <1>5, <2>1, UartAssumption DEF publish_byte, UartTypeOK
  <1>7. UartTypeOK'
    <2>1. chunk' \in [Printer -> 0 .. ChunkSize]
      BY <1>1, <1>2, UartAssumption DEF publish_byte, UartTypeOK
    <2>2. QED BY <1>1, <1>3, <1>6, <2>1 DEF publish_byte, PrintGoes, UartTypeOK, txVars
  <1>8. PrintersOk'
    BY <1>1, <1>2 DEF publish_byte, PrintGoes, PrintersOk, UartTypeOK
  <1>9. EngineOk'
    BY <1>1, <1>4, <1>5 DEF publish_byte, EngineOk, Onward, txVars, UartTypeOK
  <1>10. Oldest' = Oldest BY DEF publish_byte, Oldest, Onward, txVars
  <1>11. QED BY <1>7, <1>8, <1>9, <1>10 DEF UartInv

\* The printers do not notice that slots are given back.
LEMMA PrintersStand ==
  ASSUME PrintersOk, UNCHANGED printVars, Dist \in Int, Dist' \in Int, Dist' <= Dist,
         UartSize \in Nat
  PROVE  PrintersOk'
  <1>1. UNCHANGED uart_buf_lock /\ UNCHANGED print_pc /\ UNCHANGED chunk BY DEF printVars
  <1>2. QED BY <1>1 DEF PrintersOk

\* uart_tx_task up to a drain.
LEMMA TxTurns ==
  ASSUME UartInv, tx_take \/ tx_loop
  PROVE  UartInv' /\ Oldest' = Oldest
  <1>1. UartTypeOK /\ PrintersOk /\ EngineOk BY DEF UartInv
  <1>2. Dist \in Nat /\ (p_uart_buf_right = p_uart_buf_left <=> Dist = 0) /\ UartSize \in Nat
    BY <1>1, DistFacts, UartAssumption DEF Slot
  <1>3. Dist' = Dist BY DEF tx_take, tx_loop, Dist
  <1>4. UartTypeOK' BY <1>1 DEF tx_take, tx_loop, UartTypeOK, printVars
  <1>5. PrintersOk' BY <1>1, <1>2, <1>3, PrintersStand DEF tx_take, tx_loop
  <1>6. EngineOk' BY <1>1, <1>2, <1>3 DEF tx_take, tx_loop, EngineOk
  <1>7. Oldest' = Oldest BY DEF tx_take, tx_loop, Oldest, Onward
  <1>8. QED BY <1>4, <1>5, <1>6, <1>7 DEF UartInv

\* uart_dma_tx_run: the run is not longer than what is published, and ends at the
\* end of the buffer.
LEMMA DmaStarts ==
  ASSUME UartInv, dma_start
  PROVE  UartInv' /\ Oldest' = Oldest
  <1>1. UartTypeOK /\ PrintersOk /\ EngineOk BY DEF UartInv
  <1>2. /\ Dist \in Slot
        /\ (p_uart_buf_right - p_uart_buf_left + UartSize) % UartSize = Dist
    BY <1>1, DistFacts
  <1>3. After(p_uart_buf_left) = Onward(p_uart_buf_left, 1) /\ After(p_uart_buf_left) \in Slot
    BY <1>1, AfterIsOnward DEF UartTypeOK
  <1>4. UartSize \in Nat /\ UartSize > 1 BY UartAssumption
  <1>5. Dist > 0 /\ Dist \in Nat BY <1>1, <1>2, <1>4 DEF EngineOk, dma_start, Slot
  <1>6. RunLength \in 1 .. Dist
    BY <1>2, <1>3, <1>4, <1>5 DEF RunLength, Slot
  <1>7. Dist' = Dist BY DEF dma_start, Dist
  <1>8. RunLength \in Slot BY <1>2, <1>4, <1>6 DEF Slot
  <1>9. UartTypeOK' BY <1>1, <1>3, <1>8 DEF dma_start, UartTypeOK, printVars
  <1>10. PrintersOk' BY <1>1, <1>4, <1>5, <1>7, PrintersStand DEF dma_start
  <1>11. EngineOk'
    <2>1. /\ tx_pc' = "wait" /\ tx_run' = RunLength /\ dma_left' = RunLength
          /\ dma_next' = Onward(p_uart_buf_left, 1) /\ p_uart_buf_left' = p_uart_buf_left
          /\ UNCHANGED dma_irq /\ UNCHANGED uart_dma_done /\ UNCHANGED inside
      BY <1>3 DEF dma_start
    <2>2. ~ dma_irq /\ uart_dma_done = 0 /\ inside = Dist BY <1>1 DEF dma_start, EngineOk
    <2>3. RunLength \in Nat /\ 1 + (RunLength - RunLength) = 1
          /\ Dist = (Dist - RunLength) + RunLength BY <1>5, <1>6
    <2>4. dma_next' = Onward(p_uart_buf_left', 1 + (tx_run' - dma_left'))
      BY <2>1, <2>3
    <2>5. inside' = (Dist' - tx_run') + dma_left' BY <1>7, <2>1, <2>2, <2>3
    <2>6. tx_run' \in 1 .. Dist' /\ dma_left' \in 0 .. tx_run' BY <1>6, <1>7, <2>1, <2>3
    <2>7. QED BY <2>1, <2>2, <2>4, <2>5, <2>6 DEF EngineOk, Onward
  <1>12. Oldest' = Oldest BY <1>3 DEF dma_start, Oldest, Onward
  <1>13. QED BY <1>9, <1>10, <1>11, <1>12 DEF UartInv

\* The slots of a run are given back when its bytes are out.
LEMMA TxIsDone ==
  ASSUME UartInv, tx_done
  PROVE  UartInv' /\ Oldest' = Oldest
  <1>1. UartTypeOK /\ PrintersOk /\ EngineOk BY DEF UartInv
  <1>2. UartSize \in Nat /\ UartSize > 1 /\ Dist \in Slot /\ Dist \in 0 .. UartSize - 1
    BY <1>1, UartAssumption, DistFacts DEF Slot
  <1>3. /\ tx_run \in 1 .. Dist /\ dma_left = 0 /\ ~ dma_irq
        /\ inside = (Dist - tx_run) + dma_left
        /\ dma_next = Onward(p_uart_buf_left, 1 + (tx_run - dma_left))
    BY <1>1, <1>2 DEF tx_done, EngineOk
  <1>4. inside = Dist - tx_run /\ dma_next = Onward(p_uart_buf_left, 1 + tx_run)
    BY <1>2, <1>3
  <1>5. p_uart_buf_left' = Onward(p_uart_buf_left, tx_run) /\ p_uart_buf_left' \in Slot
    <2>1. tx_run \in 0 .. UartSize BY <1>2, <1>3
    <2>2. QED BY <1>1, <2>1, OnwardWraps DEF tx_done, UartTypeOK
  <1>6. p_uart_buf_left \in 0 .. UartSize - 1 /\ p_uart_buf_right \in 0 .. UartSize - 1
    BY <1>1 DEF UartTypeOK, Slot
  <1>7. Dist' = Dist - tx_run
    <2>1. p_uart_buf_right' = p_uart_buf_right BY DEF tx_done
    <2>2. QED BY <1>2, <1>3, <1>5, <1>6, <2>1 DEF Dist, Onward
  <1>8. UartTypeOK'
    <2>1. 0 \in Slot BY <1>2 DEF Slot
    <2>2. QED BY <1>1, <1>5, <2>1 DEF tx_done, UartTypeOK, printVars
  <1>9. PrintersOk'
    <2>1. Dist \in Int /\ Dist' \in Int /\ Dist' <= Dist BY <1>2, <1>3, <1>7
    <2>2. QED BY <1>1, <1>2, <2>1, PrintersStand DEF tx_done
  <1>10. EngineOk' BY <1>3, <1>4, <1>7 DEF tx_done, EngineOk
  <1>11. Oldest' = Oldest
    <2>1. Oldest = Onward(p_uart_buf_left, 1 + tx_run) BY <1>4 DEF tx_done, Oldest
    <2>2. Oldest' = IF Onward(p_uart_buf_left, tx_run) + 1 < UartSize
                      THEN Onward(p_uart_buf_left, tx_run) + 1
                      ELSE (Onward(p_uart_buf_left, tx_run) + 1) - UartSize
      BY <1>5 DEF tx_done, Oldest, Onward
    <2>3. QED BY <1>2, <1>3, <1>6, <2>1, <2>2 DEF Onward
  <1>12. QED BY <1>8, <1>9, <1>10, <1>11 DEF UartInv

\* Without DMA the slot becomes the gap, which no printer fills.
LEMMA TxPios ==
  ASSUME UartInv, tx_pio
  PROVE  UartInv' /\ Oldest' = Oldest
  <1>1. UartTypeOK /\ PrintersOk /\ EngineOk BY DEF UartInv
  <1>2. UartSize \in Nat /\ UartSize > 1 /\ Dist \in 1 .. UartSize - 1
    BY <1>1, UartAssumption, DistFacts DEF Slot, EngineOk, tx_pio
  <1>3. p_uart_buf_left' = Onward(p_uart_buf_left, 1) /\ p_uart_buf_left' \in Slot
    BY <1>1, AfterIsOnward DEF tx_pio, UartTypeOK
  <1>4. p_uart_buf_left \in 0 .. UartSize - 1 /\ p_uart_buf_right \in 0 .. UartSize - 1
    BY <1>1 DEF UartTypeOK, Slot
  <1>5. Dist' = Dist - 1
    <2>1. p_uart_buf_right' = p_uart_buf_right BY DEF tx_pio
    <2>2. QED BY <1>2, <1>3, <1>4, <2>1 DEF Dist, Onward
  <1>6. UartTypeOK' BY <1>1, <1>3 DEF tx_pio, UartTypeOK, printVars
  <1>7. PrintersOk'
    <2>1. Dist \in Int /\ Dist' \in Int /\ Dist' <= Dist BY <1>2, <1>5
    <2>2. QED BY <1>1, <1>2, <2>1, PrintersStand DEF tx_pio
  <1>8. EngineOk' BY <1>1, <1>2, <1>5 DEF tx_pio, EngineOk
  <1>9. Oldest' = Oldest BY <1>3 DEF tx_pio, Oldest
  <1>10. QED BY <1>6, <1>7, <1>8, <1>9 DEF UartInv

\* A byte goes out: by the transmit task itself, ...
LEMMA RawByteOut ==
  ASSUME UartInv, uart_channel_tx_raw
  PROVE  UartInv' /\ Oldest' = Onward(Oldest, 1) /\ inside > 0 /\ wire' = <<uart_buf[Oldest]>>
  <1>1. UartTypeOK /\ PrintersOk /\ EngineOk BY DEF UartInv
  <1>2. UartSize \in Nat /\ UartSize > 1 /\ Dist \in 0 .. UartSize - 1
    BY <1>1, UartAssumption, DistFacts DEF Slot
  <1>3. inside = Dist + 1 /\ dma_left = 0 /\ ~ dma_irq /\ uart_dma_done = 0
    BY <1>1 DEF uart_channel_tx_raw, EngineOk
  <1>4. inside' = Dist /\ Dist' = Dist BY <1>2, <1>3 DEF uart_channel_tx_raw, Dist
  <1>5. UartTypeOK'
    <2>1. wire' \in {<<>>} \cup {<<b>> : b \in Byte}
      BY <1>1 DEF uart_channel_tx_raw, UartTypeOK
    <2>2. inside' \in 0 .. UartSize BY <1>2, <1>4
    <2>3. QED BY <1>1, <2>1, <2>2 DEF uart_channel_tx_raw, UartTypeOK, printVars
  <1>6. PrintersOk' BY <1>1, <1>2, <1>4, PrintersStand DEF uart_channel_tx_raw
  <1>7. EngineOk' BY <1>3, <1>4 DEF uart_channel_tx_raw, EngineOk
  <1>8. Oldest' = Onward(Oldest, 1) /\ wire' = <<uart_buf[Oldest]>>
    BY DEF uart_channel_tx_raw, Oldest, Onward
  <1>9. inside > 0 BY <1>2, <1>3
  <1>10. QED BY <1>5, <1>6, <1>7, <1>8, <1>9 DEF UartInv

\* ... or by the engine, whose slots stay taken until the run is over.
LEMMA DmaByteOut ==
  ASSUME UartInv, dma_move
  PROVE  UartInv' /\ Oldest' = Onward(Oldest, 1) /\ inside > 0 /\ wire' = <<uart_buf[Oldest]>>
  <1>1. UartTypeOK /\ PrintersOk /\ EngineOk BY DEF UartInv
  <1>2. UartSize \in Nat /\ UartSize > 1 /\ Dist \in 0 .. UartSize - 1
    BY <1>1, UartAssumption, DistFacts DEF Slot
  <1>3. tx_pc = "wait" BY <1>1, <1>2 DEF dma_move, EngineOk, UartTypeOK, Slot
  <1>4. /\ tx_run \in 1 .. Dist /\ dma_left \in 1 .. tx_run
        /\ inside = (Dist - tx_run) + dma_left
        /\ dma_next = Onward(p_uart_buf_left, 1 + (tx_run - dma_left))
        /\ ~ dma_irq /\ uart_dma_done = 0
    BY <1>1, <1>2, <1>3 DEF dma_move, EngineOk
  <1>5. dma_next' = Onward(dma_next, 1) /\ dma_next' \in Slot
    BY <1>1, AfterIsOnward DEF dma_move, UartTypeOK
  <1>6. Dist' = Dist BY DEF dma_move, Dist
  <1>7. inside' = inside - 1 /\ inside > 0 /\ inside <= UartSize BY <1>2, <1>4 DEF dma_move
  <1>8. UartTypeOK'
    <2>1. wire' \in {<<>>} \cup {<<b>> : b \in Byte} BY <1>1 DEF dma_move, UartTypeOK
    <2>2. inside' \in 0 .. UartSize BY <1>2, <1>4, <1>7
    <2>3. dma_left' \in Slot BY <1>2, <1>4 DEF dma_move, Slot
    <2>4. dma_irq' \in BOOLEAN BY DEF dma_move
    <2>5. QED BY <1>1, <1>5, <2>1, <2>2, <2>3, <2>4 DEF dma_move, UartTypeOK, printVars
  <1>9. PrintersOk' BY <1>1, <1>2, <1>6, PrintersStand DEF dma_move
  <1>10. EngineOk'
    <2>1. dma_left' = dma_left - 1 /\ tx_run' = tx_run /\ tx_pc' = "wait"
          /\ p_uart_buf_left' = p_uart_buf_left /\ uart_dma_done' = 0
          /\ (dma_irq' <=> dma_left = 1)
      BY <1>3, <1>4 DEF dma_move
    <2>2. p_uart_buf_left \in 0 .. UartSize - 1 BY <1>1 DEF UartTypeOK, Slot
    <2>3. dma_next' = Onward(p_uart_buf_left', 1 + (tx_run' - dma_left'))
      <3>1. 1 + (tx_run' - dma_left') = (1 + (tx_run - dma_left)) + 1 BY <1>2, <1>4, <2>1
      <3>2. QED BY <1>2, <1>4, <1>5, <2>1, <2>2, <3>1 DEF Onward
    <2>4. inside' = (Dist' - tx_run') + dma_left' BY <1>2, <1>4, <1>6, <1>7, <2>1
    <2>5. tx_run' \in 1 .. Dist' /\ dma_left' \in 0 .. tx_run' BY <1>2, <1>4, <1>6, <2>1
    <2>6. dma_left' > 0 => ~ dma_irq' BY <1>2, <1>4, <2>1
    <2>7. QED BY <2>1, <2>3, <2>4, <2>5, <2>6 DEF EngineOk, Onward
  <1>11. Oldest' = Onward(Oldest, 1) /\ wire' = <<uart_buf[Oldest]>>
    BY <1>3, <1>5 DEF dma_move, Oldest
  <1>12. QED BY <1>7, <1>8, <1>9, <1>10, <1>11 DEF UartInv

\* uart_dma_irq_handler: the run is over.
LEMMA DmaEnds ==
  ASSUME UartInv, uart_dma_irq_handler
  PROVE  UartInv' /\ Oldest' = Oldest
  <1>1. UartTypeOK /\ PrintersOk /\ EngineOk BY DEF UartInv
  <1>2. UartSize \in Nat /\ Dist \in Nat BY <1>1, UartAssumption, DistFacts DEF Slot
  <1>3. tx_pc = "wait" BY <1>1 DEF uart_dma_irq_handler, EngineOk, UartTypeOK
  <1>4. Dist' = Dist BY DEF uart_dma_irq_handler, Dist
  <1>5. UartTypeOK' BY <1>1 DEF uart_dma_irq_handler, UartTypeOK, printVars
  <1>6. PrintersOk' BY <1>1, <1>2, <1>4, PrintersStand DEF uart_dma_irq_handler
  <1>7. EngineOk' BY <1>1, <1>3, <1>4 DEF uart_dma_irq_handler, EngineOk, Onward
  <1>8. Oldest' = Oldest BY DEF uart_dma_irq_handler, Oldest, Onward
  <1>9. QED BY <1>5, <1>6, <1>7, <1>8 DEF UartInv

\* The bytes inside, as a ring
QueuedIsRing ==
  /\ IsRing(uart_buf, Oldest, inside, UartSize, Byte) /\ inside <= Dist + 1
  /\ Oldest \in Nat /\ inside \in Nat /\ UartSize \in Nat /\ Dist \in Nat
  /\ After(p_uart_buf_right) = (Oldest + inside) % UartSize
  /\ Queued = Ring(uart_buf, Oldest, inside, UartSize)

\* Where a byte is stored before it is published is where the bytes inside end.
LEMMA EndOfQueued == UartInv => QueuedIsRing
  <1> SUFFICES ASSUME UartInv PROVE QueuedIsRing
    OBVIOUS
  <1>1. UartTypeOK /\ EngineOk BY DEF UartInv
  <1>2. /\ UartSize \in Nat /\ UartSize > 1 /\ Dist \in 0 .. UartSize - 1
        /\ p_uart_buf_left \in 0 .. UartSize - 1 /\ p_uart_buf_right \in 0 .. UartSize - 1
        /\ dma_next \in 0 .. UartSize - 1 /\ inside \in 0 .. UartSize
    BY <1>1, UartAssumption, DistFacts DEF Slot, UartTypeOK
  <1>3. /\ Oldest \in 0 .. UartSize - 1 /\ inside <= Dist + 1
        /\ Onward(Oldest, inside) = Onward(p_uart_buf_right, 1)
    <2>1. CASE tx_pc = "wait"
      <3>1. /\ tx_run \in 1 .. Dist /\ dma_left \in 0 .. tx_run
            /\ inside = (Dist - tx_run) + dma_left
            /\ dma_next = Onward(p_uart_buf_left, 1 + (tx_run - dma_left))
            /\ Oldest = dma_next
        BY <1>1, <2>1 DEF EngineOk, Oldest
      <3>2. QED BY <1>2, <3>1 DEF Onward, Dist
    <2>2. CASE tx_pc = "raw"
      <3>1. inside = Dist + 1 /\ Oldest = p_uart_buf_left
        BY <1>1, <2>2 DEF EngineOk, Oldest
      <3>2. QED BY <1>2, <3>1 DEF Onward, Dist
    <2>3. CASE tx_pc \in {"take", "loop", "run", "pio"}
      <3>1. inside = Dist /\ Oldest = Onward(p_uart_buf_left, 1)
        BY <1>1, <2>3 DEF EngineOk, Oldest
      <3>2. QED BY <1>2, <3>1 DEF Onward, Dist
    <2>4. QED BY <1>1, <2>1, <2>2, <2>3 DEF UartTypeOK
  <1>4. After(p_uart_buf_right) = (Oldest + inside) % UartSize
    BY <1>1, <1>2, <1>3, AfterIsOnward, OnwardWraps DEF UartTypeOK, Slot
  <1>5. IsRing(uart_buf, Oldest, inside, UartSize, Byte)
    BY <1>1, <1>2, <1>3 DEF IsRing, UartTypeOK, Slot
  <1>6. ASSUME NEW i \in 1 .. inside
        PROVE  (p_uart_buf_right - inside + i + UartSize) % UartSize = (Oldest + i - 1) % UartSize
    <2> DEFINE a == p_uart_buf_right - inside + i + UartSize
               b == Oldest + i - 1
    <2>1. a \in 0 .. 2 * UartSize - 1 /\ b \in 0 .. 2 * UartSize - 1 BY <1>2, <1>3
    <2>2. /\ a % UartSize = IF a < UartSize THEN a ELSE a - UartSize
          /\ b % UartSize = IF b < UartSize THEN b ELSE b - UartSize
      BY <2>1, WrapUart
    <2>3. (IF a < UartSize THEN a ELSE a - UartSize) = (IF b < UartSize THEN b ELSE b - UartSize)
      BY <1>2, <1>3 DEF Onward
    <2>4. QED BY <2>2, <2>3
  <1>7. Queued = Ring(uart_buf, Oldest, inside, UartSize) BY <1>6 DEF Queued, Ring
  <1>8. QED BY <1>2, <1>3, <1>4, <1>5, <1>7 DEF QueuedIsRing

\* A step that neither prints, publishes nor moves a byte out
Quiet ==
  \/ \E p \in Printer :
       \/ \E n \in LineLengths[p] : uart_printf(p, n)
       \/ print_lock(p) \/ drop_byte(p) \/ print_unlock(p) \/ print_give(p)
  \/ tx_take \/ tx_loop \/ dma_start \/ tx_done \/ tx_pio \/ uart_dma_irq_handler

\* The steps of the UART, by what they do to the bytes inside.
LEMMA UartSteps ==
  ASSUME [UartNext]_uartVars
  PROVE  \/ UNCHANGED uartVars \/ Quiet
         \/ \E p \in Printer : publish_byte(p) \/ \E b \in Byte : store_byte(p, b)
         \/ uart_channel_tx_raw \/ dma_move
  BY Zenon DEF UartNext, PrintStep, uart_tx_task, Dma, Quiet

\* The steps that only the printers, the transmit task or the engine notice.
LEMMA QuietStep ==
  ASSUME UartInv, Quiet
  PROVE  UartInv' /\ Queued' = Queued /\ wire' = wire
  <1>1. UartInv'
    BY PrintsAround, TxTurns, DmaStarts, TxIsDone, TxPios, DmaEnds, Zenon DEF Quiet
  <1>2. UNCHANGED <<uart_buf, p_uart_buf_right, inside, wire>>
    BY Zenon DEF Quiet, uart_printf, print_lock, drop_byte, print_unlock, print_give, tx_take,
                 tx_loop, dma_start, tx_done, tx_pio, uart_dma_irq_handler
  <1>3. QED BY <1>1, <1>2 DEF Queued

\* A step that leaves the transmit path alone leaves the invariant and the ring alone.
LEMMA UartStands ==
  ASSUME UartInv, UNCHANGED uartVars
  PROVE  UartInv' /\ Queued' = Queued /\ wire' = wire
  <1>1. UartTypeOK' BY DEF UartInv, UartTypeOK, uartVars, printVars, txVars
  <1>2. Dist' = Dist /\ EngineOk' BY EngineStands DEF uartVars
  <1>3. PrintersOk' BY <1>2 DEF UartInv, PrintersOk, uartVars, printVars
  <1>4. QED BY <1>1, <1>2, <1>3 DEF UartInv, Queued, uartVars

\* Every step of the transmit path keeps its invariant.
LEMMA UartStep == UartInv /\ [UartNext]_uartVars => UartInv'
  <1> SUFFICES ASSUME UartInv, [UartNext]_uartVars PROVE UartInv'
    OBVIOUS
  <1>1. QED
    BY UartSteps, UartStands, QuietStep, PublishesByte, StoresByte, RawByteOut, DmaByteOut, Zenon

\* The invariant of the transmit path holds in every reachable state.
LEMMA UartInvariance == UartSpec => []UartInv
  BY UartBegins, UartStep, PTL DEF UartSpec

\* The indices, the run, the engine's registers and the lock stay in their ranges.
THEOREM UartTypeCorrect == UartSpec => []UartTypeOK
  <1>1. UartInv => UartTypeOK BY DEF UartInv
  <1>2. QED BY <1>1, UartInvariance, PTL

\* A byte that is stored is not inside before it is published, and its slot is not
\* the slot of one that is.
LEMMA StoreIsUnseen ==
  ASSUME UartInv, NEW p \in Printer, NEW b \in Byte, store_byte(p, b)
  PROVE  Queued' = Queued /\ wire' = wire
  <1> DEFINE slot == (Oldest + inside) % UartSize
  <1>1. UartTypeOK BY DEF UartInv
  <1>2. /\ IsRing(uart_buf, Oldest, inside, UartSize, Byte) /\ inside <= Dist + 1
        /\ Oldest \in Nat /\ inside \in Nat /\ UartSize \in Nat /\ Dist \in Nat
        /\ After(p_uart_buf_right) = slot
        /\ Queued = Ring(uart_buf, Oldest, inside, UartSize)
    BY EndOfQueued DEF QueuedIsRing
  <1>3. inside <= UartSize - 1
    <2>1. Dist <= UartSize - 2 BY <1>1, <1>2, DistFacts, UartAssumption DEF store_byte, Slot
    <2>2. QED BY <1>2, <2>1
  <1>4. UartInv' BY StoresByte
  <1>5. Oldest' = Oldest /\ inside' = inside BY DEF store_byte, Oldest, Onward, txVars
  <1>6. Queued' = Ring(uart_buf', Oldest, inside, UartSize)
    <2>1. QueuedIsRing' BY <1>4, EndOfQueued, PTL
    <2>2. QED BY <1>5, <2>1 DEF QueuedIsRing
  <1>7. ASSUME NEW i \in 1 .. inside
        PROVE  uart_buf'[(Oldest + i - 1) % UartSize] = uart_buf[(Oldest + i - 1) % UartSize]
    <2>1. UartSize \in Nat \ {0} /\ Oldest \in 0 .. UartSize - 1 BY <1>2 DEF IsRing
    <2>2. i - 1 \in 0 .. UartSize - 1 /\ inside \in 0 .. UartSize - 1 /\ i - 1 # inside
          /\ Oldest + i - 1 = Oldest + (i - 1)
      BY <1>2, <1>3
    <2>3. (Oldest + i - 1) % UartSize # slot BY <2>1, <2>2, Apart
    <2>4. (Oldest + i - 1) % UartSize \in 0 .. UartSize - 1 BY <2>1, <2>2
    <2>5. uart_buf' = [uart_buf EXCEPT ![slot] = b] BY <1>2 DEF store_byte
    <2>6. QED BY <1>1, <2>3, <2>4, <2>5 DEF UartTypeOK, Slot
  <1>8. Ring(uart_buf', Oldest, inside, UartSize) = Ring(uart_buf, Oldest, inside, UartSize)
    BY <1>7 DEF Ring
  <1>9. QED BY <1>2, <1>6, <1>8 DEF store_byte

\* When the index moves, the byte is behind all others.
LEMMA PublishPuts ==
  ASSUME UartInv, NEW p \in Printer, publish_byte(p)
  PROVE  \E v \in Byte : UartFifo!Put(v)
  <1> DEFINE slot == (Oldest + inside) % UartSize
             v == uart_buf[slot]
  <1>1. UartTypeOK /\ PrintersOk BY DEF UartInv
  <1>2. /\ IsRing(uart_buf, Oldest, inside, UartSize, Byte) /\ inside <= Dist + 1
        /\ Oldest \in Nat /\ inside \in Nat /\ UartSize \in Nat /\ Dist \in Nat
        /\ Queued = Ring(uart_buf, Oldest, inside, UartSize)
    BY EndOfQueued DEF QueuedIsRing
  <1>3. UartInv' /\ Oldest' = Oldest BY PublishesByte
  <1>4. inside < UartSize /\ inside' = inside + 1 /\ inside' \in Nat
    <2>1. Dist <= UartSize - 2 BY <1>1 DEF publish_byte, PrintGoes, PrintersOk
    <2>2. QED BY <1>2, <2>1 DEF publish_byte
  <1>5. slot \in 0 .. UartSize - 1
    <2>1. UartSize \in Nat \ {0} BY <1>2 DEF IsRing
    <2>2. QED BY <1>2, <2>1
  <1>6. v \in Byte /\ uart_buf = [uart_buf EXCEPT ![slot] = v]
    BY <1>1, <1>5 DEF UartTypeOK, Slot
  <1>7. Queued' = Ring(uart_buf, Oldest, inside', UartSize)
    <2>1. QueuedIsRing' BY <1>3, EndOfQueued, PTL
    <2>2. QED BY <1>3, <2>1 DEF publish_byte, QueuedIsRing
  <1>8. Written(uart_buf, uart_buf, Oldest, inside, inside', UartSize, v)
    BY <1>4, <1>6 DEF Written
  <1> HIDE DEF v
  <1>9. Ring(uart_buf, Oldest, inside', UartSize) = Append(Ring(uart_buf, Oldest, inside, UartSize), v)
    BY <1>2, <1>4, <1>6, <1>8, RingPut
  <1>10. Len(Queued) = inside BY <1>2, RingIsSeq
  <1>11. UartFifo!Put(v)
    BY <1>2, <1>4, <1>7, <1>9, <1>10 DEF UartFifo!Put, publish_byte
  <1>12. QED BY <1>6, <1>11

\* The byte that goes out is the oldest one.
LEMMA OutIsGet ==
  ASSUME UartInv, uart_channel_tx_raw \/ dma_move
  PROVE  UartFifo!Get
  <1>1. /\ UartInv' /\ Oldest' = Onward(Oldest, 1) /\ inside > 0
        /\ wire' = <<uart_buf[Oldest]>>
    BY RawByteOut, DmaByteOut
  <1>2. /\ IsRing(uart_buf, Oldest, inside, UartSize, Byte)
        /\ Oldest \in Nat /\ inside \in Nat /\ UartSize \in Nat
        /\ Queued = Ring(uart_buf, Oldest, inside, UartSize)
    BY EndOfQueued DEF QueuedIsRing
  <1>3. inside' \in Nat /\ Oldest' \in Nat /\ Queued' = Ring(uart_buf', Oldest', inside', UartSize)
    <2>1. QueuedIsRing' BY <1>1, EndOfQueued, PTL
    <2>2. QED BY <2>1 DEF QueuedIsRing
  <1>4. uart_buf' = uart_buf /\ inside' = inside - 1 BY DEF uart_channel_tx_raw, dma_move
  <1>5. Freed(Oldest, Oldest', inside, inside', UartSize)
    <2>1. (Oldest + 1) % UartSize = Onward(Oldest, 1)
      BY <1>2, OnwardWraps, UartAssumption DEF IsRing, Slot
    <2>2. QED BY <1>1, <1>2, <1>4, <2>1 DEF Freed
  <1>6. /\ Ring(uart_buf, Oldest, inside, UartSize) # <<>>
        /\ Head(Ring(uart_buf, Oldest, inside, UartSize)) = uart_buf[Oldest]
        /\ Ring(uart_buf, Oldest', inside', UartSize) = Tail(Ring(uart_buf, Oldest, inside, UartSize))
    BY <1>2, <1>3, <1>5, RingGet
  <1>7. QED BY <1>1, <1>2, <1>3, <1>4, <1>6 DEF UartFifo!Get

\* What the prints queue goes out in that order, every byte once, while slots are
\* given back at the end of a run and bytes are stored in others: the buffered
\* channel is a bounded FIFO for any buffer size and any number of printing tasks.
THEOREM UartRefinement == UartSpec => UartIsFifo
  <1>1. UartInit => UartFifo!Init BY DEF UartInit, UartFifo!Init, Queued
  <1>2. ASSUME UartInv, [UartNext]_uartVars PROVE [UartFifo!Next]_<<Queued, wire>>
    <2>1. CASE UNCHANGED uartVars \/ Quiet BY <1>2, <2>1, UartStands, QuietStep
    <2>2. CASE \E p \in Printer : \E b \in Byte : store_byte(p, b)
      BY <1>2, <2>2, StoreIsUnseen
    <2>3. CASE \E p \in Printer : publish_byte(p)
      BY <1>2, <2>3, PublishPuts DEF UartFifo!Next
    <2>4. CASE uart_channel_tx_raw \/ dma_move
      BY <1>2, <2>4, OutIsGet DEF UartFifo!Next
    <2>5. QED BY <1>2, <2>1, <2>2, <2>3, <2>4, UartSteps, Zenon
  <1>3. QED BY <1>1, <1>2, UartInvariance, PTL DEF UartSpec, UartIsFifo, UartFifo!Spec
===============================================================================
