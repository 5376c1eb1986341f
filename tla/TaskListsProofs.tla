---------------------------- MODULE TaskListsProofs ----------------------------
(***************************************************************************)
(* What the list operations of TaskLists keep: no task is linked twice,    *)
(* the list gains or loses exactly one task, the cursor stays in the list. *)
(***************************************************************************)
EXTENDS TaskLists, WellFoundedInduction, TLAPS

\* A non-empty set of naturals has a least element.
LEMMA LeastNat ==
  ASSUME NEW S \in SUBSET Nat, S # {}
  PROVE  \E n \in S : \A k \in S : n <= k
<1> DEFINE R == OpToRel(<, Nat)
<1>1. IsWellFoundedOn(R, Nat)
  BY NatLessThanWellFounded
<1>2. \A k, n \in Nat : k < n => <<k, n>> \in R
  BY DEF OpToRel
<1> HIDE DEF R
<1>3. \E n \in S : \A k \in S : ~ (<<k, n>> \in R)
  BY <1>1, WFMin
<1>4. PICK n \in S : \A k \in S : ~ (<<k, n>> \in R)
  BY <1>3, Zenon
<1>5. \A k \in S : ~ (k < n)
  BY <1>2, <1>4, Zenon
<1> QED BY <1>5

\* A non-empty set of numbers below a bound has a greatest element.
LEMMA GreatestBelow ==
  ASSUME NEW N \in Nat, NEW S \in SUBSET (0 .. N), S # {}
  PROVE  /\ Max(S) \in S
         /\ \A k \in S : k <= Max(S)
<1> DEFINE T == {n \in 0 .. N : N - n \in S}
<1>1. T \in SUBSET Nat /\ T # {}
  <2>1. PICK k \in S : TRUE
    OBVIOUS
  <2>2. N - k \in T
    BY <2>1
  <2> QED BY <2>2
<1>2. PICK n \in T : \A k \in T : n <= k
  BY <1>1, LeastNat
<1>3. \A k \in S : N - k \in T
  OBVIOUS
<1>4. N - n \in S /\ \A k \in S : N - n >= k
  BY <1>2, <1>3
<1> QED BY <1>4 DEF Max

-------------------------------------------------------------------------------

\* The list u is the list s with t linked behind its first k items.
Grows(s, u, t, n, k) ==
  /\ n \in Nat /\ k \in 0 .. n
  /\ DOMAIN s = 1 .. n /\ DOMAIN u = 1 .. n + 1
  /\ \A i \in 1 .. k : u[i] = s[i]
  /\ u[k + 1] = t
  /\ \A i \in k + 1 .. n : u[i + 1] = s[i]

\* It has the tasks of s and t, and none twice if s has none twice and not t.
LEMMA GrownTasks ==
  ASSUME NEW s, NEW u, NEW t, NEW n, NEW k, Grows(s, u, t, n, k)
  PROVE  ToSet(u) = ToSet(s) \cup {t}
<1>1. /\ n \in Nat /\ k \in 0 .. n /\ DOMAIN s = 1 .. n /\ DOMAIN u = 1 .. n + 1
      /\ \A i \in 1 .. k : u[i] = s[i]
      /\ u[k + 1] = t
      /\ \A i \in k + 1 .. n : u[i + 1] = s[i]
  BY DEF Grows
<1>2. ASSUME NEW i \in 1 .. n + 1 PROVE u[i] = t \/ \E j \in 1 .. n : u[i] = s[j]
  <2>1. CASE i <= k
    <3>1. i \in 1 .. k /\ i \in 1 .. n
      BY <1>1, <2>1
    <3> QED BY <1>1, <3>1
  <2>2. CASE i = k + 1
    BY <1>1, <2>2
  <2>3. CASE i > k + 1
    <3>1. i - 1 \in k + 1 .. n /\ i - 1 \in 1 .. n /\ (i - 1) + 1 = i
      BY <1>1, <2>3
    <3> QED BY <1>1, <3>1
  <2> QED BY <1>1, <2>1, <2>2, <2>3
<1>3. ASSUME NEW i \in 1 .. n PROVE \E j \in 1 .. n + 1 : s[i] = u[j]
  <2>1. CASE i <= k
    <3>1. i \in 1 .. k /\ i \in 1 .. n + 1
      BY <1>1, <2>1
    <3> QED BY <1>1, <3>1
  <2>2. CASE i > k
    <3>1. i \in k + 1 .. n /\ i + 1 \in 1 .. n + 1
      BY <1>1, <2>2
    <3> QED BY <1>1, <3>1
  <2> QED BY <1>1, <2>1, <2>2
<1>4. k + 1 \in 1 .. n + 1
  BY <1>1
<1>d. DOMAIN s = 1 .. n /\ DOMAIN u = 1 .. n + 1
  BY <1>1
<1>5. ToSet(u) \subseteq ToSet(s) \cup {t}
  BY <1>d, <1>2, Zenon DEF ToSet
<1>6. ToSet(s) \subseteq ToSet(u)
  BY <1>d, <1>3, Zenon DEF ToSet
<1>7. t \in ToSet(u)
  BY <1>1, <1>4 DEF ToSet
<1> QED BY <1>5, <1>6, <1>7

\* Where the items of u come from.
LEMMA GrownOrigin ==
  ASSUME NEW s, NEW u, NEW t, NEW n, NEW k, Grows(s, u, t, n, k),
         NEW i \in 1 .. n + 1, i # k + 1
  PROVE  LET o == IF i <= k THEN i ELSE i - 1
         IN  o \in 1 .. n /\ u[i] = s[o]
<1>1. /\ n \in Nat /\ k \in 0 .. n
      /\ \A j \in 1 .. k : u[j] = s[j]
      /\ \A j \in k + 1 .. n : u[j + 1] = s[j]
  BY DEF Grows
<1>2. CASE i <= k
  <2>1. i \in 1 .. k /\ i \in 1 .. n
    BY <1>1, <1>2
  <2> QED BY <1>1, <1>2, <2>1
<1>3. CASE ~ (i <= k)
  <2>1. i - 1 \in k + 1 .. n /\ i - 1 \in 1 .. n /\ (i - 1) + 1 = i
    BY <1>1, <1>3
  <2> QED BY <1>1, <1>3, <2>1
<1> QED BY <1>2, <1>3

\* A list of distinct tasks that gets one it does not hold has distinct tasks.
LEMMA GrownInjective ==
  ASSUME NEW s, NEW u, NEW t, NEW n, NEW k, Grows(s, u, t, n, k),
         IsInjective(s), t \notin ToSet(s)
  PROVE  IsInjective(u)
<1>1. /\ n \in Nat /\ k \in 0 .. n /\ DOMAIN s = 1 .. n /\ DOMAIN u = 1 .. n + 1
      /\ u[k + 1] = t
  BY DEF Grows
<1>2. SUFFICES ASSUME NEW i \in 1 .. n + 1, NEW j \in 1 .. n + 1, u[i] = u[j]
               PROVE  i = j
  BY <1>1 DEF IsInjective
<1>3. \A o \in 1 .. n : s[o] # t
  BY <1>1 DEF ToSet
<1>a. \A l \in 1 .. n + 1 : l # k + 1 => u[l] # t
  BY <1>3, GrownOrigin
<1>4. i = k + 1 => j = k + 1
  BY <1>1, <1>2, <1>a
<1>5. j = k + 1 => i = k + 1
  BY <1>1, <1>2, <1>a
<1>6. CASE i # k + 1 /\ j # k + 1
  <2> DEFINE oi == IF i <= k THEN i ELSE i - 1
             oj == IF j <= k THEN j ELSE j - 1
  <2>1. oi \in 1 .. n /\ oj \in 1 .. n /\ s[oi] = s[oj]
    BY <1>2, <1>6, GrownOrigin
  <2>2. oi = oj
    BY <1>1, <2>1 DEF IsInjective
  <2> QED BY <1>1, <1>6, <2>2
<1> QED BY <1>4, <1>5, <1>6

\* A list of distinct tasks that loses one has distinct tasks, and not that one.
LEMMA ShrunkInjective ==
  ASSUME NEW s, NEW u, NEW t, NEW n, NEW k, Grows(s, u, t, n, k), IsInjective(u)
  PROVE  IsInjective(s) /\ t \notin ToSet(s)
<1>1. /\ n \in Nat /\ k \in 0 .. n /\ DOMAIN s = 1 .. n /\ DOMAIN u = 1 .. n + 1
      /\ \A i \in 1 .. k : u[i] = s[i]
      /\ u[k + 1] = t
      /\ \A i \in k + 1 .. n : u[i + 1] = s[i]
  BY DEF Grows
<1> DEFINE new(i) == IF i <= k THEN i ELSE i + 1
<1>2. ASSUME NEW i \in 1 .. n
      PROVE  new(i) \in 1 .. n + 1 /\ new(i) # k + 1 /\ s[i] = u[new(i)]
  <2>1. CASE i <= k
    <3>1. i \in 1 .. k
      BY <1>1, <2>1
    <3> QED BY <1>1, <2>1, <3>1
  <2>2. CASE ~ (i <= k)
    <3>1. i \in k + 1 .. n
      BY <1>1, <2>2
    <3> QED BY <1>1, <2>2, <3>1
  <2> QED BY <2>1, <2>2
<1>3. ASSUME NEW i \in 1 .. n, NEW j \in 1 .. n, s[i] = s[j] PROVE i = j
  <2>1. new(i) = new(j)
    <3> HIDE DEF new
    <3> QED BY <1>1, <1>2, <1>3 DEF IsInjective
  <2> QED BY <1>1, <2>1
<1>4. ASSUME NEW i \in 1 .. n PROVE s[i] # t
  <2>1. k + 1 \in 1 .. n + 1
    BY <1>1
  <2> HIDE DEF new
  <2> QED BY <1>1, <1>2, <2>1 DEF IsInjective
<1> QED BY <1>1, <1>3, <1>4 DEF IsInjective, ToSet

-------------------------------------------------------------------------------

\* Linking a task at the tail.
LEMMA AppendLinks ==
  ASSUME NEW T, NEW s \in Seq(T), IsInjective(s), NEW t \in T, t \notin ToSet(s)
  PROVE  /\ Append(s, t) \in Seq(T)
         /\ IsInjective(Append(s, t))
         /\ ToSet(Append(s, t)) = ToSet(s) \cup {t}
<1>1. Append(s, t) \in Seq(T) /\ Grows(s, Append(s, t), t, Len(s), Len(s))
  BY DEF Grows
<1> QED BY <1>1, GrownTasks, GrownInjective

\* Linking a task behind the first k items.
LEMMA InsertLinks ==
  ASSUME NEW T, NEW s \in Seq(T), IsInjective(s), NEW t \in T, t \notin ToSet(s),
         NEW k \in 0 .. Len(s)
  PROVE  /\ InsertAt(s, k + 1, t) \in Seq(T)
         /\ IsInjective(InsertAt(s, k + 1, t))
         /\ ToSet(InsertAt(s, k + 1, t)) = ToSet(s) \cup {t}
         /\ Grows(s, InsertAt(s, k + 1, t), t, Len(s), k)
<1> DEFINE x == SubSeq(s, 1, k)
           y == SubSeq(s, k + 1, Len(s))
           u == x \o <<t>> \o y
<1>1. /\ x \in Seq(T) /\ Len(x) = k
      /\ \A i \in 1 .. k : x[i] = s[i]
  OBVIOUS
<1>2. /\ y \in Seq(T) /\ Len(y) = Len(s) - k
      /\ \A i \in 1 .. Len(s) - k : y[i] = s[k + i]
  OBVIOUS
<1>3. InsertAt(s, k + 1, t) = u
  <2>1. (k + 1) - 1 = k
    OBVIOUS
  <2> QED BY <2>1 DEF InsertAt
<1> HIDE DEF x, y
<1>4. u \in Seq(T) /\ Len(u) = Len(s) + 1
  BY <1>1, <1>2
<1>5. \A i \in 1 .. k : u[i] = s[i]
  BY <1>1, <1>2
<1>6. u[k + 1] = t
  BY <1>1, <1>2
<1>7. \A i \in k + 1 .. Len(s) : u[i + 1] = s[i]
  <2> TAKE i \in k + 1 .. Len(s)
  <2>1. u[i + 1] = y[i - k] /\ i - k \in 1 .. Len(s) - k /\ k + (i - k) = i
    BY <1>1, <1>2
  <2> QED BY <1>2, <2>1
<1> HIDE DEF u
<1>8. DOMAIN s = 1 .. Len(s) /\ DOMAIN u = 1 .. Len(s) + 1 /\ Len(s) \in Nat
  BY <1>4
<1>9. Grows(s, u, t, Len(s), k)
  BY <1>5, <1>6, <1>7, <1>8 DEF Grows
<1> QED BY <1>3, <1>4, <1>9, GrownTasks, GrownInjective

\* Linking a task in front of the head.
LEMMA ConsLinks ==
  ASSUME NEW T, NEW s \in Seq(T), IsInjective(s), NEW t \in T, t \notin ToSet(s)
  PROVE  /\ Cons(t, s) \in Seq(T)
         /\ IsInjective(Cons(t, s))
         /\ ToSet(Cons(t, s)) = ToSet(s) \cup {t}
         /\ Grows(s, Cons(t, s), t, Len(s), 0)
<1>1. Cons(t, s) \in Seq(T) /\ Grows(s, Cons(t, s), t, Len(s), 0)
  BY DEF Grows, Cons
<1> QED BY <1>1, GrownTasks, GrownInjective

\* Unlinking the head.
LEMMA TailUnlinks ==
  ASSUME NEW T, NEW s \in Seq(T), s # <<>>, IsInjective(s)
  PROVE  /\ s[1] \in ToSet(s)
         /\ Tail(s) \in Seq(T)
         /\ IsInjective(Tail(s))
         /\ ToSet(Tail(s)) = ToSet(s) \ {s[1]}
         /\ Grows(Tail(s), s, s[1], Len(s) - 1, 0)
<1>1. Tail(s) \in Seq(T) /\ Grows(Tail(s), s, s[1], Len(s) - 1, 0)
  BY DEF Grows
<1>2. ToSet(s) = ToSet(Tail(s)) \cup {s[1]}
  BY <1>1, GrownTasks
<1>3. IsInjective(Tail(s)) /\ s[1] \notin ToSet(Tail(s))
  BY <1>1, ShrunkInjective
<1> QED BY <1>1, <1>2, <1>3

\* Unlinking the item at a position.
LEMMA RemoveUnlinks ==
  ASSUME NEW T, NEW s \in Seq(T), IsInjective(s), NEW k \in 1 .. Len(s)
  PROVE  /\ RemoveAt(s, k) \in Seq(T)
         /\ IsInjective(RemoveAt(s, k))
         /\ ToSet(RemoveAt(s, k)) = ToSet(s) \ {s[k]}
         /\ Grows(RemoveAt(s, k), s, s[k], Len(s) - 1, k - 1)
<1> DEFINE x == SubSeq(s, 1, k - 1)
           y == SubSeq(s, k + 1, Len(s))
           u == x \o y
<1>1. /\ x \in Seq(T) /\ Len(x) = k - 1
      /\ \A i \in 1 .. k - 1 : x[i] = s[i]
  OBVIOUS
<1>2. /\ y \in Seq(T) /\ Len(y) = Len(s) - k
      /\ \A i \in 1 .. Len(s) - k : y[i] = s[k + i]
  OBVIOUS
<1>3. RemoveAt(s, k) = u
  BY DEF RemoveAt
<1> HIDE DEF x, y
<1>4. u \in Seq(T) /\ Len(u) = Len(s) - 1
  BY <1>1, <1>2
<1>5. \A i \in 1 .. k - 1 : s[i] = u[i]
  BY <1>1, <1>2
<1>6. \A i \in (k - 1) + 1 .. Len(s) - 1 : s[i + 1] = u[i]
  <2> TAKE i \in (k - 1) + 1 .. Len(s) - 1
  <2>1. u[i] = y[i - (k - 1)] /\ i - (k - 1) \in 1 .. Len(s) - k
          /\ k + (i - (k - 1)) = i + 1
    BY <1>1, <1>2
  <2> QED BY <1>2, <2>1
<1>7. Grows(u, s, s[k], Len(s) - 1, k - 1)
  BY <1>4, <1>5, <1>6 DEF Grows
<1> HIDE DEF u
<1>8. ToSet(s) = ToSet(u) \cup {s[k]}
  BY <1>7, GrownTasks
<1>9. IsInjective(u) /\ s[k] \notin ToSet(u)
  BY <1>7, ShrunkInjective
<1> QED BY <1>3, <1>4, <1>7, <1>8, <1>9

\* The position of a linked task.
LEMMA PosLinked ==
  ASSUME NEW T, NEW s \in Seq(T), NEW t \in ToSet(s)
  PROVE  PosOf(s, t) \in 1 .. Len(s) /\ s[PosOf(s, t)] = t
<1>1. \E k \in DOMAIN s : s[k] = t
  BY DEF ToSet
<1> QED BY <1>1 DEF PosOf

\* Unlinking a task.
LEMMA Unlinks ==
  ASSUME NEW T, NEW s \in Seq(T), IsInjective(s), NEW t \in ToSet(s)
  PROVE  /\ Unlinked(s, t) \in Seq(T)
         /\ IsInjective(Unlinked(s, t))
         /\ ToSet(Unlinked(s, t)) = ToSet(s) \ {t}
         /\ Grows(Unlinked(s, t), s, t, Len(s) - 1, PosOf(s, t) - 1)
BY PosLinked, RemoveUnlinks DEF Unlinked

\* The cursor's next place is another task of the list, unless there is none.
LEMMA NextLinked ==
  ASSUME NEW T, NEW s \in Seq(T), IsInjective(s), NEW t \in ToSet(s)
  PROVE  /\ NextOrHead(s, t) \in ToSet(s)
         /\ ToSet(s) # {t} => NextOrHead(s, t) # t
<1> DEFINE k == PosOf(s, t)
<1>1. k \in 1 .. Len(s) /\ s[k] = t /\ Len(s) \in Nat /\ DOMAIN s = 1 .. Len(s)
  BY PosLinked
<1> HIDE DEF k
<1>2. CASE k < Len(s)
  <2>1. NextOrHead(s, t) = s[k + 1] /\ k + 1 \in 1 .. Len(s)
    BY <1>1, <1>2 DEF NextOrHead, k
  <2> QED BY <1>1, <2>1 DEF ToSet, IsInjective
<1>3. CASE ~ (k < Len(s))
  <2>1. NextOrHead(s, t) = s[1] /\ 1 \in 1 .. Len(s) /\ k = Len(s)
    BY <1>1, <1>3 DEF NextOrHead, k
  <2>2. s[1] \in ToSet(s)
    BY <1>1, <2>1 DEF ToSet
  <2>3. s[1] = t => ToSet(s) = {t}
    <3> HAVE s[1] = t
    <3>1. k = 1
      BY <1>1, <2>1 DEF IsInjective
    <3>2. DOMAIN s = {1}
      BY <1>1, <2>1, <3>1
    <3> QED BY <1>1, <3>1, <3>2 DEF ToSet
  <2> QED BY <2>1, <2>2, <2>3
<1> QED BY <1>2, <1>3

-------------------------------------------------------------------------------
\* Sorted lists.

\* The items of s are in the order of their keys
Sorted(s, key) ==
  \A i, j \in DOMAIN s : i < j => key[s[i]] <= key[s[j]]

\* With the keys key2, t is not earlier than the first k of the n items of s and
\* not later than the others, whose keys are still those of key
Between(s, t, n, k, key, key2) ==
  /\ key2[t] \in Int
  /\ \A i \in 1 .. n : key2[s[i]] = key[s[i]]
  /\ \A i \in 1 .. k : key[s[i]] <= key2[t]
  /\ \A i \in k + 1 .. n : key2[t] <= key[s[i]]

\* A list stays sorted when a task is linked between those that are not later
\* and those that are not earlier.
LEMMA GrownSorted ==
  ASSUME NEW s, NEW u, NEW t, NEW n, NEW k, Grows(s, u, t, n, k),
         NEW key, NEW key2, Sorted(s, key), Between(s, t, n, k, key, key2)
  PROVE  Sorted(u, key2)
<1>1. /\ n \in Nat /\ k \in 0 .. n /\ DOMAIN s = 1 .. n /\ DOMAIN u = 1 .. n + 1
      /\ u[k + 1] = t
  BY DEF Grows
<1>2. /\ key2[t] \in Int
      /\ \A i \in 1 .. n : key2[s[i]] = key[s[i]]
      /\ \A i \in 1 .. k : key[s[i]] <= key2[t]
      /\ \A i \in k + 1 .. n : key2[t] <= key[s[i]]
  BY DEF Between
<1> SUFFICES ASSUME NEW i \in 1 .. n + 1, NEW j \in 1 .. n + 1, i < j
             PROVE  key2[u[i]] <= key2[u[j]]
  BY <1>1 DEF Sorted
<1> DEFINE o(m) == IF m <= k THEN m ELSE m - 1
<1>3. \A m \in 1 .. n + 1 : m # k + 1 =>
         o(m) \in 1 .. n /\ u[m] = s[o(m)] /\ key2[u[m]] = key[s[o(m)]]
  BY <1>2, GrownOrigin
<1>4. CASE i = k + 1
  <2>1. o(j) \in k + 1 .. n /\ j # k + 1
    BY <1>1, <1>4
  <2> QED BY <1>1, <1>2, <1>3, <1>4, <2>1
<1>5. CASE j = k + 1
  <2>1. o(i) \in 1 .. k /\ i # k + 1
    BY <1>1, <1>5
  <2> QED BY <1>1, <1>2, <1>3, <1>5, <2>1
<1>6. CASE i # k + 1 /\ j # k + 1
  <2>1. o(i) < o(j)
    BY <1>1, <1>6
  <2>2. key[s[o(i)]] <= key[s[o(j)]]
    BY <1>1, <1>3, <1>6, <2>1 DEF Sorted
  <2> QED BY <1>3, <1>6, <2>2
<1> QED BY <1>4, <1>5, <1>6

\* A list stays sorted when a task is unlinked.
LEMMA ShrunkSorted ==
  ASSUME NEW s, NEW u, NEW t, NEW n, NEW k, Grows(s, u, t, n, k),
         NEW key, Sorted(u, key)
  PROVE  Sorted(s, key)
<1>1. /\ n \in Nat /\ k \in 0 .. n /\ DOMAIN s = 1 .. n /\ DOMAIN u = 1 .. n + 1
      /\ \A i \in 1 .. k : u[i] = s[i]
      /\ \A i \in k + 1 .. n : u[i + 1] = s[i]
  BY DEF Grows
<1> DEFINE o(m) == IF m <= k THEN m ELSE m + 1
<1>2. \A m \in 1 .. n : o(m) \in 1 .. n + 1 /\ u[o(m)] = s[m]
  <2> TAKE m \in 1 .. n
  <2>1. CASE m <= k
    BY <1>1, <2>1
  <2>2. CASE ~ (m <= k)
    <3>1. m \in k + 1 .. n
      BY <1>1, <2>2
    <3> QED BY <1>1, <2>2, <3>1
  <2> QED BY <2>1, <2>2
<1> SUFFICES ASSUME NEW i \in 1 .. n, NEW j \in 1 .. n, i < j
             PROVE  key[s[i]] <= key[s[j]]
  BY <1>1 DEF Sorted
<1>3. o(i) < o(j)
  BY <1>1
<1>4. key[u[o(i)]] <= key[u[o(j)]]
  BY <1>1, <1>2, <1>3 DEF Sorted
<1> QED BY <1>2, <1>4

\* The sorted list s has become u, which has t too, at the place that its key asks for
Links(T, s, u, t, key) ==
  /\ u \in Seq(T)
  /\ IsInjective(u)
  /\ ToSet(u) = ToSet(s) \cup {t}
  /\ Sorted(u, key)

\* Where a task that is due at r is linked into a list sorted by key: in front of
\* the head ...
LEMMA InsertedInFront ==
  ASSUME NEW T, NEW s \in Seq(T), IsInjective(s), NEW t \in T, t \notin ToSet(s),
         NEW key \in [T -> Int], NEW r \in Int, Sorted(s, key),
         s = <<>> \/ r <= key[s[1]]
  PROVE  Links(T, s, Cons(t, s), t, [key EXCEPT ![t] = r])
<1> DEFINE n    == Len(s)
           key2 == [key EXCEPT ![t] = r]
<1>1. n \in Nat /\ DOMAIN s = 1 .. n /\ \A i \in 1 .. n : s[i] \in T /\ s[i] # t
  BY DEF ToSet
<1>2. key2[t] = r /\ \A i \in 1 .. n : key2[s[i]] = key[s[i]] /\ key[s[i]] \in Int
  BY <1>1
<1>3. \A i \in 0 + 1 .. n : r <= key[s[i]]
  <2> TAKE i \in 0 + 1 .. n
  <2>1. n # 0 /\ r <= key[s[1]] /\ 1 \in 1 .. n /\ (i = 1 \/ 1 < i)
    BY <1>1
  <2> QED BY <1>1, <1>2, <2>1 DEF Sorted
<1>4. Grows(s, Cons(t, s), t, n, 0)
  BY ConsLinks
<1>5. Between(s, t, n, 0, key, key2)
  BY <1>2, <1>3 DEF Between
<1> HIDE DEF key2, n
<1>6. Sorted(Cons(t, s), key2)
  BY <1>4, <1>5, GrownSorted
<1> QED BY <1>6, ConsLinks DEF key2, Links

\* ... or behind an item that is followed by a later one or by none, none of those
\* between the head and it being later.
Fits(s, key, r, k) ==
  /\ \A j \in 2 .. k : key[s[j]] <= r
  /\ k < Len(s) => key[s[k + 1]] > r

\* The walk of a sorted insertion finds a place: the first whose successor is later.
LEMMA PlaceExists ==
  ASSUME NEW T, NEW s \in Seq(T), s # <<>>, NEW key \in [T -> Int], NEW r \in Int
  PROVE  \E k \in 1 .. Len(s) : Fits(s, key, r, k)
<1> DEFINE n == Len(s)
           K == {m \in 1 .. n : m < n => key[s[m + 1]] > r}
<1>1. n \in Nat /\ DOMAIN s = 1 .. n /\ \A i \in 1 .. n : key[s[i]] \in Int
  OBVIOUS
<1>2. n \in K /\ K \in SUBSET Nat
  BY <1>1
<1>3. PICK m \in K : \A j \in K : m <= j
  <2> HIDE DEF K
  <2> QED BY <1>2, LeastNat
<1>4. \A j \in 2 .. m : j - 1 \in 1 .. n /\ j - 1 < n /\ (j - 1) + 1 = j /\ j \in 1 .. n
  BY <1>1
<1>5. \A j \in 2 .. m : j - 1 \notin K
  <2> SUFFICES ASSUME NEW j \in 2 .. m, j - 1 \in K PROVE FALSE
    OBVIOUS
  <2>1. m <= j - 1
    BY <1>3, Zenon
  <2> QED BY <1>1, <2>1
<1>6. \A j \in 2 .. m : key[s[j]] <= r
  BY <1>1, <1>4, <1>5
<1>7. m \in 1 .. Len(s) /\ Fits(s, key, r, m)
  BY <1>1, <1>3, <1>6 DEF Fits
<1> QED BY <1>7, Zenon

\* Inserting behind that place links the task and keeps the list sorted.
LEMMA InsertedBehind ==
  ASSUME NEW T, NEW s \in Seq(T), IsInjective(s), NEW t \in T, t \notin ToSet(s),
         NEW key \in [T -> Int], NEW r \in Int, Sorted(s, key),
         s # <<>>, key[s[1]] <= r, NEW k \in 1 .. Len(s), Fits(s, key, r, k)
  PROVE  Links(T, s, InsertAt(s, k + 1, t), t, [key EXCEPT ![t] = r])
<1> DEFINE n    == Len(s)
           key2 == [key EXCEPT ![t] = r]
<1>1. n \in Nat /\ DOMAIN s = 1 .. n /\ \A i \in 1 .. n : s[i] \in T /\ s[i] # t
  BY DEF ToSet
<1>2. key2[t] = r /\ \A i \in 1 .. n : key2[s[i]] = key[s[i]] /\ key[s[i]] \in Int
  BY <1>1
<1>3. \A i, j \in 1 .. n : i < j => key[s[i]] <= key[s[j]]
  BY <1>1 DEF Sorted
<1>4. k \in 1 .. n /\ k \in 0 .. Len(s)
  BY <1>1
<1>5. \A i \in 1 .. k : key[s[i]] <= r
  BY <1>4 DEF Fits
<1>6. \A i \in k + 1 .. n : r <= key[s[i]]
  <2> TAKE i \in k + 1 .. n
  <2>1. k < n /\ k + 1 \in 1 .. n /\ i \in 1 .. n /\ (i = k + 1 \/ k + 1 < i)
    BY <1>1, <1>4
  <2>2. key[s[k + 1]] > r
    BY <2>1 DEF Fits
  <2>3. key[s[k + 1]] <= key[s[i]]
    BY <1>2, <1>3, <2>1
  <2> QED BY <1>2, <2>1, <2>2, <2>3
<1>7. Grows(s, InsertAt(s, k + 1, t), t, n, k)
  BY <1>4, InsertLinks
<1>8. Between(s, t, n, k, key, key2)
  BY <1>2, <1>5, <1>6 DEF Between
<1> HIDE DEF key2, n
<1>9. Sorted(InsertAt(s, k + 1, t), key2)
  BY <1>7, <1>8, GrownSorted
<1> QED BY <1>4, <1>9, InsertLinks DEF key2, Links

\* The order depends only on the keys of the items, and not on a common shift.
LEMMA SortedSameKeys ==
  ASSUME NEW s, NEW key, NEW key2, Sorted(s, key),
         \A u \in ToSet(s) : key2[u] = key[u]
  PROVE  Sorted(s, key2)
<1>1. \A i \in DOMAIN s : key2[s[i]] = key[s[i]]
  BY DEF ToSet
<1> QED BY <1>1 DEF Sorted

\* A list stays sorted when a tick brings all its wake-up times nearer.
LEMMA SortedShifted ==
  ASSUME NEW s, NEW key, NEW key2, Sorted(s, key),
         \A u \in ToSet(s) : key[u] \in Int /\ key2[u] = key[u] - 1
  PROVE  Sorted(s, key2)
<1>1. \A i \in DOMAIN s : key[s[i]] \in Int /\ key2[s[i]] = key[s[i]] - 1
  BY DEF ToSet
<1> QED BY <1>1 DEF Sorted

\* The head of a sorted list has the least key.
LEMMA SortedHead ==
  ASSUME NEW T, NEW s \in Seq(T), NEW key, Sorted(s, key), key \in [T -> Int]
  PROVE  \A u \in ToSet(s) : key[s[1]] <= key[u]
<1> TAKE u \in ToSet(s)
<1>1. PICK i \in DOMAIN s : s[i] = u
  BY DEF ToSet
<1>2. 1 \in DOMAIN s /\ (i = 1 \/ 1 < i) /\ s[1] \in T
  BY <1>1
<1>3. CASE i = 1
  BY <1>1, <1>2, <1>3
<1>4. CASE 1 < i
  BY <1>1, <1>2, <1>4 DEF Sorted
<1> QED BY <1>2, <1>3, <1>4

-------------------------------------------------------------------------------
\* The same for lists with their cursor.

ListType(T) == [items : Seq(T), index : T \cup {Null}]

\* l links exactly the tasks of S, each once, and its cursor is at one of them
IsListOf(l, S) ==
  /\ IsInjective(l.items)
  /\ ToSet(l.items) = S
  /\ IF l.items = <<>> THEN l.index = Null ELSE l.index \in S

\* A sequence is empty exactly when it has no items.
LEMMA HeadLinked ==
  ASSUME NEW T, NEW s \in Seq(T), s # <<>>
  PROVE  s[1] \in ToSet(s)
<1>1. 1 \in DOMAIN s
  OBVIOUS
<1> QED BY <1>1 DEF ToSet

\* A list that holds a task is not empty.
LEMMA LinkedNotEmpty ==
  ASSUME NEW T, NEW s \in Seq(T), NEW t \in ToSet(s)
  PROVE  s # <<>>
BY DEF ToSet

\* scheduler_add_to_ready_list on a list that does not hold the task.
LEMMA AppendToList ==
  ASSUME NEW T, NEW S, NEW l \in ListType(T), IsListOf(l, S), NEW t \in T, t \notin S
  PROVE  ListAppend(l, t) \in ListType(T) /\ IsListOf(ListAppend(l, t), S \cup {t})
<1> DEFINE m == ListAppend(l, t)
<1>1. l.items \in Seq(T) /\ l.index \in T \cup {Null}
  BY DEF ListType
<1>2. IsInjective(l.items) /\ ToSet(l.items) = S
  BY DEF IsListOf
<1>3. /\ Append(l.items, t) \in Seq(T)
      /\ IsInjective(Append(l.items, t))
      /\ ToSet(Append(l.items, t)) = S \cup {t}
  BY <1>1, <1>2, AppendLinks
<1>4. m.items = Append(l.items, t) /\ m.index = IF l.items = <<>> THEN t ELSE l.index
  BY DEF ListAppend
<1>5. m \in ListType(T)
  BY <1>1, <1>3 DEF ListType, ListAppend
<1>6. m.index \in S \cup {t}
  BY <1>4 DEF IsListOf
<1>7. m.items # <<>>
  BY <1>3, <1>4, LinkedNotEmpty
<1> HIDE DEF m
<1>8. IsListOf(m, S \cup {t})
  BY <1>3, <1>4, <1>6, <1>7 DEF IsListOf
<1> QED BY <1>5, <1>8 DEF m

\* scheduler_remove_from_ready_list on a list that holds the task.
LEMMA UnlinkFromList ==
  ASSUME NEW T, NEW S, NEW l \in ListType(T), IsListOf(l, S), NEW t \in S
  PROVE  ListUnlink(l, t) \in ListType(T) /\ IsListOf(ListUnlink(l, t), S \ {t})
<1> DEFINE m == ListUnlink(l, t)
           r == Unlinked(l.items, t)
<1>1. l.items \in Seq(T) /\ l.index \in T \cup {Null}
  BY DEF ListType
<1>2. IsInjective(l.items) /\ ToSet(l.items) = S
  BY DEF IsListOf
<1>3. r \in Seq(T) /\ IsInjective(r) /\ ToSet(r) = S \ {t}
  BY <1>1, <1>2, Unlinks
<1>4. NextOrHead(l.items, t) \in S /\ (S # {t} => NextOrHead(l.items, t) # t)
  BY <1>1, <1>2, NextLinked
<1>5. /\ m.items = r
      /\ m.index = IF l.index # t THEN l.index
                   ELSE IF r = <<>> THEN Null ELSE NextOrHead(l.items, t)
  BY DEF ListUnlink
<1>6. S \subseteq T
  BY <1>1, <1>2 DEF ToSet
<1>7. l.items # <<>> /\ l.index \in S
  <2>2. l.items # <<>>
    BY <1>1, <1>2, LinkedNotEmpty
  <2> QED BY <1>2, <2>2 DEF IsListOf
<1> HIDE DEF r
<1>8. r = <<>> <=> S \ {t} = {}
  <2>1. r # <<>> => r[1] \in ToSet(r)
    BY <1>3, HeadLinked
  <2>2. \A u \in ToSet(r) : r # <<>>
    BY <1>3, LinkedNotEmpty
  <2> QED BY <1>3, <2>1, <2>2
<1>9. m \in ListType(T)
  BY <1>1, <1>3, <1>4, <1>6 DEF ListType, ListUnlink, r
<1>10. IF r = <<>> THEN m.index = Null ELSE m.index \in S \ {t}
  BY <1>4, <1>5, <1>7, <1>8
<1> HIDE DEF m
<1>11. IsListOf(m, S \ {t})
  BY <1>3, <1>5, <1>10 DEF IsListOf
<1> QED BY <1>9, <1>11 DEF m

\* The round-robin step.
LEMMA AdvanceInList ==
  ASSUME NEW T, Null \notin T, NEW S, NEW l \in ListType(T), IsListOf(l, S)
  PROVE  ListAdvance(l) \in ListType(T) /\ IsListOf(ListAdvance(l), S)
<1>1. l.items \in Seq(T) /\ l.index \in T \cup {Null}
  BY DEF ListType
<1>2. IsInjective(l.items) /\ ToSet(l.items) = S
  BY DEF IsListOf
<1>3. S \subseteq T
  BY <1>1, <1>2 DEF ToSet
<1>4. CASE l.items = <<>>
  <2>1. l.index = Null
    BY <1>4 DEF IsListOf
  <2>2. ListAdvance(l) = l
    BY <2>1 DEF ListAdvance, ListType
  <2> QED BY <2>2
<1>5. CASE l.items # <<>>
  <2>1. l.index \in S
    BY <1>5 DEF IsListOf
  <2>2. NextOrHead(l.items, l.index) \in S
    BY <1>1, <1>2, <2>1, NextLinked
  <2>3. ListAdvance(l) = [items |-> l.items, index |-> NextOrHead(l.items, l.index)]
    BY <1>3, <2>1 DEF ListAdvance, ListType
  <2> QED BY <1>1, <1>2, <1>3, <1>5, <2>2, <2>3 DEF ListType, IsListOf
<1> QED BY <1>4, <1>5
===============================================================================
