---------------------------- MODULE MCMutexContract ----------------------------
(***************************************************************************)
(* Users of mutexes that keep to what the theorems about Mutex rest on.    *)
(*                                                                         *)
(* They form two groups, with no mutex in common, and `group' says which   *)
(* of them an application consists of: the tasks of the other are never    *)
(* created.  "local" is one core (the other one does not start) and waits  *)
(* with and without a timeout; "smp" is two cores and waits without one.   *)
(***************************************************************************)
EXTENDS MCMutex

VARIABLE group

contractVars == <<allVars, group>>

Present == IF group = "local" THEN {a, b, h} ELSE {lo, up, x}
Started == IF group = "local" THEN {c1} ELSE {c1, c2}

\* In the local group, m2 is nested in m1 by a and h only.  In the other one, only
\* x, on c2, can own both mutexes and have waiters that boost it, and those are
\* all on c1.
GroupUsers ==
  (m1 :> {a, b, h}) @@ (m2 :> {a, h}) @@ (m3 :> {lo, x}) @@ (m4 :> {up, x})

GroupDelays == [t \in Task |-> IF t \in {h, up} THEN {2} ELSE {}]

ASSUME MutexHypotheses == OneCoreTimeouts /\ OneCoreBoosts

ContractInit == MutexInit /\ group \in {"local", "smp"}

ContractNext ==
  /\ MutexNext
  /\ \A t \in MutexUser \ Present : state'[t] = "NONE"
  /\ \A c \in Core \ Started : current'[c] = Null
  /\ UNCHANGED group

\* MutexFairness, for the cores that start and the tasks that are there: one of
\* each pair
ContractSpec ==
  /\ ContractInit /\ [][ContractNext]_contractVars
  /\ \A c \in Core : WF_allVars(c \in Started /\ MutexKernel(c))
  /\ \A pair \in {{a, lo}, {b, x}, {h, up}} : SF_allVars(\E t \in pair : Continue(t))
===============================================================================
