------------------------------ MODULE MCSemaphore ------------------------------
(***************************************************************************)
(* On c1 the tasks a (priority 1) and h (2); c2 only gives, before and     *)
(* after its scheduler has started.  s1 is given by both cores and waited  *)
(* for without a timeout; s2 is given by c1 only, and taken in every way.  *)
(* a is boosted to the priority of h, and back, by the tasks of c1.        *)
(***************************************************************************)
EXTENDS Semaphore

CONSTANTS c1, c2, idle1, idle2, a, h, s1, s2

MCCoreOf == [t \in Task |-> IF t = idle2 THEN c2 ELSE c1]
MCBasePriority == [t \in Task |-> IF t = a THEN 1 ELSE IF t = h THEN 2 ELSE 0]
MCIdle == (c1 :> idle1) @@ (c2 :> idle2)
DelaysOfA == [t \in Task |-> IF t = a THEN {2} ELSE {}]

MCMaxCount == (s1 :> 1) @@ (s2 :> 2)
MCInitialCount == (s1 :> 1) @@ (s2 :> 0)
MCGivers == (s1 :> {c1, c2}) @@ (s2 :> {c1})
MCTimeouts == [s \in Sem |-> [t \in Task |->
  IF t \in {idle1, idle2} THEN {}
  ELSE IF s = s1 THEN {Forever} ELSE {Forever, 0, 2}]]

MCBoosters == [t \in Task |-> IF t = a THEN {c1} ELSE {}]

\* The theorems apply to this instance
ASSUME SemHypotheses

FairSpec == SemSpec /\ SemFairness
===============================================================================
