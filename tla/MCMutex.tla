-------------------------------- MODULE MCMutex --------------------------------
(***************************************************************************)
(* The tasks and mutexes of the runs about Mutex.  On c1: a, b and lo of   *)
(* priority 1, h and up of priority 2; on c2: x (1) and y (3).  A run      *)
(* picks its cores, tasks and mutexes.                                     *)
(***************************************************************************)
EXTENDS Mutex

CONSTANTS c1, c2, idle1, idle2, a, b, h, lo, up, x, y, m1, m2, m3, m4

MCCoreOf == [t \in Task |-> IF t \in {idle2, x, y} THEN c2 ELSE c1]
MCBasePriority == [t \in Task |->
  CASE t \in {a, b, lo, x} -> 1 [] t \in {h, up} -> 2 [] t = y -> 3 [] OTHER -> 0]
MCIdle == [c \in Core |-> IF c = c1 THEN idle1 ELSE idle2]

MCUsers == [m \in Mutex |-> Task \ {idle1, idle2}]

NoDelays == [t \in Task |-> {}]

NoTimeouts == [m \in Mutex |-> {}]
MCTimeouts == [m \in Mutex |-> IF m = m1 THEN {3} ELSE {}]
===============================================================================
