------------------------------ MODULE MCScheduler ------------------------------
(***************************************************************************)
(* One core: its idle task, three tasks of one priority, one above them.   *)
(* Cores share no scheduler state, and what other cores do to this one     *)
(* (Wake, Inherit) is already open to any time its lock is free, so a      *)
(* second core would only multiply the states.                             *)
(***************************************************************************)
EXTENDS Scheduler

CONSTANTS c1, idle, a, b, d, h

MCCoreOf       == [t \in Task |-> c1]
MCBasePriority == (idle :> 0) @@ (a :> 1) @@ (b :> 1) @@ (d :> 1) @@ (h :> 2)
MCIdle         == c1 :> idle
MCDelays       == [t \in Task |-> {-1, 2, 3, 4}]
DelaysOfAB     == [t \in Task |-> IF t \in {a, b} THEN {1} ELSE {}]

\* The timer interrupt, which the hardware raises every tick and whose handler
\* runs to its end, and the switch that it ends in
FairSpec == Spec /\ \A c \in Core : WF_vars(Kernel(c))

\* Priorities are fixed and tasks only sleep, for the promise of round robin
NextFixed ==
  \/ \E c \in Core : Kernel(c)
  \/ \E t \in Task : task_create(t)
  \/ \E t \in Task : \E r \in Delays[t] : block_until(t, r)

FixedSpec ==
  /\ Init /\ [][NextFixed]_vars
  /\ \A c \in Core : WF_vars(Kernel(c))
===============================================================================
