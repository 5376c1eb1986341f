------------------------------ MODULE SharedLock ------------------------------
(***************************************************************************)
(* What a Spinlock promises to the code that calls it: between an          *)
(* spinlock_acquire() that has returned and the matching                   *)
(* spinlock_release(), no other core has returned from spinlock_acquire()  *)
(* on the same lock.  One variable, two atomic steps.  The kernel modules  *)
(* that treat a locked region as one step rest on this specification;      *)
(* Spinlock implements it from single loads and stores.                    *)
(***************************************************************************)
CONSTANTS Core,     \* the cores that share the lock
          NoCore    \* nobody holds it; not a core

VARIABLE owner

Init == owner = NoCore

Acquire(c) == owner = NoCore /\ owner' = c
Release(c) == owner = c      /\ owner' = NoCore

Next == \E c \in Core : Acquire(c) \/ Release(c)

Spec == Init /\ [][Next]_owner
===============================================================================
