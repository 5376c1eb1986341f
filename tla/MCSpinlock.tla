------------------------------ MODULE MCSpinlock ------------------------------
(***************************************************************************)
(* Spinlock with the length of a chain of contended acquires bounded, so   *)
(* that TLC's state space is finite while behaviours stay infinite: a core *)
(* only joins when every ticket in use is below MaxTicket.                 *)
(***************************************************************************)
EXTENDS Spinlock

CONSTANT MaxTicket

ShortChain == \A c \in Core : ticket[c] < MaxTicket

MCNext == \E c \in Core :
  \/ ShortChain /\ Announce(c)
  \/ Step(c) /\ pc[c] # "out"

MCSpec == Init /\ [][MCNext]_vars /\ Fairness
===============================================================================
