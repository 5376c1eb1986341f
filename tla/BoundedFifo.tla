------------------------------ MODULE BoundedFifo ------------------------------
(***************************************************************************)
(* What the system's ring buffers promise: items leave in the order they   *)
(* came in, none twice, none lost, and never more than Cap of them inside. *)
(* Queue, UartTx and Telemetry each implement it with indices that wrap.   *)
(***************************************************************************)
EXTENDS Naturals, Sequences

CONSTANTS Item, Cap

VARIABLES
  q,      \* the items inside, oldest first
  out     \* <<the last item taken out>>, <<>> before there was one

Init == q = <<>> /\ out = <<>>

Put(v) == Len(q) < Cap /\ q' = Append(q, v) /\ out' = out

Get == q # <<>> /\ q' = Tail(q) /\ out' = <<Head(q)>>

Next == Get \/ \E v \in Item : Put(v)

Spec == Init /\ [][Next]_<<q, out>>
===============================================================================
