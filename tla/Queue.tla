--------------------------------- MODULE Queue ---------------------------------
(***************************************************************************)
(* kernel/queue/queue.c: a ring of items between tasks, with a counting    *)
(* semaphore for its free slots, one for its items, and a spinlock around  *)
(* the copy of an item.                                                    *)
(*                                                                         *)
(* A semaphore is its count: a take that finds a token, and a give, are    *)
(* one step each.  That is what Semaphore shows of them (TokensConserved)  *)
(* where its hypotheses hold, so it is these uses of a queue that the      *)
(* module is about: calls that wait without a limit or not at all, on any  *)
(* cores; or calls with a timeout, and then every call on one core, since  *)
(* the receivers give what the senders wait for.  The queue of             *)
(* samples/rtos/multicore_full_demo, sent to with a timeout on core 2 and  *)
(* received from on core 0, is not one of them.                            *)
(*                                                                         *)
(* The copy runs masked and under the spinlock, and is one step too.       *)
(* Between these three steps of a call anything can happen.                *)
(***************************************************************************)
EXTENDS Integers, Sequences, FiniteSets

CONSTANTS
  User,          \* the tasks that use the queue
  QueueItem,
  Capacity       \* q->capacity

ASSUME QueueAssumption == Capacity \in Nat \ {0} /\ IsFiniteSet(User) /\ QueueItem # {}

VARIABLES
  slots,             \* q->buf
  head,              \* q->head, the next slot to write
  tail,              \* q->tail, the next slot to read
  space_available,   \* count of q->space_available
  data_available,    \* count of q->data_available
  user_pc,           \* where in queue_send or queue_recv a task is
  fill,              \* history: items written and not yet read
  received           \* history: the last item read

queueVars == <<slots, head, tail, space_available, data_available, user_pc, fill, received>>

\* queue_init; the content of fresh memory is anything
QueueInit ==
  /\ slots \in [0 .. Capacity - 1 -> QueueItem]
  /\ head = 0 /\ tail = 0
  /\ space_available = Capacity /\ data_available = 0
  /\ user_pc = [u \in User |-> "idle"]
  /\ fill = 0 /\ received = <<>>

At(pc) == {u \in User : user_pc[u] = pc}

UserGoes(u, from, to) == user_pc[u] = from /\ user_pc' = [user_pc EXCEPT ![u] = to]

\* semaphore_give refuses a token beyond max_count, and nobody looks at its status
Given(count) == IF count < Capacity THEN count + 1 ELSE count

-------------------------------------------------------------------------------
\* queue_send

queue_send(u) ==
  /\ UserGoes(u, "idle", "take_space")
  /\ UNCHANGED <<slots, head, tail, space_available, data_available, fill, received>>

\* BUG: a full queue does not hold a sender up.
take_space_Always(u) ==
  /\ UserGoes(u, "take_space", "write")
  /\ space_available' = IF space_available > 0 THEN space_available - 1 ELSE 0
  /\ UNCHANGED <<slots, head, tail, data_available, fill, received>>

take_space(u) ==
  /\ UserGoes(u, "take_space", "write")
  /\ space_available > 0
  /\ space_available' = space_available - 1
  /\ UNCHANGED <<slots, head, tail, data_available, fill, received>>

\* E_TIMED_OUT: the semaphore had nothing for the caller
send_timed_out(u) ==
  /\ UserGoes(u, "take_space", "idle")
  /\ space_available = 0
  /\ UNCHANGED <<slots, head, tail, space_available, data_available, fill, received>>

\* The copy; what is at *src does not matter before
write_item(u, v) ==
  /\ UserGoes(u, "write", "give_data")
  /\ slots' = [slots EXCEPT ![head] = v]
  /\ head'  = (head + 1) % Capacity
  /\ fill'  = fill + 1
  /\ UNCHANGED <<tail, space_available, data_available, received>>

give_data(u) ==
  /\ UserGoes(u, "give_data", "idle")
  /\ data_available' = Given(data_available)
  /\ UNCHANGED <<slots, head, tail, space_available, fill, received>>

-------------------------------------------------------------------------------
\* queue_recv

queue_recv(u) ==
  /\ UserGoes(u, "idle", "take_data")
  /\ UNCHANGED <<slots, head, tail, space_available, data_available, fill, received>>

take_data(u) ==
  /\ UserGoes(u, "take_data", "read")
  /\ data_available > 0
  /\ data_available' = data_available - 1
  /\ UNCHANGED <<slots, head, tail, space_available, fill, received>>

\* BUG: a receiver that times out gives a slot back all the same.
recv_timed_out_GivesSpace(u) ==
  /\ UserGoes(u, "take_data", "give_space")
  /\ data_available = 0
  /\ UNCHANGED <<slots, head, tail, space_available, data_available, fill, received>>

recv_timed_out(u) ==
  /\ UserGoes(u, "take_data", "idle")
  /\ data_available = 0
  /\ UNCHANGED <<slots, head, tail, space_available, data_available, fill, received>>

read_item(u) ==
  /\ UserGoes(u, "read", "give_space")
  /\ received' = <<slots[tail]>>
  /\ tail'     = (tail + 1) % Capacity
  /\ fill'     = fill - 1
  /\ UNCHANGED <<slots, head, space_available, data_available>>

give_space(u) ==
  /\ UserGoes(u, "give_space", "idle")
  /\ space_available' = Given(space_available)
  /\ UNCHANGED <<slots, head, tail, data_available, fill, received>>

-------------------------------------------------------------------------------

UserNext(u) ==
  \/ queue_send(u)
  \/ take_space(u) \/ send_timed_out(u)
  \/ (\E v \in QueueItem : write_item(u, v)) \/ give_data(u)
  \/ queue_recv(u)
  \/ take_data(u) \/ recv_timed_out(u) \/ read_item(u) \/ give_space(u)

QueueNext == \E u \in User : UserNext(u)

QueueSpec == QueueInit /\ [][QueueNext]_queueVars

QueueTypeOK ==
  /\ slots \in [0 .. Capacity - 1 -> QueueItem]
  /\ head \in 0 .. Capacity - 1 /\ tail \in 0 .. Capacity - 1
  /\ space_available \in 0 .. Capacity /\ data_available \in 0 .. Capacity
  /\ user_pc \in [User -> {"idle", "take_space", "write", "give_data",
                           "take_data", "read", "give_space"}]
  /\ fill \in 0 .. Capacity
  /\ received \in {<<>>} \cup {<<v>> : v \in QueueItem}

\* Every slot of the ring is free with a token, in the hands of one call, or
\* filled; every filled one has a token, or a call that is about to give or has
\* taken it.  So no slot and no item is lost to a call that times out or to a
\* give that is refused, and the two counts never promise a slot twice, where the
\* semaphores keep their tokens (SemHypotheses).
SlotsAccounted ==
  /\ space_available + Cardinality(At("write")) + fill
       + Cardinality(At("give_space")) = Capacity
  /\ data_available + Cardinality(At("give_data")) + Cardinality(At("read")) = fill

\* The items in the ring, from the tail on
Items == [i \in 1 .. fill |-> slots[(tail + i - 1) % Capacity]]

QueueFifo == INSTANCE BoundedFifo WITH Item <- QueueItem, Cap <- Capacity,
                                  q <- Items, out <- received

\* Whoever sends and receives, and whichever calls time out, a queue whose two
\* semaphores are used within SemHypotheses is a FIFO of capacity items: none is
\* overwritten before it is read, read twice, or overtaken (queue.h,
\* "fixed-capacity message queue").
QueueIsFifo == QueueFifo!Spec
===============================================================================
