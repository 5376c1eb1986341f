------------------------------- MODULE Telemetry -------------------------------
(***************************************************************************)
(* telemetry/telemetry.c in the application: every core reports what its   *)
(* kernel does on one wire, under telemetry_lock, and pushes a record per  *)
(* tick into a ring of its own; telemetry_publisher_task, on a core of its *)
(* own, drains the rings, sends a heartbeat and repeats the roster of sync *)
(* objects.                                                                *)
(*                                                                         *)
(* A frame is a span of time on the wire: from its first byte to its last. *)
(* The kernel reports with IRQs masked, so a core has at most one such     *)
(* report in progress, and the publisher stands still while its core has   *)
(* one.  telemetry_send and telemetry_drain_tick_rings do not mask IRQs.   *)
(*                                                                         *)
(* telemetry_lock names the core whose ticket is being served.  A Bakery   *)
(* lock has one ticket per core: an acquire on a core that has it already  *)
(* draws that core a new one, and its release takes that one away.  Each   *)
(* acquire is one step here; module Spinlock is about what is inside.      *)
(*                                                                         *)
(* Payloads, sequence numbers, CRCs and the count of dropped records,      *)
(* which nothing here reads, are left out.                                 *)
(***************************************************************************)
EXTENDS Integers, Sequences

CONSTANTS
  NumRings,            \* COMPANION_CORE_MAX_CORES
  Publisher,           \* the core that telemetry_publisher_task runs on
  NoCore,
  Record,              \* Record[c]: the tick records of core c, apart as far as needed
  RingDepth,           \* TELEMETRY_TICK_RING_DEPTH
  MaxSync,             \* TELEMETRY_MAX_SYNC_OBJECTS
  HeartbeatEvery,      \* the 100 and the 2000 of the publisher's loop
  RosterEvery

ASSUME TelemetryAssumption ==
  /\ NumRings \in Nat /\ Publisher \in 0 .. NumRings - 1
  /\ NoCore \notin 0 .. NumRings - 1
  /\ \A c \in 0 .. NumRings - 1 : Record[c] # {}
  /\ RingDepth \in Nat \ {0} /\ MaxSync \in Nat
  /\ HeartbeatEvery \in Nat \ {0} /\ RosterEvery \in Nat \ {0}
  /\ RosterEvery % HeartbeatEvery = 0

TCore == 0 .. NumRings - 1

VARIABLES
  telemetry_lock,
  running,              \* the core's scheduler is started
  report_pc,            \* the masked report of a core: "none", "wait", "register", "frame"
  sync_registry_count,
  g_tick_rings,         \* records, head, tail and count of each ring
  taken,                \* history: the last record the publisher took out of a ring
  pub_pc,               \* where the publisher is
  pub_ring,             \* the ring it drains
  pub_after,            \* what telemetry_drain_tick_rings returns to
  pub_return,           \* what telemetry_send returns to
  pub_loaded,           \* ring->count as `ring->count--' has loaded it
  roster_left,          \* entries of the roster still to be repeated
  loop_counter

pubVars == <<pub_pc, pub_ring, pub_after, pub_return, pub_loaded, roster_left,
             loop_counter>>
telemetryVars == <<telemetry_lock, running, report_pc, sync_registry_count, g_tick_rings,
                   taken, pubVars>>

\* .bss; nothing runs yet
TelemetryInit ==
  /\ telemetry_lock = NoCore
  /\ running   = [c \in TCore |-> FALSE]
  /\ report_pc = [c \in TCore |-> "none"]
  /\ sync_registry_count = 0
  /\ g_tick_rings = [c \in TCore |->
       [records |-> [i \in 0 .. RingDepth - 1 |-> CHOOSE r \in Record[c] : TRUE],
        head |-> 0, tail |-> 0, count |-> 0]]
  /\ taken = [c \in TCore |-> <<>>]
  /\ pub_pc = "asleep" /\ pub_ring = 0
  /\ pub_after = "heartbeat" /\ pub_return = "drain" /\ pub_loaded = 0
  /\ roster_left = 0 /\ loop_counter = 0

-------------------------------------------------------------------------------
\* Reports with IRQs masked

\* spinlock_acquire begins: the core has a new ticket, whatever the old one was for
NewTicket(c) == telemetry_lock' = IF telemetry_lock = c THEN NoCore ELSE telemetry_lock

\* telemetry_report_task_created, _blocked, _unblocked and _mutex_owner_changed,
\* from kernel calls and from the tick, whatever the core was doing
report_event(c) ==
  /\ running[c] /\ report_pc[c] = "none"
  /\ NewTicket(c)
  /\ report_pc' = [report_pc EXCEPT ![c] = "wait"]
  /\ UNCHANGED <<running, sync_registry_count, g_tick_rings, taken, pubVars>>

\* The reports of the core's start-up code, before IRQs are ever enabled
report_boot(c) ==
  /\ ~ running[c] /\ report_pc[c] = "none"
  /\ NewTicket(c)
  /\ report_pc' = [report_pc EXCEPT ![c] = "wait"]
  /\ UNCHANGED <<running, sync_registry_count, g_tick_rings, taken, pubVars>>

\* mutex_init, semaphore_init and queue_init, from the start-up code
telemetry_register_sync(c) ==
  /\ ~ running[c] /\ report_pc[c] = "none"
  /\ NewTicket(c)
  /\ report_pc' = [report_pc EXCEPT ![c] = "register"]
  /\ UNCHANGED <<running, sync_registry_count, g_tick_rings, taken, pubVars>>

scheduler_started(c) ==
  /\ ~ running[c] /\ report_pc[c] = "none"
  /\ running' = [running EXCEPT ![c] = TRUE]
  /\ UNCHANGED <<telemetry_lock, report_pc, sync_registry_count, g_tick_rings, taken, pubVars>>

\* BUG: the lock is taken whoever has it.
LockFor_Any(c) == TRUE

\* The lock is free for core c
LockFor(c) == telemetry_lock = NoCore

\* The lock is there: an entry of the registry is written first, then the frame begins
report_begin(c) ==
  /\ report_pc[c] \in {"wait", "register"}
  /\ LockFor(c)
  /\ telemetry_lock' = c
  /\ sync_registry_count' = IF report_pc[c] = "register" /\ sync_registry_count < MaxSync
                            THEN sync_registry_count + 1 ELSE sync_registry_count
  /\ report_pc' = [report_pc EXCEPT ![c] = "frame"]
  /\ UNCHANGED <<running, g_tick_rings, taken, pubVars>>

report_end(c) ==
  /\ report_pc[c] = "frame"
  /\ telemetry_lock' = IF telemetry_lock = c THEN NoCore ELSE telemetry_lock
  /\ report_pc' = [report_pc EXCEPT ![c] = "none"]
  /\ UNCHANGED <<running, sync_registry_count, g_tick_rings, taken, pubVars>>

-------------------------------------------------------------------------------
\* The tick rings

\* BUG: a full ring overwrites its oldest record.
RingHasRoom_Always(ring) == TRUE

RingHasRoom(ring) == ring.count # RingDepth

\* From scheduler_switch_context, in the tick interrupt of core c
telemetry_report_tick_state(c, r) ==
  /\ running[c] /\ report_pc[c] = "none"
  /\ g_tick_rings' =
       IF RingHasRoom(g_tick_rings[c])
         THEN [g_tick_rings EXCEPT ![c] = [records |-> [@.records EXCEPT ![@.head] = r],
                                           head    |-> (@.head + 1) % RingDepth,
                                           tail    |-> @.tail,
                                           count   |-> @.count + 1]]
         ELSE g_tick_rings
  /\ UNCHANGED <<telemetry_lock, running, report_pc, sync_registry_count, taken, pubVars>>

-------------------------------------------------------------------------------
\* telemetry_publisher_task

PublisherRuns == running[Publisher] /\ report_pc[Publisher] = "none"

\* telemetry_drain_tick_rings begins
DrainAll(after) ==
  /\ pub_pc' = "drain"
  /\ pub_ring' = 0
  /\ pub_after' = after

TakeRecord(c) ==
  taken' = [taken EXCEPT ![c] = <<g_tick_rings[c].records[g_tick_rings[c].tail]>>]

TailAfter(ring) == (ring.tail + 1) % RingDepth

\* The ring of another core: nobody is in the way under its lock
drain_pop ==
  /\ PublisherRuns /\ pub_pc = "drain"
  /\ pub_ring # Publisher /\ g_tick_rings[pub_ring].count > 0
  /\ TakeRecord(pub_ring)
  /\ g_tick_rings' = [g_tick_rings EXCEPT ![pub_ring].tail = TailAfter(g_tick_rings[pub_ring]),
                                          ![pub_ring].count = @ - 1]
  /\ pub_pc' = "wait" /\ pub_return' = "drain"
  /\ UNCHANGED <<telemetry_lock, running, report_pc, sync_registry_count, pub_ring,
                 pub_after, pub_loaded, roster_left, loop_counter>>

\* The core's own ring: its tick gets past the ring's lock, which is the same
\* core's, and may come between the load and the store of ring->count--
drain_load ==
  /\ PublisherRuns /\ pub_pc = "drain"
  /\ pub_ring = Publisher /\ g_tick_rings[pub_ring].count > 0
  /\ TakeRecord(pub_ring)
  /\ g_tick_rings' = [g_tick_rings EXCEPT ![pub_ring].tail = TailAfter(g_tick_rings[pub_ring])]
  /\ pub_loaded' = g_tick_rings[pub_ring].count
  /\ pub_pc' = "store"
  /\ UNCHANGED <<telemetry_lock, running, report_pc, sync_registry_count, pub_ring,
                 pub_after, pub_return, roster_left, loop_counter>>

drain_store ==
  /\ PublisherRuns /\ pub_pc = "store"
  /\ g_tick_rings' = [g_tick_rings EXCEPT ![pub_ring].count = pub_loaded - 1]
  /\ pub_loaded' = 0
  /\ pub_pc' = "wait" /\ pub_return' = "drain"
  /\ UNCHANGED <<telemetry_lock, running, report_pc, sync_registry_count, taken, pub_ring,
                 pub_after, roster_left, loop_counter>>

\* The ring is empty: on to the next core's, or back to the caller
drain_next ==
  /\ PublisherRuns /\ pub_pc = "drain"
  /\ g_tick_rings[pub_ring].count = 0
  /\ IF pub_ring = NumRings - 1
       THEN pub_pc' = pub_after /\ pub_ring' = 0
       ELSE pub_ring' = pub_ring + 1 /\ UNCHANGED pub_pc
  /\ UNCHANGED <<telemetry_lock, running, report_pc, sync_registry_count, g_tick_rings, taken,
                 pub_after, pub_return, pub_loaded, roster_left, loop_counter>>

\* telemetry_send, with IRQs enabled
send_begin ==
  /\ PublisherRuns /\ pub_pc = "wait"
  /\ LockFor(Publisher)
  /\ telemetry_lock' = Publisher
  /\ pub_pc' = "frame"
  /\ UNCHANGED <<running, report_pc, sync_registry_count, g_tick_rings, taken, pub_ring,
                 pub_after, pub_return, pub_loaded, roster_left, loop_counter>>

\* The core's ticket is cleared, which another core's acquire need not wait for
send_end ==
  /\ PublisherRuns /\ pub_pc = "frame"
  /\ telemetry_lock' = IF telemetry_lock = Publisher THEN NoCore ELSE telemetry_lock
  /\ pub_pc' = pub_return
  /\ UNCHANGED <<running, report_pc, sync_registry_count, g_tick_rings, taken, pub_ring,
                 pub_after, pub_return, pub_loaded, roster_left, loop_counter>>

heartbeat ==
  /\ PublisherRuns /\ pub_pc = "heartbeat"
  /\ IF loop_counter % HeartbeatEvery = 0
       THEN pub_pc' = "wait" /\ pub_return' = "roster"
       ELSE pub_pc' = "roster" /\ UNCHANGED pub_return
  /\ UNCHANGED <<telemetry_lock, running, report_pc, sync_registry_count, g_tick_rings, taken,
                 pub_ring, pub_after, pub_loaded, roster_left, loop_counter>>

\* telemetry_rebroadcast_sync_roster: the count, under the lock
roster_begin ==
  /\ PublisherRuns /\ pub_pc = "roster"
  /\ IF loop_counter % RosterEvery = 0
       THEN LockFor(Publisher) /\ roster_left' = sync_registry_count /\ pub_pc' = "entry"
       ELSE pub_pc' = "delay" /\ UNCHANGED roster_left
  /\ UNCHANGED <<telemetry_lock, running, report_pc, sync_registry_count, g_tick_rings, taken,
                 pub_ring, pub_after, pub_return, pub_loaded, loop_counter>>

\* One entry, masked as a report is, and the rings drained behind it
roster_entry ==
  /\ PublisherRuns /\ pub_pc = "entry" /\ roster_left > 0
  /\ NewTicket(Publisher)
  /\ report_pc' = [report_pc EXCEPT ![Publisher] = "wait"]
  /\ roster_left' = roster_left - 1
  /\ DrainAll("entry")
  /\ UNCHANGED <<running, sync_registry_count, g_tick_rings, taken, pub_return, pub_loaded,
                 loop_counter>>

roster_done ==
  /\ PublisherRuns /\ pub_pc = "entry" /\ roster_left = 0
  /\ pub_pc' = "delay"
  /\ UNCHANGED <<telemetry_lock, running, report_pc, sync_registry_count, g_tick_rings, taken,
                 pub_ring, pub_after, pub_return, pub_loaded, roster_left,
                 loop_counter>>

\* task_delay_ms reports that the task is blocked
publisher_delay ==
  /\ PublisherRuns /\ pub_pc = "delay"
  /\ loop_counter' = (loop_counter + 1) % RosterEvery
  /\ NewTicket(Publisher)
  /\ report_pc' = [report_pc EXCEPT ![Publisher] = "wait"]
  /\ pub_pc' = "asleep"
  /\ UNCHANGED <<running, sync_registry_count, g_tick_rings, taken, pub_ring,
                 pub_after, pub_return, pub_loaded, roster_left>>

publisher_wakes ==
  /\ PublisherRuns /\ pub_pc = "asleep"
  /\ DrainAll("heartbeat")
  /\ UNCHANGED <<telemetry_lock, running, report_pc, sync_registry_count, g_tick_rings, taken,
                 pub_return, pub_loaded, roster_left, loop_counter>>

-------------------------------------------------------------------------------

telemetry_publisher_task ==
  \/ drain_pop \/ drain_load \/ drain_store \/ drain_next
  \/ send_begin \/ send_end
  \/ heartbeat \/ roster_begin \/ roster_entry \/ roster_done
  \/ publisher_delay \/ publisher_wakes

TelemetryNext ==
  \/ \E c \in TCore :
       \/ report_event(c) \/ report_boot(c) \/ telemetry_register_sync(c)
       \/ scheduler_started(c) \/ report_begin(c) \/ report_end(c)
       \/ \E r \in Record[c] : telemetry_report_tick_state(c, r)
  \/ telemetry_publisher_task

TelemetrySpec == TelemetryInit /\ [][TelemetryNext]_telemetryVars

\* No two reports of the kernel, on whatever cores, are on the wire at once,
\* although the publisher's core loses and takes the lock behind its own back:
\* what breaks the lock for telemetry_send does not break it for the reports.
ReportsExclude ==
  \A c, d \in TCore : report_pc[c] = "frame" /\ report_pc[d] = "frame" => c = d

\* At most one frame is on the wire (telemetry/docs.md:36-38: the lock "guards
\* every call into telemetry_send_framed(), including telemetry_send() itself").
OneFrameAtATime == ReportsExclude /\ \A c \in TCore :
  report_pc[c] = "frame" => pub_pc # "frame"

\* The records in a ring, oldest first
RingItems(ring) == [i \in 1 .. ring.count |-> ring.records[(ring.tail + i - 1) % RingDepth]]

RingFifo(c) == INSTANCE BoundedFifo WITH Item <- Record[c], Cap <- RingDepth,
                                     q <- RingItems(g_tick_rings[c]), out <- taken[c]

\* The ring of every core but the publisher's own is a FIFO: what the tick pushed
\* comes out in order, and a full ring refuses the new record
\* (telemetry/docs.md: "drops the new record (not the oldest)").
TickRingsAreFifo ==
  /\ \A c \in TCore \ {Publisher} : RingFifo(c)!Init
  /\ [][\A c \in TCore \ {Publisher} :
          RingFifo(c)!Next \/ UNCHANGED <<RingItems(g_tick_rings[c]), taken[c]>>]_telemetryVars
===============================================================================
