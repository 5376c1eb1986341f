# RPITOS in TLA+

A verification project for RPITOS, a bare-metal real-time kernel for the
Raspberry Pi CM4 (four Cortex-A72 cores, AArch32) with its boot chain and its
drivers. The modules here are translated from the C and assembly sources under
`src/`; TLC model-checks them on small instances and TLAPS proves the most
important properties for every number of cores, tasks and priorities, and for
every set of firmware images.

## 1. The system

### 1.1 How it runs

Each core runs its own scheduler on its own task control blocks. A task is
bound to the core it was created on. A 1 kHz timer interrupt per core runs
`timer_tick_handler` and then `scheduler_switch_context`; there is no other way
to leave the CPU: a task that blocks marks itself `BLOCKED` and spins on its own
`current_state` until its core's next tick takes the CPU from it. Mutexes,
semaphores and queues are shared by tasks of all cores: a core that unlocks or
gives makes a task of *another* core ready by writing that core's lists under
that core's spinlock. The memory is uncached (MMU off), so plain loads and
stores with barriers are sequentially consistent, but exclusive accesses do not
work, which is why the spinlock is Lamport's Bakery.

### 1.2 Components

| Component | State it keeps | Operations | Meets others through |
|---|---|---|---|
| Spinlock (`kernel/spinlock`) | `choosing[]`, `ticket[]` | init, acquire, release | taken by all of the kernel, between cores |
| Task lists (`kernel/task_types`) | doubly linked intrusive lists with a round-robin cursor | link, unlink | owned by scheduler, mutex, semaphore |
| Scheduler (`kernel/scheduler`) | per core: ready list per priority, sorted blocked list, current task, tick count, lock | init, start, add/remove ready, add/remove blocked, block_until, change priority, tick handler, switch context | called by the IRQ path, by tasks, by mutex and semaphore of any core |
| Task (`kernel/task`), heap (`kernel/heap`) | TCB pool, bump pointer | task_create, malloc | scheduler |
| Startup code (`startup/startup.s`) | vector table, park mailboxes | IRQ entry and exit, first task, park loop of cores 1-3 | scheduler, companion core |
| Mutex (`kernel/mutex`) | state, owner, waiters, inherited priority | init, set_inheritance, lock, unlock | scheduler of the caller's, the owner's and the waiter's core |
| Semaphore (`kernel/semaphore`) | count, waiters | init, take, give (also from interrupts) | scheduler of the waiter's core |
| Queue (`kernel/queue`) | ring buffer, two semaphores, a spinlock | init, send, receive | semaphore, spinlock |
| Software timer (`kernel/software_timer`) | blocked and active timer lists | init, create, stop, reset, tick, service task | tick interrupt of core 0, semaphore, the callers' callbacks |
| Companion core (`kernel/companion_core`) | mailbox per core, mask of released cores, mask and flags of the watchdog gate | init, start, reset of the released cores | startup code's park loops, watchdog |
| Watchdog (`drivers/watchdog`) | kick mask of the cores, boot metadata on eMMC | init, kick, core kick, confirm slot | timer, tasks of all cores, boot chain |
| Boot chain and DFU (`boot/`, `samples/boot`) | slot headers, metadata, boot flags in RAM | validate, load, jump, receive, trigger | UART, eMMC, watchdog, reset |
| UART (`drivers/uart`) | transmit ring, DMA channel, receive callback | print, transmit task, DMA completion interrupt | semaphore, spinlock, DMA engine |
| Telemetry (`telemetry/`) | lock of the wire, a tick ring per core, roster of sync objects | report events, register, report tick, drain, publish | scheduler of every core (from calls and from its tick), a UART of its own |
| eMMC (`drivers/emmc`) | controller state, card address | init, read/write blocks | boot chain, watchdog |
| Other drivers | registers | single register sequences | - |

### 1.3 What is hard

* **Interrupts against tasks and cores against each other.** The scheduler's
  lists are written by the tick interrupt, by the core's own tasks and by other
  cores. No test in the repository runs two of these at a chosen point.
* **Two lock layers.** `mtx->lock` or `smph->lock` is held while a scheduler
  lock is taken, and the tick handler unlinks a timed-out waiter from the
  mutex's list *without* `mtx->lock` to keep the order. What was read before
  the second lock may be stale under it.
* **Timeouts racing hand-overs**, nested priority inheritance, and a wait that
  must end.
* **Time.** The blocked list is searched only at its head, so it has to be
  sorted; a wake-up time may have passed before it is queued.
* **Shared words without a lock.** The kick flags that every core writes for
  every other, the mailboxes, the two indices of the UART ring.
* **Locks without masking.** A Bakery lock has one ticket per core: code that
  holds one with interrupts enabled can be interrupted by code of the same core
  that takes it again.
* **Reset and power loss** between two block writes of an update or of the
  metadata (boot chain, watchdog).

`PROJECT.json` lists these as hazards, each at its line, with the properties
that would catch them.

### 1.4 What makes each component correct

* Spinlock: one core at a time; arrival order; a core that begins an acquire
  gets the lock.
* Scheduler: a created task is in exactly the list its state and priority say;
  the cursor never dangles; one running task; the highest priority runs; nobody
  oversleeps; equal priorities take turns.
* Mutex: one owner, who knows it; no waiter forgotten; the owner outranks its
  waiters; the boost ends with the last mutex; timed waits end; calls of
  different cores do not deadlock.
* Semaphore: tokens conserved; waiters and tokens never coexist; no waiter
  forgotten; timed takes return.
* Queue: a bounded FIFO, every slot accounted for. Software timer: a timer is in
  the list it says it is in, expires on time, is served, and stays quiet once
  stopped. Companion cores and watchdog: the hardware is fed as long as every
  released core reports, and not for a core that is gone. UART: what gets into
  the ring goes out, once, in order. Telemetry: one frame at a time on the wire;
  tick records leave in order.
* Boot chain: whatever is lost or reset, only whole images are started, an
  update leaves the active slot alone, and an unconfirmed image is given up
  after a bounded number of starts.

## 2. The modules

| Module | Models | Rests on |
|---|---|---|
| `SharedLock` | what a spinlock promises: one variable, two atomic steps (abstract) | |
| `Spinlock` | `spinlock.c`, one step per load or store of a shared word | implements `SharedLock` |
| `TaskLists` | the intrusive lists as sequences with a cursor | |
| `Scheduler` | `scheduler.c`, `task_create`, the timer path of `_irq_handler` | `TaskLists` |
| `Mutex` | `mutex.c` and the tick handler's unlinking of a timed-out waiter | `Scheduler` |
| `Semaphore` | `semaphore.c`, same | `Scheduler` |
| `BootChain` | bootstrap, wiper, bootloader, `boot.c`, `dfu_receive.c`, `boot_flags.c`, the metadata part of `watchdog.c`, `enter_bootloader` | |
| `BoundedFifo` | what a ring buffer promises (abstract) | |
| `Queue` | `queue.c` over the counts of its semaphores | implements `BoundedFifo` |
| `SoftwareTimer` | `software_timer.c`: lists, tick, service task, callers | `TaskLists` |
| `CompanionCores` | `companion_core.c`, the park loops of `startup.s`, `enter_bootloader`'s part, `watchdog_core_kick` | |
| `UartTx` | the buffered transmit path of `uart.c` with its DMA channel | implements `BoundedFifo` |
| `Telemetry` | `telemetry.c` of the application | its rings implement `BoundedFifo` |
| `MCServices` | the five services above side by side, one of them active in a behaviour | |
| `MC*` | instances for TLC: tasks, cores, bounds, fairness | |
| `SpinlockProofs`, `BootChainProofs` | theorems about `Spinlock`, `BootChain` | TLAPS |
| `TaskListsProofs` | lemmas about the lists | TLAPS |
| `SchedulerProofs` | theorems about `Scheduler` | `TaskListsProofs` |
| `SemaphoreProofs`, `MutexProofs` | theorems about `Semaphore`, `Mutex` | `SchedulerProofs` |
| `RingProofs` | theorems about `Queue`, `Telemetry`, `UartTx` | TLAPS |
| `ServicesProofs` | theorems about `SoftwareTimer`, `CompanionCores` | `TaskListsProofs` |

Names are the source's: the actions carry the names of the functions they
model, the variables those of the fields (a comment gives the C expression).
A definition whose name ends in `_Something` and whose comment starts with
`BUG` is a plausible wrong version of the definition below it: replacing the
one by the other must make the property named in `PROJECT.json` fail, which
shows that the property depends on that line of the code. They are used nowhere
else.

### 2.1 Spinlock

Each core has a program counter over the labels of `spinlock_acquire`: the scan
for the maximum ticket, the ticket drawn, the wait for `choosing[i]`, the
comparison with `ticket[i]`. Every action reads or writes one shared word.
Tickets are stored modulo `TicketMod` (2^32 in the code). `ahead` is a history
variable: the cores that were in line when this one announced itself.

Outside the model: a core that acquires a lock while its own interrupted code
is in the middle of acquiring the same lock. Every caller in the kernel masks
interrupts first, which the code's `enter_critical` brackets show; telemetry does
not everywhere, and `Telemetry` is about what follows from that.

### 2.2 Scheduler

State: `ready[c][p]` (a sequence and a cursor), `blocked[c]` (a sequence),
`state`, `priority`, `remaining`, `current`, and `irq[c]`, the stage of the
core's tick interrupt. A region under `scheduler_lock(core)` is one step, which
`SharedLock` justifies; the wake-up loop of the tick handler is one step per
woken task with the lock held throughout, so that other cores can be seen to
wait for it. Between the handler and `scheduler_switch_context` the lock is
free, and other cores may change this core's lists there.

`remaining[t]` stands for `wakeup_time - tick_count`; the code only compares
the two. It may be negative (a `task_delay_until_ms` whose time has passed).

In `Scheduler` itself mutexes and semaphores appear in their weakest form: any
running task may wait (`Suspend`), any waiting task may be woken by any core at
any time (`Wake`), and any task's priority may move between its base priority
and a higher one (`Inherit`). `Mutex` and `Semaphore` reuse the scheduler's
regions and replace these open steps by their own code.

Left out: the stack watermark check of the switch, the telemetry reports, the
saving and restoring of registers, the busy-wait `delay_ms`.

### 2.3 Mutex

A call masks interrupts on its core and holds `mtx->lock` throughout, so the
parts of a call are separate steps only where it takes a scheduler lock, or
where it reads data that `mtx->lock` does not protect: the owner's priority
(`inherit_check`), which is read before the owner's core is locked
(`boost_owner`). `lock[m]` is the task whose call holds `mtx->lock` between two
such steps. `holding` is what each task has been told (`E_OK` from a lock, not
yet unlocked); `owner` is the field. Tasks obey the API: they unlock only what
they hold, and do not lock it twice.

Observed on the way, and kept as it is in the code: `inherited_priority` is not
lowered when a waiter times out, so an owner may stay boosted until it unlocks;
a delay of 1 ms may end at the very next tick.

### 2.4 Semaphore

`semaphore_take` loops: take a token, or join the waiters with only `smph->lock`
held (`take_append`, line 91), leave the ready list and join the blocked list
under the scheduler lock (`take_unready`, lines 95-100), set `BLOCKED` only after
that lock is released (`take_block`, line 102), wait, and look at
`wakeup_reason`. `semaphore_give` pops a waiter under `smph->lock` and wakes it
under its core's lock. `num_items` is kept apart from the list, with its unsigned
width (`CountMod`), because the tick handler decrements it by the list item's
`container` whether or not the item is still linked. `out[s]` is a history
variable: takes minus gives.

`boost` is what the mutex calls of a core do to tasks on the side:
`scheduler_change_task_priority`, by any core in `Boosters[t]` whenever it runs
task code. Between lines 100 and 102 it would find a task that is not `BLOCKED`
and in no ready list, and link it (scheduler.c:382-383 takes a `READY` or
`RUNNING` task to be in one). Boosts of the task's own core cannot come there,
since IRQs are masked. Boosts of another core can, and `NoLostTaker` then fails;
`OwnCoreBoosts` (4.5) excludes them.

Each list operation is one step. An append or a pop under `smph->lock` and the
unlinking by the tick handler, which does not take that lock, exclude each other
on one core only. On two cores they may interleave within the operation, with a
waiter that waits for ever as well as with one that has a timeout; what that
leaves of the list is not modelled. `OneCoreTimeouts` (4.5) says where it cannot
happen, and the run and the theorems are about those applications.

### 2.5 BootChain

One program runs at a time: the bootstrap, the bootloader, the application;
`pc` says where it is. Persistent state: `flash` (bootloader region, slots A
and B) and `sector` (the metadata, or `Torn`). `flags` is the RAM struct that a
reset may or may not preserve. `meta` is the running program's copy of the
metadata; it is written back in a step of its own, so a reset or a soft reboot
can come before or in the middle of each write. `session` holds the statics and
locals of `dfu_receive`.

Four variables are histories. `fresh`, `tries` and `torn` follow the application
that the last update has committed, from the commit on: the slot it is in, how
often it has been started, and whether a reset has torn the sector since. They
stop (`Unfollow`) when a write says that it is confirmed or names the other slot,
when a metadata write fails, and when the policy `ROLLBACK` turns the rollback of
the trial back in the same boot. They do not look at `app_slot_trial`, so a trial
that is forgotten is still counted. `saved` says that the bootloader's first
metadata write of this boot has not failed.

An image is a model value with a length in chunks, the unit of a DATA packet.
A region is the image its header announces and the set of chunk positions that
are right for that image; an image validates when all are. A session keeps, in
the same way, which of the received chunks were right and which are still
buffered.

Assumed: reads succeed; CRC32 tells apart what differs; a write, of an image or of
the metadata, may leave the old data, garbage, or the new data, and the program
goes on in all cases, since the code ignores its status; a metadata write that a
reset or a jump cuts short leaves the old sector or a torn one; the host announces bootloaders as
bootloaders; no image is larger than its region. `PowerLoss` may come in any
state, `WatchdogReset` in any state once the application has armed the
watchdog.

Observed on the way, and kept as in the code: `dfu_requested` is never cleared,
so a warm boot always goes to the update loop, and the branch that trusts the
preserved `fw_crc_ok` never starts an application; the CRC of a packet is not
compared with anything; `enter_bootloader` leaves the watchdog armed, which
then resets the update session; a FINISH without a START compares two
uninitialised words, and if they agree the other slot is read back and may be
committed; every boot counts against a trial, a power cycle too; the policy
`ROLLBACK`, which watchdog.h:25 and watchdog/docs.md:22 call reserved, is
implemented, and where its tolerance is exceeded in the boot that ends a trial the
two rollbacks cancel out and the application on trial goes on without one.

### 2.6 Queue

A call is three steps: a take on one semaphore (or its timeout), the masked copy
under the spinlock, a give on the other. A semaphore is its count, which is what
`Semaphore` shows of it (`TokensConserved`) within `SemHypotheses` (4.5). What is
checked and proved of the queue is therefore said of queues whose semaphores are
used within them: senders and receivers of any cores that do not use timeouts, or
timeouts with all calls on one core. The queue of `multicore_full_demo`, sent to
with a timeout on core 2 (`main.c:263`) and received from on core 0, is outside.
`fill` and `received` are history variables. Tasks choose at every take whether the
timeout comes first; a take
that waits for ever is one whose timeout does not come.

### 2.7 SoftwareTimer

`timer_blocked` and `timer_active` are the two lists, `list_id` the field that
says which one a timer believes to be in. A masked region is one step; so is
each iteration of the tick's loop, with `in_tick` keeping everybody else of core
0 out. The service task takes a token, pops a timer, runs its callback and arms
a periodic one again: three steps, between which tasks, and during the callback
the callback itself, create, stop and reset timers. `left` is the expiry
relative to now. `cancelled` is history.

The code leaves two things to its callers: a timer is created when it is in no
list, and a periodic timer is neither created nor reset while the service task has
it in hand, in its own callback above all (the service task links it a second time
at line 112). The samples keep to both. The callers of the timers in `Careless` do
not: their calls change the links as the code does (`Cut`, `TimerInsert`), and a
behaviour is followed up to the first list that runs into itself or into the other
one (`Intact`). With `Careless = {1}` TLC refutes `TimerListsExact`, which is
software_timer.h:20, within a few steps; the run and the theorems have
`Careless = {}`.

Observed on the way, and kept as in the code: a periodic timer that is stopped
during its own callback is armed again, so that stop is lost; the active list is
last in, first out, so a timer that expires early may be served late.

### 2.8 CompanionCores

Every load or store of a mailbox, a mask or a kick flag is a step. `mode` says
whether a core waits in a park loop (with IRQs masked), runs, has taken the park
IPI but not yet cleared its mailbox, or hangs. `hang` stands for the fault
handlers' loops and for any deadlock; it may come at any time to any core, core
0 included. `enter_bootloader` covers the soft reboot up to the application's
next `kmain`; the watchdog stays armed across it. `late` counts the hardware
kicks since a released core is gone for good. How long the watchdog takes to
run out is not modelled: `WatchdogReset` may come whenever it is armed.

Observed on the way: a core that parks late zeroes the mailbox after the new
application has published an entry in it, and so never comes up; it is expected
by then, so the gate closes and the watchdog resets the board
(`LateKicksBounded` covers this case). An IPI that is still pending for a core
that parks is taken when it next runs, and parks it again, with the same end.
The comments call `core_kicked` single-writer per slot; the loop that withdraws
the reports writes all slots, which costs a report only in a round that feeds
the watchdog (`KicksRecur`).

### 2.9 UartTx

The ring's slots and indices are read and written one at a time by printing
tasks under `uart_buf_lock`, by the transmit task without it, and by the DMA
engine, which moves one word per step and raises its interrupt after the last.
A printf is the number of its characters, handed over in pieces of one sink
buffer with the lock dropped in between. Both drains, DMA and byte by byte, are
modelled; `is_dma_enabled` is chosen at the start. `inside` and `wire` are
history variables: which published bytes are not out yet, and the last one out.

### 2.10 Telemetry

`telemetry_lock` names the core whose ticket is served. An acquire on a core
that has the lock already draws that core a new ticket and its release takes it
away (`NewTicket`, `report_end`): one ticket per core is what makes an
unmasked holder's lock vanish. `report_pc` is the masked report of a core,
`pub_pc` the publisher, which stands still while its core has one. The
publisher's decrement of a ring's count is two steps on its own core's ring,
whose tick gets past the ring's lock in the same way, and one step on the
others.

Left out: payloads, sequence numbers and CRCs; `overflow_count`, which is only
sent; the boot chain's senders (`telemetry_boot.c`), which run on one thread
without a lock; an interrupt inside the publisher's own acquire, which leads to
the same splice as one inside its frame.

Observed on the way: on the publisher's own ring a tick between load and store of
`count--` is lost from the count, and the ring then trails by one record; the
demo reports `BOOT_MS_SLOT_CONFIRMED` (`multicore_full_demo/main.c:408`) at a
point where the slot has not been confirmed.

## 3. The runs

| Run | Question | Instance |
|---|---|---|
| `spinlock` | Does the Bakery lock exclude, serve in order, starve nobody, and implement the atomic lock? | 3 cores |
| `scheduler` | Are the lists, the cursor, the running task, wake-ups and the dispatcher right whatever is interleaved, and does a task that waits for ever have a reason to? | 1 core, idle + 3 + 1 tasks, 3 priorities, delays -1, 2, 3, 4 |
| `round_robin_sleepers` | *(violation)* do tasks of one priority that sleep share the CPU in turn? | as above, two tasks delay by 1 |
| `mutex` | Ownership, inheritance and its end, waiters, lists, timeouts, no lock deadlock | on one core 3 tasks, 2 nested inheritance mutexes, one with a timeout of 3; or 2 cores, 3 tasks, 2 mutexes, no timeout |
| `mutex_timeout_race` | *(violation)* a timeout against a hand-over from another core | 2 cores, 2 tasks, 1 mutex |
| `mutex_boost_race` | *(violation)* two boosts of one owner from two cores | 2 cores, 3 tasks, 2 mutexes |
| `semaphore` | Are tokens, waiters, ready lists and timeouts right with gives from tasks, the interrupt and another core, and with boosts? | 2 takers, 2 semaphores, one taker is boosted |
| `boot_chain` | Can any sequence of updates, damage, failed writes and resets start a broken image, write the active slot, or retry an unconfirmed one for ever? | 3 images (3 chunks with the marker, 1 without, a bootloader), sectors of 2 chunks |
| `boot_rollback` | *(violation)* does the slot that a trial falls back to stay as it was? | as above |
| `boot_trial_torn` | *(violation)* does a trial end if a reset tears the metadata? | as above |
| `services` | Timers: lists exact, none stranded, on time, quiet once stopped. Cores: the watchdog is not fed for a core that is gone and is fed for live ones. Queue, UART ring, tick rings: FIFOs. UART: bytes go out. Telemetry: kernel reports exclude each other. | see 3.1 |
| `telemetry_splice` | *(violation)* is there one frame at a time on the wire? | 2 cores, publisher on one of them |

### 3.1 Bounds

* `MaxTicket` lets a core join the line only while all tickets are small;
  tickets grow only in an unbroken chain of contention, and 3 cores overtaking
  each other for two rounds already visits every order of the doorway.
* One core in the scheduler runs: cores share no scheduler state, and whatever
  another core may do to this one is open at every moment its lock is free.
  Three tasks of one priority are needed for a cursor in the middle of a list,
  three delays for an insertion in the middle of the blocked list, `-1` for a
  time that has passed.
* `Timeouts`, `Delays` bound what tasks ask for. A timeout of 3 lets a waiter
  be switched out, the owner run, and the timeout come before or after the
  unlock.
* In `semaphore`, `s1` is given across cores and waited for without timeout,
  `s2` has timeouts and is given on its own core (by tasks and by the tick
  interrupt). A timeout racing a give from another core is the same defect as
  the one in `mutex_timeout_race` (popped under the object's lock, made ready
  under the core's lock, timed out in between) and is kept out of this run. The
  boosts of `a` come from its own core; with `c2` in `Boosters[a]` TLC refutes
  `NoLostTaker` in eight steps.
* In `mutex` a behaviour has one of two groups of tasks (`group`), which have no
  mutex in common. In the one of two cores the mutexes are used so that no two
  waiters of different cores boost one owner; that case is `mutex_boost_race`.
* In `boot_chain` an image of one and a half sectors has a full sector, a flush
  and a packet that straddles the two; `MaxReceived` ends a session there.
  `ResetCap` stops `wdt_reset_count` above every tolerance in use. Two retries
  stand for ten: one that goes round and one that ends in the recovery loop.
  `MaxAttempts` is 2 there, for one boot that goes on with a trial and one that
  ends it, and the code's 3 in the two violation runs.
* In `services` the five services share no state, so one is active per behaviour
  (`subject`). Timers: 3 of them, 2 periodic, periods 1 and 2, so that two expire
  in one tick and an insertion falls in the middle; `MaxLate` keeps a timer from
  being overdue for more than one tick, `MaxTokens` holds a tick back while the
  service task is behind by more than one token (a tick that finds several timers
  still leaves more). Cores: 3 with hangs and resets but no soft reboot
  (`gate`), and one companion with soft reboots (`park`); both together are
  covered by the proof. Queue: 2 slots, 3 users, so that two
  calls of one kind meet a third. UART: 3 slots, lines of 1 and of 3 characters
  in pieces of 2, so that a run wraps, a ring is full and a line is in two
  pieces. Telemetry: the publisher's core and another; rings of 2 with ticks but
  no reports (`rings`), reports but no ticks (`wire`); a heartbeat every round and
  the roster every second one stand for 100 and 2000.

### 3.2 Fairness

* Tick steps (`Kernel`, `MutexKernel`): weak fairness. The hardware timer
  recurs and its handler runs to its end.
* `SemKernel` is strongly fair: a tick that comes due while a call has masked
  it stays pending in the interrupt controller and is taken when the mask is
  lifted.
* The rest of a call that has begun (`Continue`, `give_wake`) is strongly fair:
  what it waits for is a spinlock, and `AcquireReturns` of `Spinlock` shows that
  a core that tries gets it.
* `Spinlock`: weak fairness of a core from the start of its acquire to its
  release; locked regions are short, straight-line and not preempted.
* `CompanionCores`: weak fairness of each core's `watchdog_core_kick`, which the
  software timer of core 0 and `watchdog_core_kick_task` of the others call once
  per period, for as long as the core runs. Nothing is assumed of core 0's other
  steps, of the parked cores or of the watchdog.
* `UartTx`: weak fairness of a print that has begun (it runs masked, and its lock
  is fair), of the transmit task, and of the DMA engine with its interrupt.
* Nothing is assumed of the tasks' own code: they need not unlock, give or
  sleep.

### 3.3 What the runs found

1. **Round robin with sleepers** (`round_robin_sleepers`,
   `RoundRobin`). The README promises that tasks of one priority share the CPU
   in round-robin order. A woken task is appended behind the cursor's last
   position, so two tasks that call `task_delay_ms(1)` alternate and a third,
   CPU-bound task of the same priority never runs.
2. **Timeout against hand-over** (`mutex_timeout_race`, `ReadyListsExact`).
   `mutex_unlock` on one core pops a waiter of another core, then takes that
   core's lock; the waiter's own tick may time it out in between. The hand-over
   then links a task into its ready list that is already there.
3. **A boost that lowers** (`mutex_boost_race`, `BoostRaises`). `mutex_lock`
   compares priorities before it takes the owner's core lock; two waiters on
   two cores, through two mutexes, can leave the owner below the higher one.
4. **An update during a trial** (`boot_rollback`, `RollbackTargetKept`).
   `watchdog/docs.md` says that a failed trial rolls back to the previous,
   untouched, still-valid slot. `CMD_START` writes the inactive slot whether or
   not the active one is on trial, so an update that begins before the
   confirmation destroys the slot to fall back to. `BootsOnlyValid` shows that
   the broken slot is not started: the bootloader then waits for an update.
5. **A forgotten trial** (`boot_trial_torn`, `TrialSurvivesTearing`). The same
   page says that an application that does not confirm is given up after
   `APP_SLOT_TRIAL_MAX_ATTEMPTS` boots. A metadata sector that a reset has torn
   reads as slot A and no trial, so an application on trial in slot A is from then
   on started at every reset. `TrialBounded` shows that this is the only way: in
   slot B, or with no torn sector, the trial ends.
6. **A spliced frame** (`telemetry_splice`, `OneFrameAtATime`).
   `telemetry/docs.md` says that the lock guards every frame and that every call
   site runs masked. `telemetry_send` does not mask: the tick of the publisher's
   core reports a woken task in the middle of the publisher's frame, under the
   same core's ticket, and then releases the lock. The counterexample is that
   tick. `ReportsExclude` shows that the masked reports still exclude each other.

## 4. The proofs

Every invariant and every refinement that a run checks is also proved, for every
value of the constants that satisfies the named assumptions: any number of cores,
tasks and priorities, any delays; any images, sector sizes and numbers of
attempts; any mutexes, semaphores, timers and rings. What remains with TLC alone
is in 4.9.

### 4.1 `SpinlockProofs`

Assumptions `NAssumption`, `TicketModAssumption`; hypothesis `[]NoWrap`: no
ticket draw wraps. It cannot be dropped, since the algorithm needs unbounded
tickets; 2^32 contended acquires without the lock ever being idle would be
needed to reach it.

* `Exclusion`, `ServedInOrder`, `TypeCorrect` and `Refinement` (`Spinlock`
  implements `SharedLock`).

Mutual exclusion is not inductive. The strengthening relates a core in the wait
loop to every core it has passed: that one has no ticket, or a later one in the
(ticket, core) order, or is still scanning and has yet to read - or has already
seen - this core's ticket. The mutual exclusion of two holders follows because
each would have to be before the other.

### 4.2 `TaskListsProofs`

What linking, unlinking and advancing do to a sequence of distinct tasks: which
tasks are in it afterwards, that they stay distinct, that the cursor stays
inside, and that insertion and removal keep a sorted list sorted. Induction
over lists is not needed: each operation is described pointwise (a list that
`Grows` by one place or shrinks by one). The scheduler and the timers insert by
the same walk but test the head differently (`<=` against `<`), so that the walk
finds a place that `Fits`, and what an insertion there does, are lemmas of their
own that both use.

### 4.3 `SchedulerProofs`

Assumption `SchedulerAssumption`. The inductive invariant `InvOf(st)` is stated
over task states `st` that need not be the variable `state`, since a task in
`semaphore_take` is unlinked one step before it is marked `BLOCKED`; `Inv` is the
case `st = state`. It says

* the types of all variables;
* the ready lists link exactly the `READY` and `RUNNING` tasks of their core and
  priority, once, with the cursor inside (`Linked`);
* the blocked lists link `BLOCKED` tasks of their core, once, and are sorted by
  wake-up time, which `NobodyOversleeps` needs: the handler looks only at the
  head;
* at most one task of a core is `RUNNING`; `NobodyOversleeps`.

There is one lemma per operation (ready, unlink, change of priority, block, each
stage of a tick), then one per action; the mutex and semaphore proofs use the
former. From `Spec => []Inv`: `TypeCorrect`, `ReadyIntegrity`, `CursorIntegrity`,
`BlockedIntegrity`, `SingleRunner`, `WakesOnTime`, and the action property
`PriorityDispatch` (`RunsHighest`).

### 4.4 `BootChainProofs`

Assumptions `BootAssumption`, `TornAssumption`. The inductive invariant `Inv`
adds to `TypeOK`:

* `SessionInv`: a session that has started writes a region other than the
  active slot, one that has not buffers nothing, and outside a session the
  statics are fresh;
* `FlagsInv`: flags that are not cold ask for an update, so the CRC verdict that
  survived a reset is never what starts an application;
* `ValidInv`: wherever the next steps lead to a load without another check, the
  active slot validates, and what runs was whole when it was loaded;
* `SyncInv`: from the end of `bootloader_init` to the commit, if its write has
  not failed (`saved`), the metadata on the eMMC are the program's copy, so that
  the slot a session spares is the one the eMMC names;
* `TrialInv`: as long as an application is followed, and in slot B or with no torn
  sector, the sector is torn (slot B) or has the application on trial with a
  counter that is not behind its starts; so has the copy wherever it is about to be
  written or loaded from, whichever write a reset cuts short.

One lemma per action shows that it keeps `Inv`; resets, aborts and metadata
writes share a lemma each. From `Spec => []Inv`: `TypeCorrect`, `BootsWhole`,
`TrialsEnd`, and the action property `ActiveKept`.

### 4.5 `SemaphoreProofs`

Assumption `SemaphoreAssumption`: finitely many tasks and cores, fewer tasks than
`num_items` can count. Three hypotheses on how semaphores are used
(`SemHypotheses`), which `MCSemaphore` asserts of its instance:

* `OneCoreTimeouts`: a semaphore that a task takes with a timeout is given on that
  task's core only, and waited for on that core only. Without the former a give on
  another core that has popped the task can meet the tick handler that times it
  out, the race that `mutex_timeout_race` shows for a mutex; without the latter a
  task of another core can append itself, with or without a timeout, while the tick
  handler unlinks. The kernel's and the drivers'
  own semaphores keep to it, as do `full_demo` and `heavy_overlap` (one core);
  `multicore_full_demo` does not, whose `queue_send` waits for space with a timeout
  (`main.c:263`) on core 2 while the receiver gives it on core 0.
* `OwnCoreBoosts`: the priority of a task that takes semaphores is changed on its
  own core only, that is, it holds no inheritance mutex that tasks of other cores
  wait for. Otherwise the change may come between lines 100 and 102.
* `CountsFit`: `initial_count <= max_count`. `semaphore_init` does not check it;
  every caller keeps to it.

The inductive invariant `SemInv` is the scheduler's `InvOf(Shown)`, where `Shown`
counts a task between `take_unready` and `take_block` as `BLOCKED`, with

* `TakersOk`: what each task's control block says at each point of
  `semaphore_take`; a task that is on its way into the lists has its core, and one
  in the blocked list has a timeout. A boost needs a core that runs a task outside
  `semaphore_take`, so with `OwnCoreBoosts` it meets nobody on the way;
* `GiversOk`: the task that a give has popped still sleeps, which is where
  `OneCoreTimeouts` is used;
* `LocksOk`: `smph->lock` is held between two steps of one call;
* `WaitersOk`: the list of a semaphore links exactly the tasks that sleep on it and
  are not popped, `num_items` is its length, and it is empty while there is a
  token.

From it: `SemTypeCorrect`, `WaitersAgree`, `TakersFound`. `TokensKept`
(`TokensConserved`) follows since no step changes the sum of the count, the tokens
out, and those handed to a task that has not returned or not yet woken: each step
moves one task from one of these finite sets to another.

### 4.6 `MutexProofs`

Assumption `MutexAssumption`. Two hypotheses on how mutexes are used, which
`MCMutexContract` asserts of the instance of the passing run, and whose negation
is what the two violation runs have in common:

* `OneCoreTimeouts`: a mutex that is waited for with a timeout is used on one core
  only (`mutex_timeout_race` breaks the ready lists otherwise). Boosts, hand-overs
  and waits without a timeout across cores are in the theorems.
* `OneCoreBoosts`, for the last two theorems: the tasks that can boost one owner
  through two mutexes are on one core (`mutex_boost_race` lowers a priority
  otherwise).

The argument has three layers.

1. `CallInv`: the scheduler's `Inv`; where every call stands, and that one with
   IRQs masked still has its core and `mtx->lock` (`CallersOk`, `LocksOk`); the
   waiter that an unlock has popped still sleeps (`UnlockersOk`, where
   `OneCoreTimeouts` is used); the owner knows that it owns, is giving up, or will
   be told when it wakes (`OwnersOk`); the list of a mutex links exactly those who
   wait (`WaitersOk`). From it `OwnersAgree`, `WaitersFound`, `BoostedListsExact`.
2. `HeldOk`, upon it: `mutexes_held` is the number of inheritance mutexes owned, a
   task that owns none and is not restoring has its base priority, and a boost
   under way is not below the owner's base priority. From it `MutexTypeCorrect`
   (the unsigned counter never wraps), `HeldIsCounted`, `BoostsEnd`.
3. `BoostOk`, upon both: a boost that was decided on is still needed when it is
   made (`NeededAt`, where `OneCoreBoosts` is used: who could change the owner's
   priority in between is on the core whose IRQs the booster masks), the owner has
   the priority the mutex hands on or is about to get it (`EnoughAt`), and the
   mutex hands on the base priority of every waiter it has counted (`KnownAt`).
   From it `OwnersOutrank`, and the action property `BoostRaises` (`BoostsRaise`).

### 4.7 `RingProofs`

The three rings are refinements of `BoundedFifo`, by the same two lemmas about a
ring of any size: an item written behind the last appends, an oldest item given
back takes the head.

* `Queue` (`QueueAssumption`: a positive capacity, finitely many users, some item).
  The inductive invariant adds to the shape of the state that the write index is
  `fill` slots behind the read index (`HeadBehind`), and that tokens, items and
  calls under way add up (`SlotsAccounted`): this is what tells a sender with a
  token that its slot is free, and that a give is never refused. Each step moves one
  call from one place to another, so the counts change by one. All of this is about
  semaphores that are counts, that is, within `SemHypotheses` (2.6).
  `QueueTypeCorrect`,
  `SlotsKept`, `QueueRefinement` (`QueueIsFifo`).
* `Telemetry` (`TelemetryAssumption`: among others, every core has some record to
  push). `ReportInv`: a report on the wire has the lock; the publisher
  loses the lock to reports of its own core, but never takes it from one, since it
  stands still while its core reports.
  `KernelReportsExclude`. `TickRingInv`: the ring of every core but the publisher's
  has its head behind its records, and the publisher is between the load and the
  store of `count--` with its own core's ring only. `TickRingsRefine`
  (`TickRingsAreFifo`).
* `UartTx` (`UartAssumption`). `PrintersOk`: only the printer with the lock is at
  the ring, and the slot it has stored into is not one that waits to go out.
  `EngineOk`: at each place of the transmit task, how far the DMA engine is between
  the two indices, that no completion of an earlier run is left over, and that a run
  never reaches past the last byte. `UartTypeCorrect`, `UartRefinement`
  (`UartIsFifo`).

### 4.8 `ServicesProofs`

* `SoftwareTimer` (`TimerAssumption`, and `Careless = {}`: the callers keep to
  2.7, so that nothing is cut off a list, lemma `NothingCut`). `TimerInv` has `ListsOk` (`list_id` names
  the list that a timer is in, and the blocked list is sorted, without which a look
  at its head would not be enough), `ServiceOk` (a cancelled timer is in no list, so
  it comes back only through a call that arms it; a periodic timer in the service
  task's hands is in no list, so arming it again does not link it twice) and
  `TokensFor` (each timer on the active list has a token). `TimerTypeCorrect`,
  `TimerListsAgree`, `ExpiredTimersAreServed`, `StoppedTimersStayQuiet`, and the
  action property `TimersExpireOnTime` (`ExpiresOnTime`).
* `CompanionCores` (`CoresAssumption`). "At most two late kicks" is not inductive.
  The strengthening `LateInv` picks a core `d` that is gone and bounds what every
  other core `k` may still do by where `k` is in `watchdog_core_kick`: the last
  report of `d` is there or not, and `k` is before its check, past it, or past its
  withdrawal. `d` stays gone (`GoneStays`), because core 0 releases a core at most
  once per boot (`ExpectedInv`). A core that goes resets no bound: when nobody was
  gone, `late` was 0. `TypeCorrect`, `GateCloses`.

### 4.9 Only model-checked

The liveness properties (`AcquireReturns`, `RoundRobin`, `WaitsOnlyFor`,
`TimedWaitEnds`, `CallsEnd`, `TimedTakeReturns`, `KicksRecur`, `BytesGoOut`), since
the prover has neither fairness nor `ENABLED`, and what the violation runs refute.

## 5. Not modelled

* Register save and restore, stack layout, cache and MMU set-up: no state a
  property here could tell apart.
* GPIO, I2C, PWM, mailbox, JTAG, GIC register sequences, the set-up of pins, baud
  rates and DMA channels: the behaviour is in the hardware, not in the
  repository. The tick, the masking of interrupts, the IPI and the DMA run that
  they provide are part of `Scheduler`, `CompanionCores` and `UartTx`.
* eMMC at register level, for the same reason.
* The UART's receive interrupt, the unbuffered output before the transmit task
  starts, the layout of a telemetry frame.
* The heap (a bump pointer that never frees) and the TCB pool: both are used
  before the schedulers start, and hold nothing that others relate to.
* Tickets beyond 2^32, images larger than a slot.
* The RTOS samples as programs: what they fix (which core publishes, who sends,
  who reports) is in `Queue`, `CompanionCores` and `Telemetry`.

## 6. Plan

1. Done: all the modules of section 2; every invariant, action property and
   refinement of the passing runs proved (section 4).
2. Next: an abstract specification for `BootChain`, a device that holds an active
   and a fallback image and switches atomically, with its refinement proved from
   `BootChainProofs`' invariant; the safety core of the liveness properties (a
   measure that no step of another actor raises) as action properties.
3. Later: images larger than a slot.
