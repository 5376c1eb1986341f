----------------------------- MODULE CompanionCores -----------------------------
(***************************************************************************)
(* The cores of one board: how core 0 releases the others and takes them   *)
(* back (kernel/companion_core, the park loops of startup.s and of the     *)
(* bootstrap, reset.c), and how all of them together feed the one hardware *)
(* watchdog (drivers/watchdog/watchdog.c in multicore mode).               *)
(*                                                                         *)
(* There is no lock: every access to a mailbox, to expected_mask or to a   *)
(* byte of core_kicked is a step of its own.  A core may hang at any time  *)
(* (a fault handler's loop, a deadlock with IRQs masked).  The watchdog    *)
(* may run out at any time after it is armed; how long that takes is not   *)
(* modelled, only who still feeds it.                                      *)
(***************************************************************************)
EXTENDS Integers, FiniteSets

CONSTANT NumCores       \* COMPANION_CORE_MAX_CORES

ASSUME CoresAssumption == NumCores \in Nat \ {0}

Cores      == 0 .. NumCores - 1
Companions == Cores \ {0}

VARIABLES
  mailbox,         \* g_core_mailbox[c] holds an entry point
  ipi,             \* ARM Local mailbox 0 interrupt of c is pending
  mode,            \* "parked", "running", "parking" (IPI taken), "hung"
  alive_mask,      \* g_core_alive_mask
  starting,        \* the companion_core_start that core 0 is in; 0 for none
  app,             \* "down" until companion_core_init and watchdog_init are done
  armed,           \* the hardware watchdog counts; a soft reboot does not stop it
  expected_mask,   \* cc_ctx.expected_mask
  core_kicked,     \* cc_ctx.core_kicked[c]
  kick_pc,         \* where in watchdog_core_kick the core is
  kick_i,          \* its loop counter
  kick_mask,       \* its copy of expected_mask
  late             \* history: hardware kicks by c since an expected core is gone

coreVars == <<mailbox, ipi, mode, alive_mask, starting, app, armed, expected_mask, core_kicked,
              kick_pc, kick_i, kick_mask, late>>
kickVars == <<core_kicked, kick_pc, kick_i, kick_mask, late>>

\* The same value for every core
Off == [c \in Cores |-> FALSE]
Zero == [c \in Cores |-> 0]

\* Power-on: the firmware starts core 0, the bootstrap parks the others with
\* their mailboxes cleared
CoresInit ==
  /\ mailbox = Off /\ ipi = Off
  /\ mode = [c \in Cores |-> IF c = 0 THEN "running" ELSE "parked"]
  /\ alive_mask = {} /\ starting = 0
  /\ app = "down" /\ armed = FALSE
  /\ expected_mask = {} /\ core_kicked = Off
  /\ kick_pc   = [c \in Cores |-> "idle"]
  /\ kick_i    = Zero
  /\ kick_mask = [c \in Cores |-> {}]
  /\ late      = Zero

\* The core abandons a watchdog_core_kick that it may be in
LeaveKick(c) ==
  /\ kick_pc'   = [kick_pc EXCEPT ![c] = "idle"]
  /\ kick_i'    = [kick_i EXCEPT ![c] = 0]
  /\ kick_mask' = [kick_mask EXCEPT ![c] = {}]

-------------------------------------------------------------------------------
\* Core 0

\* companion_core_init and watchdog_init in kmain
companion_core_init ==
  /\ mode[0] = "running" /\ app = "down"
  /\ app' = "up" /\ armed' = TRUE
  /\ expected_mask' = {0}
  /\ core_kicked' = Off
  /\ UNCHANGED <<mailbox, ipi, mode, alive_mask, starting, kick_pc, kick_i, kick_mask, late>>

\* companion_core_start: the entry is published and the core woken, ...
companion_core_start(c) ==
  /\ mode[0] = "running" /\ app = "up"
  /\ starting = 0 /\ c \notin alive_mask
  /\ mailbox' = [mailbox EXCEPT ![c] = TRUE]
  /\ starting' = c
  /\ UNCHANGED <<ipi, mode, alive_mask, app, armed, expected_mask, kickVars>>

\* ... then core 0 notes that it is out, for the next reboot and for the watchdog
start_mark ==
  /\ mode[0] = "running" /\ starting # 0
  /\ alive_mask'    = alive_mask \cup {starting}
  /\ expected_mask' = expected_mask \cup {starting}
  /\ starting' = 0
  /\ UNCHANGED <<mailbox, ipi, mode, app, armed, kickVars>>

\* Every released core is sent an IPI, and nobody waits for it
companion_core_reset_active ==
  /\ ipi' = [c \in Cores |-> ipi[c] \/ c \in alive_mask]
  /\ alive_mask' = {}

\* enter_bootloader in the task that dfu_trigger wakes; the bootloader clears the
\* mailboxes, and the start-up code of the application its .bss, before kmain
\* runs again
enter_bootloader ==
  /\ mode[0] = "running" /\ app = "up" /\ starting = 0
  /\ companion_core_reset_active
  /\ mailbox' = Off
  /\ app' = "down"
  /\ expected_mask' = {}
  /\ core_kicked' = Off
  /\ LeaveKick(0)
  /\ late'      = Zero
  /\ UNCHANGED <<mode, starting, armed>>

-------------------------------------------------------------------------------
\* A companion core

\* _sec_park$ and _companion_core_park_wait$, with IRQs masked
unpark(c) ==
  /\ mode[c] = "parked" /\ mailbox[c]
  /\ mode' = [mode EXCEPT ![c] = "running"]
  /\ UNCHANGED <<mailbox, ipi, alive_mask, starting, app, armed, expected_mask, kickVars>>

\* mailbox_park_request$: whatever the core was doing is abandoned
mailbox_park_request(c) ==
  /\ mode[c] = "running" /\ ipi[c]
  /\ mode' = [mode EXCEPT ![c] = "parking"]
  /\ ipi'  = [ipi EXCEPT ![c] = FALSE]
  /\ LeaveKick(c)
  /\ UNCHANGED <<mailbox, alive_mask, starting, app, armed, expected_mask, core_kicked, late>>

\* _companion_core_park$ clears its mailbox, whatever is in it by now
companion_core_park(c) ==
  /\ mode[c] = "parking"
  /\ mode'    = [mode EXCEPT ![c] = "parked"]
  /\ mailbox' = [mailbox EXCEPT ![c] = FALSE]
  /\ UNCHANGED <<ipi, alive_mask, starting, app, armed, expected_mask, kickVars>>

\* The fault handlers end in a loop with IRQs masked.  (Before the watchdog is
\* armed nothing would end it.)
hang(c) ==
  /\ mode[c] = "running" /\ armed
  /\ mode' = [mode EXCEPT ![c] = "hung"]
  /\ LeaveKick(c)
  /\ UNCHANGED <<mailbox, ipi, alive_mask, starting, app, armed, expected_mask,
                 core_kicked, late>>

-------------------------------------------------------------------------------
\* watchdog_core_kick, from the software timer on core 0 and from
\* watchdog_core_kick_task on the others

\* c will never report again unless the board is reset
Gone(c) ==
  /\ c \in expected_mask
  /\ mode[c] # "running"
  /\ ~ (mode[c] = "parked" /\ mailbox[c])

\* s_config is set; the core reports
kick_report(k) ==
  /\ mode[k] = "running" /\ kick_pc[k] = "idle" /\ app = "up"
  /\ core_kicked' = [core_kicked EXCEPT ![k] = TRUE]
  /\ kick_pc' = [kick_pc EXCEPT ![k] = "mask"]
  /\ UNCHANGED <<mailbox, ipi, mode, alive_mask, starting, app, armed, expected_mask, kick_i,
                 kick_mask, late>>

kick_read_mask(k) ==
  /\ mode[k] = "running" /\ kick_pc[k] = "mask"
  /\ kick_mask' = [kick_mask EXCEPT ![k] = expected_mask]
  /\ kick_pc' = [kick_pc EXCEPT ![k] = "scan"]
  /\ UNCHANGED <<mailbox, ipi, mode, alive_mask, starting, app, armed, expected_mask,
                 core_kicked, kick_i, late>>

\* BUG: all four cores are waited for, released or not.
StillMissing_AllCores(k, i) == ~ core_kicked[i]

StillMissing(k, i) == i \in kick_mask[k] /\ ~ core_kicked[i]

\* One core of the loop: someone has not reported in this round, or the next one
kick_scan(k) ==
  /\ mode[k] = "running" /\ kick_pc[k] = "scan"
  /\ LET i    == kick_i[k]
         done == StillMissing(k, i) \/ i = NumCores - 1
     IN  /\ kick_pc'   = IF StillMissing(k, i) THEN [kick_pc EXCEPT ![k] = "idle"]
                         ELSE IF done THEN [kick_pc EXCEPT ![k] = "reset"]
                         ELSE kick_pc
         /\ kick_i'    = [kick_i EXCEPT ![k] = IF done THEN 0 ELSE i + 1]
         /\ kick_mask' = IF done THEN [kick_mask EXCEPT ![k] = {}] ELSE kick_mask
  /\ UNCHANGED <<mailbox, ipi, mode, alive_mask, starting, app, armed, expected_mask,
                 core_kicked, late>>

\* BUG: a core withdraws its own report only.
kick_reset_Own(k) ==
  /\ mode[k] = "running" /\ kick_pc[k] = "reset"
  /\ core_kicked' = [core_kicked EXCEPT ![k] = FALSE]
  /\ kick_pc' = [kick_pc EXCEPT ![k] = "kick"]
  /\ UNCHANGED <<mailbox, ipi, mode, alive_mask, starting, app, armed, expected_mask,
                 kick_i, kick_mask, late>>

\* One core of the loop that withdraws all the reports
kick_reset(k) ==
  /\ mode[k] = "running" /\ kick_pc[k] = "reset"
  /\ LET i == kick_i[k]
     IN  /\ core_kicked' = [core_kicked EXCEPT ![i] = FALSE]
         /\ kick_i'  = [kick_i EXCEPT ![k] = IF i = NumCores - 1 THEN 0 ELSE i + 1]
         /\ kick_pc' = IF i = NumCores - 1 THEN [kick_pc EXCEPT ![k] = "kick"] ELSE kick_pc
  /\ UNCHANGED <<mailbox, ipi, mode, alive_mask, starting, app, armed, expected_mask,
                 kick_mask, late>>

\* The PM_WDOG write
watchdog_kick(k) ==
  /\ mode[k] = "running" /\ kick_pc[k] = "kick"
  /\ kick_pc' = [kick_pc EXCEPT ![k] = "idle"]
  /\ late' = IF \E c \in Cores : Gone(c) THEN [late EXCEPT ![k] = @ + 1] ELSE late
  /\ UNCHANGED <<mailbox, ipi, mode, alive_mask, starting, app, armed, expected_mask,
                 core_kicked, kick_i, kick_mask>>

watchdog_core_kick(k) ==
  kick_report(k) \/ kick_read_mask(k) \/ kick_scan(k) \/ kick_reset(k) \/ watchdog_kick(k)

\* The hardware resets the board, as at power-on; watchdog_init has armed it
WatchdogReset ==
  /\ armed
  /\ mailbox' = Off /\ ipi' = Off
  /\ mode' = [c \in Cores |-> IF c = 0 THEN "running" ELSE "parked"]
  /\ alive_mask' = {} /\ starting' = 0
  /\ app' = "down" /\ armed' = FALSE
  /\ expected_mask' = {} /\ core_kicked' = Off
  /\ kick_pc'   = [c \in Cores |-> "idle"]
  /\ kick_i'    = Zero
  /\ kick_mask' = [c \in Cores |-> {}]
  /\ late'      = Zero

-------------------------------------------------------------------------------

CoresNext ==
  \/ companion_core_init \/ start_mark \/ enter_bootloader \/ WatchdogReset
  \/ \E c \in Companions :
       \/ companion_core_start(c)
       \/ unpark(c) \/ mailbox_park_request(c) \/ companion_core_park(c)
  \/ \E k \in Cores : watchdog_core_kick(k) \/ hang(k)

CoresSpec == CoresInit /\ [][CoresNext]_coreVars

\* A core that runs calls watchdog_core_kick once per period and gets through it
CoresFairness == \A k \in Cores : WF_coreVars(watchdog_core_kick(k))

CoresTypeOK ==
  /\ mailbox \in [Cores -> BOOLEAN] /\ ipi \in [Cores -> BOOLEAN]
  /\ mode \in [Cores -> {"parked", "running", "parking", "hung"}]
  /\ alive_mask \subseteq Companions /\ starting \in Cores
  /\ app \in {"down", "up"} /\ armed \in BOOLEAN
  /\ expected_mask \subseteq Cores
  /\ core_kicked \in [Cores -> BOOLEAN]
  /\ kick_pc   \in [Cores -> {"idle", "mask", "scan", "reset", "kick"}]
  /\ kick_i    \in [Cores -> Cores]
  /\ kick_mask \in [Cores -> SUBSET Cores]
  /\ late      \in [Cores -> Nat]

\* Once a core that was released is gone - it hangs, it never came up, or it
\* parked late and cleared the mailbox with its new entry - nobody goes on
\* feeding the watchdog for it: each other core does so at most once with the
\* kick it was in and once on the reports of the last round (companion_core's
\* docs.md: "catching a core that never comes up, not just one that comes up and
\* later hangs").
LateKicksBounded == \A k \in Cores : late[k] <= 2

\* As long as all the cores that were released run, the watchdog is fed again
\* and again: although cores withdraw each other's reports without a lock, a
\* report is only ever lost to a round that feeds the watchdog.
Healthy == app = "up" /\ starting = 0 /\ \A c \in expected_mask : mode[c] = "running"
KicksRecur == <>[]Healthy => []<><<\E k \in Cores : watchdog_kick(k)>>_coreVars
===============================================================================
