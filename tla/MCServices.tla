------------------------------- MODULE MCServices -------------------------------
(***************************************************************************)
(* The services on top of the scheduler: software timers, the companion    *)
(* cores and their watchdog, the queue, the buffered UART and telemetry.   *)
(* They share no state, so a behaviour exercises one of them: `subject'    *)
(* says which, and the others stay as they were initialised.  Two of them  *)
(* are taken in two parts, to keep the instances small: the companion      *)
(* cores without soft reboots ("gate") and with soft reboots but one       *)
(* companion only ("park"); telemetry with ticks but no reports ("rings")  *)
(* and with reports but no ticks ("wire").                                 *)
(***************************************************************************)
EXTENDS SoftwareTimer, CompanionCores, Queue, UartTx, Telemetry

CONSTANTS x, y, z

ASSUME CarefulCallers == Careless = {}

VARIABLE subject

allVars == <<timerVars, coreVars, queueVars, uartVars, telemetryVars, subject>>

MCLineLengths == <<{1}, {3}>>
MCRecord == (0 :> {x, y}) @@ (1 :> {z})

ServicesInit ==
  /\ TimerInit /\ CoresInit /\ QueueInit /\ UartInit /\ TelemetryInit
  /\ subject \in {"timer", "gate", "park", "queue", "uart", "rings", "wire"}
  /\ subject # "queue" => \A i \in DOMAIN slots : slots[i] = x
  /\ subject # "uart"  => ~ is_dma_enabled /\ \A i \in Slot : uart_buf[i] = x

TimerPart ==
  /\ subject = "timer" /\ TimerNext
  /\ UNCHANGED <<coreVars, queueVars, uartVars, telemetryVars>>

CoresPart ==
  /\ subject \in {"gate", "park"} /\ CoresNext
  /\ subject = "gate" => app' = app \/ armed' # armed
  /\ subject = "park" => starting' \in {0, 1}
  /\ UNCHANGED <<timerVars, queueVars, uartVars, telemetryVars>>

QueuePart ==
  /\ subject = "queue" /\ QueueNext
  /\ UNCHANGED <<timerVars, coreVars, uartVars, telemetryVars>>

UartPart ==
  /\ subject = "uart" /\ UartNext
  /\ UNCHANGED <<timerVars, coreVars, queueVars, telemetryVars>>

TelemetryPart ==
  /\ subject \in {"rings", "wire"} /\ TelemetryNext
  /\ subject = "rings" => ~ \E c \in TCore : \/ report_event(c) \/ report_boot(c)
                                              \/ telemetry_register_sync(c)
  /\ subject = "wire"  => g_tick_rings' = g_tick_rings
  /\ UNCHANGED <<timerVars, coreVars, queueVars, uartVars>>

ServicesNext ==
  /\ TimerPart \/ CoresPart \/ QueuePart \/ UartPart \/ TelemetryPart
  /\ UNCHANGED subject

Rest == <<timerVars, queueVars, telemetryVars, subject>>

\* CoresFairness and UartFairness, with the other components standing still
ServicesSpec ==
  /\ ServicesInit /\ [][ServicesNext]_allVars
  /\ \A k \in Cores : WF_allVars(watchdog_core_kick(k) /\ UNCHANGED <<Rest, uartVars>>)
  /\ \A p \in Printer : WF_allVars(PrintStep(p) /\ UNCHANGED <<Rest, coreVars>>)
  /\ WF_allVars(uart_tx_task /\ UNCHANGED <<Rest, coreVars>>)
  /\ WF_allVars(Dma /\ UNCHANGED <<Rest, coreVars>>)
===============================================================================
