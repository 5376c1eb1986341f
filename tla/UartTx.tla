--------------------------------- MODULE UartTx ---------------------------------
(***************************************************************************)
(* drivers/uart/uart.c, the buffered channel: tasks of any core print into *)
(* a ring under uart_buf_lock; uart_tx_task drains it without that lock,   *)
(* by DMA runs whose end comes as an interrupt, or byte by byte.           *)
(*                                                                         *)
(* The two indices and the slots are shared by the printing tasks, the     *)
(* transmit task and the DMA engine without further locks: each access to  *)
(* them is a step of its own.  What a printf formats is its number of      *)
(* characters, in pieces of at most one sink buffer.  The semaphores are   *)
(* binary and are their counts.                                            *)
(*                                                                         *)
(* The model begins when uart_channel_task_start has run; before that, and *)
(* from the fault handlers, bytes go to the wire directly.                 *)
(***************************************************************************)
EXTENDS Integers, Sequences

CONSTANTS
  Printer,       \* the tasks that print
  Byte,
  UartSize,      \* UART_BUFFER_SIZE
  ChunkSize,     \* PRINTF_CHUNK_SIZE - 1, what sink_flush hands over at once
  LineLengths,   \* bound: LineLengths[p], how many characters a printf of p comes to
  Nobody

ASSUME UartAssumption ==
  /\ UartSize \in Nat /\ UartSize > 1
  /\ ChunkSize \in Nat \ {0} /\ LineLengths \in [Printer -> SUBSET (Nat \ {0})]
  /\ Nobody \notin Printer

Slot == 0 .. UartSize - 1

VARIABLES
  uart_buf,
  p_uart_buf_left,      \* index of the last byte consumed
  p_uart_buf_right,     \* index of the last byte produced
  uart_buf_lock,        \* who holds it
  print_pc,             \* where in uart_channel_printf a task is
  chunk,                \* characters of the piece that are still to be queued
  line,                 \* characters of the printf behind that piece
  uart_data_ready, uart_dma_done,
  is_dma_enabled,
  tx_pc,                \* where uart_tx_task is
  tx_run,               \* its `run'
  dma_next, dma_left,   \* the engine: its next slot and the words still to move
  dma_irq,              \* its completion interrupt is pending
  inside,               \* history: bytes published that are not out yet
  wire                  \* history: the last byte that went out

printVars == <<uart_buf_lock, print_pc, chunk, line>>
txVars    == <<tx_pc, tx_run, dma_next, dma_left, dma_irq>>
uartVars  == <<uart_buf, p_uart_buf_left, p_uart_buf_right, printVars, uart_data_ready,
               uart_dma_done, is_dma_enabled, txVars, inside, wire>>

UartInit ==
  /\ uart_buf \in [Slot -> Byte] /\ \A i, j \in Slot : uart_buf[i] = uart_buf[j]
  /\ p_uart_buf_left = 0 /\ p_uart_buf_right = 0
  /\ uart_buf_lock = Nobody
  /\ print_pc = [p \in Printer |-> "idle"]
  /\ chunk = [p \in Printer |-> 0] /\ line = [p \in Printer |-> 0]
  /\ uart_data_ready = 0 /\ uart_dma_done = 0
  /\ is_dma_enabled \in BOOLEAN
  /\ tx_pc = "take" /\ tx_run = 0
  /\ dma_next = 0 /\ dma_left = 0 /\ dma_irq = FALSE
  /\ inside = 0 /\ wire = <<>>

After(i) == (i + 1) % UartSize

-------------------------------------------------------------------------------
\* Printing

PrintGoes(p, from, to) == print_pc[p] = from /\ print_pc' = [print_pc EXCEPT ![p] = to]

\* The first n characters, or fewer, of what is left to print
Piece(n) == IF n < ChunkSize THEN n ELSE ChunkSize

\* uart_vprintf has formatted n characters; the sink hands over the first piece
uart_printf(p, n) ==
  /\ PrintGoes(p, "idle", "lock")
  /\ chunk' = [chunk EXCEPT ![p] = Piece(n)]
  /\ line'  = [line EXCEPT ![p] = n - Piece(n)]
  /\ UNCHANGED <<uart_buf, p_uart_buf_left, p_uart_buf_right, uart_buf_lock,
                 uart_data_ready, uart_dma_done, is_dma_enabled, txVars, inside, wire>>

\* uart_channel_print, and uart_channel_send_byte for a piece of one
print_lock(p) ==
  /\ uart_buf_lock = Nobody
  /\ uart_buf_lock' = p
  /\ PrintGoes(p, "lock", "tx")
  /\ UNCHANGED <<uart_buf, p_uart_buf_left, p_uart_buf_right, chunk, line,
                 uart_data_ready, uart_dma_done, is_dma_enabled, txVars, inside, wire>>

\* BUG: the ring is filled to its last slot.
RingFull_Never == FALSE

\* next == p_uart_buf_left
RingFull == After(p_uart_buf_right) = p_uart_buf_left

drop_byte(p) ==
  /\ RingFull /\ chunk[p] > 0
  /\ PrintGoes(p, "tx", "tx")
  /\ chunk' = [chunk EXCEPT ![p] = @ - 1]
  /\ UNCHANGED <<uart_buf, p_uart_buf_left, p_uart_buf_right, uart_buf_lock, line,
                 uart_data_ready, uart_dma_done, is_dma_enabled, txVars, inside, wire>>

\* uart_channel_tx: the byte goes into the slot first, ...
store_byte(p, b) ==
  /\ ~ RingFull /\ chunk[p] > 0
  /\ PrintGoes(p, "tx", "publish")
  /\ uart_buf' = [uart_buf EXCEPT ![After(p_uart_buf_right)] = b]
  /\ UNCHANGED <<p_uart_buf_left, p_uart_buf_right, uart_buf_lock, chunk, line,
                 uart_data_ready, uart_dma_done, is_dma_enabled, txVars, inside, wire>>

\* ... then the index says so
publish_byte(p) ==
  /\ PrintGoes(p, "publish", "tx")
  /\ p_uart_buf_right' = After(p_uart_buf_right)
  /\ chunk'  = [chunk EXCEPT ![p] = @ - 1]
  /\ inside' = inside + 1
  /\ UNCHANGED <<uart_buf, p_uart_buf_left, uart_buf_lock, line,
                 uart_data_ready, uart_dma_done, is_dma_enabled, txVars, wire>>

print_unlock(p) ==
  /\ chunk[p] = 0
  /\ PrintGoes(p, "tx", "give")
  /\ uart_buf_lock' = Nobody
  /\ UNCHANGED <<uart_buf, p_uart_buf_left, p_uart_buf_right, chunk, line,
                 uart_data_ready, uart_dma_done, is_dma_enabled, txVars, inside, wire>>

\* semaphore_give, and the sink's next piece
print_give(p) ==
  /\ PrintGoes(p, "give", IF line[p] > 0 THEN "lock" ELSE "idle")
  /\ uart_data_ready' = 1
  /\ chunk' = [chunk EXCEPT ![p] = Piece(line[p])]
  /\ line'  = [line EXCEPT ![p] = @ - Piece(@)]
  /\ UNCHANGED <<uart_buf, p_uart_buf_left, p_uart_buf_right, uart_buf_lock,
                 uart_dma_done, is_dma_enabled, txVars, inside, wire>>

-------------------------------------------------------------------------------
\* uart_tx_task

tx_take ==
  /\ tx_pc = "take" /\ uart_data_ready = 1
  /\ uart_data_ready' = 0
  /\ tx_pc' = "loop"
  /\ UNCHANGED <<uart_buf, p_uart_buf_left, p_uart_buf_right, printVars, uart_dma_done,
                 is_dma_enabled, tx_run, dma_next, dma_left, dma_irq, inside, wire>>

\* The while condition of either drain
tx_loop ==
  /\ tx_pc = "loop"
  /\ tx_pc' = IF p_uart_buf_right = p_uart_buf_left THEN "take"
              ELSE IF is_dma_enabled THEN "run" ELSE "pio"
  /\ UNCHANGED <<uart_buf, p_uart_buf_left, p_uart_buf_right, printVars, uart_data_ready,
                 uart_dma_done, is_dma_enabled, tx_run, dma_next, dma_left, dma_irq,
                 inside, wire>>

\* The bytes of one DMA run: those behind left, up to the end of the buffer
RunLength ==
  LET start == After(p_uart_buf_left)
      avail == (p_uart_buf_right - p_uart_buf_left + UartSize) % UartSize
  IN  IF start + avail > UartSize THEN UartSize - start ELSE avail

\* uart_dma_tx_run and dma_start
dma_start ==
  /\ tx_pc = "run"
  /\ tx_run'   = RunLength
  /\ dma_next' = After(p_uart_buf_left)
  /\ dma_left' = RunLength
  /\ tx_pc' = "wait"
  /\ UNCHANGED <<uart_buf, p_uart_buf_left, p_uart_buf_right, printVars, uart_data_ready,
                 uart_dma_done, is_dma_enabled, dma_irq, inside, wire>>

\* The slots of the run are given back only now
tx_done ==
  /\ tx_pc = "wait" /\ uart_dma_done = 1
  /\ uart_dma_done' = 0
  /\ p_uart_buf_left' = (p_uart_buf_left + tx_run) % UartSize
  /\ tx_run' = 0 /\ tx_pc' = "loop"
  /\ UNCHANGED <<uart_buf, p_uart_buf_right, printVars, uart_data_ready,
                 is_dma_enabled, dma_next, dma_left, dma_irq, inside, wire>>

\* Without DMA the slot is given back first: it is the gap that keeps the byte
tx_pio ==
  /\ tx_pc = "pio"
  /\ p_uart_buf_left' = After(p_uart_buf_left)
  /\ tx_pc' = "raw"
  /\ UNCHANGED <<uart_buf, p_uart_buf_right, printVars, uart_data_ready, uart_dma_done,
                 is_dma_enabled, tx_run, dma_next, dma_left, dma_irq, inside, wire>>

\* BUG: one byte for each time the task is woken.
uart_channel_tx_raw_Once ==
  /\ tx_pc = "raw"
  /\ wire' = <<uart_buf[p_uart_buf_left]>>
  /\ inside' = inside - 1
  /\ tx_pc' = "take"
  /\ UNCHANGED <<uart_buf, p_uart_buf_left, p_uart_buf_right, printVars, uart_data_ready,
                 uart_dma_done, is_dma_enabled, tx_run, dma_next, dma_left, dma_irq>>

uart_channel_tx_raw ==
  /\ tx_pc = "raw"
  /\ wire' = <<uart_buf[p_uart_buf_left]>>
  /\ inside' = inside - 1
  /\ tx_pc' = "loop"
  /\ UNCHANGED <<uart_buf, p_uart_buf_left, p_uart_buf_right, printVars, uart_data_ready,
                 uart_dma_done, is_dma_enabled, tx_run, dma_next, dma_left, dma_irq>>

-------------------------------------------------------------------------------
\* The DMA engine

\* One word of the run, paced by the UART
dma_move ==
  /\ dma_left > 0
  /\ wire' = <<uart_buf[dma_next]>>
  /\ inside'   = inside - 1
  /\ dma_next' = After(dma_next)
  /\ dma_left' = dma_left - 1
  /\ dma_irq'  = (dma_left = 1)
  /\ UNCHANGED <<uart_buf, p_uart_buf_left, p_uart_buf_right, printVars, uart_data_ready,
                 uart_dma_done, is_dma_enabled, tx_pc, tx_run>>

uart_dma_irq_handler ==
  /\ dma_irq
  /\ dma_irq' = FALSE
  /\ uart_dma_done' = 1
  /\ UNCHANGED <<uart_buf, p_uart_buf_left, p_uart_buf_right, printVars, uart_data_ready,
                 is_dma_enabled, tx_pc, tx_run, dma_next, dma_left, inside, wire>>

-------------------------------------------------------------------------------

PrintStep(p) ==
  \/ print_lock(p) \/ drop_byte(p) \/ (\E b \in Byte : store_byte(p, b))
  \/ publish_byte(p) \/ print_unlock(p) \/ print_give(p)

uart_tx_task ==
  tx_take \/ tx_loop \/ dma_start \/ tx_done \/ tx_pio \/ uart_channel_tx_raw

Dma == dma_move \/ uart_dma_irq_handler

UartNext ==
  \/ \E p \in Printer : PrintStep(p) \/ \E n \in LineLengths[p] : uart_printf(p, n)
  \/ uart_tx_task \/ Dma

UartSpec == UartInit /\ [][UartNext]_uartVars

\* The lock is fair and a print runs masked to its end; the transmit task is
\* scheduled; the engine moves its words and its interrupt is taken
UartFairness ==
  /\ \A p \in Printer : WF_uartVars(PrintStep(p))
  /\ WF_uartVars(uart_tx_task)
  /\ WF_uartVars(Dma)

UartTypeOK ==
  /\ uart_buf \in [Slot -> Byte]
  /\ p_uart_buf_left \in Slot /\ p_uart_buf_right \in Slot
  /\ uart_buf_lock \in Printer \cup {Nobody}
  /\ print_pc \in [Printer -> {"idle", "lock", "tx", "publish", "give"}]
  /\ chunk \in [Printer -> 0 .. ChunkSize] /\ line \in [Printer -> Nat]
  /\ uart_data_ready \in {0, 1} /\ uart_dma_done \in {0, 1}
  /\ is_dma_enabled \in BOOLEAN
  /\ tx_pc \in {"take", "loop", "run", "wait", "pio", "raw"}
  /\ tx_run \in Slot
  /\ dma_next \in Slot /\ dma_left \in Slot /\ dma_irq \in BOOLEAN
  /\ inside \in 0 .. UartSize
  /\ wire \in {<<>>} \cup {<<b>> : b \in Byte}

\* The bytes that are published and not out yet
Queued ==
  [i \in 1 .. inside |-> uart_buf[(p_uart_buf_right - inside + i + UartSize) % UartSize]]

UartFifo == INSTANCE BoundedFifo WITH Item <- Byte, Cap <- UartSize,
                                  q <- Queued, out <- wire

\* Every byte that a print got into the ring goes out once, in the order in
\* which the prints queued them and with the value they stored, although slots
\* are refilled while the engine or the transmit task reads others: a full ring
\* drops the byte that comes, never one that is inside (uart/docs.md).
UartIsFifo == UartFifo!Spec

\* Bytes that are in the ring go out: the transmit task cannot fall asleep over
\* them, although the token it waits for is given after the bytes are visible
\* and one token stands for any number of prints.
BytesGoOut ==
  \A i \in Slot : (p_uart_buf_left = i /\ p_uart_buf_right # i) ~> p_uart_buf_left # i
===============================================================================
