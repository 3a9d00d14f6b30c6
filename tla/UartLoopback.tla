---------------------------- MODULE UartLoopback ----------------------------
(***************************************************************************)
(* The UART loopback program, UART_LoopBack/main.c and uart_lab.c: a task  *)
(* sends a string for ever through a UART whose output is wired to its     *)
(* input, and a task of lower priority polls the input and prints.         *)
(*                                                                         *)
(* The UART has one byte of room in each of THR, the two shift registers   *)
(* and RBR (its FIFOs are not enabled); a byte that arrives while RBR is   *)
(* full is lost.  A tick is long against the time of a byte on the line.   *)
(*                                                                         *)
(* An operator with a suffix (_longer, _missing...) is the faulty twin of  *)
(* the one below it; no action uses it.                                    *)
(***************************************************************************)
EXTENDS Integers, Sequences

CONSTANTS
  LENGTH,  (* bytes of send_out_string, 14 in the program                   *)
  DELAY    (* ticks of each vTaskDelay, 100 in the program                  *)

ASSUME UartLoopbackAssumption == LENGTH \in Nat \ {0} /\ DELAY \in Nat \ {0}

LoopBytes == 0 .. LENGTH - 1      (* a byte is its place in the string *)
NONE == LENGTH

VARIABLES
  THR, TSR, RBR,    (* the byte in each register, or NONE                   *)
  index, wpc, wDelay,       (* uart_write_task: i, place, ticks to sleep    *)
  byte_read, rpc, rDelay,   (* uart_read_task, likewise                     *)
  printed,          (* how many were printed, modulo 2, and the last        *)
  overtaken,        (* history: the line or the clock went on while a task  *)
                    (* had work to do                                       *)
  lost              (* history: a byte has been lost                        *)

uart == <<THR, TSR, RBR>>
writer == <<index, wpc, wDelay>>
reader == <<byte_read, rpc, rDelay>>
loopVars == <<uart, writer, reader, printed, overtaken, lost>>

LoopInit ==
  /\ THR = NONE /\ TSR = NONE /\ RBR = NONE
  /\ index = 0 /\ wpc = "main" /\ wDelay = 0
  /\ byte_read = NONE /\ rpc = "main" /\ rDelay = 0
  /\ printed = <<0, 0>>
  /\ overtaken = FALSE /\ lost = FALSE

Started == wpc # "main"

(* main: the scheduler starts with both tasks ready. *)
StartScheduler ==
  /\ ~Started
  /\ wpc' = "put"
  /\ rpc' = "get"
  /\ UNCHANGED <<uart, index, wDelay, byte_read, rDelay, printed, overtaken, lost>>

(***************************************************************************)
(* uart_write_task.  The loops of uart_lab__polled_put spin on the line    *)
(* status; each is left when THR is empty.                                 *)
(***************************************************************************)
WriterRuns == Started /\ wDelay = 0

vTaskDelay_missing == 0

vTaskDelay == DELAY

Put ==
  /\ WriterRuns
  /\ wpc = "put" /\ THR = NONE
  /\ THR' = index
  /\ wpc' = "sent"
  /\ UNCHANGED <<TSR, RBR, index, wDelay, reader, printed, overtaken, lost>>

PutReturns ==
  /\ WriterRuns
  /\ wpc = "sent" /\ THR = NONE
  /\ index' = (index + 1) % LENGTH
  /\ wpc' = "put"
  /\ wDelay' = vTaskDelay
  /\ UNCHANGED <<uart, reader, printed, overtaken, lost>>

(***************************************************************************)
(* uart_read_task.  It has the lower priority: a writer that does not      *)
(* sleep keeps the processor, spinning or not.  uart_lab__polled_get       *)
(* empties RBR and waits until it is full again.                           *)
(***************************************************************************)
ReaderRuns == Started /\ ~WriterRuns /\ rDelay = 0

Get ==
  /\ ReaderRuns
  /\ rpc = "get" /\ RBR # NONE
  /\ byte_read' = RBR
  /\ RBR' = NONE
  /\ rpc' = "again"
  /\ UNCHANGED <<THR, TSR, writer, rDelay, printed, overtaken, lost>>

AfterWait_reread == RBR

AfterWait == byte_read

GetReturns ==
  /\ ReaderRuns
  /\ rpc = "again" /\ RBR # NONE
  /\ byte_read' = AfterWait
  /\ rpc' = "print"
  /\ UNCHANGED <<uart, writer, rDelay, printed, overtaken, lost>>

PrintDelay_longer == 2 * DELAY

PrintDelay == DELAY

PrintByte ==
  /\ ReaderRuns
  /\ rpc = "print"
  /\ printed' = <<1 - printed[1], byte_read>>
  /\ byte_read' = NONE
  /\ rpc' = "get"
  /\ rDelay' = PrintDelay
  /\ UNCHANGED <<uart, writer, overtaken, lost>>

(***************************************************************************)
(* The UART and the clock.  Nothing makes them wait for the tasks.         *)
(***************************************************************************)
Overdue ==
  \/ WriterRuns /\ THR = NONE
  \/ ReaderRuns /\ (rpc = "print" \/ RBR # NONE)

Shift ==
  /\ THR # NONE /\ TSR = NONE
  /\ TSR' = THR
  /\ THR' = NONE
  /\ UNCHANGED <<RBR, writer, reader, printed, overtaken, lost>>

Arrive ==
  /\ TSR # NONE
  /\ RBR' = IF RBR = NONE THEN TSR ELSE RBR
  /\ lost' = (lost \/ RBR # NONE)
  /\ TSR' = NONE
  /\ overtaken' = (overtaken \/ Overdue)
  /\ UNCHANGED <<THR, writer, reader, printed>>

Down(n) == IF n = 0 THEN 0 ELSE n - 1

Tick ==
  /\ Started
  /\ wDelay' = Down(wDelay)
  /\ rDelay' = Down(rDelay)
  /\ overtaken' = (overtaken \/ Overdue \/ THR # NONE \/ TSR # NONE)
  /\ UNCHANGED <<uart, index, wpc, byte_read, rpc, printed, lost>>
-----------------------------------------------------------------------------
uart_write_task == Put \/ PutReturns

uart_read_task == Get \/ GetReturns \/ PrintByte

LoopNext == StartScheduler \/ uart_write_task \/ uart_read_task \/ Shift \/ Arrive \/ Tick

(* The line and the clock go on, the writer runs when it can, and of the     *)
(* time in which the writer sleeps the reader gets some, again and again.    *)
LoopFairness ==
  /\ WF_loopVars(Shift) /\ WF_loopVars(Arrive) /\ WF_loopVars(Tick)
  /\ WF_loopVars(uart_write_task)
  /\ SF_loopVars(uart_read_task)

LoopSpec == LoopInit /\ [][LoopNext]_loopVars /\ LoopFairness
-----------------------------------------------------------------------------
Held(register) == IF register = NONE THEN <<>> ELSE <<register>>

LoopChannel == INSTANCE ByteChannel WITH
  Byte <- LoopBytes, output <- printed,
  flight <- Held(byte_read) \o Held(RBR) \o Held(TSR) \o Held(THR)

(* What is printed is what was sent, though bytes may be missing: none twice,*)
(* none out of order, even though a byte is printed only when the next one   *)
(* is there, which by then may be lost itself.                               *)
LoopIsChannel == LoopChannel!Safety

(* Two tasks that sleep equally long keep step: bytes are lost only after    *)
(* the line or the clock has overtaken one of them.                          *)
LossIsLateness == lost => overtaken

(* The loopback never stalls, although the reader waits for the next byte    *)
(* before it prints one and gives way to the writer all the time.            *)
KeepsPrinting == []<>Started => []<><<PrintByte>>_loopVars
=============================================================================
