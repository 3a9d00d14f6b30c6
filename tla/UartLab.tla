------------------------------ MODULE UartLab ------------------------------
(***************************************************************************)
(* The interrupt-driven UART of SPI_UART/uart_lab.c: the handler moves     *)
(* each byte from the UART into a queue that a task empties.  No program   *)
(* of the repository calls it; the task here calls it in every order that  *)
(* its comments allow, a second uart__enable_receive_interrupt (for the    *)
(* other UART) included, or polls and enables no interrupt.                *)
(*                                                                         *)
(* An operator with a suffix (_front) is the faulty twin of the one below  *)
(* it; no action uses it.                                                  *)
(***************************************************************************)
EXTENDS Integers, Sequences

CONSTANT SLOTS    (* bytes the queue takes, 20 in the program *)

ASSUME UartLabAssumption == SLOTS \in Nat \ {0}

LabBytes == 0 .. SLOTS + 2    (* the line numbers its bytes round and round *)
Empty == SLOTS + 3
NULL == <<Empty>>

VARIABLES
  labRBR,              (* the byte in the receive register, or Empty        *)
  IER,                 (* TRUE when the UART interrupts                     *)
  your_uart_rx_queue,  (* NULL until it is created                          *)
  labPc,               (* where the task stands                             *)
  nextByte,            (* the next byte on the line                         *)
  input_byte,          (* the variable that the task polls into; Empty: it  *)
                       (* has not been written yet                          *)
  got                  (* how many bytes the task took, modulo 2; the last  *)

labVars == <<labRBR, IER, your_uart_rx_queue, labPc, nextByte, input_byte, got>>

LabInit ==
  /\ labRBR = Empty
  /\ IER = FALSE
  /\ your_uart_rx_queue = NULL
  /\ labPc = "main"
  /\ nextByte = 0
  /\ input_byte = Empty
  /\ got = <<0, 0>>

LabStep(from, to) == labPc = from /\ labPc' = to

GetByte(b) == got' = <<1 - got[1], b>>

uart_lab__init ==
  /\ LabStep("main", "ready")
  /\ UNCHANGED <<labRBR, IER, your_uart_rx_queue, nextByte, input_byte, got>>

(* The line waits for nobody: what finds the register full is lost. *)
LineByte ==
  /\ labPc \notin {"main", "assert"}
  /\ labRBR' = IF labRBR = Empty THEN nextByte ELSE labRBR
  /\ nextByte' = (nextByte + 1) % (SLOTS + 3)
  /\ UNCHANGED <<IER, your_uart_rx_queue, labPc, input_byte, got>>

(***************************************************************************)
(* uart_lab__polled_get, for a task that has no interrupts.  It looks once *)
(* and returns, with a byte or without, and no statement returns a value:  *)
(* the task that believes the value takes what its variable holds.         *)
(***************************************************************************)
PollStatus ==
  /\ ~IER
  /\ LabStep("ready", IF labRBR = Empty THEN "unread" ELSE "poll")
  /\ UNCHANGED <<labRBR, IER, your_uart_rx_queue, nextByte, input_byte, got>>

PollData ==
  /\ LabStep("poll", "read")
  /\ input_byte' = labRBR
  /\ labRBR' = Empty
  /\ UNCHANGED <<IER, your_uart_rx_queue, nextByte, got>>

(* A variable that was never written holds anything. *)
PollTrue ==
  /\ labPc \in {"read", "unread"}
  /\ labPc' = "ready"
  /\ \E b \in IF input_byte = Empty THEN LabBytes ELSE {input_byte} : GetByte(b)
  /\ UNCHANGED <<labRBR, IER, your_uart_rx_queue, nextByte, input_byte>>

PollFalse ==
  /\ labPc \in {"read", "unread"}
  /\ labPc' = "ready"
  /\ UNCHANGED <<labRBR, IER, your_uart_rx_queue, nextByte, input_byte, got>>

(***************************************************************************)
(* The queue.                                                              *)
(***************************************************************************)
EnableInterrupt ==
  /\ LabStep("ready", "create")
  /\ IER' = TRUE
  /\ UNCHANGED <<labRBR, your_uart_rx_queue, nextByte, input_byte, got>>

(* A second call replaces the queue, with what was in it. *)
CreateQueue ==
  /\ LabStep("create", "ready")
  /\ your_uart_rx_queue' = <<>>
  /\ UNCHANGED <<labRBR, IER, nextByte, input_byte, got>>

QueueSend_front(q, b) == IF Len(q) < SLOTS THEN <<b>> \o q ELSE q

QueueSend(q, b) == IF Len(q) < SLOTS THEN Append(q, b) ELSE q

(* An interrupt that comes before there is a queue ends in an assertion.  *)
your_receive_interrupt ==
  /\ IER /\ labRBR # Empty /\ labPc # "assert"
  /\ labRBR' = Empty
  /\ \/ /\ your_uart_rx_queue = NULL
        /\ labPc' = "assert"
        /\ UNCHANGED your_uart_rx_queue
     \/ /\ your_uart_rx_queue # NULL
        /\ your_uart_rx_queue' = QueueSend(your_uart_rx_queue, labRBR)
        /\ UNCHANGED labPc
  /\ UNCHANGED <<IER, nextByte, input_byte, got>>

uart_lab__get_char_from_queue ==
  /\ labPc = "ready"
  /\ your_uart_rx_queue \notin {NULL, <<>>}
  /\ GetByte(Head(your_uart_rx_queue))
  /\ your_uart_rx_queue' = Tail(your_uart_rx_queue)
  /\ UNCHANGED <<labRBR, IER, labPc, nextByte, input_byte>>

Stopped == labPc = "assert" /\ UNCHANGED labVars
-----------------------------------------------------------------------------
LabNext ==
  \/ uart_lab__init \/ LineByte
  \/ PollStatus \/ PollData \/ PollTrue \/ PollFalse
  \/ EnableInterrupt \/ CreateQueue \/ your_receive_interrupt
  \/ uart_lab__get_char_from_queue \/ Stopped

LabSpec == LabInit /\ [][LabNext]_labVars
-----------------------------------------------------------------------------
Queued == IF your_uart_rx_queue = NULL THEN <<>> ELSE your_uart_rx_queue

Copied == IF labPc = "read" THEN <<input_byte>> ELSE <<>>

Register == IF labRBR = Empty THEN <<>> ELSE <<labRBR>>

LabChannel == INSTANCE ByteChannel WITH
  Byte <- LabBytes, output <- got, flight <- Queued \o Copied \o Register

(* The value of a poll that read nothing is taken for a byte. *)
Misled == labPc = "unread" /\ got' # got

(* The task gets bytes in the order of the line, each at most once: a full    *)
(* queue, a late handler, a queue that is replaced and a poll that denies     *)
(* its byte only lose some.  The one exception is a poll that read nothing    *)
(* and passes for one that did: it hands out the byte before once more, or    *)
(* one that never was on the line.                                            *)
LabIsChannel ==
  LabChannel!Init /\ [][Misled \/ LabChannel!Next]_(LabChannel!vars)
=============================================================================
