------------------------------- MODULE Dht11 -------------------------------
(***************************************************************************)
(* The DHT11 character device driver, dht11km/dht11.c (dht11km/dht11_paul.c *)
(* is the same program with pr_info for printk).                           *)
(*                                                                         *)
(* All the work is done by open(): it takes gpio_mutex, pulls the sensor's *)
(* start pulse, lets an edge interrupt record the length of every pulse,   *)
(* waits on a completion with a timeout, frees the interrupt, decodes, and *)
(* tries again when the frame is bad.  read() hands out the message that   *)
(* open() left in a global; close() gives the mutex back.                  *)
(*                                                                         *)
(* A step of a process is a stretch of open() that no other process and no *)
(* interrupt can tell from one step: the interrupt is requested only from  *)
(* "setup" to "clear", and every other global is behind the mutex.         *)
(*                                                                         *)
(* An operator with a suffix (_missing, _untested...) is the faulty twin   *)
(* of the one below it; no action uses it.                                 *)
(***************************************************************************)
EXTENDS Dht11Frame, Sequences

CONSTANTS
  Procs,      (* processes that open /dev/DHT11                             *)
  NONE,       (* no process, no report                                      *)
  MAX_RETRY,  (* attempts of one open, 10 in the driver                     *)
  Widths,     (* pulse lengths (microseconds) an interrupt can measure      *)
  MaxLows,    (* falling edges the sensor shows after one start pulse       *)
  MaxDone,    (* bound: completions counted and not yet consumed            *)
  MaxReads    (* bound: read calls in flight on one open file               *)

ASSUME Dht11Assumption ==
  /\ NONE \notin Procs
  /\ MAX_RETRY \in Nat \ {0}
  /\ Widths \subseteq Int
  /\ MaxLows \in Nat
  /\ MaxDone \in Nat \ {0}
  /\ MaxReads \in Nat \ {0}

DATABIT == 5 * BYTE
TOTAL_INT_BLOCK == DATABIT + 1
bitM == (26 * 3) \div 2        (* DHT11_DATA_BIT_LOW * 3 / 2  *)
bitN == (70 * 2) \div 3        (* DHT11_DATA_BIT_HIGH * 2 / 3 *)

Slots == 0 .. DATABIT          (* the indices of timeBit *)

(* The words a handler can reach through timeBit: its own and those behind it. *)
(* What the linker puts behind the array is not modelled; a word there keeps   *)
(* what was stored.  Here and below, MaxLows + 1 pulses at most are stored.    *)
Words == Slots \cup 0 .. MaxLows

Reports == [values : [Fields -> Bytes], result : {"OK", "BAD"}]

ASSUME NoneIsNoReport == NONE \notin Reports

VARIABLES
  gpio_mutex,  (* TRUE while the mutex is held                              *)
  pc,          (* where each process stands in a session                    *)
  retry,       (* open_dht11's local retry                                  *)
  ret,         (* how open_dht11's last wait ended                          *)
  done,        (* the counter inside gpio_completion                        *)
  irq,         (* TRUE while the edge interrupt is requested                *)
  nBit,        (* next free slot of timeBit                                 *)
  timeBit,     (* recorded pulse lengths                                    *)
  dht11,       (* the last decoded reading                                  *)
  msg,         (* the message: the values it shows and its verdict          *)
  msgPtr,      (* msg_Ptr - msg, in whole messages; 1 is the final NUL      *)
  reads,       (* read calls past their NUL test, not yet past the advance  *)
  lows,        (* environment: falling edges since the last start pulse     *)
  late,        (* history: a handler of this attempt read another edge's low *)
  taken        (* history: the pulses recorded since the last start pulse   *)

session == <<gpio_mutex, pc, retry, ret>>
signal == <<lows, late, taken>>
capture == <<done, irq, nBit, timeBit, signal>>
reading == <<msgPtr, reads>>
vars == <<gpio_mutex, pc, retry, ret, done, irq, nBit, timeBit, dht11, msg,
          msgPtr, reads, lows, late, taken>>


Init ==
  /\ gpio_mutex = FALSE
  /\ pc = [p \in Procs |-> "closed"]
  /\ retry = [p \in Procs |-> 0]
  /\ ret = [p \in Procs |-> "unset"]
  /\ done = 0
  /\ irq = FALSE
  /\ nBit = 0
  /\ timeBit = [i \in Words |-> 0]
  /\ dht11 = ZeroReading
  /\ msg = [values |-> ZeroReading, result |-> "none"]
  /\ msgPtr = 0
  /\ reads = [p \in Procs |-> 0]
  /\ lows = 0
  /\ late = FALSE
  /\ taken = <<>>

Goto(p, from, to) == pc[p] = from /\ pc' = [pc EXCEPT ![p] = to]

(***************************************************************************)
(* Decoding.                                                               *)
(***************************************************************************)
dht11_decode_byte(timing, first) ==
  [i \in 0 .. BYTE - 1 |-> IF timing[first + i] >= bitM THEN 1 ELSE 0]

Decode(timing) == [f \in Fields |-> dht11_decode_byte(timing, 1 + BYTE * f)]

Decoded == Decode(timeBit)

Poor(data) == data > bitM /\ data < bitN

(* Only the nBit pulses recorded by this attempt are looked at here; decoding *)
(* itself reads all of timeBit, whoever recorded it.                          *)
PoorResolution == \E i \in Words : i < nBit /\ Poor(timeBit[i])

GoodFrame == ~PoorResolution /\ ChecksumHolds(Decoded)

(***************************************************************************)
(* The interrupt handler.  It runs on every edge and looks at the level of *)
(* the line, not at the edge that called it: the handler of a rising edge  *)
(* can be so late that it finds the next low.                              *)
(***************************************************************************)
complete(n) == IF n < MaxDone THEN n + 1 ELSE n

(* Completion is signalled by EVERY interrupt once the frame is full. *)
CompleteIfFull(n) == done' = IF n >= TOTAL_INT_BLOCK THEN complete(done) ELSE done

(* signal == 0: timeBit[nBit++] = data, with no test of nBit. *)
Record ==
  /\ \E data \in Widths : /\ timeBit' = [timeBit EXCEPT ![nBit] = data]
                          /\ taken' = Append(taken, data)
  /\ nBit' = nBit + 1
  /\ CompleteIfFull(nBit + 1)

IrqLow ==
  /\ irq
  /\ lows < MaxLows
  /\ Record
  /\ lows' = lows + 1
  /\ UNCHANGED <<session, irq, late, dht11, msg, reading>>

(* A rising edge's handler that finds the low of the edge to come, whose own *)
(* interrupt follows.  Bound: one of them in an attempt.                     *)
IrqLate ==
  /\ irq
  /\ lows < MaxLows
  /\ ~late
  /\ Record
  /\ late' = TRUE
  /\ UNCHANGED <<session, irq, lows, dht11, msg, reading>>

IrqHigh ==
  /\ irq
  /\ CompleteIfFull(nBit)
  /\ UNCHANGED <<session, irq, nBit, timeBit, signal, dht11, msg, reading>>

(* The line goes low while no interrupt is requested: the edge is lost. *)
LostEdge ==
  /\ ~irq
  /\ lows < MaxLows
  /\ lows' = lows + 1
  /\ UNCHANGED <<session, done, irq, nBit, timeBit, late, taken, dht11, msg, reading>>

(***************************************************************************)
(* open_dht11.                                                             *)
(***************************************************************************)
mutex_trylock_untested == gpio_mutex' = TRUE

mutex_trylock == ~gpio_mutex /\ gpio_mutex' = TRUE

reinit_completion_missing == UNCHANGED done

reinit_completion == done' = 0

(* mutex_trylock failed: -EBUSY, and nothing has changed. *)
OpenBusy(p) == pc[p] = "closed" /\ gpio_mutex /\ UNCHANGED vars

Open(p) ==
  /\ Goto(p, "closed", "start")
  /\ mutex_trylock
  /\ reinit_completion
  /\ UNCHANGED <<retry, ret, irq, nBit, timeBit, signal, dht11, msg, reading>>

RestartCapture_missing == UNCHANGED nBit

RestartCapture == nBit' = 0

(* start_read: the start pulse, and a new frame from the sensor. *)
StartRead(p) ==
  /\ Goto(p, "start", "setup")
  /\ RestartCapture
  /\ lows' = 0
  /\ late' = FALSE
  /\ taken' = <<>>
  /\ UNCHANGED <<gpio_mutex, retry, ret, done, irq, timeBit, dht11, msg, reading>>

(* request_irq may fail; open_dht11 does not look at the result. *)
setup_interrupts(p) ==
  /\ Goto(p, "setup", "wait")
  /\ irq' \in {TRUE, FALSE}
  /\ UNCHANGED <<gpio_mutex, retry, ret, done, nBit, timeBit, signal, dht11, msg, reading>>

(* wait_for_completion_killable_timeout consumes one completion if there is *)
(* one; otherwise it ends with the timeout or with a fatal signal.          *)
WaitCompleted(p) ==
  /\ Goto(p, "wait", "clear")
  /\ done > 0
  /\ done' = done - 1
  /\ ret' = [ret EXCEPT ![p] = "completed"]
  /\ UNCHANGED <<gpio_mutex, retry, irq, nBit, timeBit, signal, dht11, msg, reading>>

WaitTimedOut(p) ==
  /\ Goto(p, "wait", "clear")
  /\ done = 0
  /\ ret' = [ret EXCEPT ![p] = "timeout"]
  /\ UNCHANGED <<gpio_mutex, retry, capture, dht11, msg, reading>>

FreeIrq_missing == UNCHANGED irq

FreeIrq == irq' = FALSE

clear_interrupts(p) ==
  /\ Goto(p, "clear", "decode")
  /\ FreeIrq
  /\ UNCHANGED <<gpio_mutex, retry, ret, done, nBit, timeBit, signal, dht11, msg, reading>>

(* A poor frame leaves the previous reading in place. *)
UpdateReading == dht11' = IF PoorResolution THEN dht11 ELSE Decoded

(* return_result: the message shows whatever dht11 holds by now. *)
ReturnResult(p, result) ==
  /\ Goto(p, "decode", "open")
  /\ msg' = [values |-> dht11', result |-> result]
  /\ msgPtr' = 0
  /\ retry' = [retry EXCEPT ![p] = 0]
  /\ ret' = [ret EXCEPT ![p] = "unset"]
  /\ UNCHANGED <<gpio_mutex, capture, reads>>

DecodeGood(p) == UpdateReading /\ GoodFrame /\ ReturnResult(p, "OK")

CountTry_missing(p) == UNCHANGED retry

CountTry(p) == retry' = [retry EXCEPT ![p] = @ + 1]

LastTry(p) == retry[p] + 1 = MAX_RETRY

DecodeBad(p) ==
  /\ Goto(p, "decode", "start")
  /\ UpdateReading
  /\ ~GoodFrame
  /\ ~LastTry(p)
  /\ CountTry(p)
  /\ UNCHANGED <<gpio_mutex, ret, capture, msg, reading>>

GiveUp(p) == UpdateReading /\ ~GoodFrame /\ LastTry(p) /\ ReturnResult(p, "BAD")

(***************************************************************************)
(* read_dht11 and close_dht11.  The kernel calls close_dht11 only when no  *)
(* read call is still using the file.                                      *)
(***************************************************************************)
AtEnd == msgPtr >= 1

ReadEof(p) == pc[p] = "open" /\ AtEnd /\ UNCHANGED vars

ReadBegin(p) ==
  /\ pc[p] = "open"
  /\ ~AtEnd
  /\ reads[p] < MaxReads
  /\ reads' = [reads EXCEPT ![p] = @ + 1]
  /\ UNCHANGED <<session, capture, dht11, msg, msgPtr>>

(* copy_to_user may fail: -EFAULT, and the pointer stays. *)
ReadEnd(p) ==
  /\ reads[p] > 0
  /\ reads' = [reads EXCEPT ![p] = @ - 1]
  /\ msgPtr' \in {msgPtr, msgPtr + 1}
  /\ UNCHANGED <<session, capture, dht11, msg>>

mutex_unlock_missing == UNCHANGED gpio_mutex

mutex_unlock == gpio_mutex' = FALSE

Close(p) ==
  /\ reads[p] = 0
  /\ Goto(p, "open", "closed")
  /\ mutex_unlock
  /\ UNCHANGED <<retry, ret, capture, dht11, msg, reading>>

-----------------------------------------------------------------------------
Interrupt == IrqLow \/ IrqLate \/ IrqHigh \/ LostEdge

(* The steps of an open call once it has the mutex. *)
OpenStep(p) ==
  \/ StartRead(p) \/ setup_interrupts(p)
  \/ WaitCompleted(p) \/ WaitTimedOut(p)
  \/ clear_interrupts(p)
  \/ DecodeGood(p) \/ DecodeBad(p) \/ GiveUp(p)

Call(p) == OpenBusy(p) \/ Open(p) \/ ReadEof(p) \/ ReadBegin(p) \/ ReadEnd(p) \/ Close(p)

Next == Interrupt \/ \E p \in Procs : OpenStep(p) \/ Call(p)

SafetySpec == Init /\ [][Next]_vars

(* The scheduler runs an open call to its end: its sleeps and its wait are *)
(* bounded by timers.  Nothing makes the sensor answer or a process close. *)
Spec == SafetySpec /\ \A p \in Procs : WF_vars(OpenStep(p))
-----------------------------------------------------------------------------
InSession(p) == pc[p] # "closed"

(* Every variable ranges over the values the driver's types and loops allow. *)
TypeOK ==
  /\ gpio_mutex \in BOOLEAN
  /\ pc \in [Procs -> {"closed", "start", "setup", "wait", "clear", "decode", "open"}]
  /\ retry \in [Procs -> 0 .. MAX_RETRY - 1]
  /\ ret \in [Procs -> {"unset", "completed", "timeout"}]
  /\ done \in 0 .. MaxDone
  /\ irq \in BOOLEAN
  /\ nBit \in Nat
  /\ timeBit \in [Words -> Widths \cup {0}]
  /\ dht11 \in [Fields -> Bytes]
  /\ msg \in [values : [Fields -> Bytes], result : {"none", "OK", "BAD"}]
  /\ msgPtr \in Nat
  /\ reads \in [Procs -> 0 .. MaxReads]
  /\ lows \in 0 .. MaxLows
  /\ late \in BOOLEAN
  /\ taken \in Seq(Widths)

(* Whatever path an open takes (retries, a failed request_irq, a timeout, a  *)
(* bad frame), the mutex is held exactly while one process has a session:    *)
(* two never overlap, and no path leaves the mutex behind.                   *)
SessionLock ==
  /\ \A p, q \in Procs : InSession(p) /\ InSession(q) => p = q
  /\ gpio_mutex <=> \E p \in Procs : InSession(p)

(* When the attempt behind an OK recorded a whole frame, the message shows    *)
(* that frame: the pulses taken since its own start pulse, in their order,    *)
(* each clearly short or long, decode to the values shown and satisfy the     *)
(* checksum.  No pulse of an earlier attempt or session is mixed in.  (An OK  *)
(* without a whole frame is another matter: FreshResult.)                     *)
MessageIsOwnReading ==
  \A p \in Procs :
    pc[p] = "open" /\ msg.result = "OK" /\ Len(taken) >= TOTAL_INT_BLOCK =>
      LET frame == [i \in 0 .. Len(taken) - 1 |-> taken[i + 1]]
      IN  /\ \A i \in DOMAIN frame : ~Poor(frame[i])
          /\ msg.values = Decode(frame)
          /\ ChecksumHolds(msg.values)

(* Between free_irq and the next start pulse nothing moves under the decoder *)
(* or under the session that is open: no interrupt adds a pulse, restarts    *)
(* the count or signals the completion.                                      *)
QuietOutsideWait ==
  [][(\E p \in Procs : pc[p] \in {"decode", "open"})
       => UNCHANGED <<timeBit, nBit, done>>]_vars

(* A first attempt that was woken by the completion has its whole frame:     *)
(* completions left by an earlier session do not reach it.                   *)
FirstWakeHasFrame ==
  \A p \in Procs :
    pc[p] \in {"clear", "decode"} /\ retry[p] = 0 /\ ret[p] = "completed"
      => nBit >= TOTAL_INT_BLOCK

(* msg_Ptr never moves past the terminating NUL: the message is delivered    *)
(* once per session and then read as end of file (one read call at a time).  *)
PtrInMessage == msgPtr <= 1

(* An open that got the mutex returns, however long the sensor stays silent  *)
(* or sends bad frames.                                                      *)
OpenReturns == \A p \in Procs : pc[p] = "start" ~> pc[p] = "open"

(***************************************************************************)
(* The driver as an exclusive session device.                              *)
(***************************************************************************)
SessionOwner ==
  IF \E p \in Procs : InSession(p) THEN CHOOSE p \in Procs : InSession(p) ELSE NONE

SessionReport == IF \E p \in Procs : pc[p] = "open" THEN msg ELSE NONE

DS == INSTANCE DeviceSession WITH owner <- SessionOwner, report <- SessionReport

(* Every open that succeeds owns the device alone, gets exactly one message,  *)
(* and the message stays as it is until that process closes: the retries,     *)
(* interrupts and reads underneath are invisible.                             *)
ImplementsSession == DS!Safety

(***************************************************************************)
(* What the comments of dht11.c say and the code does not do.              *)
(***************************************************************************)
(* "To say if the result is trustworthy or not" (257), "Check if the read     *)
(* results are valid" (287): OK would mean that the whole frame came in.      *)
FreshResult ==
  \A p \in Procs : pc[p] = "open" /\ msg.result = "OK" => nBit >= TOTAL_INT_BLOCK
=============================================================================
