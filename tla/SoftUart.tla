------------------------------ MODULE SoftUart ------------------------------
(***************************************************************************)
(* The software UART, RpiSoft-UART/softuart.c: two high-resolution timers  *)
(* shift bytes out of TX_BUFFER and into RX_BUFFER, one bit per tick, and  *)
(* the sysfs file "data" fills and empties the two buffers from process    *)
(* context with nothing to keep the timers out.                            *)
(*                                                                         *)
(* The receiving pin is wired to the transmitting pin (of the same board,  *)
(* or of another that runs this driver at the same baud rate).  The ticks  *)
(* of the two timers alternate, as equal periods make them, except for the *)
(* extra tick that restarting the transmit timer inserts.                  *)
(*                                                                         *)
(* A timer function, like a callback of the data file, takes one step for  *)
(* each look at a buffer and for each change of one.  On the four cores of *)
(* a Pi 2 or 3 (softuart.c:31) any of them can fall between two steps of   *)
(* another; on the one core of a Pi 1 a timer function runs to its end,    *)
(* which leaves some of the behaviours below.  The two timer functions     *)
(* share nothing but the line and do not cut each other.                   *)
(*                                                                         *)
(* An operator with a suffix (_first, _kept, _missing...) is the faulty    *)
(* twin of the one below it; no action uses it.                            *)
(***************************************************************************)
EXTENDS Integers, FiniteSets, SequencesExt

CONSTANTS
  Writers,      (* processes that write the data file                       *)
  Readers,      (* processes that read it                                   *)
  BITS,         (* data bits of a frame, 8 in the driver                    *)
  SIZE,         (* TX_BUFFER_SIZE and RX_BUFFER_SIZE, 256 in the driver     *)
  Messages,     (* what is written: sequences of non-NUL bytes              *)
  MaxWrites,    (* bound: write calls                                       *)
  MaxReads,     (* bound: read calls                                        *)
  MaxToggles,   (* bound: changes of the loopback file                      *)
  Quiet,        (* environment: callers wait until a frame has been taken   *)
                (* and no tick falls into a write                           *)
  InitialLevels (* what the output latch may drive before the first frame   *)

Bytes == [0 .. BITS - 1 -> {0, 1}]    (* index 0 is sent first *)
NUL == [i \in 0 .. BITS - 1 |-> 0]

ASSUME SoftUartAssumption ==
  /\ BITS \in Nat \ {0}
  /\ SIZE \in Nat \ {0}
  /\ Messages \subseteq Seq(Bytes \ {NUL}) \ {<<>>}
  /\ MaxWrites \in Nat /\ MaxReads \in Nat /\ MaxToggles \in Nat
  /\ Quiet \in BOOLEAN
  /\ InitialLevels \subseteq {0, 1}

(* An array, and the byte behind it. *)
Buffers == [0 .. SIZE + 1 -> Bytes]
Empty == [i \in 0 .. SIZE + 1 |-> NUL]

VARIABLES
  TX_BUFFER, RX_BUFFER, RX_DATA, LOOPBACK,
  txPc, txAt,     (* FunctionTimerTX: its place, and the index of its store *)
  rxPc, rxAt,     (* FunctionTimerRX: the same                              *)
  txBit, rxBit,   (* the static bit of each timer function                  *)
  level,          (* the line from GPIO_TX to GPIO_RX                       *)
  txTimer,        (* TRUE once hrtimer_tx has been started                  *)
  kick,           (* TRUE from hrtimer_start(0) to the tick it causes       *)
  lead,           (* TRUE when this bit time's transmit tick is past        *)
  wpc, msg, n, at,(* each writer's place, text, loop index and store index  *)
  rpc, tmp,       (* each reader's place and copy of RX_BUFFER              *)
  frame, sent,    (* history: bits of this frame, bytes sent                *)
  cleared,        (* history: an overflow has cleared TX_BUFFER             *)
  asked,          (* history: bytes handed to write calls                   *)
  rxd, got,       (* history: bytes stored in RX_BUFFER, bytes read         *)
  raced,          (* history: a read cleared RX_BUFFER after the receiver   *)
                  (* had found the index of its store                       *)
  writes, calls, toggles    (* calls made so far                            *)

line == <<level, txTimer, kick, lead>>
tx == <<TX_BUFFER, txPc, txAt, txBit, frame, sent, cleared>>
rx == <<RX_BUFFER, RX_DATA, rxPc, rxAt, rxBit, rxd>>
writer == <<wpc, msg, n, at, asked, writes>>
reader == <<rpc, tmp, got, raced, calls>>
mode == <<LOOPBACK, toggles>>
vars == <<TX_BUFFER, txPc, txAt, txBit, frame, sent, cleared, RX_BUFFER, RX_DATA, rxPc, rxAt,
          rxBit, rxd, level, txTimer, kick, lead, wpc, msg, n, at, asked, writes, rpc, tmp,
          got, raced, calls, LOOPBACK, toggles>>

Init ==
  /\ TX_BUFFER = Empty /\ RX_BUFFER = Empty
  /\ RX_DATA = NUL
  /\ LOOPBACK = FALSE
  /\ txPc = "tick" /\ txAt = 0 /\ rxPc = "tick" /\ rxAt = 0
  /\ txBit = -1 /\ rxBit = -1
  /\ level \in InitialLevels
  /\ txTimer = FALSE /\ kick = FALSE /\ lead = FALSE
  /\ wpc = [w \in Writers |-> "idle"]
  /\ msg = [w \in Writers |-> <<>>]
  /\ n = [w \in Writers |-> 0]
  /\ at = [w \in Writers |-> 0]
  /\ rpc = [r \in Readers |-> "idle"]
  /\ tmp = [r \in Readers |-> <<>>]
  /\ frame = <<>> /\ sent = <<>> /\ asked = <<>> /\ rxd = <<>> /\ got = <<>>
  /\ cleared = FALSE /\ raced = FALSE
  /\ writes = 0 /\ calls = 0 /\ toggles = 0

(***************************************************************************)
(* The buffers are C strings in arrays of SIZE + 1 bytes.  The byte behind *)
(* an array is padding and zero until something is stored there; what lies *)
(* further on is taken to be zero, and a store there to change neither.    *)
(***************************************************************************)
strlen(b) ==
  CHOOSE i \in 0 .. SIZE + 2 :
    /\ i = SIZE + 2 \/ b[i] = NUL
    /\ \A j \in 0 .. i - 1 : b[j] # NUL

Content(b) == [i \in 1 .. strlen(b) |-> b[i - 1]]

(* memset clears the array, not the byte behind it. *)
Clear(b) == [i \in 0 .. SIZE + 1 |-> IF i <= SIZE THEN NUL ELSE b[i]]

Store(b, i, c) == IF i \in 0 .. SIZE + 1 THEN [b EXCEPT ![i] = c] ELSE b

Full_late(b) == strlen(b) = SIZE + 2

(* What strlen finds in an array that a store has left without a NUL. *)
Full(b) == strlen(b) = SIZE + 1

Logged(log, c) == IF c = NUL THEN log ELSE Append(log, c)

NoWrite == \A w \in Writers : wpc[w] = "idle"

(***************************************************************************)
(* FunctionTimerTX.  It looks whether there is something to send, and then *)
(* looks the byte on the line up in the buffer again for every bit of it.  *)
(***************************************************************************)
Sending == strlen(TX_BUFFER) > 0

Tick ==
  /\ txTimer
  /\ txPc = "tick" /\ rxPc = "tick"
  /\ ~lead \/ kick
  /\ Quiet => NoWrite
  /\ lead' = TRUE
  /\ kick' = FALSE
  /\ txPc' = IF Sending THEN "act" ELSE "tick"
  /\ UNCHANGED <<level, txTimer, TX_BUFFER, txAt, txBit, frame, sent, cleared, rx, writer,
                 reader, mode>>

Act(to) ==
  /\ txPc = "act"
  /\ txPc' = to
  /\ UNCHANGED <<txTimer, kick, lead, TX_BUFFER, cleared, sent, rx, writer, reader, mode>>

TxStart ==
  /\ Act("tick")
  /\ txBit = -1
  /\ level' = 0
  /\ txBit' = 0
  /\ frame' = <<>>
  /\ UNCHANGED txAt

Top_first == TX_BUFFER[0]

Top == TX_BUFFER[strlen(TX_BUFFER) - 1]

(* When an overflow has emptied the buffer since the look, the bit is one of  *)
(* the byte before the array.                                                 *)
TxData ==
  /\ Act("tick")
  /\ txBit \in 0 .. BITS - 1
  /\ level' \in IF Sending THEN {Top[txBit]} ELSE {0, 1}
  /\ frame' = Append(frame, level')
  /\ txBit' = txBit + 1
  /\ UNCHANGED txAt

TxStop ==
  /\ Act("pop")
  /\ txBit = BITS
  /\ level' = 1
  /\ txAt' = strlen(TX_BUFFER) - 1
  /\ UNCHANGED <<txBit, frame>>

Pop_kept == UNCHANGED TX_BUFFER

Pop == TX_BUFFER' = Store(TX_BUFFER, txAt, NUL)

AfterStop_zero == 0

AfterStop == -1

TxPop ==
  /\ txPc = "pop"
  /\ Pop
  /\ txBit' = AfterStop
  /\ txPc' = "tick"
  /\ sent' = Append(sent, [i \in 0 .. BITS - 1 |-> frame[i + 1]])
  /\ UNCHANGED <<line, txAt, frame, cleared, rx, writer, reader, mode>>

FunctionTimerTX == Tick \/ TxStart \/ TxData \/ TxStop \/ TxPop

(***************************************************************************)
(* FunctionTimerRX.  RX_DATA is a shift register; the level of the stop    *)
(* bit is not looked at.                                                   *)
(***************************************************************************)
Sample ==
  /\ txPc = "tick" /\ rxPc = "tick"
  /\ txTimer => lead
  /\ lead' = FALSE
  /\ UNCHANGED <<level, txTimer, kick, tx, writer, reader, mode>>

RxIdle == Sample /\ rxBit = -1 /\ level = 1 /\ UNCHANGED rx

RxStart ==
  /\ Sample
  /\ rxBit = -1
  /\ level = 0
  /\ rxBit' = 0
  /\ UNCHANGED <<RX_BUFFER, RX_DATA, rxPc, rxAt, rxd>>

(* The sample goes into the top bit; all but the last one move down. *)
ShiftIn(d, bit) ==
  LET s == [d EXCEPT ![BITS - 1] = level]
  IN  IF bit = BITS - 1 THEN s
      ELSE [i \in 0 .. BITS - 1 |-> IF i = BITS - 1 THEN 0 ELSE s[i + 1]]

RxData ==
  /\ Sample
  /\ rxBit \in 0 .. BITS - 1
  /\ RX_DATA' = ShiftIn(RX_DATA, rxBit)
  /\ rxBit' = rxBit + 1
  /\ UNCHANGED <<RX_BUFFER, rxPc, rxAt, rxd>>

RxStop ==
  /\ Sample
  /\ rxBit = BITS
  /\ rxBit' = -1
  /\ rxAt' = strlen(RX_BUFFER)
  /\ rxPc' = "store"
  /\ UNCHANGED <<RX_BUFFER, RX_DATA, rxd>>

Goes(from, to) ==
  /\ rxPc = from
  /\ rxPc' = to
  /\ UNCHANGED <<RX_DATA, rxAt, rxBit, line, tx, writer, reader, mode>>

RxStore ==
  /\ Goes("store", "check")
  /\ RX_BUFFER' = Store(RX_BUFFER, rxAt, RX_DATA)
  /\ rxd' = Logged(rxd, RX_DATA)

RxCheck == Goes("check", IF Full(RX_BUFFER) THEN "clear" ELSE "tick") /\ UNCHANGED <<RX_BUFFER, rxd>>

RxClear == Goes("clear", "tick") /\ RX_BUFFER' = Clear(RX_BUFFER) /\ UNCHANGED rxd

FunctionTimerRX ==
  RxIdle \/ RxStart \/ RxData \/ RxStop \/ RxStore \/ RxCheck \/ RxClear

(***************************************************************************)
(* set_data_callback.                                                      *)
(***************************************************************************)
(* Nothing is being sent, and the receiver has taken the last frame. *)
LineIdle ==
  ~Sending /\ txBit = -1 /\ rxBit = -1 /\ txPc = "tick" /\ rxPc = "tick"

Write(w, m) ==
  /\ wpc[w] = "idle"
  /\ writes < MaxWrites
  /\ Quiet => LineIdle /\ NoWrite
  /\ wpc' = [wpc EXCEPT ![w] = "index"]
  /\ msg' = [msg EXCEPT ![w] = m]
  /\ n' = [n EXCEPT ![w] = 0]
  /\ asked' = asked \o m
  /\ writes' = writes + 1
  /\ UNCHANGED <<at, line, tx, rx, reader, mode>>

(* Which buffer, and where its text ends at this moment. *)
FindEnd(w) ==
  /\ wpc[w] = "index"
  /\ wpc' = [wpc EXCEPT ![w] = IF LOOPBACK THEN "storeRx" ELSE "storeTx"]
  /\ at' = [at EXCEPT ![w] = IF LOOPBACK THEN strlen(RX_BUFFER) ELSE strlen(TX_BUFFER)]
  /\ UNCHANGED <<msg, n, asked, writes, line, tx, rx, reader, mode>>

CharAt(m, i) == IF i < Len(m) THEN m[i + 1] ELSE NUL

(* Loopback stores the text as it is, its NUL last. *)
Looped(w) == CharAt(msg[w], n[w])

(* TX_BUFFER is emptied from its end, so the text goes in from its end: its *)
(* NUL first, its first character last.                                     *)
Pushed(w) == CharAt(msg[w], Len(msg[w]) - n[w])

NextChar(w) ==
  /\ n' = [n EXCEPT ![w] = @ + 1]
  /\ wpc' = [wpc EXCEPT ![w] = IF n[w] = Len(msg[w]) THEN "start" ELSE "index"]

(* A character is stored; is the buffer full now?  Then it is cleared.  The  *)
(* places of a store into RX_BUFFER are those of one into TX_BUFFER.         *)
StoreTx(w) ==
  /\ wpc[w] = "storeTx"
  /\ TX_BUFFER' = Store(TX_BUFFER, at[w], Pushed(w))
  /\ wpc' = [wpc EXCEPT ![w] = "checkTx"]
  /\ UNCHANGED <<msg, n, at, asked, writes, txPc, txAt, txBit, frame, sent, cleared, line, rx,
                 reader, mode>>

CheckTx(w) ==
  /\ wpc[w] = "checkTx"
  /\ IF Full(TX_BUFFER) THEN wpc' = [wpc EXCEPT ![w] = "clearTx"] /\ UNCHANGED n
     ELSE NextChar(w)
  /\ UNCHANGED <<msg, at, asked, writes, line, tx, rx, reader, mode>>

ClearTx(w) ==
  /\ wpc[w] = "clearTx"
  /\ TX_BUFFER' = Clear(TX_BUFFER)
  /\ cleared' = TRUE
  /\ NextChar(w)
  /\ UNCHANGED <<msg, at, asked, writes, txPc, txAt, txBit, frame, sent, line, rx, reader, mode>>

StoreRx(w) ==
  /\ wpc[w] = "storeRx"
  /\ RX_BUFFER' = Store(RX_BUFFER, at[w], Looped(w))
  /\ rxd' = Logged(rxd, Looped(w))
  /\ wpc' = [wpc EXCEPT ![w] = "checkRx"]
  /\ UNCHANGED <<msg, n, at, asked, writes, RX_DATA, rxPc, rxAt, rxBit, line, tx, reader, mode>>

CheckRx(w) ==
  /\ wpc[w] = "checkRx"
  /\ IF Full(RX_BUFFER) THEN wpc' = [wpc EXCEPT ![w] = "clearRx"] /\ UNCHANGED n
     ELSE NextChar(w)
  /\ UNCHANGED <<msg, at, asked, writes, line, tx, rx, reader, mode>>

ClearRx(w) ==
  /\ wpc[w] = "clearRx"
  /\ RX_BUFFER' = Clear(RX_BUFFER)
  /\ NextChar(w)
  /\ UNCHANGED <<msg, at, asked, writes, RX_DATA, rxPc, rxAt, rxBit, rxd, line, tx, reader, mode>>

hrtimer_start_missing == UNCHANGED <<txTimer, kick>>

(* The next tick is due at once, even in the middle of a bit. *)
hrtimer_start == txTimer' = TRUE /\ kick' = TRUE

StartTimer(w) ==
  /\ wpc[w] = "start"
  /\ wpc' = [wpc EXCEPT ![w] = "idle"]
  /\ hrtimer_start
  /\ UNCHANGED <<msg, n, at, asked, writes, level, lead, tx, rx, reader, mode>>

(***************************************************************************)
(* get_data_callback and set_loopback_callback.                            *)
(***************************************************************************)
CopyOut(r) ==
  /\ rpc[r] = "idle"
  /\ calls < MaxReads
  /\ rpc' = [rpc EXCEPT ![r] = "clear"]
  /\ tmp' = [tmp EXCEPT ![r] = Content(RX_BUFFER)]
  /\ calls' = calls + 1
  /\ UNCHANGED <<got, raced, line, tx, rx, writer, mode>>

EmptyRx_missing == UNCHANGED RX_BUFFER

EmptyRx == RX_BUFFER' = Clear(RX_BUFFER)

ClearOut(r) ==
  /\ rpc[r] = "clear"
  /\ EmptyRx
  /\ got' = got \o tmp[r]
  /\ raced' = (raced \/ rxPc = "store")
  /\ rpc' = [rpc EXCEPT ![r] = "idle"]
  /\ tmp' = [tmp EXCEPT ![r] = <<>>]
  /\ UNCHANGED <<calls, RX_DATA, rxPc, rxAt, rxBit, rxd, line, tx, writer, mode>>

SetLoopback ==
  /\ toggles < MaxToggles
  /\ Quiet => LineIdle /\ NoWrite
  /\ LOOPBACK' \in BOOLEAN
  /\ toggles' = toggles + 1
  /\ UNCHANGED <<line, tx, rx, writer, reader>>

-----------------------------------------------------------------------------
WriterStep(w) ==
  \/ FindEnd(w) \/ StoreTx(w) \/ CheckTx(w) \/ ClearTx(w)
  \/ StoreRx(w) \/ CheckRx(w) \/ ClearRx(w) \/ StartTimer(w)

Next ==
  \/ FunctionTimerTX \/ FunctionTimerRX
  \/ \E w \in Writers : WriterStep(w) \/ \E m \in Messages : Write(w, m)
  \/ \E r \in Readers : CopyOut(r) \/ ClearOut(r)
  \/ SetLoopback

SafetySpec == Init /\ [][Next]_vars

(* Both timers rearm themselves for ever, and a callback that has begun is  *)
(* run to its end.  Nobody has to write or to read.                         *)
Spec ==
  /\ SafetySpec
  /\ WF_vars(FunctionTimerTX) /\ WF_vars(FunctionTimerRX)
  /\ \A w \in Writers : WF_vars(WriterStep(w))
  /\ \A r \in Readers : WF_vars(ClearOut(r))
-----------------------------------------------------------------------------
(* The places, indices and bit counters of the code's own ranges.  An index   *)
(* is what strlen finds, which may be behind the array.                       *)
TypeOK ==
  /\ TX_BUFFER \in Buffers /\ RX_BUFFER \in Buffers /\ RX_DATA \in Bytes
  /\ LOOPBACK \in BOOLEAN
  /\ txPc \in {"tick", "act", "pop"} /\ txAt \in -1 .. SIZE + 1
  /\ rxPc \in {"tick", "store", "check", "clear"} /\ rxAt \in 0 .. SIZE + 2
  /\ txBit \in -1 .. BITS /\ rxBit \in -1 .. BITS
  /\ level \in {0, 1}
  /\ txTimer \in BOOLEAN /\ kick \in BOOLEAN /\ lead \in BOOLEAN
  /\ cleared \in BOOLEAN /\ raced \in BOOLEAN
  /\ wpc \in [Writers -> {"idle", "index", "storeTx", "checkTx", "clearTx",
                          "storeRx", "checkRx", "clearRx", "start"}]
  /\ msg \in [Writers -> Messages \cup {<<>>}]
  /\ \A w \in Writers : n[w] \in 0 .. Len(msg[w]) + 1 /\ at[w] \in 0 .. SIZE + 2
  /\ rpc \in [Readers -> {"idle", "clear"}]
  /\ \A r \in Readers : Len(tmp[r]) <= SIZE + 2

(* One writer, and the receiver, never store behind the arrays: whoever has  *)
(* filled a buffer finds it full and clears it before he stores again, and   *)
(* only ticks that pop fall between.  (A second writer, or a write in        *)
(* loopback that a received byte cuts, does store behind them, and then the  *)
(* buffer is never found full again.)                                        *)
StoresInside ==
  toggles = 0 => TX_BUFFER[SIZE + 1] = NUL /\ RX_BUFFER[SIZE + 1] = NUL

(* When writes are spaced and undisturbed, what the receiver stores is what  *)
(* was written, bit for bit and in order, through the reversed push, the     *)
(* per-bit lookup, the shift register and the two timers, and through        *)
(* loopback as well.                                                         *)
ReceivedAsWritten == IsPrefix(rxd, asked)

(* ... and all of it arrives.                                                *)
AllReceived == <>[](rxd = asked)

IsSubsequence(s, t) ==
  \E f \in [1 .. Len(s) -> 1 .. Len(t)] :
    /\ \A i \in 1 .. Len(s) : s[i] = t[f[i]]
    /\ \A i, j \in 1 .. Len(s) : i < j => f[i] < f[j]

(* As long as loopback is left alone, one reader at a time never gets a byte  *)
(* twice, or out of order, even when bytes arrive between the copy and the    *)
(* clearing.  Overflow clears the whole buffer and a read does too: what is   *)
(* left of the bytes from the line is always an unbroken run of the latest,   *)
(* so that no old text comes back after a gap.  This needs that no read on    *)
(* another core clears the buffer between the receiver's strlen and its       *)
(* store: that byte goes in behind the NULs, and comes back later.            *)
ReadsInOrder ==
  toggles = 0 /\ ~raced => IsSubsequence(got, rxd) /\ IsSuffix(Content(RX_BUFFER), rxd)

(* However ticks fall into the writes of one process, every byte written     *)
(* leaves a frame or is still in TX_BUFFER, if only behind a NUL, until an    *)
(* overflow clears the buffer.                                                *)
NothingDropped ==
  NoWrite /\ ~cleared =>
    Len(sent) + Cardinality({i \in 0 .. SIZE : TX_BUFFER[i] # NUL}) = Len(asked)

(* Until an overflow clears the buffer under a frame, a transmitter with      *)
(* nothing to send is between frames and, once a frame has gone out, leaves   *)
(* the line high: a write that is cut by ticks does not freeze a half-sent    *)
(* frame on the line.                                                         *)
LineIdlesHigh ==
  ~cleared /\ ~Sending => txBit = -1 /\ (sent # <<>> => level = 1)

(* The transmitter empties its buffer however the writes and the overflows    *)
(* fall.                                                                      *)
Drains == Sending ~> ~Sending

(***************************************************************************)
(* What the README says of the driver and the code does not do.            *)
(***************************************************************************)
(* "they will be stored and transmitted until the last byte" (README.md:91): *)
(* the frames on the line would be the bytes written, in order.              *)
SentInOrder == IsPrefix(sent, asked)

(* "256 bytes RX buffer (read the data whenever you want, no data lost!)"    *)
(* (README.md:9): all that was received would have been read or be there.    *)
NoDataLost ==
  (\A r \in Readers : rpc[r] = "idle") => got \o Content(RX_BUFFER) = rxd
=============================================================================
