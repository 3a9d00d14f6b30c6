---------------------------- MODULE Dht11Proofs ----------------------------
(***************************************************************************)
(* Theorems about the DHT11 driver, for every number of processes, byte    *)
(* width, retry limit and set of pulse lengths.                            *)
(*                                                                         *)
(* The properties are proved in layers, each with the ones before it as    *)
(* hypotheses.  The parts that are not properties themselves say who can   *)
(* be touching the capture: interrupts run only on behalf of a process     *)
(* that waits or is about to free them, timeBit begins with the pulses     *)
(* taken since the start pulse, and no completion from before an open      *)
(* survives into its first attempt.                                        *)
(***************************************************************************)
EXTENDS Dht11, TLAPS

USE Dht11Assumption, ByteAssumption

-----------------------------------------------------------------------------
(* What the decoder computes is a reading, whatever was recorded. *)
LEMMA DecodedIsReading == Decoded \in [Fields -> Bytes]
  BY DEF Decoded, Decode, dht11_decode_byte, Bytes

(* The reading after a decode is a reading. *)
LEMMA UpdateReadingType ==
  ASSUME dht11 \in [Fields -> Bytes], UpdateReading
  PROVE  dht11' \in [Fields -> Bytes]
  BY DecodedIsReading DEF UpdateReading

(* Counting a completion stays within the bound. *)
LEMMA CompleteType ==
  ASSUME NEW n \in Int, done \in 0 .. MaxDone, CompleteIfFull(n)
  PROVE  done' \in 0 .. MaxDone
  BY DEF CompleteIfFull, complete

LEMMA InitTypeOK == Init => TypeOK
  <1> SUFFICES ASSUME Init PROVE TypeOK
    OBVIOUS
  <1>1. ZeroReading \in [Fields -> Bytes]
    BY DEF ZeroReading, Bytes
  <1>2. /\ retry \in [Procs -> 0 .. MAX_RETRY - 1]
        /\ reads \in [Procs -> 0 .. MaxReads]
        /\ timeBit \in [Words -> Widths \cup {0}]
    BY DEF Init
  <1>3. msg \in [values : [Fields -> Bytes], result : {"none", "OK", "BAD"}]
    BY <1>1 DEF Init
  <1>4. 0 \in 0 .. MaxDone /\ 0 \in 0 .. MaxLows /\ <<>> \in Seq(Widths)
    OBVIOUS
  <1> QED
    BY <1>1, <1>2, <1>3, <1>4 DEF Init, TypeOK

(* Every step keeps the types; the retry count is the one that needs the     *)
(* code's test against the last try.                                         *)
LEMMA NextTypeOK == TypeOK /\ [Next]_vars => TypeOK'
  <1> SUFFICES ASSUME TypeOK, [Next]_vars PROVE TypeOK'
    OBVIOUS
  <1> USE DEF TypeOK
  <1>1. CASE IrqLow \/ IrqLate
    <2>1. /\ Record /\ lows' \in {lows, lows + 1} /\ lows < MaxLows
          /\ late' \in {late, TRUE}
          /\ UNCHANGED <<session, irq, dht11, msg, reading>>
      BY <1>1 DEF IrqLow, IrqLate
    <2>2. done' \in 0 .. MaxDone
      BY <2>1, CompleteType DEF Record
    <2>3. /\ timeBit' \in [Words -> Widths \cup {0}]
          /\ taken' \in Seq(Widths)
          /\ nBit' \in Nat
      <3>1. PICK data \in Widths : /\ timeBit' = [timeBit EXCEPT ![nBit] = data]
                                   /\ taken' = Append(taken, data)
        BY <2>1 DEF Record
      <3>2. nBit' = nBit + 1
        BY <2>1 DEF Record
      <3>3. timeBit' \in [Words -> Widths \cup {0}]
        BY <3>1
      <3>4. taken' \in Seq(Widths)
        BY <3>1
      <3> QED
        BY <3>2, <3>3, <3>4
    <2>4. lows' \in 0 .. MaxLows
      BY <2>1
    <2>5. late' \in BOOLEAN
      BY <2>1
    <2> QED
      BY <2>1, <2>2, <2>3, <2>4, <2>5 DEF session, reading
  <1>2. CASE IrqHigh
    <2>1. done' \in 0 .. MaxDone
      BY <1>2, CompleteType DEF IrqHigh
    <2> QED
      BY <1>2, <2>1 DEF IrqHigh, session, reading, signal
  <1>3. CASE LostEdge
    BY <1>3 DEF LostEdge, session, reading
  <1>4. ASSUME NEW p \in Procs, OpenStep(p) PROVE TypeOK'
    <2>1. CASE StartRead(p)
      <3>1. taken' \in Seq(Widths) /\ 0 \in 0 .. MaxLows
        BY <2>1 DEF StartRead
      <3> QED
        BY <2>1, <3>1 DEF StartRead, Goto, RestartCapture, reading
    <2>2. CASE setup_interrupts(p)
      BY <2>2 DEF setup_interrupts, Goto, reading, signal
    <2>3. CASE WaitCompleted(p)
      BY <2>3 DEF WaitCompleted, Goto, reading, signal
    <2>4. CASE WaitTimedOut(p)
      BY <2>4 DEF WaitTimedOut, Goto, capture, signal, reading
    <2>5. CASE clear_interrupts(p)
      BY <2>5 DEF clear_interrupts, FreeIrq, Goto, reading, signal
    <2>6. CASE DecodeGood(p)
      BY <2>6, UpdateReadingType DEF DecodeGood, ReturnResult, Goto, capture, signal
    <2>7. CASE DecodeBad(p)
      <3>1. dht11' \in [Fields -> Bytes]
        BY <2>7, UpdateReadingType DEF DecodeBad
      <3>2. retry' \in [Procs -> 0 .. MAX_RETRY - 1]
        BY <2>7 DEF DecodeBad, CountTry, LastTry
      <3> QED
        BY <2>7, <3>1, <3>2 DEF DecodeBad, Goto, capture, signal, reading
    <2>8. CASE GiveUp(p)
      BY <2>8, UpdateReadingType DEF GiveUp, ReturnResult, Goto, capture, signal
    <2> QED
      BY <1>4, <2>1, <2>2, <2>3, <2>4, <2>5, <2>6, <2>7, <2>8 DEF OpenStep
  <1>5. ASSUME NEW p \in Procs, Call(p) PROVE TypeOK'
    <2>1. CASE UNCHANGED vars
      BY <2>1 DEF vars
    <2>2. CASE Open(p)
      BY <2>2 DEF Open, Goto, mutex_trylock, reinit_completion, reading, signal
    <2>3. CASE ReadBegin(p)
      BY <2>3 DEF ReadBegin, session, capture, signal
    <2>4. CASE ReadEnd(p)
      BY <2>4 DEF ReadEnd, session, capture, signal
    <2>5. CASE Close(p)
      BY <2>5 DEF Close, Goto, mutex_unlock, capture, signal, reading
    <2> QED
      BY <1>5, <2>1, <2>2, <2>3, <2>4, <2>5 DEF Call, OpenBusy, ReadEof
  <1>6. CASE UNCHANGED vars
    BY <1>6 DEF vars
  <1> QED
    BY <1>1, <1>2, <1>3, <1>4, <1>5, <1>6 DEF Next, Interrupt

(* Every variable stays within the driver's types; in particular the retry   *)
(* count never passes the bail-out test of open_dht11.                       *)
THEOREM TypeCorrect == SafetySpec => []TypeOK
  BY InitTypeOK, NextTypeOK, PTL DEF SafetySpec

-----------------------------------------------------------------------------
(* The only steps that move a process between being outside and inside a     *)
(* session are Open and Close, and they move the mutex with it.              *)
LEMMA NextSessionLock == TypeOK /\ SessionLock /\ [Next]_vars => SessionLock'
  <1> SUFFICES ASSUME TypeOK, SessionLock, [Next]_vars PROVE SessionLock'
    OBVIOUS
  <1> USE DEF TypeOK, SessionLock, InSession
  <1>1. CASE UNCHANGED <<pc, gpio_mutex>>
    BY <1>1
  <1>2. ASSUME NEW p \in Procs, NEW from, NEW to, Goto(p, from, to),
               from # "closed", to # "closed", UNCHANGED gpio_mutex
        PROVE  SessionLock'
    BY <1>2 DEF Goto
  <1>3. ASSUME NEW p \in Procs, Open(p) PROVE SessionLock'
    BY <1>3 DEF Open, Goto, mutex_trylock
  <1>4. ASSUME NEW p \in Procs, Close(p) PROVE SessionLock'
    BY <1>4 DEF Close, Goto, mutex_unlock
  <1>5. ASSUME NEW p \in Procs, OpenStep(p) PROVE SessionLock'
    BY <1>2, <1>5 DEF OpenStep, StartRead, setup_interrupts, WaitCompleted,
       WaitTimedOut, clear_interrupts, DecodeGood, DecodeBad, GiveUp, ReturnResult
  <1>6. ASSUME NEW p \in Procs, Call(p) PROVE SessionLock'
    BY <1>1, <1>3, <1>4, <1>6
       DEF Call, OpenBusy, ReadEof, ReadBegin, ReadEnd, session, vars
  <1>7. CASE Interrupt
    BY <1>1, <1>7 DEF Interrupt, IrqLow, IrqLate, Record, IrqHigh, LostEdge, session
  <1> QED
    BY <1>1, <1>5, <1>6, <1>7 DEF Next, vars

(* Two sessions never overlap and no path of open or close leaves the mutex  *)
(* behind.                                                                   *)
THEOREM SessionExclusive == SafetySpec => []SessionLock
  <1>1. Init => SessionLock
    BY DEF Init, SessionLock, InSession
  <1> QED
    BY <1>1, TypeCorrect, NextSessionLock, PTL DEF SafetySpec

-----------------------------------------------------------------------------
(* The interrupt is requested only while its owner waits or clears. *)
IrqHasOwner == irq => \E p \in Procs : pc[p] \in {"wait", "clear"}

LEMMA NextIrqHasOwner ==
    TypeOK /\ SessionLock /\ IrqHasOwner /\ [Next]_vars => IrqHasOwner'
  <1> SUFFICES ASSUME TypeOK, SessionLock, IrqHasOwner, [Next]_vars
               PROVE  IrqHasOwner'
    OBVIOUS
  <1> USE DEF IrqHasOwner, TypeOK
  <1>1. CASE UNCHANGED <<pc, irq>>
    BY <1>1
  <1>2. ASSUME NEW p \in Procs, NEW from, NEW to, Goto(p, from, to),
               from # "closed", UNCHANGED irq,
               to \in {"wait", "clear"} \/ from \notin {"wait", "clear"}
        PROVE  IrqHasOwner'
    <2>1. pc' = [pc EXCEPT ![p] = to] /\ pc[p] = from
      BY <1>2 DEF Goto
    <2>2. SUFFICES ASSUME irq PROVE \E q \in Procs : pc'[q] \in {"wait", "clear"}
      BY <1>2
    <2>3. PICK q \in Procs : pc[q] \in {"wait", "clear"}
      BY <2>2
    <2>4. q = p
      BY <1>2, <2>1, <2>3 DEF SessionLock, InSession
    <2> QED
      BY <1>2, <2>1, <2>3, <2>4
  <1>3. ASSUME NEW p \in Procs, Open(p) PROVE IrqHasOwner'
    BY <1>3 DEF Open, Goto, mutex_trylock, SessionLock, InSession
  <1>4. ASSUME NEW p \in Procs, Close(p) PROVE IrqHasOwner'
    BY <1>2, <1>4 DEF Close, capture
  <1>5. ASSUME NEW p \in Procs, OpenStep(p) PROVE IrqHasOwner'
    <2>1. CASE setup_interrupts(p)
      BY <2>1 DEF setup_interrupts, Goto
    <2>2. CASE clear_interrupts(p)
      BY <2>2 DEF clear_interrupts, FreeIrq
    <2>3. CASE StartRead(p) \/ DecodeBad(p) \/ DecodeGood(p) \/ GiveUp(p)
      BY <1>2, <2>3 DEF StartRead, DecodeBad, DecodeGood, GiveUp, ReturnResult, capture
    <2>4. CASE WaitCompleted(p) \/ WaitTimedOut(p)
      BY <1>2, <2>4 DEF WaitCompleted, WaitTimedOut, capture
    <2> QED
      BY <1>5, <2>1, <2>2, <2>3, <2>4 DEF OpenStep
  <1>6. ASSUME NEW p \in Procs, Call(p) PROVE IrqHasOwner'
    BY <1>1, <1>3, <1>4, <1>6
       DEF Call, OpenBusy, ReadEof, ReadBegin, ReadEnd, session, capture, vars
  <1>7. CASE Interrupt
    BY <1>1, <1>7 DEF Interrupt, IrqLow, IrqLate, Record, IrqHigh, LostEdge, session
  <1> QED
    BY <1>1, <1>5, <1>6, <1>7 DEF Next, vars

LEMMA AlwaysIrqHasOwner == SafetySpec => []IrqHasOwner
  <1>1. Init => IrqHasOwner
    BY DEF Init, IrqHasOwner
  <1> QED
    BY <1>1, TypeCorrect, SessionExclusive, NextIrqHasOwner, PTL DEF SafetySpec

(* With the interrupt freed, nothing touches the capture while a frame is    *)
(* decoded or a session is open.                                             *)
THEOREM CaptureIsQuiet == SafetySpec => QuietOutsideWait
  <1>1. ASSUME TypeOK, SessionLock, IrqHasOwner, [Next]_vars
        PROVE  [(\E p \in Procs : pc[p] \in {"decode", "open"})
                  => UNCHANGED <<timeBit, nBit, done>>]_vars
    <2>1. SUFFICES ASSUME NEW p \in Procs, pc[p] \in {"decode", "open"}, Next
                   PROVE  UNCHANGED <<timeBit, nBit, done>>
      BY <1>1
    <2>2. ~irq
      BY <1>1, <2>1 DEF IrqHasOwner, SessionLock, InSession
    <2>3. CASE Interrupt
      BY <2>2, <2>3 DEF Interrupt, IrqLow, IrqLate, Record, IrqHigh, LostEdge
    <2>4. ASSUME NEW q \in Procs, OpenStep(q) \/ Call(q)
          PROVE  UNCHANGED <<timeBit, nBit, done>>
      <3>1. CASE q # p
        <4>1. pc[q] = "closed" /\ gpio_mutex
          BY <1>1, <2>1, <3>1 DEF SessionLock, InSession
        <4>2. UNCHANGED <<timeBit, nBit, done>>
          BY <2>4, <4>1 DEF OpenStep, Call, StartRead, setup_interrupts, WaitCompleted,
             WaitTimedOut, clear_interrupts, DecodeGood, DecodeBad, GiveUp, ReturnResult,
             OpenBusy, Open, mutex_trylock, ReadEof, ReadBegin, ReadEnd, Close, Goto,
             capture, vars
        <4> QED
          BY <4>2
      <3>2. CASE q = p
        BY <2>1, <2>4, <3>2 DEF OpenStep, Call, StartRead, setup_interrupts, WaitCompleted,
           WaitTimedOut, clear_interrupts, DecodeGood, DecodeBad, GiveUp, ReturnResult,
           OpenBusy, Open, ReadEof, ReadBegin, ReadEnd, Close, Goto, capture, vars
      <3> QED
        BY <3>1, <3>2
    <2> QED
      BY <2>1, <2>3, <2>4 DEF Next
  <1> QED
    BY <1>1, TypeCorrect, SessionExclusive, AlwaysIrqHasOwner, PTL
       DEF SafetySpec, QuietOutsideWait

-----------------------------------------------------------------------------
(* The recorded pulses are the first words of timeBit, and there are at most *)
(* as many as the sensor has shown falling edges, but for one late handler.  *)
CaptureInv ==
  /\ nBit = Len(taken)
  /\ nBit <= lows + (IF late THEN 1 ELSE 0)
  /\ \A i \in 0 .. nBit - 1 : timeBit[i] = taken[i + 1]

(* Storing a pulse keeps that: the index is inside Words. *)
LEMMA RecordKeeps ==
  ASSUME TypeOK, CaptureInv, lows < MaxLows, Record
  PROVE  /\ nBit' = Len(taken)'
         /\ \A i \in 0 .. nBit' - 1 : timeBit'[i] = taken'[i + 1]
  <1> USE DEF TypeOK, CaptureInv
  <1>1. PICK data \in Widths : /\ timeBit' = [timeBit EXCEPT ![nBit] = data]
                               /\ taken' = Append(taken, data)
    BY DEF Record
  <1>2. nBit' = nBit + 1 /\ nBit \in Words
    BY DEF Record, Words
  <1>3. Len(taken') = Len(taken) + 1 /\ taken'[Len(taken) + 1] = data
    BY <1>1
  <1>4. ASSUME NEW i \in 0 .. nBit - 1 PROVE timeBit'[i] = taken'[i + 1]
    <2>1. i \in Words /\ i # nBit /\ i + 1 \in 1 .. Len(taken)
      BY <1>2 DEF Words, Slots
    <2>2. timeBit'[i] = timeBit[i] /\ taken'[i + 1] = taken[i + 1]
      BY <1>1, <2>1
    <2> QED
      BY <2>2
  <1>5. timeBit'[nBit] = data
    BY <1>1, <1>2
  <1> QED
    BY <1>2, <1>3, <1>4, <1>5

LEMMA NextCaptureInv == TypeOK /\ CaptureInv /\ [Next]_vars => CaptureInv'
  <1> SUFFICES ASSUME TypeOK, CaptureInv, [Next]_vars PROVE CaptureInv'
    OBVIOUS
  <1>1. CASE UNCHANGED <<nBit, timeBit, signal>>
    BY <1>1 DEF CaptureInv, signal
  <1>2. ASSUME NEW p \in Procs, OpenStep(p) PROVE CaptureInv'
    <2>1. CASE StartRead(p)
      BY <2>1 DEF StartRead, RestartCapture, CaptureInv
    <2> QED
      BY <1>1, <1>2, <2>1 DEF OpenStep, setup_interrupts, WaitCompleted, WaitTimedOut,
         clear_interrupts, DecodeGood, DecodeBad, GiveUp, ReturnResult, capture
  <1>3. ASSUME NEW p \in Procs, Call(p) PROVE CaptureInv'
    BY <1>1, <1>3 DEF Call, OpenBusy, Open, ReadEof, ReadBegin, ReadEnd, Close,
       capture, signal, vars
  <1>4. CASE IrqLow \/ IrqLate
    <2>1. Record /\ lows < MaxLows
      BY <1>4 DEF IrqLow, IrqLate
    <2>2. nBit' <= lows' + (IF late' THEN 1 ELSE 0)
      <3>1. CASE IrqLow
        BY <3>1 DEF IrqLow, Record, TypeOK, CaptureInv
      <3>2. CASE IrqLate
        BY <3>2 DEF IrqLate, Record, TypeOK, CaptureInv
      <3> QED
        BY <1>4, <3>1, <3>2
    <2> QED
      BY <2>1, <2>2, RecordKeeps DEF CaptureInv
  <1>5. CASE IrqHigh
    BY <1>1, <1>5 DEF IrqHigh
  <1>6. CASE LostEdge
    BY <1>6 DEF LostEdge, CaptureInv, TypeOK
  <1> QED
    BY <1>1, <1>2, <1>3, <1>4, <1>5, <1>6 DEF Next, Interrupt, vars, signal

LEMMA AlwaysCaptureInv == SafetySpec => []CaptureInv
  <1>1. Init => CaptureInv
    BY DEF Init, CaptureInv
  <1> QED
    BY <1>1, TypeCorrect, NextCaptureInv, PTL DEF SafetySpec

-----------------------------------------------------------------------------
(* What an OK message stands for while its session is open: the values are   *)
(* what timeBit decodes to, and none of the recorded pulses is poor.         *)
OkDecoded ==
  \A p \in Procs : pc[p] = "open" /\ msg.result = "OK" =>
    /\ ~PoorResolution
    /\ msg.values = Decoded
    /\ ChecksumHolds(msg.values)

(* It stays so: the pulses change only in steps of a process that is inside  *)
(* its open call, and then no session is open.                               *)
LEMMA NextOkDecoded ==
    TypeOK /\ SessionLock /\ IrqHasOwner /\ OkDecoded /\ [Next]_vars => OkDecoded'
  <1> SUFFICES ASSUME TypeOK, SessionLock, IrqHasOwner, OkDecoded, [Next]_vars,
                      NEW p \in Procs, pc'[p] = "open", msg'.result = "OK"
               PROVE  (~PoorResolution /\ msg.values = Decoded
                       /\ ChecksumHolds(msg.values))'
    BY DEF OkDecoded
  <1>1. CASE pc[p] = "open" /\ UNCHANGED <<msg, timeBit, nBit>>
    BY <1>1 DEF OkDecoded, ChecksumHolds, Decoded, Decode, dht11_decode_byte,
       PoorResolution
  <1>2. CASE pc[p] = "open" /\ Interrupt
    <2>1. ~irq
      BY <1>2 DEF IrqHasOwner, SessionLock, InSession
    <2> QED
      BY <1>1, <1>2, <2>1 DEF Interrupt, IrqLow, IrqLate, IrqHigh, LostEdge
  <1>3. ASSUME NEW q \in Procs, OpenStep(q), pc[p] = "open"
        PROVE  FALSE
    <2>1. pc[q] \notin {"closed", "open"}
      BY <1>3 DEF OpenStep, StartRead, setup_interrupts, WaitCompleted, WaitTimedOut,
         clear_interrupts, DecodeGood, DecodeBad, GiveUp, ReturnResult, Goto
    <2> QED
      BY <1>3, <2>1 DEF SessionLock, InSession
  <1>4. ASSUME NEW q \in Procs, OpenStep(q), pc[p] # "open"
        PROVE  DecodeGood(p) \/ GiveUp(p)
    BY <1>4 DEF OpenStep, StartRead, setup_interrupts, WaitCompleted, WaitTimedOut,
       clear_interrupts, DecodeGood, DecodeBad, GiveUp, ReturnResult, Goto, TypeOK
  <1>5. ASSUME NEW q \in Procs, Call(q)
        PROVE  pc[p] = "open" /\ UNCHANGED <<msg, timeBit, nBit>>
    BY <1>5 DEF Call, OpenBusy, Open, ReadEof, ReadBegin, ReadEnd, Close, Goto,
       session, capture, vars, TypeOK
  <1>6. ~GiveUp(p)
    BY DEF GiveUp, ReturnResult
  <1>7. CASE DecodeGood(p)
    <2>1. /\ ~PoorResolution
          /\ ChecksumHolds(Decoded)
          /\ dht11' = Decoded
          /\ msg' = [values |-> dht11', result |-> "OK"]
          /\ UNCHANGED <<timeBit, nBit>>
      BY <1>7 DEF DecodeGood, UpdateReading, GoodFrame, ReturnResult, capture
    <2>2. Decoded' = Decoded /\ (PoorResolution' <=> PoorResolution)
      BY <2>1 DEF Decoded, Decode, dht11_decode_byte, PoorResolution
    <2>3. msg.values' = Decoded
      BY <2>1
    <2>4. ChecksumHolds(msg.values)' <=> ChecksumHolds(Decoded)
      BY <2>3 DEF ChecksumHolds
    <2> QED
      BY <2>1, <2>2, <2>3, <2>4
  <1>8. CASE UNCHANGED vars
    BY <1>1, <1>8 DEF vars
  <1>9. CASE pc[p] # "open" /\ Interrupt
    BY <1>9 DEF Interrupt, IrqLow, IrqLate, IrqHigh, LostEdge, session
  <1> QED
    BY <1>1, <1>2, <1>3, <1>4, <1>5, <1>6, <1>7, <1>8, <1>9 DEF Next

(* When TOTAL_INT_BLOCK pulses were taken they cover every word that is      *)
(* decoded, so decoding timeBit is decoding them.                            *)
LEMMA WholeFrameIsOwn ==
  ASSUME TypeOK, CaptureInv, Len(taken) >= TOTAL_INT_BLOCK
  PROVE  Decoded = Decode([i \in 0 .. Len(taken) - 1 |-> taken[i + 1]])
  <1> DEFINE frame == [i \in 0 .. Len(taken) - 1 |-> taken[i + 1]]
  <1>1. \A i \in 0 .. Len(taken) - 1 : timeBit[i] = frame[i]
    BY DEF CaptureInv
  <1>2. ASSUME NEW f \in Fields
        PROVE  dht11_decode_byte(timeBit, 1 + BYTE * f) = dht11_decode_byte(frame, 1 + BYTE * f)
    <2>1. ASSUME NEW i \in 0 .. BYTE - 1
          PROVE  (1 + BYTE * f) + i \in 0 .. Len(taken) - 1
      <3>1. BYTE * f \in Nat /\ BYTE * f <= 4 * BYTE
        BY DEF Fields
      <3> QED
        BY <3>1, <2>1 DEF TOTAL_INT_BLOCK, DATABIT, TypeOK
    <2>2. \A i \in 0 .. BYTE - 1 : timeBit[(1 + BYTE * f) + i] = frame[(1 + BYTE * f) + i]
      BY <1>1, <2>1
    <2> HIDE DEF frame
    <2> QED
      BY <2>2 DEF dht11_decode_byte
  <1> HIDE DEF frame
  <1>3. Decode(timeBit) = Decode(frame)
    BY <1>2 DEF Decode
  <1> QED
    BY <1>3 DEF Decoded, frame

LEMMA OwnReading == TypeOK /\ CaptureInv /\ OkDecoded => MessageIsOwnReading
  <1> SUFFICES ASSUME TypeOK, CaptureInv, OkDecoded, NEW p \in Procs, pc[p] = "open",
                      msg.result = "OK", Len(taken) >= TOTAL_INT_BLOCK
               PROVE  LET frame == [i \in 0 .. Len(taken) - 1 |-> taken[i + 1]]
                      IN  /\ \A i \in DOMAIN frame : ~Poor(frame[i])
                          /\ msg.values = Decode(frame)
                          /\ ChecksumHolds(msg.values)
    BY DEF MessageIsOwnReading
  <1>1. ~PoorResolution /\ msg.values = Decoded /\ ChecksumHolds(msg.values)
    BY DEF OkDecoded
  <1>2. ASSUME NEW i \in 0 .. Len(taken) - 1 PROVE ~Poor(taken[i + 1])
    <2>1. i < nBit /\ timeBit[i] = taken[i + 1]
      BY DEF CaptureInv, TypeOK
    <2>2. i \in Words
      BY <2>1 DEF CaptureInv, TypeOK, Words
    <2> QED
      BY <1>1, <2>1, <2>2 DEF PoorResolution
  <1> QED
    BY <1>1, <1>2, WholeFrameIsOwn

(* An OK that comes with a whole frame shows that frame and no other pulse,  *)
(* from the moment it is published until the session closes.                 *)
THEOREM OkMessageIsSound == SafetySpec => []MessageIsOwnReading
  <1>1. Init => OkDecoded
    BY DEF Init, OkDecoded
  <1> QED
    BY <1>1, TypeCorrect, SessionExclusive, AlwaysIrqHasOwner, AlwaysCaptureInv,
       NextOkDecoded, OwnReading, PTL DEF SafetySpec

-----------------------------------------------------------------------------
(* retry is a local of open_dht11: it starts at 0 in every call. *)
RetryIsLocal == \A p \in Procs : pc[p] \in {"closed", "open"} => retry[p] = 0

(* On a first attempt a counted completion means a full frame. *)
FirstDone ==
  \A p \in Procs : pc[p] \in {"start", "setup", "wait"} /\ retry[p] = 0 /\ done > 0
    => pc[p] = "wait" /\ nBit >= TOTAL_INT_BLOCK

WakeInv == RetryIsLocal /\ FirstDone /\ FirstWakeHasFrame

LEMMA NextWakeInv ==
    TypeOK /\ SessionLock /\ IrqHasOwner /\ WakeInv /\ [Next]_vars => WakeInv'
  <1> SUFFICES ASSUME TypeOK, SessionLock, IrqHasOwner, WakeInv, [Next]_vars
               PROVE  WakeInv'
    OBVIOUS
  <1> USE DEF WakeInv, RetryIsLocal, FirstDone, FirstWakeHasFrame, TOTAL_INT_BLOCK,
          DATABIT, TypeOK
  <1>1. CASE UNCHANGED <<pc, retry, ret, done, nBit>>
    BY <1>1
  <1>2. CASE Interrupt
    <2>1. CASE irq
      <3>1. /\ UNCHANGED <<pc, retry, ret>>
            /\ nBit' \in {nBit, nBit + 1}
            /\ done' > 0 => done > 0 \/ nBit' >= TOTAL_INT_BLOCK
        BY <1>2, <2>1 DEF Interrupt, IrqLow, IrqLate, Record, IrqHigh, LostEdge, CompleteIfFull, complete,
           session
      <3>2. \A p \in Procs : InSession(p) => pc[p] \in {"wait", "clear"}
        BY <2>1 DEF IrqHasOwner, SessionLock, InSession
      <3> QED
        <4>1. nBit >= TOTAL_INT_BLOCK => nBit' >= TOTAL_INT_BLOCK
          BY <3>1
        <4>2. RetryIsLocal' /\ FirstWakeHasFrame'
          BY <3>1, <4>1 DEF InSession
        <4>3. FirstDone'
          BY <3>1, <3>2, <4>1 DEF InSession
        <4> QED
          BY <4>2, <4>3
    <2>2. CASE ~irq
      BY <1>1, <1>2, <2>2 DEF Interrupt, IrqLow, IrqLate, Record, IrqHigh, LostEdge, session
    <2> QED
      BY <2>1, <2>2
  <1>3. ASSUME NEW p \in Procs, Open(p) PROVE WakeInv'
    BY <1>3 DEF Open, Goto, mutex_trylock, reinit_completion, SessionLock, InSession
  <1>4. ASSUME NEW p \in Procs, Close(p) PROVE WakeInv'
    BY <1>4 DEF Close, Goto, capture
  <1>5. ASSUME NEW p \in Procs, Call(p) PROVE WakeInv'
    BY <1>1, <1>3, <1>4, <1>5
       DEF Call, OpenBusy, ReadEof, ReadBegin, ReadEnd, session, capture, vars
  <1>6. ASSUME NEW p \in Procs, OpenStep(p) PROVE WakeInv'
    <2>1. \A q \in Procs : q # p => pc[q] = "closed" /\ pc'[q] = "closed" /\ retry'[q] = retry[q]
      <3>1. pc[p] # "closed" /\ \A q \in Procs \ {p} : pc'[q] = pc[q] /\ retry'[q] = retry[q]
        <4>1. CASE StartRead(p) \/ setup_interrupts(p)
          BY <4>1 DEF StartRead, setup_interrupts, Goto
        <4>2. CASE WaitCompleted(p) \/ WaitTimedOut(p) \/ clear_interrupts(p)
          BY <4>2 DEF WaitCompleted, WaitTimedOut, clear_interrupts, Goto
        <4>3. CASE DecodeBad(p)
          BY <4>3 DEF DecodeBad, Goto, CountTry
        <4>4. CASE DecodeGood(p) \/ GiveUp(p)
          BY <4>4 DEF DecodeGood, GiveUp, ReturnResult, Goto
        <4> QED
          BY <1>6, <4>1, <4>2, <4>3, <4>4 DEF OpenStep
      <3> QED
        BY <3>1 DEF SessionLock, InSession
    <2>2. CASE StartRead(p)
      BY <2>1, <2>2 DEF StartRead, Goto
    <2>3. CASE setup_interrupts(p)
      BY <2>1, <2>3 DEF setup_interrupts, Goto
    <2>4. CASE WaitCompleted(p)
      BY <2>1, <2>4 DEF WaitCompleted, Goto
    <2>5. CASE WaitTimedOut(p)
      BY <2>1, <2>5 DEF WaitTimedOut, Goto, capture
    <2>6. CASE clear_interrupts(p)
      BY <2>1, <2>6 DEF clear_interrupts, Goto
    <2>7. CASE DecodeBad(p)
      BY <2>1, <2>7 DEF DecodeBad, CountTry, Goto, capture
    <2>8. CASE DecodeGood(p) \/ GiveUp(p)
      BY <2>1, <2>8 DEF DecodeGood, GiveUp, ReturnResult, Goto, capture
    <2> QED
      BY <1>6, <2>2, <2>3, <2>4, <2>5, <2>6, <2>7, <2>8 DEF OpenStep
  <1> QED
    BY <1>1, <1>2, <1>5, <1>6 DEF Next, vars

(* A first attempt woken by the completion has the whole frame: whatever an  *)
(* earlier session left in the completion is gone by then.                   *)
THEOREM FirstWakeIsFull == SafetySpec => []FirstWakeHasFrame
  <1>1. Init => WakeInv
    BY DEF Init, WakeInv, RetryIsLocal, FirstDone, FirstWakeHasFrame
  <1>2. WakeInv => FirstWakeHasFrame
    BY DEF WakeInv
  <1> QED
    BY <1>1, <1>2, TypeCorrect, SessionExclusive, AlwaysIrqHasOwner, NextWakeInv, PTL
       DEF SafetySpec

-----------------------------------------------------------------------------
(* With one read call at a time, the pointer is moved only by a call that    *)
(* found it at the beginning of the message.                                 *)
PtrInv ==
  /\ PtrInMessage
  /\ \A p \in Procs : reads[p] > 0 => pc[p] = "open" /\ msgPtr = 0

LEMMA NextPtrInv ==
    ASSUME MaxReads = 1
    PROVE  TypeOK /\ SessionLock /\ PtrInv /\ [Next]_vars => PtrInv'
  <1> SUFFICES ASSUME TypeOK, SessionLock, PtrInv, [Next]_vars PROVE PtrInv'
    OBVIOUS
  <1> USE DEF PtrInv, PtrInMessage, TypeOK
  <1>1. CASE UNCHANGED <<pc, reads, msgPtr>>
    BY <1>1
  <1>2. ASSUME NEW p \in Procs, OpenStep(p) PROVE PtrInv'
    <2>1. pc[p] \notin {"closed", "open"} /\ UNCHANGED reads /\ msgPtr' \in {0, msgPtr}
      BY <1>2 DEF OpenStep, StartRead, setup_interrupts, WaitCompleted, WaitTimedOut,
         clear_interrupts, DecodeGood, DecodeBad, GiveUp, ReturnResult, Goto, reading
    <2>2. \A q \in Procs : ~(reads[q] > 0)
      BY <2>1 DEF SessionLock, InSession
    <2> QED
      BY <2>1, <2>2
  <1>3. ASSUME NEW p \in Procs, Call(p) PROVE PtrInv'
    <2>1. CASE Open(p)
      BY <2>1 DEF Open, Goto, reading
    <2>2. CASE ReadBegin(p)
      BY <2>2 DEF ReadBegin, AtEnd, session
    <2>3. CASE ReadEnd(p)
      <3>1. \A q \in Procs : q # p => ~(reads[q] > 0)
        BY <2>3 DEF ReadEnd, SessionLock, InSession
      <3>2. reads'[p] = 0 /\ \A q \in Procs : q # p => reads'[q] = reads[q]
        BY <2>3 DEF ReadEnd
      <3> QED
        BY <2>3, <3>1, <3>2 DEF ReadEnd, session
    <2>4. CASE Close(p)
      BY <2>4 DEF Close, Goto, reading
    <2> QED
      BY <1>1, <1>3, <2>1, <2>2, <2>3, <2>4 DEF Call, OpenBusy, ReadEof, vars
  <1>4. CASE Interrupt
    BY <1>1, <1>4 DEF Interrupt, IrqLow, IrqLate, Record, IrqHigh, LostEdge, session, reading
  <1> QED
    BY <1>1, <1>2, <1>3, <1>4 DEF Next, vars

(* While an open file has at most one read call in flight, msg_Ptr never     *)
(* leaves the message.                                                       *)
THEOREM PointerStaysInMessage ==
    ASSUME MaxReads = 1 PROVE SafetySpec => []PtrInMessage
  <1>1. Init => PtrInv
    BY DEF Init, PtrInv, PtrInMessage
  <1>2. PtrInv => PtrInMessage
    BY DEF PtrInv
  <1> QED
    BY <1>1, <1>2, TypeCorrect, SessionExclusive, NextPtrInv, PTL DEF SafetySpec

-----------------------------------------------------------------------------
(* The refinement.  By SessionLock the owner is the one process in session.  *)
LEMMA OwnerIsUnique ==
  ASSUME NEW p \in Procs, InSession(p), \A q \in Procs : InSession(q) => q = p
  PROVE  SessionOwner = p
  BY DEF SessionOwner

(* The mapping looks at pc and, while a session is open, at msg. *)
LEMMA SameView ==
  ASSUME UNCHANGED pc, (\E q \in Procs : pc[q] = "open") => UNCHANGED msg
  PROVE  UNCHANGED <<SessionOwner, SessionReport>>
  BY DEF SessionOwner, SessionReport, InSession

(* A step of an open call before the message is published shows nothing. *)
LEMMA OpeningShowsNothing ==
  ASSUME TypeOK, SessionLock, SessionLock', NEW p \in Procs, NEW from, NEW to,
         Goto(p, from, to), from \notin {"closed", "open"}, to \notin {"closed", "open"}
  PROVE  UNCHANGED <<SessionOwner, SessionReport>>
  <1>1. pc[p] = from /\ pc' = [pc EXCEPT ![p] = to] /\ pc'[p] = to
    BY DEF Goto, TypeOK
  <1>2. InSession(p) /\ InSession(p)'
    BY <1>1 DEF InSession
  <1>3. /\ \A q \in Procs : InSession(q) => q = p
        /\ \A q \in Procs : InSession(q)' => q = p
    BY <1>2 DEF SessionLock
  <1>4. SessionOwner = p
    BY <1>2, <1>3, OwnerIsUnique
  <1>5. SessionOwner' = p
    BY <1>2, <1>3 DEF SessionOwner
  <1>6. /\ ~\E q \in Procs : pc[q] = "open"
        /\ ~\E q \in Procs : pc'[q] = "open"
    BY <1>1, <1>3 DEF InSession
  <1> QED
    BY <1>4, <1>5, <1>6 DEF SessionReport

(* Publishing, by the owner, with no report out yet. *)
LEMMA ReturnPublishes ==
  ASSUME TypeOK, TypeOK', SessionLock, SessionLock', NEW p \in Procs,
         NEW result \in {"OK", "BAD"}, ReturnResult(p, result)
  PROVE  DS!Publish(p)
  <1>1. /\ pc[p] = "decode" /\ pc'[p] = "open"
        /\ msg' = [values |-> dht11', result |-> result]
    BY DEF ReturnResult, Goto, TypeOK
  <1>2. InSession(p) /\ InSession(p)'
    BY <1>1 DEF InSession
  <1>3. /\ \A q \in Procs : InSession(q) => q = p
        /\ \A q \in Procs : InSession(q)' => q = p
    BY <1>2 DEF SessionLock
  <1>4. SessionOwner = p
    BY <1>2, <1>3, OwnerIsUnique
  <1>5. SessionOwner' = p
    BY <1>2, <1>3 DEF SessionOwner
  <1>6. SessionReport = NONE
    BY <1>1, <1>3 DEF SessionReport, InSession
  <1>7. SessionReport' = msg'
    BY <1>1 DEF SessionReport
  <1>8. msg' \in Reports
    BY <1>1 DEF Reports, TypeOK
  <1> QED
    BY <1>4, <1>5, <1>6, <1>7, <1>8 DEF DS!Publish

(* An open session has been given a message. *)
OpenHasReport == \A p \in Procs : pc[p] = "open" => msg \in Reports

LEMMA NextOpenHasReport ==
    TypeOK /\ SessionLock /\ OpenHasReport /\ [Next]_vars => OpenHasReport'
  <1> SUFFICES ASSUME TypeOK, SessionLock, OpenHasReport, [Next]_vars
               PROVE  OpenHasReport'
    OBVIOUS
  <1> USE DEF OpenHasReport
  <1>1. TypeOK'
    BY NextTypeOK
  <1>2. CASE UNCHANGED <<pc, msg>>
    BY <1>2
  <1>3. ASSUME NEW p \in Procs, NEW to, to # "open", pc' = [pc EXCEPT ![p] = to],
               UNCHANGED msg
        PROVE  OpenHasReport'
    BY <1>3 DEF TypeOK
  <1>4. ASSUME NEW p \in Procs, NEW result \in {"OK", "BAD"}, ReturnResult(p, result)
        PROVE  OpenHasReport'
    BY <1>1, <1>4 DEF ReturnResult, Reports, TypeOK
  <1>5. ASSUME NEW p \in Procs, OpenStep(p) PROVE OpenHasReport'
    BY <1>3, <1>4, <1>5 DEF OpenStep, StartRead, setup_interrupts, WaitCompleted,
       WaitTimedOut, clear_interrupts, DecodeGood, DecodeBad, GiveUp, Goto
  <1>6. ASSUME NEW p \in Procs, Call(p) PROVE OpenHasReport'
    BY <1>2, <1>3, <1>6 DEF Call, OpenBusy, Open, ReadEof, ReadBegin, ReadEnd, Close,
       Goto, session, vars
  <1>7. CASE Interrupt
    BY <1>2, <1>7 DEF Interrupt, IrqLow, IrqLate, Record, IrqHigh, LostEdge, session
  <1> QED
    BY <1>2, <1>5, <1>6, <1>7 DEF Next, vars

(* Every step of the driver is a step of DeviceSession or shows nothing. *)
LEMMA NextImplements ==
    TypeOK /\ TypeOK' /\ SessionLock /\ SessionLock' /\ OpenHasReport /\ [Next]_vars
      => [DS!Next]_<<SessionOwner, SessionReport>>
  <1> SUFFICES ASSUME TypeOK, TypeOK', SessionLock, SessionLock', OpenHasReport,
                      [Next]_vars
               PROVE  \/ \E p \in Procs : DS!Acquire(p) \/ DS!Publish(p) \/ DS!Release(p)
                      \/ UNCHANGED <<SessionOwner, SessionReport>>
    BY DEF DS!Next
  <1> DEFINE Shown == \/ \E p \in Procs : DS!Acquire(p) \/ DS!Publish(p) \/ DS!Release(p)
                      \/ UNCHANGED <<SessionOwner, SessionReport>>
  <1>1. CASE UNCHANGED <<pc, msg>>
    BY <1>1, SameView
  <1>2. ASSUME NEW p \in Procs, Open(p) PROVE Shown
    <2>1. /\ pc' = [pc EXCEPT ![p] = "start"]
          /\ \A q \in Procs : pc[q] = "closed"
      BY <1>2 DEF Open, Goto, mutex_trylock, SessionLock, InSession
    <2>2. SessionOwner = NONE /\ SessionReport = NONE
      BY <2>1 DEF SessionOwner, SessionReport, InSession
    <2>3. pc'[p] = "start" /\ \A q \in Procs : q # p => pc'[q] = "closed"
      BY <2>1 DEF TypeOK
    <2>4. SessionOwner' = p
      BY <2>3 DEF SessionOwner, InSession
    <2>5. SessionReport' = NONE
      BY <2>3 DEF SessionReport
    <2> QED
      BY <2>2, <2>4, <2>5 DEF DS!Acquire
  <1>3. ASSUME NEW p \in Procs, Close(p) PROVE Shown
    <2>1. pc[p] = "open" /\ pc' = [pc EXCEPT ![p] = "closed"]
      BY <1>3 DEF Close, Goto
    <2>2. \A q \in Procs : InSession(q) => q = p
      BY <2>1 DEF SessionLock, InSession
    <2>3. SessionOwner = p
      BY <2>1, <2>2, OwnerIsUnique DEF InSession
    <2>4. SessionReport # NONE
      BY <2>1, NoneIsNoReport DEF SessionReport, OpenHasReport
    <2>5. \A q \in Procs : pc'[q] = "closed"
      BY <2>1, <2>2 DEF InSession, TypeOK
    <2>6. SessionOwner' = NONE /\ SessionReport' = NONE
      BY <2>5 DEF SessionOwner, SessionReport, InSession
    <2> QED
      BY <2>3, <2>4, <2>6 DEF DS!Release
  <1>4. ASSUME NEW p \in Procs, OpenStep(p) PROVE Shown
    <2>1. CASE StartRead(p) \/ setup_interrupts(p) \/ WaitCompleted(p) \/ WaitTimedOut(p)
      BY <2>1, OpeningShowsNothing
         DEF StartRead, setup_interrupts, WaitCompleted, WaitTimedOut
    <2>2. CASE clear_interrupts(p) \/ DecodeBad(p)
      BY <2>2, OpeningShowsNothing DEF clear_interrupts, DecodeBad
    <2>3. CASE DecodeGood(p) \/ GiveUp(p)
      BY <2>3, ReturnPublishes DEF DecodeGood, GiveUp
    <2> QED
      BY <1>4, <2>1, <2>2, <2>3 DEF OpenStep
  <1>5. ASSUME NEW p \in Procs, Call(p) PROVE Shown
    BY <1>1, <1>2, <1>3, <1>5 DEF Call, OpenBusy, ReadEof, ReadBegin, ReadEnd, session, vars
  <1>6. CASE Interrupt
    BY <1>1, <1>6 DEF Interrupt, IrqLow, IrqLate, Record, IrqHigh, LostEdge, session
  <1>7. CASE UNCHANGED vars
    BY <1>1, <1>7 DEF vars
  <1> QED
    BY <1>4, <1>5, <1>6, <1>7 DEF Next

(* The driver implements the exclusive session device: sessions one at a     *)
(* time, one report each, unchanged until that session is closed.            *)
THEOREM DriverImplementsSession == SafetySpec => ImplementsSession
  <1>1. Init => DS!Init
    BY DEF Init, DS!Init, SessionOwner, SessionReport, InSession
  <1>2. Init => OpenHasReport
    BY DEF Init, OpenHasReport
  <1> QED
    BY <1>1, <1>2, TypeCorrect, SessionExclusive, NextOpenHasReport, NextImplements, PTL
       DEF SafetySpec, ImplementsSession, DS!Safety, DS!vars
=============================================================================
