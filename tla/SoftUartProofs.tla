---------------------------- MODULE SoftUartProofs ----------------------------
(***************************************************************************)
(* Theorems about the software UART, for every byte width, buffer size,    *)
(* set of messages and number of calls.                                    *)
(*                                                                         *)
(* Nothing is dropped: each byte asked for is sent, in TX_BUFFER or still  *)
(* in the hands of the writer, and where the writer stores there is a NUL. *)
(*                                                                         *)
(* The line is left high: while a frame goes out the text in TX_BUFFER     *)
(* never becomes empty, since one writer only adds to it.                  *)
(*                                                                         *)
(* Reads are in order: RX_BUFFER is the latest run of what was received,   *)
(* and what a reader holds comes after all that was read before.           *)
(*                                                                         *)
(* What is written is received: TX_BUFFER is the end of what was asked     *)
(* for, turned round, what was received its beginning, at most one byte is *)
(* between them, and the receiver is at the transmitter's bit or one       *)
(* behind.                                                                 *)
(***************************************************************************)
EXTENDS SoftUart, FiniteSetTheorems, TLAPS

USE SoftUartAssumption

-----------------------------------------------------------------------------
(***************************************************************************)
(* C strings.                                                              *)
(***************************************************************************)
(* A set of numbers that is not empty has a least member.                    *)
LEMMA Least ==
  ASSUME NEW T, T \subseteq Nat, T # {}
  PROVE  \E x \in T : \A y \in T : x <= y
  <1>1. PICK x \in T : \A y \in T : ~ (<<y, x>> \in OpToRel(<, Nat))
    BY WFMin, NatLessThanWellFounded
  <1>2. \A y \in T : ~ (y < x)
    <2> SUFFICES ASSUME NEW y \in T, y < x PROVE FALSE
      OBVIOUS
    <2>1. <<y, x>> \in Nat \X Nat /\ <<y, x>>[1] < <<y, x>>[2]
      OBVIOUS
    <2>2. <<y, x>> \in OpToRel(<, Nat)
      BY <2>1, Zenon DEF OpToRel
    <2> QED
      BY <1>1, <2>2
  <1> QED
    BY <1>2

(* The string end is a byte.                                                 *)
LEMMA NulIsByte == NUL \in Bytes
  BY DEF NUL, Bytes

(* A cleared buffer is a buffer.                                             *)
LEMMA EmptyIsBuffer == Empty \in Buffers
  BY NulIsByte DEF Empty, Buffers

(* strlen is where the first NUL is, or one past the byte behind the array.  *)
LEMMA StrlenIs ==
  ASSUME NEW b
  PROVE  /\ strlen(b) \in 0 .. SIZE + 2
         /\ strlen(b) = SIZE + 2 \/ b[strlen(b)] = NUL
         /\ \A j \in 0 .. strlen(b) - 1 : b[j] # NUL
  <1> DEFINE Ends == {i \in 0 .. SIZE + 2 : i = SIZE + 2 \/ b[i] = NUL}
  <1>1. Ends \subseteq Nat /\ SIZE + 2 \in Ends
    OBVIOUS
  <1>2. PICK i \in Ends : \A k \in Ends : i <= k
    <2> HIDE DEF Ends
    <2> QED
      BY <1>1, Least
  <1>3. \A j \in 0 .. i - 1 : j \notin Ends
    BY <1>1, <1>2
  <1>4. \E k \in 0 .. SIZE + 2 : /\ k = SIZE + 2 \/ b[k] = NUL
                                 /\ \A j \in 0 .. k - 1 : b[j] # NUL
    BY <1>2, <1>3
  <1> QED
    BY <1>4 DEF strlen

(* Nothing else is.                                                          *)
LEMMA StrlenUnique ==
  ASSUME NEW b, NEW i \in 0 .. SIZE + 2, i = SIZE + 2 \/ b[i] = NUL,
         \A j \in 0 .. i - 1 : b[j] # NUL
  PROVE  strlen(b) = i
  <1> DEFINE k == strlen(b)
  <1>1. /\ k \in 0 .. SIZE + 2
        /\ k = SIZE + 2 \/ b[k] = NUL
        /\ \A j \in 0 .. k - 1 : b[j] # NUL
    BY StrlenIs
  <1> HIDE DEF k
  <1>2. ~ (k < i) /\ ~ (i < k)
    BY <1>1
  <1>3. k = i
    BY <1>1, <1>2
  <1> QED
    BY <1>3 DEF k

(* A cleared array holds the empty string; the byte behind it stays.         *)
LEMMA EmptyStrlen == strlen(Empty) = 0
  <1>1. Empty[0] = NUL
    BY DEF Empty
  <1> QED
    BY <1>1, StrlenUnique

LEMMA ClearIs ==
  ASSUME NEW b \in Buffers
  PROVE  /\ Clear(b) \in Buffers /\ strlen(Clear(b)) = 0
         /\ \A i \in 0 .. SIZE : Clear(b)[i] = NUL
         /\ Clear(b)[SIZE + 1] = b[SIZE + 1]
         /\ b[SIZE + 1] = NUL => Clear(b) = Empty
  <1>1. Clear(b) \in Buffers
    BY NulIsByte DEF Clear, Buffers
  <1>2. Clear(b)[0] = NUL
    BY DEF Clear
  <1>3. strlen(Clear(b)) = 0
    BY <1>2, StrlenUnique
  <1> QED
    BY <1>1, <1>3 DEF Clear, Empty

(* A store writes one byte, or none that matters.                            *)
LEMMA StoreIs ==
  ASSUME NEW b \in Buffers, NEW i \in Int, NEW c \in Bytes
  PROVE  /\ Store(b, i, c) \in Buffers
         /\ i \in 0 .. SIZE + 1 => Store(b, i, c) = [b EXCEPT ![i] = c]
         /\ i \in 0 .. SIZE => Store(b, i, c)[SIZE + 1] = b[SIZE + 1]
         /\ i \notin 0 .. SIZE + 1 => Store(b, i, c) = b
  BY DEF Store, Buffers

(* The byte on top of a string that is not empty, and the pop of it.         *)
LEMMA TopIs ==
  ASSUME NEW b \in Buffers, strlen(b) \in 1 .. SIZE + 2
  PROVE  LET p == [b EXCEPT ![strlen(b) - 1] = NUL]
         IN  /\ b[strlen(b) - 1] \in Bytes \ {NUL}
             /\ p \in Buffers
             /\ strlen(p) = strlen(b) - 1
  <1> DEFINE k == strlen(b)
             p == [b EXCEPT ![k - 1] = NUL]
  <1>1. k - 1 \in 0 .. SIZE + 1 /\ \A j \in 0 .. k - 1 : b[j] # NUL
    BY StrlenIs
  <1>2. b[k - 1] \in Bytes \ {NUL}
    BY <1>1 DEF Buffers
  <1>3. p \in Buffers
    BY <1>1, NulIsByte DEF Buffers
  <1>4. p[k - 1] = NUL /\ \A j \in 0 .. k - 2 : p[j] = b[j]
    BY <1>1 DEF Buffers
  <1>5. strlen(p) = k - 1
    <2> HIDE DEF p
    <2> QED
      BY <1>1, <1>4, StrlenUnique
  <1> QED
    BY <1>2, <1>3, <1>5

-----------------------------------------------------------------------------
(***************************************************************************)
(* Types.                                                                  *)
(***************************************************************************)
(* A writer that is not done has a character left to store.                  *)
Storing == {"index", "storeTx", "checkTx", "clearTx", "storeRx", "checkRx", "clearRx"}
WriterPlaces == Storing \cup {"idle", "start"}

(* What the type invariant leaves open: the histories are sequences, and a   *)
(* frame that is under way has the bits sent so far.                         *)
Shapes ==
  /\ frame \in Seq({0, 1}) /\ (txBit # -1 => Len(frame) = txBit)
  /\ txPc = "pop" => txBit = BITS
  /\ sent \in Seq(Bytes) /\ asked \in Seq(Bytes \ {NUL})
  /\ rxd \in Seq(Bytes \ {NUL}) /\ got \in Seq(Bytes \ {NUL})
  /\ toggles \in Nat
  /\ n \in [Writers -> Nat] /\ at \in [Writers -> 0 .. SIZE + 2]
  /\ tmp \in [Readers -> Seq(Bytes \ {NUL})]
  /\ \A w \in Writers : wpc[w] \in Storing => n[w] <= Len(msg[w])

TypeInv == TypeOK /\ Shapes

(* The text of a buffer is a sequence of non-NUL bytes.                      *)
LEMMA ContentIs ==
  ASSUME NEW b \in Buffers
  PROVE  /\ Content(b) \in Seq(Bytes \ {NUL})
         /\ Len(Content(b)) = strlen(b)
         /\ \A i \in 1 .. strlen(b) : Content(b)[i] = b[i - 1]
  <1>0. strlen(b) \in 0 .. SIZE + 2 /\ strlen(b) \in Nat
    BY StrlenIs
  <1>1. \A i \in 1 .. strlen(b) : b[i - 1] \in Bytes \ {NUL}
    BY <1>0, StrlenIs DEF Buffers
  <1>2. Content(b) \in [1 .. strlen(b) -> Bytes \ {NUL}]
    BY <1>1 DEF Content
  <1> QED
    BY <1>0, <1>2 DEF Content

(* What is asked for is a sequence of bytes other than NUL.                  *)
LEMMA MessageIsSeq == Messages \cup {<<>>} \subseteq Seq(Bytes \ {NUL})
  <1>1. <<>> \in Seq(Bytes \ {NUL})
    OBVIOUS
  <1> QED
    BY <1>1

(* A character of a message is a byte, and not NUL before the message's end. *)
LEMMA CharIs ==
  ASSUME NEW m \in Messages \cup {<<>>}, NEW i \in 0 .. Len(m)
  PROVE  /\ CharAt(m, i) \in Bytes
         /\ i < Len(m) => CharAt(m, i) = m[i + 1] /\ CharAt(m, i) # NUL
         /\ i = Len(m) => CharAt(m, i) = NUL
  <1>1. m \in Seq(Bytes \ {NUL})
    BY MessageIsSeq
  <1>2. i < Len(m) => m[i + 1] \in Bytes \ {NUL}
    BY <1>1
  <1> QED
    BY <1>1, <1>2, NulIsByte DEF CharAt

(* Everything is in range when the module is loaded.                         *)
LEMMA InitTypeInv == Init => TypeInv
  <1> SUFFICES ASSUME Init PROVE TypeInv
    OBVIOUS
  <1>1. TX_BUFFER \in Buffers /\ RX_BUFFER \in Buffers /\ RX_DATA \in Bytes
    BY EmptyIsBuffer, NulIsByte DEF Init
  <1>2. /\ txPc = "tick" /\ txAt \in -1 .. SIZE + 1
        /\ rxPc = "tick" /\ rxAt \in 0 .. SIZE + 2
    BY DEF Init
  <1>3. /\ wpc \in [Writers -> WriterPlaces]
        /\ msg \in [Writers -> Messages \cup {<<>>}]
        /\ n \in [Writers -> Nat] /\ at \in [Writers -> 0 .. SIZE + 2]
        /\ \A w \in Writers : wpc[w] = "idle" /\ n[w] \in 0 .. Len(msg[w]) + 1
    BY DEF Init, WriterPlaces
  <1>4. /\ rpc \in [Readers -> {"idle", "clear"}]
        /\ tmp \in [Readers -> Seq(Bytes \ {NUL})]
        /\ \A r \in Readers : Len(tmp[r]) <= SIZE + 2
    BY DEF Init
  <1>5. /\ LOOPBACK \in BOOLEAN /\ level \in {0, 1}
        /\ txBit = -1 /\ rxBit = -1
        /\ txTimer \in BOOLEAN /\ kick \in BOOLEAN /\ lead \in BOOLEAN
        /\ cleared \in BOOLEAN /\ raced \in BOOLEAN
    BY DEF Init
  <1>6. /\ frame \in Seq({0, 1}) /\ sent \in Seq(Bytes) /\ asked \in Seq(Bytes \ {NUL})
        /\ rxd \in Seq(Bytes \ {NUL}) /\ got \in Seq(Bytes \ {NUL}) /\ toggles \in Nat
    BY DEF Init
  <1>7. txBit \in -1 .. BITS /\ rxBit \in -1 .. BITS
    BY <1>5
  <1> QED
    BY <1>1, <1>2, <1>3, <1>4, <1>5, <1>6, <1>7 DEF TypeInv, TypeOK, Shapes, Storing, WriterPlaces

(* A received byte is stored, logged and counted as one.                     *)
LEMMA LoggedType ==
  ASSUME NEW log \in Seq(Bytes \ {NUL}), NEW c \in Bytes
  PROVE  Logged(log, c) \in Seq(Bytes \ {NUL})
  BY DEF Logged

(* The receiver's byte stays one as bits are set in it.                      *)
LEMMA ShiftInType ==
  ASSUME RX_DATA \in Bytes, level \in {0, 1}, NEW i \in 0 .. BITS - 1
  PROVE  ShiftIn(RX_DATA, i) \in Bytes
  BY DEF ShiftIn, Bytes

(* A step of the transmitter keeps every range.                              *)
LEMMA TxTypeInv == TypeInv /\ FunctionTimerTX => TypeInv'
  <1> SUFFICES ASSUME TypeInv, FunctionTimerTX PROVE TypeInv'
    OBVIOUS
  <1> USE DEF TypeInv, TypeOK, Shapes
  <1>1. /\ lead' \in BOOLEAN /\ kick' \in BOOLEAN
        /\ UNCHANGED <<txTimer, cleared, rx, writer, reader, mode>>
    BY DEF FunctionTimerTX, Tick, TxStart, TxData, TxStop, TxPop, Act, line
  <1>2. strlen(TX_BUFFER) \in 0 .. SIZE + 2
    BY StrlenIs
  <1>3. /\ TX_BUFFER' \in Buffers
        /\ txPc' \in {"tick", "act", "pop"} /\ txAt' \in -1 .. SIZE + 1
        /\ txBit' \in -1 .. BITS /\ level' \in {0, 1}
        /\ frame' \in Seq({0, 1}) /\ (txBit' # -1 => Len(frame') = txBit')
        /\ txPc' = "pop" => txBit' = BITS
        /\ sent' \in Seq(Bytes)
    <2>1. CASE Tick
      BY <2>1 DEF Tick
    <2>2. CASE TxStart
      BY <2>2 DEF TxStart, Act
    <2>3. CASE TxData
      <3>1. level' \in {0, 1}
        <4>1. CASE Sending
          <5>0. strlen(TX_BUFFER) \in 1 .. SIZE + 2 /\ TX_BUFFER \in Buffers
            BY <1>2, <4>1 DEF Sending
          <5>1. Top \in Bytes
            <6> HIDE DEF TypeInv, TypeOK, Shapes
            <6> QED
              BY <5>0, TopIs DEF Top
          <5> QED
            BY <2>3, <4>1, <5>1 DEF TxData, Bytes
        <4>2. CASE ~ Sending
          BY <2>3, <4>2 DEF TxData
        <4> QED
          BY <4>1, <4>2
      <3>2. txBit \in 0 .. BITS - 1 /\ txBit' = txBit + 1 /\ frame' = Append(frame, level')
            /\ txPc' = "tick" /\ UNCHANGED <<TX_BUFFER, txAt, sent>>
        BY <2>3 DEF TxData, Act
      <3> QED
        BY <3>1, <3>2
    <2>4. CASE TxStop
      BY <1>2, <2>4 DEF TxStop, Act
    <2>5. CASE TxPop
      <3>1. TX_BUFFER' \in Buffers
        BY <2>5, StoreIs, NulIsByte DEF TxPop, Pop
      <3>2. \A i \in 0 .. BITS - 1 : frame[i + 1] \in {0, 1}
        BY <2>5 DEF TxPop
      <3>3. sent' \in Seq(Bytes)
        BY <2>5, <3>2 DEF TxPop, Bytes
      <3> QED
        BY <2>5, <3>1, <3>3 DEF TxPop, AfterStop, line
    <2> QED
      BY <2>1, <2>2, <2>3, <2>4, <2>5 DEF FunctionTimerTX
  <1> QED
    BY <1>1, <1>3 DEF rx, writer, reader, mode

(* A step of the receiver keeps every range.                                 *)
LEMMA RxTypeInv == TypeInv /\ FunctionTimerRX => TypeInv'
  <1> SUFFICES ASSUME TypeInv, FunctionTimerRX PROVE TypeInv'
    OBVIOUS
  <1> USE DEF TypeInv, TypeOK, Shapes
  <1>1. /\ lead' \in BOOLEAN
        /\ UNCHANGED <<level, txTimer, kick, tx, writer, reader, mode>>
    BY DEF FunctionTimerRX, RxIdle, RxStart, RxData, RxStop, RxStore, RxCheck, RxClear, Sample,
           Goes, line
  <1>2. /\ RX_BUFFER' \in Buffers
        /\ rxPc' \in {"tick", "store", "check", "clear"} /\ rxAt' \in 0 .. SIZE + 2
        /\ RX_DATA' \in Bytes /\ rxBit' \in -1 .. BITS
        /\ rxd' \in Seq(Bytes \ {NUL})
    <2>1. CASE RxIdle
      BY <2>1 DEF RxIdle, rx
    <2>2. CASE RxStart
      BY <2>2 DEF RxStart
    <2>3. CASE RxData
      BY <2>3, ShiftInType DEF RxData
    <2>4. CASE RxStop
      <3>1. strlen(RX_BUFFER) \in 0 .. SIZE + 2
        BY StrlenIs
      <3>2. /\ rxAt' = strlen(RX_BUFFER) /\ rxPc' \in {"tick", "store", "check", "clear"}
            /\ rxBit' \in -1 .. BITS /\ UNCHANGED <<RX_BUFFER, RX_DATA, rxd>>
        BY <2>4 DEF RxStop
      <3> QED
        BY <3>1, <3>2
    <2>5. CASE RxStore
      <3>1. RX_BUFFER \in Buffers /\ rxAt \in Int /\ RX_DATA \in Bytes
        OBVIOUS
      <3>2. RX_BUFFER' \in Buffers
        BY <2>5, <3>1, StoreIs DEF RxStore
      <3>3. rxd' \in Seq(Bytes \ {NUL})
        BY <2>5, <3>1, LoggedType DEF RxStore
      <3> QED
        BY <2>5, <3>2, <3>3 DEF RxStore, Goes
    <2>6. CASE RxCheck
      BY <2>6 DEF RxCheck, Goes
    <2>7. CASE RxClear
      BY <2>7, ClearIs DEF RxClear, Goes
    <2> QED
      BY <2>1, <2>2, <2>3, <2>4, <2>5, <2>6, <2>7 DEF FunctionTimerRX
  <1> QED
    BY <1>1, <1>2 DEF tx, writer, reader, mode

(* The character a writer is about to store is one of its message.           *)
LEMMA StoredType ==
  ASSUME TypeInv, NEW w \in Writers, wpc[w] \in Storing
  PROVE  /\ Looped(w) \in Bytes /\ Pushed(w) \in Bytes
         /\ at[w] \in 0 .. SIZE + 2 /\ n[w] \in 0 .. Len(msg[w])
  <1>1. /\ msg[w] \in Messages \cup {<<>>} /\ n[w] \in 0 .. Len(msg[w])
        /\ Len(msg[w]) - n[w] \in 0 .. Len(msg[w]) /\ at[w] \in 0 .. SIZE + 2
    BY MessageIsSeq DEF TypeInv, TypeOK, Shapes
  <1> QED
    BY <1>1, CharIs DEF Looped, Pushed

(* Going on to the next byte of the message keeps the writer's ranges.       *)
LEMMA NextCharType ==
  ASSUME TypeInv, NEW w \in Writers, wpc[w] \in Storing, NextChar(w), msg' = msg
  PROVE  /\ wpc' \in [Writers -> WriterPlaces]
         /\ n' \in [Writers -> Nat]
         /\ \A v \in Writers : n'[v] \in 0 .. Len(msg'[v]) + 1
         /\ \A v \in Writers : wpc'[v] \in Storing => n'[v] <= Len(msg'[v])
  <1>1. n[w] \in 0 .. Len(msg[w]) /\ Len(msg[w]) \in Nat
    BY MessageIsSeq DEF TypeInv, TypeOK, Shapes
  <1> QED
    BY <1>1, SMTT(30) DEF NextChar, TypeInv, TypeOK, Shapes, Storing, WriterPlaces

(* A writer that goes to another place of its write stays in the ranges.     *)
LEMMA PlaceType ==
  ASSUME NEW f, NEW w \in Writers, NEW p \in {"checkTx", "clearTx", "checkRx", "clearRx"},
         f \in [Writers -> WriterPlaces]
  PROVE  [f EXCEPT ![w] = p] \in [Writers -> WriterPlaces]
  <1>1. p \in WriterPlaces
    BY DEF WriterPlaces, Storing
  <1> QED
    BY <1>1

(* A step of a write keeps every range.                                      *)
LEMMA WriterTypeInv ==
  ASSUME TypeInv, NEW w \in Writers, WriterStep(w)
  PROVE  TypeInv'
  <1>0. wpc[w] \in Storing => /\ Looped(w) \in Bytes /\ Pushed(w) \in Bytes
                              /\ at[w] \in Int /\ n[w] <= Len(msg[w])
    BY StoredType
  <1>5. /\ [wpc EXCEPT ![w] = "checkTx"] \in [Writers -> WriterPlaces]
        /\ [wpc EXCEPT ![w] = "checkRx"] \in [Writers -> WriterPlaces]
        /\ [wpc EXCEPT ![w] = "clearTx"] \in [Writers -> WriterPlaces]
        /\ [wpc EXCEPT ![w] = "clearRx"] \in [Writers -> WriterPlaces]
    <2>1. wpc \in [Writers -> WriterPlaces]
      BY DEF TypeInv, TypeOK, WriterPlaces, Storing
    <2> QED
      BY <2>1, PlaceType
  <1> USE DEF TypeInv, TypeOK, Shapes
  <1>1. strlen(TX_BUFFER) \in 0 .. SIZE + 2 /\ strlen(RX_BUFFER) \in 0 .. SIZE + 2
    BY StrlenIs
  <1>2. /\ UNCHANGED <<msg, asked, RX_DATA, rxPc, rxAt, rxBit, txPc, txAt, txBit, frame, sent,
                       level, lead, reader, mode>>
        /\ txTimer' \in BOOLEAN /\ kick' \in BOOLEAN
    BY DEF WriterStep, FindEnd, StoreTx, CheckTx, ClearTx, StoreRx, CheckRx, ClearRx, StartTimer,
           hrtimer_start, line, tx, rx
  <1>3. /\ TX_BUFFER' \in Buffers /\ RX_BUFFER' \in Buffers
        /\ rxd' \in Seq(Bytes \ {NUL}) /\ cleared' \in BOOLEAN
    <2>1. CASE StoreTx(w)
      <3>1. Pushed(w) \in Bytes /\ at[w] \in Int
        <4>1. wpc[w] \in Storing
          BY <2>1 DEF StoreTx, Storing
        <4> QED
          BY <1>0, <4>1
      <3> QED
        BY <2>1, <3>1, StoreIs DEF StoreTx, rx
    <2>2. CASE StoreRx(w)
      <3>1. Looped(w) \in Bytes /\ at[w] \in Int
        <4>1. wpc[w] \in Storing
          BY <2>2 DEF StoreRx, Storing
        <4> QED
          BY <1>0, <4>1
      <3> QED
        BY <2>2, <3>1, StoreIs, LoggedType DEF StoreRx, tx
    <2>3. CASE ClearTx(w) \/ ClearRx(w)
      <3>1. Clear(TX_BUFFER) \in Buffers /\ Clear(RX_BUFFER) \in Buffers
        BY ClearIs
      <3>2. /\ TX_BUFFER' \in {TX_BUFFER, Clear(TX_BUFFER)}
            /\ RX_BUFFER' \in {RX_BUFFER, Clear(RX_BUFFER)}
            /\ rxd' = rxd /\ cleared' \in BOOLEAN
        BY <2>3 DEF ClearTx, ClearRx, tx, rx
      <3> QED
        BY <3>1, <3>2
    <2>4. CASE FindEnd(w) \/ CheckTx(w) \/ CheckRx(w) \/ StartTimer(w)
      BY <2>4 DEF FindEnd, CheckTx, CheckRx, StartTimer, tx, rx
    <2> QED
      BY <2>1, <2>2, <2>3, <2>4 DEF WriterStep
  <1>4. /\ wpc' \in [Writers -> WriterPlaces]
        /\ n' \in [Writers -> Nat] /\ at' \in [Writers -> 0 .. SIZE + 2]
        /\ \A v \in Writers : n'[v] \in 0 .. Len(msg'[v]) + 1
        /\ \A v \in Writers : wpc'[v] \in Storing => n'[v] <= Len(msg'[v])
    <2>1. CASE FindEnd(w)
      BY <1>1, <2>1 DEF FindEnd, Storing, WriterPlaces
    <2>2. CASE StoreTx(w) \/ StoreRx(w)
      <3>1. /\ wpc[w] \in Storing /\ UNCHANGED <<n, at>>
            /\ \/ wpc' = [wpc EXCEPT ![w] = "checkTx"]
               \/ wpc' = [wpc EXCEPT ![w] = "checkRx"]
        BY <2>2 DEF StoreTx, StoreRx, Storing
      <3>2. wpc' \in [Writers -> WriterPlaces]
        BY <1>5, <3>1
      <3>3. \A v \in Writers : wpc'[v] \in Storing => n'[v] <= Len(msg'[v])
        BY <1>0, <1>2, <3>1
      <3> QED
        BY <1>2, <3>1, <3>2, <3>3
    <2>3. CASE StartTimer(w)
      BY <2>3 DEF StartTimer, Storing, WriterPlaces
    <2>4. CASE CheckTx(w) \/ CheckRx(w) \/ ClearTx(w) \/ ClearRx(w)
      <3>1. CASE NextChar(w)
        <4>1. wpc[w] \in Storing /\ at' = at
          BY <2>4 DEF CheckTx, CheckRx, ClearTx, ClearRx, Storing
        <4> QED
          BY <1>2, <3>1, <4>1, NextCharType
      <3>2. CASE ~ NextChar(w)
        <4>1. /\ wpc[w] \in Storing /\ UNCHANGED <<n, at>>
              /\ \/ wpc' = [wpc EXCEPT ![w] = "clearTx"]
                 \/ wpc' = [wpc EXCEPT ![w] = "clearRx"]
          BY <2>4, <3>2 DEF CheckTx, CheckRx, ClearTx, ClearRx, Storing
        <4>2. wpc' \in [Writers -> WriterPlaces]
          BY <1>5, <4>1
        <4>3. n[w] <= Len(msg[w])
          BY <4>1
        <4>4. \A v \in Writers : wpc'[v] \in Storing => n'[v] <= Len(msg'[v])
          BY <1>2, <4>1, <4>3
        <4> QED
          BY <1>2, <4>1, <4>2, <4>4
      <3> QED
        BY <3>1, <3>2
    <2> QED
      BY <2>1, <2>2, <2>3, <2>4 DEF WriterStep
  <1> QED
    BY <1>2, <1>3, <1>4, SMTT(30) DEF reader, mode, Storing, WriterPlaces

(* The start of a write keeps every range.                                   *)
LEMMA WriteTypeInv ==
  ASSUME TypeInv, NEW w \in Writers, NEW m \in Messages, Write(w, m)
  PROVE  TypeInv'
  <1> USE DEF TypeInv, TypeOK, Shapes
  <1>1. m \in Seq(Bytes \ {NUL}) /\ Len(m) \in Nat
    BY MessageIsSeq
  <1>2. /\ wpc' = [wpc EXCEPT ![w] = "index"] /\ msg' = [msg EXCEPT ![w] = m]
        /\ n' = [n EXCEPT ![w] = 0] /\ asked' = asked \o m
        /\ UNCHANGED <<at, line, tx, rx, reader, mode>>
    BY DEF Write
  <1>3. wpc' \in [Writers -> WriterPlaces] /\ msg' \in [Writers -> Messages \cup {<<>>}]
    BY <1>2 DEF WriterPlaces, Storing
  <1>4. /\ n' \in [Writers -> Nat] /\ asked' \in Seq(Bytes \ {NUL})
        /\ \A v \in Writers : n'[v] \in 0 .. Len(msg'[v]) + 1
    BY <1>1, <1>2
  <1>5. \A v \in Writers : wpc'[v] \in Storing => n'[v] <= Len(msg'[v])
    BY <1>1, <1>2
  <1> QED
    BY <1>2, <1>3, <1>4, <1>5, SMTT(30) DEF line, tx, rx, reader, mode, Storing, WriterPlaces

(* A read keeps every range.                                                 *)
LEMMA ReaderTypeInv ==
  ASSUME TypeInv, NEW r \in Readers, CopyOut(r) \/ ClearOut(r)
  PROVE  TypeInv'
  <1> USE DEF TypeInv, TypeOK, Shapes
  <1>1. strlen(RX_BUFFER) \in 0 .. SIZE + 2
    BY StrlenIs
  <1>2. CASE CopyOut(r)
    BY <1>1, <1>2, ContentIs DEF CopyOut, line, tx, rx, writer, mode
  <1>3. CASE ClearOut(r)
    <2>1. RX_BUFFER' \in Buffers
      BY <1>3, ClearIs DEF ClearOut, EmptyRx
    <2>2. got' \in Seq(Bytes \ {NUL})
      BY <1>3 DEF ClearOut
    <2>3. raced' \in BOOLEAN
      BY <1>3 DEF ClearOut
    <2> QED
      BY <1>3, <2>1, <2>2, <2>3 DEF ClearOut, line, tx, writer, mode
  <1> QED
    BY <1>2, <1>3

(* One step per action.                                                      *)
LEMMA NextTypeInv == TypeInv /\ [Next]_vars => TypeInv'
  <1> SUFFICES ASSUME TypeInv, [Next]_vars PROVE TypeInv'
    OBVIOUS
  <1>1. CASE SetLoopback
    BY <1>1 DEF SetLoopback, TypeInv, TypeOK, Shapes, line, tx, rx, writer, reader
  <1>2. CASE UNCHANGED vars
    BY <1>2 DEF vars, TypeInv, TypeOK, Shapes
  <1> QED
    BY <1>1, <1>2, TxTypeInv, RxTypeInv, WriterTypeInv, WriteTypeInv, ReaderTypeInv DEF Next

(* Every place, bit counter and index is in its range, for any number of     *)
(* writers and readers, and wherever the steps of the callbacks and of the   *)
(* timer functions cut each other.                                           *)
THEOREM TypeCorrect == SafetySpec => []TypeOK
  <1>1. TypeInv => TypeOK
    BY DEF TypeInv
  <1> QED
    BY InitTypeInv, NextTypeInv, <1>1, PTL DEF SafetySpec

-----------------------------------------------------------------------------
(***************************************************************************)
(* What each actor leaves alone.                                           *)
(***************************************************************************)
(* The transmitter has nothing to do with the receiver's side.               *)
LEMMA TxLeaves == FunctionTimerTX => UNCHANGED <<txTimer, cleared, rx, writer, reader, mode>>
  BY DEF FunctionTimerTX, Tick, TxStart, TxData, TxStop, TxPop, Act, line

(* Nor the receiver with the transmitter's.                                  *)
LEMMA RxLeaves ==
  FunctionTimerRX => UNCHANGED <<level, txTimer, kick, tx, writer, reader, mode>>
  BY DEF FunctionTimerRX, RxIdle, RxStart, RxData, RxStop, RxStore, RxCheck, RxClear, Sample,
         Goes, line

(* A write touches the buffers and starts the timer.                         *)
LEMMA WriterLeaves ==
  ASSUME NEW w \in Writers, WriterStep(w)
  PROVE  UNCHANGED <<msg, asked, RX_DATA, rxPc, rxAt, rxBit, txPc, txAt, txBit, frame, sent,
                     level, lead, reader, mode>>
  BY DEF WriterStep, FindEnd, StoreTx, CheckTx, ClearTx, StoreRx, CheckRx, ClearRx, StartTimer,
         line, tx, rx

(* Its start touches only the writer.                                        *)
LEMMA BeginLeaves ==
  ASSUME NEW w \in Writers, NEW m \in Messages, Write(w, m)
  PROVE  UNCHANGED <<at, line, tx, rx, reader, mode>>
  BY DEF Write

(* A read touches RX_BUFFER.                                                 *)
LEMMA ReaderLeaves ==
  ASSUME NEW r \in Readers, CopyOut(r) \/ ClearOut(r)
  PROVE  UNCHANGED <<line, tx, writer, mode, RX_DATA, rxPc, rxAt, rxBit, rxd>>
  BY DEF CopyOut, ClearOut, rx

(* The loopback file touches only the mode.                                  *)
LEMMA LoopbackLeaves == SetLoopback => UNCHANGED <<line, tx, rx, writer, reader>>
  BY DEF SetLoopback

-----------------------------------------------------------------------------
(***************************************************************************)
(* No store behind the arrays.                                             *)
(***************************************************************************)
OneWriter == \A v, w \in Writers : v = w

NoLoopback ==
  toggles = 0 =>
    LOOPBACK = FALSE /\ \A w \in Writers : wpc[w] \notin {"storeRx", "checkRx", "clearRx"}

HasNul(b) == \E i \in 0 .. SIZE : b[i] = NUL

(* A writer stores on a NUL inside the array, and only between his store and *)
(* his clearing is there none.                                               *)
InsideTx ==
  /\ TX_BUFFER[SIZE + 1] = NUL
  /\ \A w \in Writers : wpc[w] = "storeTx" => at[w] <= SIZE /\ TX_BUFFER[at[w]] = NUL
  /\ (\A w \in Writers : wpc[w] \notin {"checkTx", "clearTx"}) => HasNul(TX_BUFFER)

(* The same of the receiver, which a read may help by clearing.              *)
InsideRx ==
  /\ RX_BUFFER[SIZE + 1] = NUL
  /\ rxPc = "store" => rxAt <= SIZE
  /\ rxPc \in {"tick", "store"} => HasNul(RX_BUFFER)

(* strlen sees whether there is a NUL in the array.                          *)
LEMMA HasNulIs ==
  ASSUME NEW b, b[SIZE + 1] = NUL
  PROVE  /\ strlen(b) \in 0 .. SIZE + 1 /\ b[strlen(b)] = NUL
         /\ HasNul(b) <=> strlen(b) <= SIZE
         /\ HasNul(b) <=> ~ Full(b)
  <1>1. /\ strlen(b) \in 0 .. SIZE + 2
        /\ strlen(b) = SIZE + 2 \/ b[strlen(b)] = NUL
        /\ \A j \in 0 .. strlen(b) - 1 : b[j] # NUL
    BY StrlenIs
  <1>2. strlen(b) # SIZE + 2
    <2> SUFFICES ASSUME strlen(b) = SIZE + 2 PROVE FALSE
      OBVIOUS
    <2>1. SIZE + 1 \in 0 .. strlen(b) - 1
      OBVIOUS
    <2> QED
      BY <1>1, <2>1
  <1>3. strlen(b) \in 0 .. SIZE + 1 /\ b[strlen(b)] = NUL
    BY <1>1, <1>2
  <1>4. HasNul(b) <=> strlen(b) <= SIZE
    <2>1. ASSUME strlen(b) <= SIZE PROVE HasNul(b)
      BY <1>3, <2>1 DEF HasNul
    <2>2. ASSUME NEW i \in 0 .. SIZE, b[i] = NUL PROVE strlen(b) <= SIZE
      BY <1>1, <1>3, <2>2
    <2> QED
      BY <2>1, <2>2 DEF HasNul
  <1> QED
    BY <1>3, <1>4 DEF Full

(* A NUL is stored over any byte, and anything over a NUL elsewhere.         *)
LEMMA NulStored ==
  ASSUME NEW b \in Buffers, NEW i \in Int
  PROVE  /\ HasNul(b) => HasNul(Store(b, i, NUL))
         /\ b[SIZE + 1] = NUL => Store(b, i, NUL)[SIZE + 1] = NUL
         /\ \A j \in 0 .. SIZE : b[j] = NUL => Store(b, i, NUL)[j] = NUL
  BY DEF HasNul, Store, Buffers

(* A cleared array has one.                                                  *)
LEMMA ClearHasNul ==
  ASSUME NEW b \in Buffers, b[SIZE + 1] = NUL
  PROVE  HasNul(Clear(b)) /\ Clear(b)[SIZE + 1] = NUL
  BY ClearIs DEF HasNul

(* Both buffers are empty when the module is loaded, and loopback is off.    *)
LEMMA InitInside == Init => NoLoopback /\ InsideTx /\ InsideRx
  BY DEF Init, NoLoopback, InsideTx, InsideRx, HasNul, Empty

(* Loopback is off until somebody switches it on.                            *)
LEMMA NextNoLoopback == TypeInv /\ NoLoopback /\ [Next]_vars => NoLoopback'
  <1> SUFFICES ASSUME TypeInv, NoLoopback, [Next]_vars PROVE NoLoopback'
    OBVIOUS
  <1> USE DEF NoLoopback
  <1>0. wpc \in [Writers -> WriterPlaces] /\ toggles \in Nat
    BY DEF TypeInv, TypeOK, Shapes, WriterPlaces, Storing
  <1>1. CASE UNCHANGED <<writer, mode>>
    BY <1>1 DEF writer, mode
  <1>2. ASSUME NEW w \in Writers, WriterStep(w) PROVE NoLoopback'
    <2>1. UNCHANGED mode
      BY <1>2, WriterLeaves
    <2>2. ASSUME toggles = 0 PROVE wpc' = [wpc EXCEPT ![w] = wpc'[w]]
                                   /\ wpc'[w] \notin {"storeRx", "checkRx", "clearRx"}
      BY <1>0, <1>2, <2>2 DEF WriterStep, FindEnd, StoreTx, CheckTx, ClearTx, StoreRx, CheckRx,
                              ClearRx, StartTimer, NextChar
    <2> QED
      BY <1>0, <2>1, <2>2 DEF mode
  <1>3. ASSUME NEW w \in Writers, NEW m \in Messages, Write(w, m) PROVE NoLoopback'
    BY <1>0, <1>3 DEF Write, mode
  <1>4. CASE SetLoopback
    BY <1>0, <1>4 DEF SetLoopback
  <1>5. UNCHANGED vars => UNCHANGED <<writer, mode>>
    BY DEF vars, writer, mode
  <1> QED
    BY <1>1, <1>2, <1>3, <1>4, <1>5, TxLeaves, RxLeaves, ReaderLeaves DEF Next

(* A change of the loopback file is never taken back.                        *)
LEMMA TogglesGrow == TypeInv /\ [Next]_vars /\ toggles' = 0 => toggles = 0
  <1>1. UNCHANGED mode => UNCHANGED toggles
    BY DEF mode
  <1>2. SetLoopback /\ TypeInv => toggles' # 0
    BY DEF SetLoopback, TypeInv, Shapes
  <1>3. UNCHANGED vars => UNCHANGED toggles
    BY DEF vars
  <1> QED
    BY <1>1, <1>2, <1>3, TxLeaves, RxLeaves, ReaderLeaves, WriterLeaves, BeginLeaves DEF Next

(* What one writer's place means for all of them.                            *)
LEMMA NextInsideTx ==
  ASSUME OneWriter, TypeInv, InsideTx, [Next]_vars
  PROVE  InsideTx'
  <1> USE DEF InsideTx
  <1>0. /\ TX_BUFFER \in Buffers /\ txAt \in Int /\ wpc \in [Writers -> WriterPlaces]
        /\ at \in [Writers -> 0 .. SIZE + 2]
    BY DEF TypeInv, TypeOK, Shapes, WriterPlaces, Storing
  <1>1. CASE UNCHANGED <<TX_BUFFER, wpc, at>>
    BY <1>1
  <1>2. CASE FunctionTimerTX
    <2>1. CASE TxPop
      <3>1. TX_BUFFER' = Store(TX_BUFFER, txAt, NUL) /\ UNCHANGED writer
        BY <2>1 DEF TxPop, Pop
      <3> QED
        BY <1>0, <3>1, NulStored DEF writer
    <2>2. CASE Tick \/ TxStart \/ TxData \/ TxStop
      BY <1>1, <1>2, <2>2, TxLeaves DEF Tick, TxStart, TxData, TxStop, Act, writer
    <2> QED
      BY <1>2, <2>1, <2>2 DEF FunctionTimerTX
  <1>3. ASSUME NEW w \in Writers, WriterStep(w) PROVE InsideTx'
    <2>0. \A v \in Writers : v = w
      BY DEF OneWriter
    <2>1. CASE FindEnd(w)
      <3>1. /\ wpc[w] = "index" /\ UNCHANGED TX_BUFFER
            /\ wpc'[w] = "storeTx" => at'[w] = strlen(TX_BUFFER)
        BY <1>0, <2>1 DEF FindEnd, tx
      <3>2. HasNul(TX_BUFFER)
        BY <2>0, <3>1
      <3>3. strlen(TX_BUFFER) <= SIZE /\ TX_BUFFER[strlen(TX_BUFFER)] = NUL
        BY <3>2, HasNulIs
      <3> QED
        BY <2>0, <3>1, <3>2, <3>3
    <2>2. CASE StoreTx(w)
      <3>1. /\ wpc[w] = "storeTx" /\ wpc'[w] = "checkTx"
            /\ TX_BUFFER' = Store(TX_BUFFER, at[w], Pushed(w))
        BY <1>0, <2>2 DEF StoreTx
      <3>2. Pushed(w) \in Bytes /\ at[w] \in 0 .. SIZE
        BY <1>0, <3>1, StoredType DEF Storing
      <3>3. TX_BUFFER'[SIZE + 1] = NUL
        BY <1>0, <3>1, <3>2, StoreIs
      <3> QED
        BY <2>0, <3>1, <3>3
    <2>3. CASE CheckTx(w)
      <3>1. /\ UNCHANGED TX_BUFFER
            /\ wpc'[w] # "storeTx"
            /\ wpc'[w] \notin {"checkTx", "clearTx"} => ~ Full(TX_BUFFER)
        BY <1>0, <2>3 DEF CheckTx, NextChar, tx
      <3> QED
        BY <2>0, <3>1, HasNulIs
    <2>4. CASE ClearTx(w)
      <3>1. TX_BUFFER' = Clear(TX_BUFFER) /\ wpc'[w] # "storeTx"
        BY <1>0, <2>4 DEF ClearTx, NextChar
      <3> QED
        BY <1>0, <2>0, <3>1, ClearHasNul
    <2>5. CASE StoreRx(w) \/ CheckRx(w) \/ ClearRx(w) \/ StartTimer(w)
      <3>1. /\ UNCHANGED TX_BUFFER /\ wpc[w] \notin {"checkTx", "clearTx"}
            /\ wpc'[w] \notin {"storeTx", "checkTx", "clearTx"}
        BY <1>0, <2>5 DEF StoreRx, CheckRx, ClearRx, StartTimer, NextChar, tx
      <3> QED
        BY <2>0, <3>1
    <2> QED
      BY <1>3, <2>1, <2>2, <2>3, <2>4, <2>5 DEF WriterStep
  <1>4. ASSUME NEW w \in Writers, NEW m \in Messages, Write(w, m) PROVE InsideTx'
    <2>1. /\ UNCHANGED <<TX_BUFFER, at>> /\ wpc[w] = "idle"
          /\ wpc' = [wpc EXCEPT ![w] = "index"]
      BY <1>4 DEF Write, tx
    <2>2. \A v \in Writers : v = w
      BY DEF OneWriter
    <2> QED
      BY <1>0, <2>1, <2>2
  <1>5. UNCHANGED <<tx, writer>> => UNCHANGED <<TX_BUFFER, wpc, at>>
    BY DEF tx, writer
  <1>6. UNCHANGED vars => UNCHANGED <<TX_BUFFER, wpc, at>>
    BY DEF vars
  <1> QED
    BY <1>1, <1>2, <1>3, <1>4, <1>5, <1>6, RxLeaves, ReaderLeaves, LoopbackLeaves DEF Next

(* Without loopback only the receiver stores into RX_BUFFER.                 *)
LEMMA WritersSpareRx ==
  ASSUME NoLoopback, toggles = 0, NEW w \in Writers, WriterStep(w)
  PROVE  UNCHANGED <<rx, reader>>
  BY DEF WriterStep, FindEnd, StoreTx, CheckTx, ClearTx, StoreRx, CheckRx, ClearRx, StartTimer,
         NoLoopback

LEMMA NextInsideRx ==
  ASSUME TypeInv, NoLoopback, toggles = 0, InsideRx, [Next]_vars
  PROVE  InsideRx'
  <1> USE DEF InsideRx
  <1>0. /\ RX_BUFFER \in Buffers /\ RX_DATA \in Bytes /\ rxAt \in 0 .. SIZE + 2
        /\ rxPc \in {"tick", "store", "check", "clear"}
    BY DEF TypeInv, TypeOK
  <1>1. CASE UNCHANGED <<RX_BUFFER, rxPc, rxAt>>
    BY <1>1
  <1>2. CASE FunctionTimerRX
    <2>1. CASE RxIdle \/ RxStart \/ RxData
      BY <1>1, <2>1 DEF RxIdle, RxStart, RxData, rx
    <2>2. CASE RxStop
      <3>1. rxPc = "tick" /\ rxAt' = strlen(RX_BUFFER) /\ rxPc' = "store" /\ UNCHANGED RX_BUFFER
        BY <2>2 DEF RxStop, Sample
      <3> QED
        BY <3>1, HasNulIs
    <2>3. CASE RxStore
      <3>1. /\ rxPc = "store" /\ rxPc' = "check"
            /\ RX_BUFFER' = Store(RX_BUFFER, rxAt, RX_DATA)
        BY <2>3 DEF RxStore, Goes
      <3>2. rxAt \in 0 .. SIZE
        BY <1>0, <3>1
      <3>3. RX_BUFFER'[SIZE + 1] = NUL
        BY <1>0, <3>1, <3>2, StoreIs
      <3> QED
        BY <3>1, <3>3
    <2>4. CASE RxCheck
      <3>1. /\ UNCHANGED RX_BUFFER /\ rxPc' # "store"
            /\ rxPc' = "tick" => ~ Full(RX_BUFFER)
        BY <2>4 DEF RxCheck, Goes
      <3> QED
        BY <3>1, HasNulIs
    <2>5. CASE RxClear
      <3>1. RX_BUFFER' = Clear(RX_BUFFER) /\ rxPc' = "tick"
        BY <2>5 DEF RxClear, Goes
      <3> QED
        BY <1>0, <3>1, ClearHasNul
    <2> QED
      BY <1>2, <2>1, <2>2, <2>3, <2>4, <2>5 DEF FunctionTimerRX
  <1>3. ASSUME NEW r \in Readers, CopyOut(r) \/ ClearOut(r) PROVE InsideRx'
    <2>1. CASE CopyOut(r)
      BY <1>1, <2>1 DEF CopyOut, rx
    <2>2. CASE ClearOut(r)
      <3>1. RX_BUFFER' = Clear(RX_BUFFER) /\ UNCHANGED <<rxPc, rxAt>>
        BY <2>2 DEF ClearOut, EmptyRx
      <3> QED
        BY <1>0, <3>1, ClearHasNul
    <2> QED
      BY <1>3, <2>1, <2>2
  <1>4. UNCHANGED rx \/ UNCHANGED vars => UNCHANGED <<RX_BUFFER, rxPc, rxAt>>
    BY DEF rx, vars
  <1> QED
    BY <1>1, <1>2, <1>3, <1>4, TxLeaves, BeginLeaves, LoopbackLeaves, WritersSpareRx DEF Next

(* What holds of the arrays however the steps cut each other.                *)
InsideInv == TypeInv /\ NoLoopback /\ InsideTx /\ (toggles = 0 => InsideRx)

LEMMA InsideAlways ==
  ASSUME OneWriter
  PROVE  (Init => InsideInv) /\ (InsideInv /\ [Next]_vars => InsideInv')
  <1>1. Init => InsideInv
    BY InitTypeInv, InitInside DEF InsideInv
  <1>2. ASSUME InsideInv, [Next]_vars PROVE InsideInv'
    <2>1. TypeInv' /\ NoLoopback' /\ InsideTx'
      BY <1>2, NextTypeInv, NextNoLoopback, NextInsideTx DEF InsideInv
    <2>2. ASSUME toggles' = 0 PROVE InsideRx'
      BY <1>2, <2>2, TogglesGrow, NextInsideRx DEF InsideInv
    <2> QED
      BY <2>1, <2>2 DEF InsideInv
  <1> QED
    BY <1>1, <1>2

(* With one writer, and loopback left alone, neither array is left by a      *)
(* store, however many bytes are written and received, however the steps of  *)
(* the timers, of the write and of any number of reads fall, and however     *)
(* long the buffers are.                                                     *)
THEOREM StoresStayInside ==
  ASSUME OneWriter
  PROVE  SafetySpec => []StoresInside
  <1>1. InsideInv => StoresInside
    BY DEF InsideInv, InsideTx, InsideRx, StoresInside
  <1> QED
    BY InsideAlways, <1>1, PTL DEF SafetySpec

-----------------------------------------------------------------------------
(***************************************************************************)
(* Nothing is dropped by one writer, and no frame is left half sent.       *)
(***************************************************************************)
(* A frame that has begun has a byte to go on with, and the byte that is     *)
(* about to be popped is there: the writer stores only on NULs.              *)
SendInv ==
  /\ txPc = "act" \/ txBit # -1 => Sending
  /\ txPc = "pop" => txAt \in 0 .. SIZE /\ TX_BUFFER[txAt] # NUL /\ level = 1
  /\ txBit = -1 /\ sent # <<>> => level = 1

NonNul(b) == {i \in 0 .. SIZE : b[i] # NUL}

(* The characters a writer has still to store: its NUL goes in first.        *)
Left(w) ==
  IF wpc[w] \in {"idle", "start"} THEN 0
  ELSE IF wpc[w] \in {"index", "storeTx"} /\ n[w] # 0 THEN Len(msg[w]) + 1 - n[w]
  ELSE Len(msg[w]) - n[w]

Taken == Len(sent) + Cardinality(NonNul(TX_BUFFER))

(* Every byte is sent, in the array or still in the writer's hands.          *)
KeptInv ==
  /\ \A w \in Writers : Taken + Left(w) = Len(asked)
  /\ NoWrite => Taken = Len(asked)

(* There is something to send when the first byte is not NUL.                *)
LEMMA SendingIs ==
  ASSUME NEW b
  PROVE  /\ strlen(b) \in 0 .. SIZE + 2
         /\ strlen(b) > 0 <=> b[0] # NUL
  <1>1. /\ strlen(b) \in 0 .. SIZE + 2
        /\ strlen(b) = SIZE + 2 \/ b[strlen(b)] = NUL
        /\ \A j \in 0 .. strlen(b) - 1 : b[j] # NUL
    BY StrlenIs
  <1>2. ASSUME strlen(b) > 0 PROVE b[0] # NUL
    BY <1>1, <1>2
  <1>3. ASSUME ~ (strlen(b) > 0) PROVE b[0] = NUL
    <2>1. strlen(b) = 0
      BY <1>1, <1>3
    <2> QED
      BY <1>1, <2>1
  <1> QED
    BY <1>1, <1>2, <1>3

(* A step of the transmitter, for the frame.                                 *)
LEMMA TxSendInv ==
  ASSUME TypeInv, InsideTx, SendInv, FunctionTimerTX
  PROVE  SendInv'
  <1> USE DEF SendInv
  <1>0. /\ TX_BUFFER \in Buffers /\ txBit \in -1 .. BITS /\ strlen(TX_BUFFER) \in 0 .. SIZE + 1
        /\ txPc = "pop" => txBit = BITS
    BY HasNulIs DEF TypeInv, TypeOK, Shapes, InsideTx
  <1>1. CASE Tick
    BY <1>1 DEF Tick, Sending
  <1>2. CASE TxStart
    BY <1>2 DEF TxStart, Act, Sending
  <1>3. CASE TxData
    BY <1>0, <1>3 DEF TxData, Act, Sending
  <1>4. CASE TxStop
    <2> DEFINE k == strlen(TX_BUFFER)
    <2>1. /\ Sending /\ UNCHANGED <<TX_BUFFER, txBit, sent>> /\ level' = 1 /\ txAt' = k - 1
          /\ txPc' = "pop"
      BY <1>4 DEF TxStop, Act
    <2>2. k \in 1 .. SIZE + 1 /\ k - 1 \in 0 .. SIZE
      BY <1>0, <2>1 DEF Sending
    <2>3. TX_BUFFER[k - 1] # NUL
      <3>1. strlen(TX_BUFFER) \in 1 .. SIZE + 2
        BY <2>2
      <3> QED
        BY <1>0, <3>1, TopIs
    <2>4. Sending'
      BY <2>1 DEF Sending
    <2> QED
      BY <2>1, <2>2, <2>3, <2>4
  <1>5. CASE TxPop
    BY <1>5 DEF TxPop, AfterStop, line
  <1> QED
    BY <1>1, <1>2, <1>3, <1>4, <1>5 DEF FunctionTimerTX

(* A store on a NUL changes no other byte.                                   *)
LEMMA StoredOnNul ==
  ASSUME TypeInv, InsideTx, NEW w \in Writers, StoreTx(w)
  PROVE  /\ at[w] \in 0 .. SIZE /\ TX_BUFFER[at[w]] = NUL
         /\ TX_BUFFER' = [TX_BUFFER EXCEPT ![at[w]] = Pushed(w)]
         /\ \A i \in 0 .. SIZE : TX_BUFFER[i] # NUL => TX_BUFFER'[i] = TX_BUFFER[i]
  <1>1. TX_BUFFER \in Buffers /\ at[w] \in 0 .. SIZE /\ TX_BUFFER[at[w]] = NUL
    BY DEF TypeInv, TypeOK, Shapes, InsideTx, StoreTx
  <1>2. Pushed(w) \in Bytes /\ TX_BUFFER' = Store(TX_BUFFER, at[w], Pushed(w))
    BY StoredType DEF StoreTx, Storing
  <1>3. TX_BUFFER' = [TX_BUFFER EXCEPT ![at[w]] = Pushed(w)]
    BY <1>1, <1>2, StoreIs
  <1> QED
    BY <1>1, <1>3 DEF Buffers

(* One step per action: only ticks of the transmitter move the line.         *)
LEMMA NextSendInv ==
  ASSUME TypeInv, InsideTx, ~ cleared', SendInv, [Next]_vars
  PROVE  SendInv'
  <1>1. CASE UNCHANGED <<TX_BUFFER, txPc, txAt, txBit, sent, level>>
    BY <1>1 DEF SendInv, Sending
  <1>2. UNCHANGED <<line, tx>> \/ UNCHANGED <<level, tx>> \/ UNCHANGED vars
          => UNCHANGED <<TX_BUFFER, txPc, txAt, txBit, sent, level>>
    BY DEF line, tx, vars
  <1>3. ASSUME NEW w \in Writers, StoreTx(w) PROVE SendInv'
    <2>1. UNCHANGED <<txPc, txAt, txBit, sent, level>>
      BY <1>3 DEF StoreTx, line
    <2>2. \A i \in 0 .. SIZE : TX_BUFFER[i] # NUL => TX_BUFFER'[i] = TX_BUFFER[i]
      BY <1>3, StoredOnNul
    <2>3. Sending => Sending'
      BY <2>2, SendingIs DEF Sending
    <2> QED
      BY <2>1, <2>2, <2>3 DEF SendInv
  <1>4. ASSUME NEW w \in Writers, WriterStep(w), ~ StoreTx(w)
        PROVE  UNCHANGED <<TX_BUFFER, txPc, txAt, txBit, sent, level>>
    <2>1. UNCHANGED <<txPc, txAt, txBit, sent, level>>
      BY <1>4, WriterLeaves
    <2>2. UNCHANGED TX_BUFFER
      BY <1>4 DEF WriterStep, FindEnd, CheckTx, ClearTx, StoreRx, CheckRx, ClearRx, StartTimer, tx
    <2> QED
      BY <2>1, <2>2
  <1> QED
    BY <1>1, <1>2, <1>3, <1>4, TxSendInv, RxLeaves, ReaderLeaves, BeginLeaves, LoopbackLeaves
    DEF Next

(* The places of a buffer that are not NUL can be counted.                   *)
LEMMA NonNulFinite ==
  ASSUME NEW b
  PROVE  IsFiniteSet(NonNul(b)) /\ Cardinality(NonNul(b)) \in Nat
  <1>1. IsFiniteSet(0 .. SIZE) /\ NonNul(b) \subseteq 0 .. SIZE
    BY FS_Interval DEF NonNul
  <1> QED
    BY <1>1, FS_Subset, FS_CardinalityType

(* The pop takes one byte away.                                              *)
LEMMA PopCount ==
  ASSUME NEW b \in Buffers, NEW i \in 0 .. SIZE, b[i] # NUL
  PROVE  Cardinality(NonNul([b EXCEPT ![i] = NUL])) = Cardinality(NonNul(b)) - 1
  <1>1. NonNul([b EXCEPT ![i] = NUL]) = NonNul(b) \ {i} /\ i \in NonNul(b)
    BY DEF NonNul, Buffers
  <1> QED
    BY <1>1, NonNulFinite, FS_RemoveElement

(* A byte stored over a NUL is one more.                                     *)
LEMMA PushCount ==
  ASSUME NEW b \in Buffers, NEW i \in 0 .. SIZE, b[i] = NUL, NEW c \in Bytes \ {NUL}
  PROVE  Cardinality(NonNul([b EXCEPT ![i] = c])) = Cardinality(NonNul(b)) + 1
  <1>1. NonNul([b EXCEPT ![i] = c]) = NonNul(b) \cup {i} /\ i \notin NonNul(b)
    BY DEF NonNul, Buffers
  <1> QED
    BY <1>1, NonNulFinite, FS_AddElement

(* Nothing is asked for when the module is loaded.                           *)
LEMMA InitKept == Init => SendInv /\ KeptInv
  <1> SUFFICES ASSUME Init PROVE SendInv /\ KeptInv
    OBVIOUS
  <1>1. NonNul(TX_BUFFER) = {}
    BY DEF Init, NonNul, Empty
  <1>2. Taken = 0
    BY <1>1, FS_EmptySet DEF Init, Taken
  <1>3. Len(asked) = 0 /\ \A w \in Writers : wpc[w] = "idle" /\ Left(w) = 0
    BY DEF Init, Left
  <1>4. SendInv
    BY DEF Init, SendInv
  <1> QED
    BY <1>2, <1>3, <1>4 DEF KeptInv

(* The numbers of the count.                                                 *)
LEMMA CountFacts ==
  ASSUME TypeInv
  PROVE  /\ asked \in Seq(Bytes \ {NUL}) /\ sent \in Seq(Bytes)
         /\ TX_BUFFER \in Buffers /\ Len(sent) \in Nat /\ Len(asked) \in Nat
         /\ Cardinality(NonNul(TX_BUFFER)) \in Nat /\ Taken \in Nat
         /\ \A w \in Writers : /\ Len(msg[w]) \in Nat /\ n[w] \in Nat
                               /\ wpc[w] \in WriterPlaces
                               /\ wpc[w] \in Storing => n[w] \in 0 .. Len(msg[w])
  <1>1. \A w \in Writers : Len(msg[w]) \in Nat /\ n[w] \in 0 .. Len(msg[w]) + 1
    BY MessageIsSeq DEF TypeInv, TypeOK
  <1>2. Cardinality(NonNul(TX_BUFFER)) \in Nat /\ Len(sent) \in Nat
    BY NonNulFinite DEF TypeInv, Shapes
  <1>3. \A w \in Writers : wpc[w] \in Storing => n[w] \in 0 .. Len(msg[w])
    BY <1>1 DEF TypeInv, Shapes
  <1> QED
    BY <1>1, <1>2, <1>3 DEF TypeInv, TypeOK, Shapes, Taken, WriterPlaces, Storing

(* A byte leaves in a frame and is taken out of the array.                   *)
LEMMA TxKept ==
  ASSUME TypeInv, SendInv, KeptInv, FunctionTimerTX
  PROVE  KeptInv'
  <1>1. UNCHANGED writer
    BY TxLeaves
  <1>2. Taken' = Taken
    <2>1. CASE TxPop
      <3>1. /\ txAt \in 0 .. SIZE /\ TX_BUFFER[txAt] # NUL /\ TX_BUFFER \in Buffers
            /\ TX_BUFFER' = Store(TX_BUFFER, txAt, NUL)
        BY <2>1 DEF SendInv, TxPop, Pop, TypeInv, TypeOK
      <3>2. TX_BUFFER' = [TX_BUFFER EXCEPT ![txAt] = NUL]
        BY <3>1, NulIsByte, StoreIs
      <3>3. Cardinality(NonNul(TX_BUFFER')) = Cardinality(NonNul(TX_BUFFER)) - 1
        BY <3>1, <3>2, PopCount
      <3>4. Len(sent') = Len(sent) + 1
        BY <2>1, CountFacts DEF TxPop
      <3> QED
        BY <3>3, <3>4, CountFacts DEF Taken
    <2>2. CASE Tick \/ TxStart \/ TxData \/ TxStop
      BY <2>2 DEF Tick, TxStart, TxData, TxStop, Act, Taken
    <2> QED
      BY <2>1, <2>2 DEF FunctionTimerTX
  <1> QED
    BY <1>1, <1>2 DEF KeptInv, Left, NoWrite, writer

(* A byte goes from the writer's hands into the array.                       *)
LEMMA WriterKept ==
  ASSUME OneWriter, TypeInv, InsideTx, NoLoopback, toggles = 0, ~ cleared', KeptInv,
         NEW w \in Writers, WriterStep(w)
  PROVE  KeptInv'
  <1>0. \A v \in Writers : v = w
    BY DEF OneWriter
  <1>1. UNCHANGED <<asked, sent, msg>> /\ wpc \in [Writers -> WriterPlaces] /\ n \in [Writers -> Nat]
    BY WriterLeaves DEF TypeInv, TypeOK, Shapes, WriterPlaces, Storing
  <1>2. wpc[w] # "idle" /\ Taken + Left(w) = Len(asked)
    BY DEF KeptInv, WriterStep, FindEnd, StoreTx, CheckTx, ClearTx, StoreRx, CheckRx, ClearRx,
           StartTimer
  <1>3. SUFFICES Taken' + Left(w)' = Taken + Left(w) /\ (wpc'[w] = "idle" => Left(w)' = 0)
    <2>1. \A v \in Writers : Taken' + Left(v)' = Len(asked')
      BY <1>0, <1>1, <1>2, <1>3
    <2>2. Taken' \in Nat
      BY <1>1, NonNulFinite, CountFacts DEF Taken
    <2>3. ASSUME NoWrite' PROVE Taken' = Len(asked')
      <3>1. Left(w)' = 0
        BY <1>3, <2>3 DEF NoWrite
      <3> QED
        BY <2>1, <2>2, <3>1
    <2> QED
      BY <2>1, <2>3 DEF KeptInv
  <1>4. CASE FindEnd(w)
    <2>1. /\ UNCHANGED <<TX_BUFFER, n>> /\ wpc[w] = "index" /\ wpc'[w] = "storeTx"
      BY <1>1, <1>4 DEF FindEnd, NoLoopback, tx
    <2> QED
      BY <1>1, <2>1 DEF Taken, Left
  <1>5. CASE StoreTx(w)
    <2>1. /\ wpc[w] = "storeTx" /\ wpc'[w] = "checkTx" /\ n' = n /\ TX_BUFFER \in Buffers
          /\ at[w] \in 0 .. SIZE /\ TX_BUFFER[at[w]] = NUL
          /\ TX_BUFFER' = [TX_BUFFER EXCEPT ![at[w]] = Pushed(w)]
          /\ n[w] \in 0 .. Len(msg[w]) /\ Len(msg[w]) \in Nat
      BY <1>1, <1>5, StoredOnNul, CountFacts DEF StoreTx, Storing
    <2>2. CASE n[w] = 0
      <3>1. Pushed(w) = NUL
        BY <2>1, <2>2, CharIs DEF Pushed, TypeInv, TypeOK
      <3>2. TX_BUFFER' = TX_BUFFER
        BY <2>1, <3>1 DEF Buffers
      <3> QED
        BY <1>1, <2>1, <2>2, <3>2 DEF Taken, Left
    <2>3. CASE n[w] # 0
      <3>1. Pushed(w) \in Bytes \ {NUL}
        <4>1. Len(msg[w]) - n[w] \in 0 .. Len(msg[w]) /\ Len(msg[w]) - n[w] < Len(msg[w])
          BY <2>1, <2>3
        <4> QED
          BY <2>1, <4>1, CharIs DEF Pushed, TypeInv, TypeOK
      <3>2. Cardinality(NonNul(TX_BUFFER')) = Cardinality(NonNul(TX_BUFFER)) + 1
        BY <2>1, <3>1, PushCount
      <3>3. Taken' = Taken + 1
        BY <1>1, <3>2, CountFacts DEF Taken
      <3>4. Left(w) = Len(msg[w]) + 1 - n[w] /\ Left(w)' = Len(msg[w]) - n[w]
        BY <1>1, <2>1, <2>3 DEF Left
      <3>5. Taken \in Int /\ Len(msg[w]) \in Int /\ n[w] \in Int
        BY <2>1, CountFacts
      <3>6. Left(w)' \in Int /\ Left(w) = Left(w)' + 1
        BY <3>4, <3>5
      <3>7. Taken' + Left(w)' = Taken + Left(w)
        BY <3>3, <3>5, <3>6
      <3> QED
        BY <2>1, <3>7
    <2> QED
      BY <2>2, <2>3
  <1>6. CASE CheckTx(w)
    <2>1. UNCHANGED TX_BUFFER /\ wpc[w] = "checkTx"
      BY <1>6 DEF CheckTx, tx
    <2>2. n[w] \in 0 .. Len(msg[w]) /\ Len(msg[w]) \in Nat /\ Left(w) = Len(msg[w]) - n[w]
      BY <2>1, CountFacts DEF Storing, Left
    <2>3. CASE NextChar(w)
      <3>1. n'[w] = n[w] + 1 /\ wpc'[w] = IF n[w] = Len(msg[w]) THEN "start" ELSE "index"
        BY <1>1, <2>3 DEF NextChar
      <3>2. Left(w)' = Len(msg[w]) - n[w]
        BY <1>1, <2>2, <3>1 DEF Left
      <3> QED
        BY <1>1, <2>1, <2>2, <3>1, <3>2 DEF Taken
    <2>4. CASE ~ NextChar(w)
      <3>1. wpc'[w] = "clearTx" /\ n' = n
        BY <1>1, <1>6, <2>4 DEF CheckTx
      <3> QED
        BY <1>1, <2>1, <3>1 DEF Taken, Left
    <2> QED
      BY <2>3, <2>4
  <1>7. CASE StartTimer(w)
    <2>1. UNCHANGED TX_BUFFER /\ wpc[w] = "start" /\ wpc'[w] = "idle"
      BY <1>1, <1>7 DEF StartTimer, tx
    <2> QED
      BY <1>1, <2>1 DEF Taken, Left
  <1>8. ~ ClearTx(w)
    BY DEF ClearTx
  <1>9. ~ StoreRx(w) /\ ~ CheckRx(w) /\ ~ ClearRx(w)
    BY DEF StoreRx, CheckRx, ClearRx, NoLoopback
  <1> QED
    BY <1>4, <1>5, <1>6, <1>7, <1>8, <1>9 DEF WriterStep

(* What a write asks for is in the writer's hands.                           *)
LEMMA BeginKept ==
  ASSUME OneWriter, TypeInv, KeptInv, NEW w \in Writers, NEW m \in Messages, Write(w, m)
  PROVE  KeptInv'
  <1>0. \A v \in Writers : v = w
    BY DEF OneWriter
  <1>1. m \in Seq(Bytes \ {NUL}) /\ Len(m) \in Nat
    BY MessageIsSeq
  <1>2. /\ UNCHANGED <<TX_BUFFER, sent>>
        /\ wpc[w] = "idle" /\ wpc'[w] = "index" /\ msg'[w] = m /\ n'[w] = 0
        /\ asked' = asked \o m
    BY DEF Write, tx, TypeInv, TypeOK, Shapes
  <1>3. Len(asked') = Len(asked) + Len(m)
    BY <1>1, <1>2, CountFacts
  <1>4. Taken' = Taken /\ Left(w) = 0 /\ Left(w)' = Len(m) /\ ~ NoWrite'
    BY <1>1, <1>2 DEF Taken, Left, NoWrite
  <1>5. Taken = Len(asked)
    BY <1>4, CountFacts DEF KeptInv
  <1> QED
    BY <1>0, <1>1, <1>3, <1>4, <1>5, CountFacts DEF KeptInv

(* One step per action: a byte is asked for, stored, taken or sent.          *)
LEMMA NextKept ==
  ASSUME OneWriter, InsideInv, toggles' = 0, ~ cleared', SendInv, KeptInv, [Next]_vars
  PROVE  KeptInv'
  <1>1. UNCHANGED <<tx, writer>> \/ UNCHANGED vars => KeptInv'
    BY DEF tx, writer, vars, KeptInv, Taken, Left, NoWrite
  <1>2. TypeInv /\ InsideTx /\ NoLoopback /\ toggles = 0
    BY TogglesGrow DEF InsideInv
  <1> QED
    BY <1>1, <1>2, TxKept, WriterKept, BeginKept, RxLeaves, ReaderLeaves, LoopbackLeaves DEF Next

(* An overflow is not forgotten.                                             *)
LEMMA ClearedStays == TypeInv /\ [Next]_vars /\ ~ cleared' => ~ cleared
  <1>1. UNCHANGED tx \/ UNCHANGED vars => UNCHANGED cleared
    BY DEF tx, vars
  <1>2. \A w \in Writers : WriterStep(w) => cleared' \/ UNCHANGED cleared
    BY DEF WriterStep, FindEnd, StoreTx, CheckTx, ClearTx, StoreRx, CheckRx, ClearRx, StartTimer,
           tx
  <1> QED
    BY <1>1, <1>2, TxLeaves, RxLeaves, ReaderLeaves, BeginLeaves, LoopbackLeaves DEF Next

(* However the ticks fall into the writes of one process, each of its bytes  *)
(* has left in a frame or is in TX_BUFFER when no write is under way, until  *)
(* an overflow clears the buffer or loopback is switched.                    *)
THEOREM NothingIsDropped ==
  ASSUME OneWriter
  PROVE  SafetySpec => [](toggles = 0 => NothingDropped)
  <1> DEFINE Inv == /\ InsideInv
                    /\ ~ cleared => SendInv
                    /\ ~ cleared /\ toggles = 0 => KeptInv
  <1>1. Init => Inv
    BY InsideAlways, InitKept
  <1>2. Inv /\ [Next]_vars => Inv'
    <2> SUFFICES ASSUME Inv, [Next]_vars PROVE Inv'
      OBVIOUS
    <2>1. InsideInv'
      BY InsideAlways
    <2>2. ASSUME ~ cleared' PROVE SendInv'
      BY <2>2, ClearedStays, NextSendInv DEF InsideInv
    <2>3. ASSUME ~ cleared', toggles' = 0 PROVE KeptInv'
      BY <2>3, ClearedStays, TogglesGrow, NextKept DEF InsideInv
    <2> QED
      BY <2>1, <2>2, <2>3
  <1>3. Inv => (toggles = 0 => NothingDropped)
    BY DEF KeptInv, NothingDropped, Taken, NonNul
  <1> QED
    BY <1>1, <1>2, <1>3, PTL DEF SafetySpec

(* Whatever the ticks cut one process's writes into, a transmitter with      *)
(* nothing to send is between two frames and, once it has sent one, drives   *)
(* the line high, until an overflow clears the buffer: only then can it stop *)
(* in the middle of a byte.                                                  *)
THEOREM LineIsLeftHigh ==
  ASSUME OneWriter
  PROVE  SafetySpec => []LineIdlesHigh
  <1> DEFINE Inv == InsideInv /\ (~ cleared => SendInv)
  <1>1. Init => Inv
    BY InsideAlways, InitKept
  <1>2. Inv /\ [Next]_vars => Inv'
    <2> SUFFICES ASSUME Inv, [Next]_vars PROVE Inv'
      OBVIOUS
    <2>1. InsideInv'
      BY InsideAlways
    <2>2. ASSUME ~ cleared' PROVE SendInv'
      BY <2>2, ClearedStays, NextSendInv DEF InsideInv
    <2> QED
      BY <2>1, <2>2
  <1>3. Inv => LineIdlesHigh
    BY DEF SendInv, LineIdlesHigh
  <1> QED
    BY <1>1, <1>2, <1>3, PTL DEF SafetySpec

-----------------------------------------------------------------------------
(***************************************************************************)
(* One reader gets what was received, in order and once.                   *)
(***************************************************************************)
OneReader == \A r, s \in Readers : r = s

(* s can be found in order among the first k members of t.                   *)
Follows(s, t, k) ==
  \E f \in [1 .. Len(s) -> 1 .. k] :
    /\ \A i \in 1 .. Len(s) : s[i] = t[f[i]]
    /\ \A i, j \in 1 .. Len(s) : i < j => f[i] < f[j]

(* RX_BUFFER holds an unbroken run of the latest bytes and NULs after it,    *)
(* and the next byte goes in right behind the run.                           *)
LatestInv ==
  /\ strlen(RX_BUFFER) <= Len(rxd)
  /\ \A i \in 1 .. strlen(RX_BUFFER) :
       RX_BUFFER[i - 1] = rxd[Len(rxd) - strlen(RX_BUFFER) + i]
  /\ \A i \in strlen(RX_BUFFER) .. SIZE + 1 : RX_BUFFER[i] = NUL
  /\ rxPc = "store" => rxAt = strlen(RX_BUFFER)

(* What was read precedes what is in the buffer, and what a reader holds     *)
(* comes after what was read.                                                *)
ReadInv ==
  /\ Follows(got, rxd, Len(rxd))
  /\ (\A r \in Readers : rpc[r] = "idle") =>
       Follows(got, rxd, Len(rxd) - strlen(RX_BUFFER))
  /\ \A r \in Readers : rpc[r] = "clear" => Follows(got \o tmp[r], rxd, Len(rxd))

(* A subsequence of the first k members is one of the first j.               *)
LEMMA FollowsMore ==
  ASSUME NEW s, NEW t, NEW k \in Nat, NEW j \in Nat, k <= j, Follows(s, t, k)
  PROVE  Follows(s, t, j)
  <1>1. PICK f \in [1 .. Len(s) -> 1 .. k] :
          /\ \A i \in 1 .. Len(s) : s[i] = t[f[i]]
          /\ \A h, i \in 1 .. Len(s) : h < i => f[h] < f[i]
    BY DEF Follows
  <1>2. f \in [1 .. Len(s) -> 1 .. j]
    BY <1>1
  <1> QED
    BY <1>1, <1>2 DEF Follows

(* A subsequence stays one when the sequence grows.                          *)
LEMMA FollowsLonger ==
  ASSUME NEW S, NEW s, NEW t \in Seq(S), NEW c \in S, NEW k \in 0 .. Len(t), Follows(s, t, k)
  PROVE  Follows(s, Append(t, c), k)
  <1>1. PICK f \in [1 .. Len(s) -> 1 .. k] :
          /\ \A i \in 1 .. Len(s) : s[i] = t[f[i]]
          /\ \A h, i \in 1 .. Len(s) : h < i => f[h] < f[i]
    BY DEF Follows
  <1>2. \A i \in 1 .. Len(s) : Append(t, c)[f[i]] = t[f[i]]
    BY <1>1
  <1> QED
    BY <1>1, <1>2, SMTT(30) DEF Follows

(* A subsequence and a run from further on make one.                         *)
LEMMA FollowsJoin ==
  ASSUME NEW S, NEW s \in Seq(S), NEW t \in Seq(S), NEW u \in Seq(S),
         NEW k \in 0 .. Len(t), k + Len(u) <= Len(t),
         \A i \in 1 .. Len(u) : u[i] = t[k + i], Follows(s, t, k)
  PROVE  Follows(s \o u, t, k + Len(u))
  <1>1. PICK f \in [1 .. Len(s) -> 1 .. k] :
          /\ \A i \in 1 .. Len(s) : s[i] = t[f[i]]
          /\ \A h, i \in 1 .. Len(s) : h < i => f[h] < f[i]
    BY DEF Follows
  <1> DEFINE m == Len(s)
             g == [i \in 1 .. m + Len(u) |-> IF i <= m THEN f[i] ELSE k + (i - m)]
  <1>2. Len(s \o u) = m + Len(u) /\ m \in Nat /\ Len(u) \in Nat
    OBVIOUS
  <1>3. g \in [1 .. m + Len(u) -> 1 .. k + Len(u)]
    BY <1>1, <1>2
  <1>4. \A i \in 1 .. m + Len(u) : (s \o u)[i] = t[g[i]]
    <2> SUFFICES ASSUME NEW i \in 1 .. m + Len(u) PROVE (s \o u)[i] = t[g[i]]
      OBVIOUS
    <2>1. CASE i <= m
      BY <1>1, <1>2, <2>1
    <2>2. CASE i > m
      <3>1. (s \o u)[i] = u[i - m] /\ i - m \in 1 .. Len(u)
        BY <1>2, <2>2
      <3> QED
        BY <1>2, <2>2, <3>1
    <2> QED
      BY <1>2, <2>1, <2>2
  <1>5. \A i, j \in 1 .. m + Len(u) : i < j => g[i] < g[j]
    BY <1>1, <1>2
  <1> HIDE DEF g
  <1> QED
    BY <1>2, <1>3, <1>4, <1>5 DEF Follows

(* A byte that joins the run.                                                *)
LEMMA RunGrows ==
  ASSUME NEW b \in Buffers, strlen(b) \in 0 .. SIZE, NEW c \in Bytes,
         \A i \in strlen(b) .. SIZE + 1 : b[i] = NUL
  PROVE  LET s == Store(b, strlen(b), c)
         IN  /\ c = NUL => s = b
             /\ c # NUL => /\ s = [b EXCEPT ![strlen(b)] = c]
                           /\ strlen(s) = strlen(b) + 1
  <1> DEFINE k == strlen(b)
             e == [b EXCEPT ![k] = c]
  <1>1. /\ e \in Buffers /\ k \in 0 .. SIZE /\ e[k] = c
        /\ \A i \in 0 .. SIZE + 1 : i # k => e[i] = b[i]
        /\ \A j \in 0 .. k - 1 : b[j] # NUL
    BY StrlenIs DEF Buffers
  <1>2. Store(b, k, c) = e
    BY <1>1, StoreIs
  <1>3. ASSUME c = NUL PROVE e = b
    BY <1>1, <1>3 DEF Buffers
  <1>4. ASSUME c # NUL PROVE strlen(e) = k + 1
    <2>1. \A j \in 0 .. (k + 1) - 1 : e[j] # NUL
      BY <1>1, <1>4
    <2>2. e[k + 1] = NUL
      BY <1>1
    <2>3. k + 1 \in 0 .. SIZE + 2
      BY <1>1
    <2> HIDE DEF k, e
    <2> QED
      BY <2>1, <2>2, <2>3, StrlenUnique
  <1> QED
    BY <1>2, <1>3, <1>4

(* What the steps below need of the types.                                   *)
LEMMA ReadFacts ==
  ASSUME TypeInv, InsideRx, LatestInv
  PROVE  /\ RX_BUFFER \in Buffers /\ RX_DATA \in Bytes /\ strlen(RX_BUFFER) \in 0 .. SIZE + 1
         /\ rxPc \in {"tick", "store"} => strlen(RX_BUFFER) \in 0 .. SIZE
         /\ rxd \in Seq(Bytes \ {NUL}) /\ got \in Seq(Bytes \ {NUL})
         /\ strlen(RX_BUFFER) <= Len(rxd) /\ Len(rxd) \in Nat
         /\ tmp \in [Readers -> Seq(Bytes \ {NUL})] /\ rpc \in [Readers -> {"idle", "clear"}]
  <1>1. strlen(RX_BUFFER) \in 0 .. SIZE + 1 /\ (HasNul(RX_BUFFER) <=> strlen(RX_BUFFER) <= SIZE)
    BY HasNulIs DEF InsideRx
  <1>2. rxPc \in {"tick", "store"} => strlen(RX_BUFFER) \in 0 .. SIZE
    BY <1>1 DEF InsideRx
  <1> QED
    BY <1>1, <1>2 DEF TypeInv, TypeOK, Shapes, LatestInv

(* Nothing is received or read when the module is loaded.                    *)
LEMMA InitReads == Init => LatestInv /\ ReadInv
  <1> SUFFICES ASSUME Init PROVE LatestInv /\ ReadInv
    OBVIOUS
  <1>1. /\ rxd = <<>> /\ got = <<>> /\ RX_BUFFER = Empty /\ strlen(RX_BUFFER) = 0
        /\ rxPc = "tick" /\ \A r \in Readers : rpc[r] = "idle"
    BY EmptyStrlen DEF Init
  <1>2. Follows(<<>>, <<>>, 0)
    <2> DEFINE f == [i \in 1 .. Len(<<>>) |-> i]
    <2>1. \A i : i \notin 1 .. Len(<<>>)
      OBVIOUS
    <2>2. f \in [1 .. Len(<<>>) -> 1 .. 0]
      OBVIOUS
    <2> HIDE DEF f
    <2> QED
      BY <2>1, <2>2 DEF Follows
  <1>3. LatestInv
    BY <1>1 DEF LatestInv, Empty
  <1> QED
    BY <1>1, <1>2, <1>3 DEF ReadInv

(* Clearing the array loses its text and nothing else.                       *)
LEMMA ClearedRun ==
  ASSUME TypeInv, InsideRx, LatestInv, RX_BUFFER' = Clear(RX_BUFFER), rxd' = rxd,
         rxPc' # "store"
  PROVE  LatestInv' /\ Len(rxd') - strlen(RX_BUFFER') = Len(rxd)
  <1>1. RX_BUFFER' = Empty /\ strlen(RX_BUFFER') = 0
    BY ClearIs, ReadFacts DEF InsideRx
  <1>2. \A i \in 0 .. SIZE + 1 : RX_BUFFER'[i] = NUL
    BY <1>1 DEF Empty
  <1>3. strlen(RX_BUFFER)' = 0 /\ Len(rxd)' \in Nat /\ Len(rxd') = Len(rxd)
    BY <1>1, ReadFacts
  <1>4. LatestInv'
    BY <1>2, <1>3 DEF LatestInv
  <1> QED
    BY <1>1, <1>3, <1>4

(* The receiver stores a byte behind the run.                                *)
LEMMA RxStoreReads ==
  ASSUME TypeInv, InsideRx, LatestInv, ReadInv, RxStore
  PROVE  LatestInv' /\ ReadInv'
  <1> DEFINE k == strlen(RX_BUFFER)
  <1>0. /\ RX_BUFFER \in Buffers /\ RX_DATA \in Bytes /\ k \in 0 .. SIZE
        /\ rxd \in Seq(Bytes \ {NUL}) /\ got \in Seq(Bytes \ {NUL})
        /\ k <= Len(rxd) /\ Len(rxd) \in Nat
    BY ReadFacts DEF RxStore, Goes
  <1>1. /\ RX_BUFFER' = Store(RX_BUFFER, k, RX_DATA) /\ rxd' = Logged(rxd, RX_DATA)
        /\ UNCHANGED <<got, rpc, tmp>> /\ rxPc' = "check"
    BY DEF RxStore, Goes, reader, LatestInv
  <1>2. CASE RX_DATA = NUL
    <2>1. RX_BUFFER' = RX_BUFFER
      BY <1>0, <1>1, <1>2, RunGrows DEF LatestInv
    <2>2. rxd' = rxd
      BY <1>1, <1>2 DEF Logged
    <2> QED
      BY <1>1, <2>1, <2>2 DEF LatestInv, ReadInv
  <1>3. CASE RX_DATA # NUL
    <2>1. rxd' = Append(rxd, RX_DATA) /\ Len(rxd') = Len(rxd) + 1
      BY <1>0, <1>1, <1>3 DEF Logged
    <2>2. Follows(got, rxd', Len(rxd'))
      <3>1. Follows(got, rxd', Len(rxd))
        BY <1>0, <1>3, <2>1, FollowsLonger DEF ReadInv
      <3> QED
        BY <1>0, <2>1, <3>1, FollowsMore
    <2>3. \A r \in Readers : rpc'[r] = "clear" => Follows(got' \o tmp'[r], rxd', Len(rxd'))
      <3> SUFFICES ASSUME NEW r \in Readers, rpc[r] = "clear"
                   PROVE  Follows(got \o tmp[r], rxd', Len(rxd'))
        BY <1>1
      <3>1. Follows(got \o tmp[r], rxd', Len(rxd))
        BY <1>0, <1>3, <2>1, FollowsLonger DEF ReadInv
      <3> QED
        BY <1>0, <2>1, <3>1, FollowsMore
    <2>4. ASSUME \A r \in Readers : rpc'[r] = "idle"
          PROVE  Follows(got, rxd', Len(rxd) - k)
      <3>1. Follows(got, rxd, Len(rxd) - k) /\ Len(rxd) - k \in 0 .. Len(rxd)
        BY <1>0, <1>1, <2>4 DEF ReadInv
      <3> QED
        BY <1>0, <1>3, <2>1, <3>1, FollowsLonger
    <2>5. RX_BUFFER' = [RX_BUFFER EXCEPT ![k] = RX_DATA] /\ strlen(RX_BUFFER') = k + 1
      BY <1>0, <1>1, <1>3, RunGrows DEF LatestInv
    <2>6. /\ RX_BUFFER'[k] = RX_DATA
          /\ \A i \in 0 .. SIZE + 1 : i # k => RX_BUFFER'[i] = RX_BUFFER[i]
      BY <1>0, <2>5 DEF Buffers
    <2>7. \A i \in 1 .. k + 1 : RX_BUFFER'[i - 1] = rxd'[Len(rxd) - k + i]
      <3> SUFFICES ASSUME NEW i \in 1 .. k + 1
                   PROVE  RX_BUFFER'[i - 1] = rxd'[Len(rxd) - k + i]
        OBVIOUS
      <3>1. CASE i = k + 1
        <4>1. rxd'[Len(rxd) + 1] = RX_DATA /\ Len(rxd) - k + i = Len(rxd) + 1
          BY <1>0, <2>1, <3>1
        <4> QED
          BY <1>0, <2>6, <3>1, <4>1
      <3>2. CASE i \in 1 .. k
        <4>1. RX_BUFFER[i - 1] = rxd[Len(rxd) - k + i]
          BY <3>2 DEF LatestInv
        <4>2. Len(rxd) - k + i \in 1 .. Len(rxd)
          BY <1>0, <3>2
        <4>3. rxd'[Len(rxd) - k + i] = rxd[Len(rxd) - k + i]
          BY <1>0, <2>1, <4>2
        <4> QED
          BY <1>0, <2>6, <3>2, <4>1, <4>3
      <3> QED
        BY <1>0, <3>1, <3>2
    <2>8. \A i \in k + 1 .. SIZE + 1 : RX_BUFFER'[i] = NUL
      BY <1>0, <2>6 DEF LatestInv
    <2> HIDE DEF k
    <2>9. Len(rxd') - strlen(RX_BUFFER') = Len(rxd) - k
      BY <1>0, <2>1, <2>5
    <2>10. LatestInv'
      <3>1. \A i \in 1 .. strlen(RX_BUFFER') :
              RX_BUFFER'[i - 1] = rxd'[Len(rxd') - strlen(RX_BUFFER') + i]
        BY <2>5, <2>7, <2>9
      <3>2. \A i \in strlen(RX_BUFFER') .. SIZE + 1 : RX_BUFFER'[i] = NUL
        BY <2>5, <2>8
      <3>3. strlen(RX_BUFFER') <= Len(rxd')
        BY <1>0, <2>1, <2>5
      <3> QED
        BY <1>1, <3>1, <3>2, <3>3 DEF LatestInv
    <2>11. ReadInv'
      BY <1>1, <2>2, <2>3, <2>4, <2>9 DEF ReadInv
    <2> QED
      BY <2>10, <2>11
  <1> QED
    BY <1>2, <1>3

(* Every other step of the receiver.                                         *)
LEMMA RxReads ==
  ASSUME TypeInv, InsideRx, LatestInv, ReadInv, FunctionTimerRX
  PROVE  LatestInv' /\ ReadInv'
  <1>1. CASE RxIdle \/ RxStart \/ RxData
    <2>1. UNCHANGED <<RX_BUFFER, rxd, rxPc, rxAt, reader>>
      BY <1>1 DEF RxIdle, RxStart, RxData, Sample, rx
    <2> QED
      BY <2>1 DEF LatestInv, ReadInv, reader
  <1>2. CASE RxStop
    <2>1. UNCHANGED <<RX_BUFFER, rxd, reader>> /\ rxAt' = strlen(RX_BUFFER)
      BY <1>2 DEF RxStop, Sample
    <2> QED
      BY <2>1 DEF LatestInv, ReadInv, reader
  <1>3. CASE RxCheck
    <2>1. UNCHANGED <<RX_BUFFER, rxd, reader>> /\ rxPc' # "store"
      BY <1>3 DEF RxCheck, Goes
    <2> QED
      BY <2>1 DEF LatestInv, ReadInv, reader
  <1>4. CASE RxClear
    <2>1. UNCHANGED <<rxd, reader>> /\ rxPc' # "store" /\ RX_BUFFER' = Clear(RX_BUFFER)
      BY <1>4 DEF RxClear, Goes
    <2>2. LatestInv' /\ Len(rxd') - strlen(RX_BUFFER') = Len(rxd)
      BY <2>1, ClearedRun
    <2> QED
      BY <2>1, <2>2 DEF ReadInv, reader
  <1> QED
    BY <1>1, <1>2, <1>3, <1>4, RxStoreReads DEF FunctionTimerRX

(* A read copies what is in the buffer, then clears what came since, too;    *)
(* not, unless it races, between the receiver's strlen and its store.        *)
LEMMA ReaderReads ==
  ASSUME OneReader, TypeInv, InsideRx, LatestInv, ReadInv, ~ raced',
         NEW r \in Readers, CopyOut(r) \/ ClearOut(r)
  PROVE  LatestInv' /\ ReadInv'
  <1> DEFINE k == strlen(RX_BUFFER)
  <1>0. /\ RX_BUFFER \in Buffers /\ k \in Nat /\ rpc \in [Readers -> {"idle", "clear"}]
        /\ rxd \in Seq(Bytes \ {NUL}) /\ got \in Seq(Bytes \ {NUL})
        /\ k <= Len(rxd) /\ Len(rxd) \in Nat /\ tmp \in [Readers -> Seq(Bytes \ {NUL})]
    BY ReadFacts
  <1>1. \A s \in Readers : s = r
    BY DEF OneReader
  <1>2. CASE CopyOut(r)
    <2>1. /\ rpc[r] = "idle" /\ rpc'[r] = "clear" /\ tmp'[r] = Content(RX_BUFFER)
          /\ UNCHANGED <<got, RX_BUFFER, rxd, rxPc, rxAt>>
      BY <1>0, <1>2 DEF CopyOut, rx
    <2> DEFINE u == Content(RX_BUFFER)
    <2>2. /\ u \in Seq(Bytes \ {NUL}) /\ Len(u) = k
          /\ \A i \in 1 .. k : u[i] = RX_BUFFER[i - 1]
      BY <1>0, ContentIs
    <2> HIDE DEF u
    <2>3. \A i \in 1 .. Len(u) : u[i] = rxd[(Len(rxd) - k) + i]
      BY <2>2 DEF LatestInv
    <2>4. Follows(got, rxd, Len(rxd) - k)
      BY <1>1, <2>1 DEF ReadInv
    <2> HIDE DEF k
    <2>5. Len(rxd) - k \in 0 .. Len(rxd) /\ (Len(rxd) - k) + Len(u) = Len(rxd)
      BY <1>0, <2>2
    <2>6. Follows(got \o u, rxd, (Len(rxd) - k) + Len(u))
      <3> DEFINE j == Len(rxd) - k
      <3>1. j \in 0 .. Len(rxd) /\ j + Len(u) <= Len(rxd) /\ Follows(got, rxd, j)
        BY <1>0, <2>4, <2>5
      <3>2. \A i \in 1 .. Len(u) : u[i] = rxd[j + i]
        BY <2>3
      <3> HIDE DEF j
      <3>3. Follows(got \o u, rxd, j + Len(u))
        BY <1>0, <2>2, <3>1, <3>2, FollowsJoin
      <3> QED
        BY <3>3 DEF j
    <2>7. Follows(got \o u, rxd, Len(rxd))
      BY <2>5, <2>6
    <2> QED
      BY <1>1, <2>1, <2>7 DEF u, LatestInv, ReadInv
  <1>3. CASE ClearOut(r)
    <2>1. /\ rpc[r] = "clear" /\ rpc'[r] = "idle" /\ got' = got \o tmp[r]
          /\ RX_BUFFER' = Clear(RX_BUFFER) /\ rxd' = rxd /\ rxPc' # "store"
      BY <1>0, <1>3 DEF ClearOut, EmptyRx
    <2>2. LatestInv' /\ Len(rxd') - strlen(RX_BUFFER') = Len(rxd)
      BY <2>1, ClearedRun
    <2>3. Follows(got', rxd', Len(rxd'))
      BY <2>1 DEF ReadInv
    <2>4. Len(rxd') - strlen(RX_BUFFER') = Len(rxd')
      BY <2>1, <2>2
    <2> QED
      BY <1>1, <2>1, <2>2, <2>3, <2>4 DEF ReadInv
  <1> QED
    BY <1>2, <1>3

(* One step per action: of others only the receiver stores bytes.            *)
LEMMA NextReads ==
  ASSUME OneReader, TypeInv, NoLoopback, toggles = 0, InsideRx, LatestInv, ReadInv, ~ raced',
         [Next]_vars
  PROVE  LatestInv' /\ ReadInv'
  <1>1. CASE UNCHANGED <<rx, reader>>
    BY <1>1 DEF rx, reader, LatestInv, ReadInv
  <1>2. UNCHANGED vars => UNCHANGED <<rx, reader>>
    BY DEF vars, rx, reader
  <1> QED
    BY <1>1, <1>2, TxLeaves, BeginLeaves, LoopbackLeaves, WritersSpareRx, RxReads, ReaderReads
    DEF Next

(* A race is not forgotten.                                                  *)
LEMMA RacedStays == [Next]_vars /\ ~ raced' => ~ raced
  <1>1. UNCHANGED reader \/ UNCHANGED vars => UNCHANGED raced
    BY DEF reader, vars
  <1>2. \A r \in Readers : CopyOut(r) \/ ClearOut(r) => (raced => raced')
    BY DEF CopyOut, ClearOut
  <1> QED
    BY <1>1, <1>2, TxLeaves, RxLeaves, WriterLeaves, BeginLeaves, LoopbackLeaves DEF Next

(* The run as a suffix, the way the property says it.                        *)
LEMMA LatestIsSuffix ==
  ASSUME TypeInv, InsideRx, LatestInv
  PROVE  IsSuffix(Content(RX_BUFFER), rxd)
  <1> DEFINE s == Content(RX_BUFFER)
             k == strlen(RX_BUFFER)
  <1>1. /\ rxd \in Seq(Bytes \ {NUL}) /\ Len(rxd) \in Nat /\ k \in Nat /\ k <= Len(rxd)
        /\ RX_BUFFER \in Buffers
    <2>1. k \in 0 .. SIZE + 2 /\ SIZE \in Nat
      BY StrlenIs
    <2>2. rxd \in Seq(Bytes \ {NUL}) /\ Len(rxd) \in Nat /\ RX_BUFFER \in Buffers
      BY DEF TypeInv, TypeOK, Shapes
    <2>3. k <= Len(rxd)
      BY DEF LatestInv
    <2> QED
      BY <2>1, <2>2, <2>3
  <1>2. s \in Seq(Bytes \ {NUL}) /\ Len(s) = k /\ \A i \in 1 .. k : s[i] = RX_BUFFER[i - 1]
    BY <1>1, ContentIs
  <1> HIDE DEF s
  <1>3. \A i \in 1 .. k : s[i] = rxd[Len(rxd) - k + i]
    BY <1>2 DEF LatestInv
  <1> HIDE DEF k
  <1>4. /\ Reverse(s) \in Seq(Bytes \ {NUL}) /\ Len(Reverse(s)) = k
        /\ \A i \in 1 .. k : Reverse(s)[i] = s[(k - i) + 1]
    BY <1>1, <1>2 DEF Reverse
  <1>5. /\ Reverse(rxd) \in Seq(Bytes \ {NUL}) /\ Len(Reverse(rxd)) = Len(rxd)
        /\ \A i \in 1 .. Len(rxd) : Reverse(rxd)[i] = rxd[(Len(rxd) - i) + 1]
    BY <1>1 DEF Reverse
  <1>6. \A i \in 1 .. k : Reverse(s)[i] = Reverse(rxd)[i]
    <2> SUFFICES ASSUME NEW i \in 1 .. k PROVE Reverse(s)[i] = Reverse(rxd)[i]
      OBVIOUS
    <2>1. (k - i) + 1 \in 1 .. k /\ Len(rxd) - k + ((k - i) + 1) = (Len(rxd) - i) + 1
      BY <1>1
    <2>2. i \in 1 .. Len(rxd)
      BY <1>1
    <2> QED
      <3>1. Reverse(s)[i] = s[(k - i) + 1]
        BY <1>4
      <3>2. Reverse(rxd)[i] = rxd[(Len(rxd) - i) + 1]
        BY <1>5, <2>2
      <3>3. s[(k - i) + 1] = rxd[Len(rxd) - k + ((k - i) + 1)]
        BY <1>3, <2>1
      <3> QED
        BY <2>1, <3>1, <3>2, <3>3
  <1>7. SubSeq(Reverse(s), 1, k) = SubSeq(Reverse(rxd), 1, k)
    BY <1>1, <1>4, <1>5, <1>6
  <1> QED
    BY <1>1, <1>4, <1>5, <1>7 DEF s, IsSuffix, IsPrefix

(* While loopback is left alone, one reader gets no byte twice or out of     *)
(* order, bytes that arrive between its copy and its clearing and overflows  *)
(* notwithstanding, and what the buffer holds is the latest run of what the  *)
(* line brought; until a read on another core clears the buffer between the  *)
(* receiver's strlen and its store.                                          *)
THEOREM ReadInOrder ==
  ASSUME OneReader
  PROVE  SafetySpec => []ReadsInOrder
  <1> DEFINE Inv == /\ TypeInv /\ NoLoopback
                    /\ toggles = 0 => InsideRx
                    /\ toggles = 0 /\ ~ raced => LatestInv /\ ReadInv
  <1>1. Init => Inv
    BY InitTypeInv, InitInside, InitReads
  <1>2. Inv /\ [Next]_vars => Inv'
    <2> SUFFICES ASSUME Inv, [Next]_vars PROVE Inv'
      OBVIOUS
    <2>1. TypeInv' /\ NoLoopback'
      BY NextTypeInv, NextNoLoopback
    <2>2. ASSUME toggles' = 0 PROVE InsideRx'
      BY <2>2, TogglesGrow, NextInsideRx
    <2>3. ASSUME toggles' = 0, ~ raced' PROVE LatestInv' /\ ReadInv'
      BY <2>3, TogglesGrow, RacedStays, NextReads
    <2> QED
      BY <2>1, <2>2, <2>3
  <1>3. Inv => ReadsInOrder
    <2> SUFFICES ASSUME Inv, toggles = 0, ~ raced
                 PROVE  IsSubsequence(got, rxd) /\ IsSuffix(Content(RX_BUFFER), rxd)
      BY DEF ReadsInOrder
    <2>1. IsSubsequence(got, rxd)
      BY DEF ReadInv, Follows, IsSubsequence
    <2> QED
      BY <2>1, LatestIsSuffix
  <1> QED
    BY <1>1, <1>2, <1>3, PTL DEF SafetySpec

-----------------------------------------------------------------------------
(***************************************************************************)
(* When nobody is disturbed, what is received is what was written.         *)
(***************************************************************************)
(* Nothing starts in the middle of anything, the line is high to begin with, *)
(* and every message fits the buffer.                                        *)
Calm == Quiet /\ InitialLevels \subseteq {1} /\ \A m \in Messages : Len(m) <= SIZE

(* What is in TX_BUFFER is the end of what was asked for, last byte first.   *)
Text(b, s) ==
  /\ strlen(b) <= Len(s)
  /\ \A i \in 0 .. strlen(b) - 1 : b[i] = s[Len(s) - i]
  /\ \A i \in strlen(b) .. SIZE + 1 : b[i] = NUL

TextInv == Text(TX_BUFFER, asked)

(* What was received is the beginning of it.                                 *)
PrefixInv ==
  /\ Len(rxd) <= Len(asked)
  /\ \A i \in 1 .. Len(rxd) : rxd[i] = asked[i]

(* A byte that has left the buffer and is not stored yet.                    *)
InFlight == IF (txBit = -1 /\ rxBit = BITS) \/ rxPc = "store" THEN 1 ELSE 0

AllThere == NoWrite => Len(asked) = Len(rxd) + InFlight + strlen(TX_BUFFER)

(* How far a write has come, in TX_BUFFER and in loopback.                   *)
Stored(w) == IF wpc[w] = "checkTx" \/ n[w] = 0 THEN n[w] ELSE n[w] - 1

Echoed(w) ==
  IF n[w] < Len(msg[w]) THEN IF wpc[w] \in {"checkRx", "clearRx"} THEN n[w] + 1 ELSE n[w]
  ELSE Len(msg[w])

WriteInv ==
  \A w \in Writers : wpc[w] # "idle" =>
    /\ \A v \in Writers : v # w => wpc[v] = "idle"
    /\ txBit = -1 /\ rxBit = -1 /\ txPc = "tick" /\ rxPc = "tick"
    /\ Len(msg[w]) <= SIZE /\ Len(msg[w]) <= Len(asked)
    /\ \A i \in 0 .. Len(msg[w]) - 1 : msg[w][Len(msg[w]) - i] = asked[Len(asked) - i]
    /\ LOOPBACK => /\ wpc[w] \in {"index", "storeRx", "checkRx", "clearRx", "start"}
                   /\ strlen(TX_BUFFER) = 0
                   /\ Len(rxd) = (Len(asked) - Len(msg[w])) + Echoed(w)
    /\ ~ LOOPBACK => /\ wpc[w] \in {"index", "storeTx", "checkTx", "start"}
                     /\ strlen(TX_BUFFER) = Stored(w)
                     /\ Len(rxd) = Len(asked) - Len(msg[w])
    /\ wpc[w] = "storeTx" => at[w] = strlen(TX_BUFFER)
    /\ wpc[w] = "start" => n[w] = Len(msg[w]) + 1

(* The receiver is at the transmitter's bit, or one bit behind it while it   *)
(* has not sampled.                                                          *)
PhaseInv ==
  /\ ~ lead \/ txPc # "tick" => txBit = rxBit
  /\ lead /\ txPc = "tick" => txBit = rxBit + 1 \/ (txBit = -1 /\ rxBit \in {-1, BITS})
  /\ txBit # -1 \/ txPc # "tick" => Sending /\ txTimer
  /\ kick => txBit = -1 /\ rxBit = -1 /\ txPc = "tick"
  /\ ~ txTimer => ~ lead
  /\ txPc # "tick" => lead /\ rxPc = "tick"
  /\ txPc = "pop" => txBit = BITS /\ level = 1 /\ txAt = strlen(TX_BUFFER) - 1
  /\ rxPc # "tick" => txBit = -1 /\ rxBit = -1 /\ ~ lead

(* The level is that of the bit the transmitter has sent, and the shift      *)
(* register holds the bits that were sampled.                                *)
Incoming == asked[Len(rxd) + 1]

BitsInv ==
  /\ txBit = -1 => level = 1
  /\ lead /\ txPc = "tick" /\ txBit = rxBit + 1 =>
       level = IF rxBit = -1 THEN 0 ELSE Incoming[rxBit]
  /\ rxBit \in 1 .. BITS - 1 =>
       \A j \in 0 .. rxBit - 1 : RX_DATA[(BITS - 1 - rxBit) + j] = Incoming[j]
  /\ rxBit = BITS \/ rxPc = "store" => RX_DATA = Incoming

WrittenInv == TextInv /\ PrefixInv /\ AllThere /\ WriteInv /\ PhaseInv /\ BitsInv

(* What the steps below need of the types.                                   *)
LEMMA TypeFacts ==
  ASSUME TypeInv
  PROVE  /\ TX_BUFFER \in Buffers /\ strlen(TX_BUFFER) \in 0 .. SIZE + 2 /\ RX_DATA \in Bytes
         /\ asked \in Seq(Bytes \ {NUL}) /\ Len(asked) \in Nat
         /\ rxd \in Seq(Bytes \ {NUL}) /\ Len(rxd) \in Nat
         /\ txBit \in -1 .. BITS /\ rxBit \in -1 .. BITS /\ level \in {0, 1}
         /\ lead \in BOOLEAN /\ kick \in BOOLEAN /\ txTimer \in BOOLEAN
         /\ txPc \in {"tick", "act", "pop"} /\ rxPc \in {"tick", "store", "check", "clear"}
         /\ BITS \in Nat \ {0} /\ SIZE \in Nat \ {0}
  <1>1. strlen(TX_BUFFER) \in 0 .. SIZE + 2
    BY StrlenIs
  <1>2. Len(asked) \in Nat /\ Len(rxd) \in Nat
    BY DEF TypeInv, Shapes
  <1> QED
    BY <1>1, <1>2 DEF TypeInv, TypeOK, Shapes

(* The ranges of one write, as the steps below use them.                     *)
LEMMA WriterFacts ==
  ASSUME TypeInv, NEW w \in Writers
  PROVE  /\ wpc \in [Writers -> WriterPlaces]
         /\ n \in [Writers -> Nat] /\ at \in [Writers -> 0 .. SIZE + 2]
         /\ msg \in [Writers -> Messages \cup {<<>>}]
         /\ msg[w] \in Seq(Bytes \ {NUL}) /\ Len(msg[w]) \in Nat
         /\ n[w] \in 0 .. Len(msg[w]) + 1
         /\ wpc[w] \in Storing => n[w] <= Len(msg[w])
  BY MessageIsSeq DEF TypeInv, TypeOK, Shapes, WriterPlaces, Storing

(* Nothing is on its way when the module is loaded.                          *)
LEMMA InitWritten ==
  ASSUME Calm, Init
  PROVE  WrittenInv
  <1>1. /\ TX_BUFFER = Empty /\ strlen(TX_BUFFER) = 0 /\ asked = <<>> /\ rxd = <<>>
        /\ Len(asked) = 0 /\ Len(rxd) = 0
        /\ txBit = -1 /\ rxBit = -1 /\ level = 1 /\ ~ lead /\ ~ kick
        /\ txPc = "tick" /\ rxPc = "tick"
        /\ \A w \in Writers : wpc[w] = "idle"
    BY EmptyStrlen DEF Init, Calm
  <1>2. BITS \in Nat \ {0}
    OBVIOUS
  <1>3. TextInv /\ PrefixInv
    BY <1>1 DEF TextInv, Text, PrefixInv, Empty
  <1>4. AllThere /\ WriteInv
    BY <1>1, <1>2 DEF AllThere, InFlight, WriteInv
  <1>5. PhaseInv /\ BitsInv
    BY <1>1, <1>2 DEF PhaseInv, BitsInv
  <1> QED
    BY <1>3, <1>4, <1>5 DEF WrittenInv

(* The byte the transmitter is sending is the next that will be received.    *)
LEMMA TopIsIncoming ==
  ASSUME TypeInv, WrittenInv, NoWrite, Sending, InFlight = 0
  PROVE  Top = Incoming
  <1> DEFINE k == strlen(TX_BUFFER)
  <1>1. k \in 1 .. SIZE + 2 /\ Len(asked) = Len(rxd) + k /\ Len(asked) \in Nat
        /\ Len(rxd) \in Nat
    BY TypeFacts DEF Sending, WrittenInv, AllThere
  <1>2. TX_BUFFER[k - 1] = asked[Len(asked) - (k - 1)]
    <2>1. \A i \in 0 .. k - 1 : TX_BUFFER[i] = asked[Len(asked) - i]
      BY DEF WrittenInv, TextInv, Text
    <2> HIDE DEF k
    <2> QED
      BY <1>1, <2>1
  <1>3. Len(asked) - (k - 1) = Len(rxd) + 1
    BY <1>1
  <1> QED
    BY <1>2, <1>3 DEF Top, Incoming

(* A step of the transmitter puts the next bit of the frame on the line.     *)
LEMMA TxWritten ==
  ASSUME Calm, TypeInv, WrittenInv, FunctionTimerTX
  PROVE  WrittenInv'
  <1> USE TypeFacts
  <1>0. UNCHANGED <<txTimer, rx, writer, mode>>
    BY TxLeaves
  <1>1. NoWrite /\ lead' /\ ~ kick' /\ txTimer /\ rxPc = "tick" /\ txBit = rxBit
    <2>1. CASE Tick
      BY <2>1 DEF Tick, Calm, WrittenInv, PhaseInv
    <2>2. CASE TxStart \/ TxData \/ TxStop \/ TxPop
      <3>1. txPc # "tick" /\ UNCHANGED <<lead, kick>>
        BY <2>2 DEF TxStart, TxData, TxStop, TxPop, Act, line
      <3>2. NoWrite
        BY <3>1 DEF WrittenInv, WriteInv, NoWrite
      <3> QED
        BY <3>1, <3>2 DEF WrittenInv, PhaseInv
    <2> QED
      BY <2>1, <2>2 DEF FunctionTimerTX
  <1>2. NoWrite' /\ WriteInv'
    BY <1>0, <1>1 DEF NoWrite, WriteInv, writer
  <1>3. UNCHANGED <<asked, rxd, rxBit, rxPc, RX_DATA, Incoming>> /\ PrefixInv'
    BY <1>0 DEF rx, writer, Incoming, WrittenInv, PrefixInv
  <1>4. CASE Tick
    <2>1. /\ UNCHANGED <<TX_BUFFER, txBit, level, txAt>>
          /\ txPc' \in {"tick", "act"} /\ (txPc' = "act" => Sending)
          /\ (txPc' = "tick" => ~ Sending)
      BY <1>4 DEF Tick
    <2>2. txPc' = "tick" => txBit = -1
      BY <2>1 DEF WrittenInv, PhaseInv
    <2>3. TextInv' /\ AllThere'
      BY <1>0, <1>1, <1>3, <2>1 DEF WrittenInv, TextInv, Text, AllThere, InFlight
    <2>4. PhaseInv'
      BY <1>0, <1>1, <1>3, <2>1, <2>2 DEF WrittenInv, PhaseInv, Sending
    <2>5. BitsInv'
      BY <1>1, <1>3, <2>1, <2>2 DEF WrittenInv, BitsInv
    <2> QED
      BY <1>2, <1>3, <2>3, <2>4, <2>5 DEF WrittenInv
  <1>5. CASE TxStart
    <2>1. /\ UNCHANGED TX_BUFFER /\ txBit = -1 /\ txBit' = 0 /\ level' = 0
          /\ txPc = "act" /\ txPc' = "tick"
      BY <1>5 DEF TxStart, Act
    <2>2. Sending /\ Sending'
      BY <2>1 DEF WrittenInv, PhaseInv, Sending
    <2>3. TextInv' /\ AllThere'
      BY <1>1, <1>3, <2>1 DEF WrittenInv, TextInv, Text, AllThere, InFlight
    <2>4. PhaseInv' /\ BitsInv'
      BY <1>0, <1>1, <1>3, <2>1, <2>2 DEF WrittenInv, PhaseInv, BitsInv
    <2> QED
      BY <1>2, <1>3, <2>3, <2>4 DEF WrittenInv
  <1>6. CASE TxData
    <2>1. /\ UNCHANGED TX_BUFFER /\ txBit \in 0 .. BITS - 1 /\ txBit' = txBit + 1
          /\ level' \in (IF Sending THEN {Top[txBit]} ELSE {0, 1})
          /\ txPc = "act" /\ txPc' = "tick"
      BY <1>6 DEF TxData, Act
    <2>2. Sending /\ Sending'
      BY <2>1 DEF WrittenInv, PhaseInv, Sending
    <2>3. Top = Incoming
      BY <1>1, <2>1, <2>2, TopIsIncoming DEF InFlight
    <2>4. TextInv' /\ AllThere'
      BY <1>1, <1>3, <2>1 DEF WrittenInv, TextInv, Text, AllThere, InFlight
    <2>5. PhaseInv'
      BY <1>0, <1>1, <1>3, <2>1, <2>2 DEF WrittenInv, PhaseInv
    <2>6. level' = Incoming'[rxBit']
      BY <1>1, <1>3, <2>1, <2>2, <2>3
    <2>7. BitsInv'
      <3>1. rxBit' \in 1 .. BITS - 1 =>
              \A j \in 0 .. rxBit' - 1 : RX_DATA'[(BITS - 1 - rxBit') + j] = Incoming'[j]
        BY <1>3 DEF WrittenInv, BitsInv
      <3> QED
        BY <1>1, <1>3, <2>1, <2>6, <3>1 DEF BitsInv
    <2> QED
      BY <1>2, <1>3, <2>4, <2>5, <2>7 DEF WrittenInv
  <1>7. CASE TxStop
    <2>1. /\ UNCHANGED <<TX_BUFFER, txBit>> /\ txBit = BITS /\ level' = 1
          /\ txAt' = strlen(TX_BUFFER) - 1 /\ txPc = "act" /\ txPc' = "pop"
      BY <1>7 DEF TxStop, Act
    <2>2. Sending /\ Sending'
      BY <2>1 DEF WrittenInv, PhaseInv, Sending
    <2>3. TextInv' /\ AllThere'
      BY <1>1, <1>3, <2>1 DEF WrittenInv, TextInv, Text, AllThere, InFlight
    <2>4. PhaseInv'
      BY <1>0, <1>1, <1>3, <2>1, <2>2 DEF WrittenInv, PhaseInv
    <2>5. BitsInv'
      BY <1>1, <1>3, <2>1 DEF WrittenInv, BitsInv
    <2> QED
      BY <1>2, <1>3, <2>3, <2>4, <2>5 DEF WrittenInv
  <1>8. CASE TxPop
    <2> DEFINE k == strlen(TX_BUFFER)
    <2>1. /\ txPc = "pop" /\ txPc' = "tick" /\ txBit' = -1 /\ UNCHANGED level
          /\ TX_BUFFER' = Store(TX_BUFFER, txAt, NUL)
      BY <1>8 DEF TxPop, Pop, AfterStop, line
    <2>2. txBit = BITS /\ level = 1 /\ txAt = k - 1 /\ k \in 1 .. SIZE + 2
      BY <2>1 DEF WrittenInv, PhaseInv, Sending
    <2>3. TX_BUFFER' = [TX_BUFFER EXCEPT ![k - 1] = NUL] /\ k - 1 \in 0 .. SIZE + 1
      <3>1. k - 1 \in 0 .. SIZE + 1
        BY <2>2
      <3> QED
        BY <2>1, <2>2, <3>1, StoreIs, NulIsByte
    <2>4. strlen(TX_BUFFER') = k - 1
      BY <2>2, <2>3, TopIs
    <2>5. /\ TX_BUFFER'[k - 1] = NUL
          /\ \A i \in 0 .. SIZE + 1 : i # k - 1 => TX_BUFFER'[i] = TX_BUFFER[i]
      BY <2>3 DEF Buffers
    <2>6. TextInv'
      <3>1. /\ k <= Len(asked)
            /\ \A i \in 0 .. k - 1 : TX_BUFFER[i] = asked[Len(asked) - i]
            /\ \A i \in k .. SIZE + 1 : TX_BUFFER[i] = NUL
        BY DEF WrittenInv, TextInv, Text
      <3> HIDE DEF k
      <3>2. \A i \in 0 .. (k - 1) - 1 : TX_BUFFER'[i] = asked'[Len(asked') - i]
        <4> SUFFICES ASSUME NEW i \in 0 .. (k - 1) - 1
                     PROVE  TX_BUFFER'[i] = asked'[Len(asked') - i]
          OBVIOUS
        <4>1. i \in 0 .. SIZE + 1 /\ i # k - 1 /\ i \in 0 .. k - 1
          BY <2>2
        <4>2. TX_BUFFER'[i] = TX_BUFFER[i] /\ TX_BUFFER[i] = asked[Len(asked) - i]
          BY <2>5, <3>1, <4>1
        <4> QED
          BY <1>3, <4>2
      <3>3. \A i \in k - 1 .. SIZE + 1 : TX_BUFFER'[i] = NUL
        BY <2>2, <2>5, <3>1
      <3>4. k - 1 <= Len(asked')
        BY <1>3, <2>2, <3>1
      <3> QED
        BY <2>4, <3>2, <3>3, <3>4 DEF TextInv, Text
    <2>7. AllThere'
      BY <1>1, <1>3, <2>1, <2>2, <2>4 DEF WrittenInv, AllThere, InFlight
    <2>8. PhaseInv'
      BY <1>0, <1>1, <1>3, <2>1, <2>2 DEF WrittenInv, PhaseInv
    <2>9. BitsInv'
      BY <1>1, <1>3, <2>1, <2>2 DEF WrittenInv, BitsInv
    <2> QED
      BY <1>2, <1>3, <2>6, <2>7, <2>8, <2>9 DEF WrittenInv
  <1> QED
    BY <1>4, <1>5, <1>6, <1>7, <1>8 DEF FunctionTimerTX

(* A tick of the receiver takes the bit that is on the line.                 *)
LEMMA SampleWritten ==
  ASSUME TypeInv, WrittenInv, RxIdle \/ RxStart \/ RxData \/ RxStop
  PROVE  WrittenInv'
  <1> USE TypeFacts
  <1>1. /\ txPc = "tick" /\ rxPc = "tick" /\ (txTimer => lead) /\ ~ lead'
        /\ UNCHANGED <<level, txTimer, kick, tx, writer, mode>>
    BY DEF RxIdle, RxStart, RxData, RxStop, Sample
  <1>2. /\ UNCHANGED <<level, txBit, txPc, txAt, TX_BUFFER, asked, kick>>
        /\ (Sending' <=> Sending) /\ (NoWrite' <=> NoWrite)
        /\ TextInv'
    BY <1>1 DEF tx, writer, Sending, NoWrite, WrittenInv, TextInv, Text
  <1>3. CASE RxIdle
    <2>1. UNCHANGED <<rxd, RX_DATA, rxBit, rxPc, Incoming>> /\ rxBit = -1 /\ level = 1
      BY <1>2, <1>3 DEF RxIdle, rx, Incoming
    <2>2. txBit = -1
      BY <2>1 DEF WrittenInv, PhaseInv, BitsInv
    <2>3. WriteInv' /\ PrefixInv' /\ AllThere'
      <3>1. WriteInv'
        BY <1>1, <1>2, <2>1 DEF WrittenInv, WriteInv, Stored, Echoed, writer, mode
      <3>2. PrefixInv'
        BY <1>2, <2>1 DEF WrittenInv, PrefixInv
      <3>3. AllThere'
        BY <1>2, <2>1 DEF WrittenInv, AllThere, InFlight
      <3> QED
        BY <3>1, <3>2, <3>3
    <2>4. PhaseInv' /\ BitsInv'
      BY <1>1, <1>2, <2>1, <2>2 DEF WrittenInv, PhaseInv, BitsInv
    <2> QED
      BY <1>2, <2>3, <2>4 DEF WrittenInv
  <1>4. CASE RxStart
    <2>1. UNCHANGED <<rxd, RX_DATA, rxPc, Incoming>> /\ rxBit = -1 /\ level = 0 /\ rxBit' = 0
      BY <1>2, <1>4 DEF RxStart, Incoming
    <2>2. lead /\ txBit = 0
      BY <2>1 DEF WrittenInv, PhaseInv, BitsInv
    <2>3. NoWrite
      BY <2>2 DEF WrittenInv, WriteInv, NoWrite
    <2>4. WriteInv' /\ PrefixInv' /\ AllThere'
      BY <1>1, <1>2, <2>1, <2>2, <2>3
      DEF WrittenInv, WriteInv, PrefixInv, AllThere, InFlight, NoWrite, writer
    <2>5. PhaseInv' /\ BitsInv'
      BY <1>1, <1>2, <2>1, <2>2 DEF WrittenInv, PhaseInv, BitsInv
    <2> QED
      BY <1>2, <2>4, <2>5 DEF WrittenInv
  <1>5. CASE RxData
    <2>1. /\ UNCHANGED <<rxd, rxPc, Incoming>> /\ rxBit \in 0 .. BITS - 1 /\ rxBit' = rxBit + 1
          /\ RX_DATA' = ShiftIn(RX_DATA, rxBit)
      BY <1>2, <1>5 DEF RxData, Incoming
    <2>2. lead /\ txBit = rxBit + 1
      BY <1>1, <2>1 DEF WrittenInv, PhaseInv
    <2>3. NoWrite
      BY <2>1 DEF WrittenInv, WriteInv, NoWrite
    <2>4. level = Incoming[rxBit]
      BY <1>1, <2>1, <2>2 DEF WrittenInv, BitsInv
    <2>5. \A j \in 0 .. rxBit - 1 : RX_DATA[(BITS - 1 - rxBit) + j] = Incoming[j]
      BY <2>1 DEF WrittenInv, BitsInv
    <2> DEFINE s == [RX_DATA EXCEPT ![BITS - 1] = level]
    <2>6. s[BITS - 1] = level /\ \A j \in 0 .. BITS - 2 : s[j] = RX_DATA[j]
      BY DEF Bytes
    <2>7. ASSUME rxBit = BITS - 1 PROVE RX_DATA' = Incoming
      <3>1. RX_DATA' = s
        BY <2>1, <2>7 DEF ShiftIn
      <3>2. \A j \in 0 .. BITS - 1 : s[j] = Incoming[j]
        BY <2>4, <2>5, <2>6, <2>7
      <3>3. Incoming \in Bytes
        <4>1. Top = Incoming /\ Sending
          BY <2>1, <2>2, <2>3, TopIsIncoming DEF InFlight, WrittenInv, PhaseInv
        <4>2. strlen(TX_BUFFER) \in 1 .. SIZE + 2
          BY <4>1 DEF Sending
        <4> QED
          BY <4>1, <4>2, TopIs DEF Top
      <3>4. s \in Bytes
        BY DEF Bytes
      <3> QED
        BY <3>1, <3>2, <3>3, <3>4 DEF Bytes
    <2>8. ASSUME rxBit # BITS - 1, NEW j \in 0 .. rxBit
          PROVE  RX_DATA'[(BITS - 1 - (rxBit + 1)) + j] = Incoming[j]
      <3> DEFINE i == (BITS - 1 - (rxBit + 1)) + j
      <3>1. i \in 0 .. BITS - 2 /\ i + 1 = (BITS - 1 - rxBit) + j /\ i # BITS - 1
        BY <2>1, <2>8
      <3>2. RX_DATA'[i] = s[i + 1]
        BY <2>1, <2>8, <3>1 DEF ShiftIn
      <3>3. CASE j = rxBit
        BY <2>1, <2>4, <2>6, <3>1, <3>2, <3>3
      <3>4. CASE j \in 0 .. rxBit - 1
        <4>1. i + 1 \in 0 .. BITS - 2
          BY <2>1, <3>1, <3>4
        <4> QED
          BY <2>5, <2>6, <3>1, <3>2, <3>4, <4>1
      <3> QED
        BY <2>1, <3>3, <3>4
    <2>9. WriteInv' /\ PrefixInv' /\ AllThere'
      BY <1>1, <1>2, <2>1, <2>2, <2>3
      DEF WrittenInv, WriteInv, PrefixInv, AllThere, InFlight, NoWrite, writer
    <2>10. PhaseInv'
      BY <1>1, <1>2, <2>1, <2>2 DEF WrittenInv, PhaseInv
    <2>11. BitsInv'
      <3>1. rxBit' = BITS => RX_DATA' = Incoming'
        BY <2>1, <2>7
      <3>2. rxBit' \in 1 .. BITS - 1 =>
              \A j \in 0 .. rxBit' - 1 : RX_DATA'[(BITS - 1 - rxBit') + j] = Incoming'[j]
        BY <2>1, <2>8
      <3>3. txBit' # -1
        BY <1>2, <2>1, <2>2
      <3> QED
        BY <1>1, <2>1, <3>1, <3>2, <3>3 DEF BitsInv
    <2> QED
      BY <1>2, <2>9, <2>10, <2>11 DEF WrittenInv
  <1>6. CASE RxStop
    <2>1. /\ rxBit = BITS /\ rxBit' = -1 /\ rxPc' = "store"
          /\ UNCHANGED <<RX_DATA, rxd, Incoming>>
      BY <1>2, <1>6 DEF RxStop, Incoming
    <2>2. lead /\ txBit = -1
      BY <1>1, <2>1 DEF WrittenInv, PhaseInv
    <2>3. NoWrite
      BY <2>1 DEF WrittenInv, WriteInv, NoWrite
    <2>4. WriteInv' /\ PrefixInv'
      BY <1>1, <1>2, <2>1, <2>3 DEF WrittenInv, WriteInv, PrefixInv, NoWrite, writer
    <2>5. AllThere'
      BY <1>2, <2>1, <2>2 DEF WrittenInv, AllThere, InFlight
    <2>6. PhaseInv'
      BY <1>1, <1>2, <2>1, <2>2 DEF WrittenInv, PhaseInv
    <2>7. BitsInv'
      BY <1>1, <1>2, <2>1, <2>2 DEF WrittenInv, BitsInv
    <2> QED
      BY <1>2, <2>4, <2>5, <2>6, <2>7 DEF WrittenInv
  <1> QED
    BY <1>3, <1>4, <1>5, <1>6

(* The received byte is stored; what follows only clears RX_BUFFER.          *)
LEMMA StoreWritten ==
  ASSUME TypeInv, WrittenInv, RxStore \/ RxCheck \/ RxClear
  PROVE  WrittenInv'
  <1> USE TypeFacts
  <1>1. rxPc # "tick" /\ UNCHANGED <<RX_DATA, rxBit, line, tx, writer, mode>>
    BY DEF RxStore, RxCheck, RxClear, Goes
  <1>2. NoWrite /\ txBit = -1 /\ rxBit = -1 /\ ~ lead /\ txPc = "tick"
    <2>1. NoWrite
      BY <1>1 DEF WrittenInv, WriteInv, NoWrite
    <2> QED
      BY <1>1, <2>1 DEF WrittenInv, PhaseInv
  <1>3. /\ UNCHANGED <<level, lead, kick, txTimer, txBit, rxBit, txPc, txAt, TX_BUFFER, asked>>
        /\ UNCHANGED <<Sending, NoWrite>>
        /\ TextInv' /\ WriteInv'
    BY <1>1, <1>2 DEF line, tx, writer, Sending, NoWrite, WrittenInv, TextInv, Text, WriteInv
  <1>4. PhaseInv'
    BY <1>2, <1>3 DEF WrittenInv, PhaseInv
  <1>5. rxPc' # "store"
    BY DEF RxStore, RxCheck, RxClear, Goes
  <1>6. BitsInv'
    BY <1>2, <1>3, <1>5 DEF WrittenInv, BitsInv
  <1>7. CASE RxStore
    <2>1. rxPc = "store" /\ rxd' = Logged(rxd, RX_DATA)
      BY <1>7 DEF RxStore, Goes
    <2>2. Len(asked) = Len(rxd) + 1 + strlen(TX_BUFFER)
      BY <1>2, <2>1 DEF WrittenInv, AllThere, InFlight
    <2>3. RX_DATA = asked[Len(rxd) + 1] /\ RX_DATA # NUL
      <3>1. RX_DATA = asked[Len(rxd) + 1]
        BY <2>1 DEF WrittenInv, BitsInv, Incoming
      <3>2. Len(rxd) + 1 \in 1 .. Len(asked)
        BY <2>2
      <3> QED
        BY <3>1, <3>2
    <2>4. rxd' = Append(rxd, RX_DATA) /\ Len(rxd') = Len(rxd) + 1
      BY <2>1, <2>3 DEF Logged
    <2>5. PrefixInv'
      <3>1. Len(rxd') <= Len(asked')
        BY <1>3, <2>2, <2>4
      <3>2. \A i \in 1 .. Len(rxd) : rxd'[i] = asked[i]
        BY <2>4 DEF WrittenInv, PrefixInv
      <3>3. rxd'[Len(rxd) + 1] = asked[Len(rxd) + 1]
        BY <2>3, <2>4
      <3> QED
        BY <1>3, <2>4, <3>1, <3>2, <3>3 DEF PrefixInv
    <2>6. AllThere'
      BY <1>2, <1>3, <1>5, <2>2, <2>4 DEF AllThere, InFlight
    <2> QED
      BY <1>3, <1>4, <1>6, <2>5, <2>6 DEF WrittenInv
  <1>8. CASE RxCheck \/ RxClear
    <2>1. UNCHANGED rxd /\ rxPc # "store"
      BY <1>8 DEF RxCheck, RxClear, Goes
    <2>2. PrefixInv' /\ AllThere'
      BY <1>2, <1>3, <1>5, <2>1 DEF WrittenInv, PrefixInv, AllThere, InFlight
    <2> QED
      BY <1>3, <1>4, <1>6, <2>2 DEF WrittenInv
  <1> QED
    BY <1>7, <1>8

(* A write starts between frames, with both sides at rest.                   *)
LEMMA BeginWritten ==
  ASSUME Calm, TypeInv, WrittenInv, NEW w \in Writers, NEW m \in Messages, Write(w, m)
  PROVE  WrittenInv'
  <1> USE TypeFacts, WriterFacts
  <1> DEFINE L == Len(asked)
             d == Len(m)
  <1>1. /\ NoWrite /\ ~ Sending /\ txBit = -1 /\ rxBit = -1 /\ txPc = "tick" /\ rxPc = "tick"
        /\ asked' = asked \o m
        /\ wpc' = [wpc EXCEPT ![w] = "index"] /\ msg' = [msg EXCEPT ![w] = m]
        /\ n' = [n EXCEPT ![w] = 0] /\ UNCHANGED <<at, line, tx, rx, mode>>
    BY DEF Write, Calm, LineIdle
  <1>2. m \in Seq(Bytes \ {NUL}) /\ d \in Nat /\ d <= SIZE
    BY MessageIsSeq DEF Calm
  <1>3. /\ Len(asked') = L + d
        /\ \A i \in 1 .. L : asked'[i] = asked[i]
        /\ \A i \in 1 .. d : asked'[L + i] = m[i]
    BY <1>1, <1>2
  <1>4. strlen(TX_BUFFER) = 0 /\ Len(rxd) = L
    BY <1>1 DEF Sending, WrittenInv, AllThere, InFlight
  <1>5. TextInv'
    BY <1>1, <1>2, <1>3, <1>4 DEF WrittenInv, TextInv, Text, tx
  <1>6. PrefixInv'
    <2>1. rxd' = rxd /\ \A i \in 1 .. L : rxd[i] = asked[i]
      BY <1>1, <1>4 DEF WrittenInv, PrefixInv, rx
    <2>2. Len(rxd) <= Len(asked')
      BY <1>2, <1>3, <1>4
    <2> QED
      BY <1>3, <1>4, <2>1, <2>2 DEF PrefixInv
  <1>7. wpc'[w] = "index" /\ msg'[w] = m /\ n'[w] = 0 /\ ~ NoWrite'
    BY <1>1 DEF NoWrite
  <1>8. \A i \in 0 .. d - 1 : m[d - i] = asked'[Len(asked') - i]
    <2> SUFFICES ASSUME NEW i \in 0 .. d - 1 PROVE m[d - i] = asked'[Len(asked') - i]
      OBVIOUS
    <2>1. d - i \in 1 .. d /\ Len(asked') - i = L + (d - i)
      BY <1>2, <1>3
    <2> QED
      BY <1>3, <2>1
  <1>9. WriteInv'
    <2>1. \A u \in Writers : u # w => wpc'[u] = "idle"
      BY <1>1 DEF NoWrite
    <2>2. UNCHANGED <<txBit, rxBit, txPc, rxPc, level, TX_BUFFER, rxd, LOOPBACK>>
      BY <1>1 DEF tx, rx, line, mode
    <2>3. Len(rxd') = Len(asked') - d /\ d <= Len(asked')
      BY <1>2, <1>3, <1>4, <2>2
    <2>4. Stored(w)' = 0 /\ strlen(TX_BUFFER)' = 0
      BY <1>4, <1>7, <2>2 DEF Stored
    <2>5. Echoed(w)' = 0
      BY <1>2, <1>7 DEF Echoed
    <2>6. Len(rxd') = (Len(asked') - d) + Echoed(w)'
      BY <1>2, <1>3, <2>3, <2>5
    <2> QED
      BY <1>1, <1>2, <1>7, <1>8, <2>1, <2>2, <2>3, <2>4, <2>6 DEF WriteInv
  <1>10. PhaseInv' /\ BitsInv' /\ AllThere'
    BY <1>1, <1>7 DEF WrittenInv, PhaseInv, BitsInv, AllThere, Sending, line, tx, rx
  <1> QED
    BY <1>5, <1>6, <1>9, <1>10 DEF WrittenInv

(* The byte before the end of a text makes it a longer one.                  *)
LEMMA TextGrows ==
  ASSUME NEW b \in Buffers, strlen(b) \in 0 .. SIZE, strlen(b) < SIZE,
         NEW c \in Bytes, c # NUL,
         NEW s \in Seq(Bytes \ {NUL}), strlen(b) < Len(s), c = s[Len(s) - strlen(b)],
         Text(b, s)
  PROVE  LET e == Store(b, strlen(b), c) IN strlen(e) = strlen(b) + 1 /\ Text(e, s)
  <1> DEFINE k == strlen(b)
             e == [b EXCEPT ![k] = c]
  <1>1. /\ \A i \in 0 .. k - 1 : b[i] = s[Len(s) - i]
        /\ \A i \in k .. SIZE + 1 : b[i] = NUL
    BY DEF Text
  <1>2. Store(b, k, c) = e /\ strlen(e) = k + 1
    BY <1>1, RunGrows
  <1>3. e[k] = c /\ \A i \in 0 .. SIZE + 1 : i # k => e[i] = b[i]
    BY DEF Buffers
  <1>4. k \in 0 .. SIZE /\ k < SIZE /\ k < Len(s) /\ c = s[Len(s) - k] /\ Len(s) \in Nat
    OBVIOUS
  <1> HIDE DEF k, e
  <1>5. \A i \in 0 .. k : e[i] = s[Len(s) - i]
    <2> SUFFICES ASSUME NEW i \in 0 .. k PROVE e[i] = s[Len(s) - i]
      OBVIOUS
    <2>1. i # k => i \in 0 .. k - 1 /\ i \in 0 .. SIZE + 1
      BY <1>4
    <2> QED
      BY <1>1, <1>3, <1>4, <2>1
  <1>6. \A i \in k + 1 .. SIZE + 1 : e[i] = NUL
    BY <1>1, <1>3, <1>4
  <1>7. Text(e, s)
    <2>1. strlen(e) <= Len(s) /\ strlen(e) - 1 = k
      BY <1>2, <1>4
    <2> QED
      BY <1>2, <1>5, <1>6, <2>1 DEF Text
  <1> QED
    BY <1>2, <1>7 DEF k

(* A character of a message at the end of a text, counted from the beginning *)
(* of each.                                                                  *)
LEMMA FromTheEnd ==
  ASSUME NEW m \in Seq(Bytes \ {NUL}), NEW s \in Seq(Bytes \ {NUL}),
         \A i \in 0 .. Len(m) - 1 : m[Len(m) - i] = s[Len(s) - i],
         NEW c \in 0 .. Len(m), c # Len(m)
  PROVE  m[c + 1] = s[(Len(s) - Len(m)) + c + 1]
  <1> DEFINE i == Len(m) - (c + 1)
  <1>1. /\ i \in 0 .. Len(m) - 1 /\ Len(m) - i = c + 1
        /\ Len(s) - i = (Len(s) - Len(m)) + c + 1
    OBVIOUS
  <1> HIDE DEF i
  <1>2. m[Len(m) - i] = s[Len(s) - i]
    BY <1>1
  <1> QED
    BY <1>1, <1>2

(* The byte a write is at, counted from the end of what was asked for.       *)
LEMMA CharFromTheEnd ==
  ASSUME NEW w, msg[w] \in Seq(Bytes \ {NUL}), asked \in Seq(Bytes \ {NUL}),
         \A i \in 0 .. Len(msg[w]) - 1 : msg[w][Len(msg[w]) - i] = asked[Len(asked) - i],
         n[w] \in 0 .. Len(msg[w]), n[w] # Len(msg[w])
  PROVE  msg[w][n[w] + 1] = asked[(Len(asked) - Len(msg[w])) + n[w] + 1]
  BY FromTheEnd

(* A write stores its bytes in front of each other, the last one first.      *)
LEMMA WriterWritten ==
  ASSUME Calm, TypeInv, WrittenInv, NEW w \in Writers, WriterStep(w)
  PROVE  WrittenInv'
  <1> USE TypeFacts, WriterFacts
  <1> DEFINE d == Len(msg[w])
             k == strlen(TX_BUFFER)
  <1>1. /\ wpc[w] # "idle" /\ wpc' = [wpc EXCEPT ![w] = wpc'[w]]
        /\ UNCHANGED <<msg, asked, level, lead, txBit, rxBit, txPc, txAt, rxPc, RX_DATA, LOOPBACK>>
    <2>1. wpc[w] # "idle" /\ wpc' = [wpc EXCEPT ![w] = wpc'[w]]
      BY DEF WriterStep, FindEnd, StoreTx, CheckTx, ClearTx, StoreRx, CheckRx, ClearRx,
             StartTimer, NextChar
    <2> QED
      BY <2>1, WriterLeaves DEF mode
  <1>2. /\ \A v \in Writers : v # w => wpc[v] = "idle"
        /\ txBit = -1 /\ rxBit = -1 /\ txPc = "tick" /\ rxPc = "tick"
        /\ d <= SIZE /\ d <= Len(asked)
        /\ \A i \in 0 .. d - 1 : msg[w][d - i] = asked[Len(asked) - i]
        /\ LOOPBACK => /\ wpc[w] \in {"index", "storeRx", "checkRx", "clearRx", "start"}
                       /\ k = 0
                       /\ Len(rxd) = (Len(asked) - d) + Echoed(w)
        /\ ~ LOOPBACK => /\ wpc[w] \in {"index", "storeTx", "checkTx", "start"}
                         /\ k = Stored(w)
                         /\ Len(rxd) = Len(asked) - d
        /\ wpc[w] = "storeTx" => at[w] = k
        /\ wpc[w] = "start" => n[w] = d + 1
    BY <1>1 DEF WrittenInv, WriteInv
  <1>3. PhaseInv' /\ BitsInv'
    <2>1. BitsInv'
      BY <1>1, <1>2 DEF WrittenInv, BitsInv
    <2>2. (kick' => txBit' = -1 /\ rxBit' = -1) /\ (~ txTimer' => ~ lead')
      <3>1. UNCHANGED txTimer \/ txTimer'
        BY DEF WriterStep, FindEnd, StoreTx, CheckTx, ClearTx, StoreRx, CheckRx, ClearRx,
               StartTimer, hrtimer_start, line
      <3> QED
        BY <1>1, <1>2, <3>1 DEF WrittenInv, PhaseInv
    <2> QED
      BY <1>1, <1>2, <2>1, <2>2 DEF WrittenInv, PhaseInv
  <1>4. \A v \in Writers : v # w => wpc'[v] = "idle"
    BY <1>1, <1>2
  (* What is left to show of the writer itself. *)
  <1>5. SUFFICES
          /\ TextInv' /\ PrefixInv'
          /\ wpc'[w] = "idle" => Len(asked) = Len(rxd') + strlen(TX_BUFFER')
          /\ wpc'[w] # "idle" =>
               /\ LOOPBACK => /\ wpc'[w] \in {"index", "storeRx", "checkRx", "clearRx", "start"}
                              /\ strlen(TX_BUFFER') = 0
                              /\ Len(rxd') = (Len(asked) - d) + Echoed(w)'
               /\ ~ LOOPBACK => /\ wpc'[w] \in {"index", "storeTx", "checkTx", "start"}
                                /\ strlen(TX_BUFFER') = Stored(w)'
                                /\ Len(rxd') = Len(asked) - d
               /\ wpc'[w] = "storeTx" => at'[w] = strlen(TX_BUFFER')
               /\ wpc'[w] = "start" => n'[w] = d + 1
    <2>1. AllThere'
      BY <1>1, <1>2, <1>5 DEF AllThere, NoWrite, InFlight
    <2>2. WriteInv'
      BY <1>1, <1>2, <1>4, <1>5 DEF WriteInv
    <2> QED
      BY <1>3, <1>5, <2>1, <2>2 DEF WrittenInv
  <1>6. CASE FindEnd(w)
    <2>1. /\ UNCHANGED <<TX_BUFFER, rxd, n>> /\ wpc[w] = "index"
          /\ wpc'[w] = (IF LOOPBACK THEN "storeRx" ELSE "storeTx")
          /\ ~ LOOPBACK => at'[w] = k
      BY <1>6 DEF FindEnd, tx, rx
    <2>2. Stored(w)' = Stored(w) /\ Echoed(w)' = Echoed(w)
      BY <1>1, <2>1 DEF Stored, Echoed
    <2>3. TextInv' /\ PrefixInv'
      BY <1>1, <2>1 DEF WrittenInv, TextInv, Text, PrefixInv
    <2> QED
      BY <1>2, <2>1, <2>2, <2>3
  <1>7. CASE StoreTx(w)
    <2>1. /\ wpc[w] = "storeTx" /\ n' = n /\ UNCHANGED rxd /\ ~ LOOPBACK
          /\ wpc'[w] = "checkTx"
          /\ TX_BUFFER' = Store(TX_BUFFER, k, Pushed(w)) /\ k = Stored(w)
      BY <1>2, <1>7 DEF StoreTx, rx
    <2>2. n[w] \in 0 .. d /\ Stored(w)' = n[w] /\ d - n[w] \in 0 .. d
      BY <2>1 DEF Stored, Storing
    <2>3. \A i \in k .. SIZE + 1 : TX_BUFFER[i] = NUL
      BY DEF WrittenInv, TextInv, Text
    <2>4. CASE n[w] = 0
      <3>1. Pushed(w) = NUL
        BY <2>2, <2>4, CharIs DEF Pushed
      <3>2. k = 0
        BY <2>1, <2>4 DEF Stored
      <3>3. UNCHANGED TX_BUFFER
        <4>1. strlen(TX_BUFFER) \in 0 .. SIZE /\ NUL \in Bytes
          BY <3>2, NulIsByte
        <4> HIDE DEF k
        <4>2. \A i \in strlen(TX_BUFFER) .. SIZE + 1 : TX_BUFFER[i] = NUL
          BY <2>3 DEF k
        <4>3. Store(TX_BUFFER, strlen(TX_BUFFER), NUL) = TX_BUFFER
          BY <4>1, <4>2, RunGrows
        <4> QED
          BY <2>1, <3>1, <4>3 DEF k
      <3>4. TextInv' /\ PrefixInv'
        BY <1>1, <2>1, <3>3 DEF WrittenInv, TextInv, Text, PrefixInv
      <3> QED
        BY <1>2, <2>1, <2>2, <2>4, <3>2, <3>3, <3>4
    <2>5. CASE n[w] # 0
      <3>1. k = n[w] - 1 /\ k < SIZE /\ k \in 0 .. SIZE /\ d - n[w] < d
        BY <1>2, <2>1, <2>2, <2>5 DEF Stored
      <3>2. Pushed(w) \in Bytes \ {NUL} /\ Pushed(w) = msg[w][(d - n[w]) + 1]
        BY <2>2, <3>1, CharIs DEF Pushed
      <3>3. Pushed(w) = asked[Len(asked) - k] /\ k < Len(asked)
        <4>1. k \in 0 .. d - 1 /\ (d - n[w]) + 1 = d - k
          BY <2>2, <3>1, SMTT(30)
        <4> QED
          <5>1. Pushed(w) = msg[w][d - k] /\ k < Len(asked)
            BY <1>2, <3>2, <4>1, SMTT(30)
          <5> HIDE DEF k
          <5> QED
            BY <1>2, <4>1, <5>1
      <3>4. strlen(TX_BUFFER') = k + 1 /\ TextInv'
        BY <1>1, <2>1, <3>1, <3>2, <3>3, TextGrows DEF WrittenInv, TextInv
      <3>5. PrefixInv'
        BY <1>1, <2>1 DEF WrittenInv, PrefixInv
      <3> QED
        <4>1. strlen(TX_BUFFER') = n[w] /\ Len(rxd') = Len(asked) - d
          BY <1>2, <2>1, <2>2, <3>1, <3>4
        <4> QED
          BY <2>1, <2>2, <3>4, <3>5, <4>1
    <2> QED
      BY <2>4, <2>5
  <1>8. CASE CheckTx(w)
    <2>1. wpc[w] = "checkTx" /\ ~ LOOPBACK /\ UNCHANGED <<TX_BUFFER, rxd>> /\ k = Stored(w)
      BY <1>2, <1>8 DEF CheckTx, tx, rx
    <2>2. k = n[w] /\ n[w] \in 0 .. d
      BY <2>1 DEF Stored, Storing
    <2>3. ~ Full(TX_BUFFER)
      BY <1>2, <2>2 DEF Full
    <2>4. n'[w] = n[w] + 1 /\ wpc'[w] = (IF n[w] = d THEN "start" ELSE "index")
      BY <1>8, <2>3 DEF CheckTx, NextChar
    <2>5. Stored(w)' = n[w]
      BY <2>2, <2>4, SMTT(30) DEF Stored
    <2>6. TextInv' /\ PrefixInv'
      BY <1>1, <2>1 DEF WrittenInv, TextInv, Text, PrefixInv
    <2> QED
      <3>1. wpc'[w] \in {"start", "index"} /\ (wpc'[w] = "start" => n'[w] = d + 1)
        BY <2>4
      <3> QED
        BY <1>2, <2>1, <2>2, <2>5, <2>6, <3>1
  <1>9. CASE ClearTx(w)
    BY <1>2, <1>9 DEF ClearTx
  <1>10. CASE StoreRx(w)
    <2>1. /\ wpc[w] = "storeRx" /\ n' = n /\ UNCHANGED TX_BUFFER /\ LOOPBACK
          /\ wpc'[w] = "checkRx" /\ rxd' = Logged(rxd, Looped(w)) /\ k = 0
      BY <1>2, <1>10 DEF StoreRx, tx
    <2>2. n[w] \in 0 .. d /\ Len(rxd) = (Len(asked) - d) + n[w]
      <3>1. n[w] \in 0 .. d
        BY <2>1 DEF Storing
      <3>2. Echoed(w) = n[w]
        BY <2>1, <3>1 DEF Echoed
      <3> QED
        BY <1>2, <2>1, <3>1, <3>2
    <2>3. TextInv'
      BY <1>1, <2>1 DEF WrittenInv, TextInv, Text
    <2>4. CASE n[w] = d
      <3>1. UNCHANGED rxd
        BY <2>1, <2>2, <2>4, CharIs DEF Looped, Logged
      <3>2. PrefixInv'
        BY <1>1, <3>1 DEF WrittenInv, PrefixInv
      <3>3. Echoed(w)' = d
        BY <1>1, <2>1, <2>4 DEF Echoed
      <3> QED
        BY <2>1, <2>2, <2>3, <2>4, <3>1, <3>2, <3>3
    <2>5. CASE n[w] # d
      <3>1. Looped(w) = msg[w][n[w] + 1] /\ Looped(w) # NUL /\ Looped(w) \in Bytes
        BY <2>2, <2>5, CharIs, SMTT(30) DEF Looped
      <3>2. rxd' = Append(rxd, Looped(w)) /\ Len(rxd') = Len(rxd) + 1
        BY <2>1, <3>1 DEF Logged
      <3>3. Looped(w) = asked[Len(rxd) + 1]
        <4>1. msg[w][n[w] + 1] = asked[(Len(asked) - d) + n[w] + 1]
          <5>1. msg[w] \in Seq(Bytes \ {NUL}) /\ asked \in Seq(Bytes \ {NUL})
            OBVIOUS
          <5>2. n[w] \in 0 .. Len(msg[w]) /\ n[w] # Len(msg[w])
            BY <2>2, <2>5
          <5>3. \A i \in 0 .. Len(msg[w]) - 1 : msg[w][Len(msg[w]) - i] = asked[Len(asked) - i]
            BY <1>2
          <5> QED
            BY <5>1, <5>2, <5>3, CharFromTheEnd
        <4> QED
          BY <2>2, <3>1, <4>1
      <3>4. PrefixInv'
        <4>1. Len(rxd') <= Len(asked)
          BY <1>2, <2>2, <2>5, <3>2
        <4>2. \A i \in 1 .. Len(rxd) : rxd'[i] = asked[i]
          BY <3>1, <3>2 DEF WrittenInv, PrefixInv
        <4>3. rxd'[Len(rxd) + 1] = asked[Len(rxd) + 1]
          BY <3>1, <3>2, <3>3
        <4> QED
          BY <1>1, <3>2, <4>1, <4>2, <4>3, SMTT(30) DEF PrefixInv
      <3>5. Echoed(w)' = n[w] + 1
        BY <1>1, <2>1, <2>2, <2>5 DEF Echoed
      <3> QED
        BY <1>2, <2>1, <2>2, <2>3, <2>5, <3>2, <3>4, <3>5
    <2> QED
      BY <2>4, <2>5
  <1>11. CASE CheckRx(w) \/ ClearRx(w)
    <2>1. /\ wpc[w] \in {"checkRx", "clearRx"} /\ LOOPBACK /\ UNCHANGED <<TX_BUFFER, rxd>>
          /\ k = 0 /\ Len(rxd) = (Len(asked) - d) + Echoed(w)
      BY <1>2, <1>11 DEF CheckRx, ClearRx, tx, rx
    <2>2. TextInv' /\ PrefixInv'
      BY <1>1, <2>1 DEF WrittenInv, TextInv, Text, PrefixInv
    <2>3. n[w] \in 0 .. d
      BY <2>1 DEF Storing
    <2>4. CASE NextChar(w)
      <3>1. n'[w] = n[w] + 1 /\ wpc'[w] = (IF n[w] = d THEN "start" ELSE "index")
        BY <2>4 DEF NextChar
      <3>2. Echoed(w)' = Echoed(w)
        BY <1>1, <2>1, <2>3, <3>1 DEF Echoed
      <3>3. wpc'[w] \in {"start", "index"} /\ (wpc'[w] = "start" => n'[w] = d + 1)
        BY <3>1
      <3> QED
        BY <2>1, <2>2, <3>2, <3>3
    <2>5. CASE ~ NextChar(w)
      <3>1. wpc[w] = "checkRx" /\ wpc'[w] = "clearRx" /\ n' = n
        BY <1>11, <2>5 DEF CheckRx, ClearRx
      <3>2. Echoed(w)' = Echoed(w)
        BY <1>1, <2>1, <3>1 DEF Echoed
      <3> QED
        BY <2>1, <2>2, <3>1, <3>2
    <2> QED
      BY <2>4, <2>5
  <1>12. CASE StartTimer(w)
    <2>1. wpc[w] = "start" /\ wpc'[w] = "idle" /\ UNCHANGED <<TX_BUFFER, rxd>>
      BY <1>12 DEF StartTimer, tx, rx
    <2>2. n[w] = d + 1 /\ Stored(w) = d /\ Echoed(w) = d
      BY <1>2, <2>1 DEF Stored, Echoed
    <2>3. TextInv' /\ PrefixInv'
      BY <1>1, <2>1 DEF WrittenInv, TextInv, Text, PrefixInv
    <2>4. Len(asked) = Len(rxd) + k
      BY <1>2, <2>2
    <2> QED
      BY <2>1, <2>3, <2>4
  <1> QED
    BY <1>6, <1>7, <1>8, <1>9, <1>10, <1>11, <1>12 DEF WriterStep

(* One step per action.                                                      *)
LEMMA NextWritten ==
  ASSUME Calm, TypeInv, WrittenInv, [Next]_vars
  PROVE  WrittenInv'
  <1>1. ASSUME UNCHANGED <<line, tx, RX_DATA, rxPc, rxBit, rxd, writer>>,
               LOOPBACK' = LOOPBACK \/ NoWrite
        PROVE  WrittenInv'
    <2>1. TextInv' /\ PrefixInv' /\ AllThere'
      BY <1>1 DEF WrittenInv, TextInv, Text, PrefixInv, AllThere, InFlight, NoWrite, writer, tx
    <2>2. WriteInv'
      BY <1>1 DEF WrittenInv, WriteInv, Stored, Echoed, NoWrite, writer, tx
    <2>3. PhaseInv' /\ BitsInv'
      BY <1>1 DEF WrittenInv, PhaseInv, BitsInv, Incoming, Sending, line, writer, tx
    <2> QED
      BY <2>1, <2>2, <2>3 DEF WrittenInv
  <1>2. \A r \in Readers : CopyOut(r) \/ ClearOut(r) => WrittenInv'
    BY <1>1, ReaderLeaves DEF mode
  <1>3. SetLoopback => WrittenInv'
    BY <1>1 DEF SetLoopback, Calm, rx
  <1>4. UNCHANGED vars => WrittenInv'
    BY <1>1 DEF vars, line, writer, tx
  <1> QED
    BY <1>2, <1>3, <1>4, TxWritten, SampleWritten, StoreWritten, BeginWritten, WriterWritten
    DEF Next, FunctionTimerRX

(* For every byte width, buffer size, number of writers and readers and      *)
(* sequence of loopback switches: as long as writes start between frames,    *)
(* are not cut by ticks and fit the buffer, what the receiver stores is what *)
(* was written.                                                              *)
THEOREM WrittenIsReceived ==
  ASSUME Calm
  PROVE  SafetySpec => []ReceivedAsWritten
  <1> DEFINE Inv == TypeInv /\ WrittenInv
  <1>1. Init => Inv
    BY InitTypeInv, InitWritten
  <1>2. Inv /\ [Next]_vars => Inv'
    BY NextTypeInv, NextWritten
  <1>3. Inv => ReceivedAsWritten
    <2> SUFFICES ASSUME Inv PROVE IsPrefix(rxd, asked)
      BY DEF ReceivedAsWritten
    <2>1. SubSeq(rxd, 1, Len(rxd)) = SubSeq(asked, 1, Len(rxd))
      BY TypeFacts DEF WrittenInv, PrefixInv
    <2> QED
      BY <2>1 DEF IsPrefix, WrittenInv, PrefixInv
  <1> QED
    BY <1>1, <1>2, <1>3, PTL DEF SafetySpec
=============================================================================
