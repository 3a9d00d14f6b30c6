--------------------------- MODULE Dht11kmProofs ---------------------------
(***************************************************************************)
(* Theorems about the first DHT11 driver, for every number of processes,   *)
(* byte width, retry limit and set of pulse lengths.                       *)
(*                                                                         *)
(* What the handler takes apart into bytes and bits is put together again  *)
(* with the place of the next bit; who has the handler installed is at a   *)
(* place between its set-up and its clear, and until a request is refused  *)
(* there is only one such process; and with opens that are spaced the use  *)
(* count is that of the one session.                                       *)
(***************************************************************************)
EXTENDS Dht11km, SequenceTheorems, TLAPS

USE Dht11kmAssumption, ByteAssumption

-----------------------------------------------------------------------------
(* A cleared reading is one.                                                 *)
LEMMA ZeroIsReading == ZeroReading \in [Fields -> Bytes]
  BY DEF ZeroReading, Bytes

(* A bit that is set leaves a reading a reading.                             *)
LEMMA SetBitType ==
  ASSUME NEW d \in [Fields -> Bytes], NEW f \in Fields, NEW i \in 0 .. BYTE - 1
  PROVE  [d EXCEPT ![f][i] = 1] \in [Fields -> Bytes]
  BY DEF Bytes

(* The driver is loaded with its variables in range.                         *)
LEMMA InitTypeOK == Init => TypeOK
  <1> SUFFICES ASSUME Init PROVE TypeOK
    OBVIOUS
  <1>1. /\ count \in [Procs -> Int]
        /\ pc \in [Procs -> {"closed", "enter", "inc", "start", "setup", "check", "clear",
                            "reportOK", "reportBAD", "open", "dec", "closing"}]
        /\ retry \in [Procs -> 0 .. MAX_RETRY - 1]
    BY DEF Init
  <1>2. bitcount \in 0 .. BYTE - 1 /\ falls \in 0 .. MaxFalls
    BY DEF Init
  <1>3. msg \in [values : [Fields -> Bytes], result : {"none", "OK", "BAD"}]
    BY ZeroIsReading DEF Init
  <1>4. /\ irq \in BOOLEAN /\ rising \in BOOLEAN /\ falling \in BOOLEAN
        /\ refused \in BOOLEAN /\ started \in BOOLEAN
    BY DEF Init
  <1>5. /\ Device_Open \in Int /\ bytecount \in Nat /\ msgPtr \in {0, 1}
        /\ dht \in [Fields -> Bytes]
    BY ZeroIsReading DEF Init
  <1> QED
    BY <1>1, <1>2, <1>3, <1>4, <1>5 DEF TypeOK

(* The place of the next bit: eight bits, and the next byte begins.          *)
LEMMA NextPlace ==
  ASSUME TypeOK, NEW data \in Widths, TakeBit(data)
  PROVE  /\ bitcount' \in 0 .. BYTE - 1 /\ bytecount' \in Nat
         /\ bitcount + 1 = BYTE => bitcount' = 0 /\ bytecount' = bytecount + 1
         /\ bitcount + 1 # BYTE => bitcount' = bitcount + 1 /\ bytecount' = bytecount
  <1>1. bitcount + 1 = BYTE => (bitcount + 1) % BYTE = 0
    OBVIOUS
  <1>2. bitcount \in Nat /\ bitcount < BYTE /\ bytecount \in Nat
    BY DEF TypeOK
  <1>3. bitcount + 1 # BYTE => (bitcount + 1) % BYTE = bitcount + 1
    <2>1. \A a \in 0 .. BYTE - 1 : a % BYTE = a
      OBVIOUS
    <2> QED
      BY <1>2, <2>1
  <1>4. /\ bitcount' = (bitcount + 1) % BYTE
        /\ bytecount' = IF bitcount + 1 = BYTE THEN bytecount + 1 ELSE bytecount
    BY DEF TakeBit, NextBit
  <1> QED
    BY <1>1, <1>2, <1>3, <1>4

(* A retry is counted only if it is not the last.                            *)
LEMMA NextTypeOK == TypeOK /\ [Next]_vars => TypeOK'
  <1> SUFFICES ASSUME TypeOK, [Next]_vars PROVE TypeOK'
    OBVIOUS
  <1> USE DEF TypeOK, users, edges, capture, message, Goto
  <1>1. CASE RisingEdge
    BY <1>1 DEF RisingEdge
  <1>2. CASE FallingEdge
    <2>1. PICK data \in Widths :
            IF IsDataPulse(data) THEN TakeBit(data)
            ELSE UNCHANGED <<bitcount, bytecount, dht, recorded>>
      BY <1>2 DEF FallingEdge
    <2>2. falls' \in 0 .. MaxFalls
      BY <1>2 DEF FallingEdge
    <2>3. CASE IsDataPulse(data)
      <3>1. bitcount' \in 0 .. BYTE - 1 /\ bytecount' \in Nat
        BY <2>1, <2>3, NextPlace
      <3>2. dht' \in [Fields -> Bytes]
        <4>1. CASE data > 60 /\ bytecount \in Fields
          <5>1. dht' = [dht EXCEPT ![bytecount][bitcount] = 1]
            BY <2>1, <2>3, <4>1 DEF TakeBit
          <5> QED
            BY <4>1, <5>1, SetBitType
        <4>2. CASE ~(data > 60 /\ bytecount \in Fields)
          BY <2>1, <2>3, <4>2 DEF TakeBit
        <4> QED
          BY <4>1, <4>2
      <3> QED
        BY <1>2, <2>2, <3>1, <3>2 DEF FallingEdge
    <2>4. CASE ~IsDataPulse(data)
      BY <1>2, <2>1, <2>2, <2>4 DEF FallingEdge
    <2> QED
      BY <2>3, <2>4
  <1>3. ASSUME NEW p \in Procs, OpenStep(p) PROVE TypeOK'
    <2>1. CASE LoadForIncrement(p) \/ StoreIncrement(p)
      BY <2>1 DEF LoadForIncrement, StoreIncrement
    <2>2. CASE StartRead(p)
      <3>1. 0 \in 0 .. BYTE - 1 /\ 0 \in 0 .. MaxFalls
        OBVIOUS
      <3> QED
        BY <2>2, <3>1, ZeroIsReading DEF StartRead, ClearFrame
    <2>3. CASE SetUp(p)
      BY <2>3 DEF SetUp, setup_interrupts, Obtained, Refused
    <2>4. CASE CheckGood(p) \/ CheckLast(p)
      BY <2>4 DEF CheckGood, CheckLast
    <2>5. CASE CheckBad(p)
      <3>1. retry[p] + 1 \in 0 .. MAX_RETRY - 1
        BY <2>5 DEF CheckBad, LastTry
      <3>2. retry' \in [Procs -> 0 .. MAX_RETRY - 1]
        BY <2>5, <3>1 DEF CheckBad, CountTry
      <3> QED
        BY <2>5, <3>2 DEF CheckBad
    <2>6. CASE ClearAndRetry(p)
      BY <2>6 DEF ClearAndRetry, clear_interrupts
    <2>7. ASSUME NEW result \in {"OK", "BAD"}, Report(p, result) PROVE TypeOK'
      <3>1. msg' \in [values : [Fields -> Bytes], result : {"none", "OK", "BAD"}]
        BY <2>7 DEF Report
      <3>2. retry' \in [Procs -> 0 .. MAX_RETRY - 1]
        BY <2>7 DEF Report
      <3> QED
        BY <2>7, <3>1, <3>2 DEF Report
    <2> QED
      BY <1>3, <2>1, <2>2, <2>3, <2>4, <2>5, <2>6, <2>7 DEF OpenStep
  <1>4. ASSUME NEW p \in Procs,
               OpenBusy(p) \/ TestOpen(p) \/ ReadEof(p) \/ ReadMsg(p) \/ LoadForDecrement(p)
        PROVE  TypeOK'
    BY <1>4 DEF OpenBusy, TestOpen, ReadEof, ReadMsg, LoadForDecrement, vars
  <1>5. ASSUME NEW p \in Procs, CloseStep(p) PROVE TypeOK'
    <2>1. CASE StoreDecrement(p)
      BY <2>1 DEF StoreDecrement
    <2>2. CASE CloseClear(p)
      BY <2>2 DEF CloseClear, clear_interrupts
    <2> QED
      BY <1>5, <2>1, <2>2 DEF CloseStep
  <1>6. CASE UNCHANGED vars
    BY <1>6 DEF vars
  <1> QED
    BY <1>1, <1>2, <1>3, <1>4, <1>5, <1>6 DEF Next

(* The counters, indices and flags keep the ranges the code's types and      *)
(* tests give them, however many processes get past the test of Device_Open. *)
THEOREM TypeCorrect == SafetySpec => []TypeOK
  BY InitTypeOK, NextTypeOK, PTL DEF SafetySpec

-----------------------------------------------------------------------------
(***************************************************************************)
(* The frame.                                                              *)
(***************************************************************************)
Place(f, i) == BYTE * f + i + 1

(* The next bit goes to the place after the last one.                        *)
RecordedFits ==
  /\ recorded \in Seq({0, 1})
  /\ Len(recorded) = BYTE * bytecount + bitcount

FrameInv == RecordedFits /\ FrameAsRecorded

(* Two bits of a frame do not share a place.                                 *)
LEMMA PlaceIsUnique ==
  ASSUME NEW f \in Nat, NEW i \in 0 .. BYTE - 1, NEW g \in Nat, NEW j \in 0 .. BYTE - 1
  PROVE  /\ Place(f, i) \in Nat \ {0}
         /\ Place(f, i) = Place(g, j) => f = g /\ i = j
         /\ f > g => Place(f, i) > Place(g, j)
  <1>1. \A a, b \in Nat : a < b => BYTE * a + BYTE <= BYTE * b
    <2> TAKE a, b \in Nat
    <2> HAVE a < b
    <2>1. b - (a + 1) \in Nat /\ BYTE * (b - (a + 1)) >= 0
      OBVIOUS
    <2>2. BYTE * b = BYTE * a + BYTE + BYTE * (b - (a + 1))
      OBVIOUS
    <2> QED
      BY <2>1, <2>2
  <1>2. BYTE * f \in Nat /\ BYTE * g \in Nat
    OBVIOUS
  <1>3. f > g => BYTE * g + BYTE <= BYTE * f
    BY <1>1
  <1>4. g > f => BYTE * f + BYTE <= BYTE * g
    BY <1>1
  <1> QED
    BY <1>2, <1>3, <1>4 DEF Place

(* A bit is recorded where the list of bits says it belongs.                 *)
LEMMA TakeBitKeepsFrame ==
  ASSUME TypeOK, FrameInv, NEW data \in Widths, TakeBit(data)
  PROVE  FrameInv'
  <1> DEFINE bit == IF data > 60 THEN 1 ELSE 0
             k == Len(recorded)
  <1>1. /\ recorded' = Append(recorded, bit) /\ recorded' \in Seq({0, 1})
        /\ k \in Nat /\ Len(recorded') = k + 1 /\ recorded'[k + 1] = bit
        /\ \A l \in 1 .. k : recorded'[l] = recorded[l]
    <2>1. recorded' = Append(recorded, bit) /\ bit \in {0, 1} /\ recorded \in Seq({0, 1})
      BY DEF TakeBit, FrameInv, RecordedFits
    <2> HIDE DEF bit
    <2> QED
      BY <2>1, AppendProperties, LenProperties
  <1>2. k + 1 = Place(bytecount, bitcount)
    BY DEF FrameInv, RecordedFits, Place, TypeOK
  <1>3. Len(recorded') = BYTE * bytecount' + bitcount'
    <2>1. CASE bitcount + 1 = BYTE
      <3>1. bitcount' = 0 /\ bytecount' = bytecount + 1
        BY <2>1, NextPlace
      <3>2. BYTE * (bytecount + 1) = BYTE * bytecount + BYTE
        BY DEF TypeOK
      <3> QED
        BY <1>1, <2>1, <3>1, <3>2 DEF FrameInv, RecordedFits, TypeOK
    <2>2. CASE bitcount + 1 # BYTE
      <3>1. bitcount' = bitcount + 1 /\ bytecount' = bytecount
        BY <2>2, NextPlace
      <3> QED
        BY <1>1, <3>1 DEF FrameInv, RecordedFits, TypeOK
    <2> QED
      BY <2>1, <2>2
  <1>4. ASSUME NEW f \in Fields, NEW i \in 0 .. BYTE - 1
        PROVE  dht'[f][i] = IF Place(f, i) <= Len(recorded') THEN recorded'[Place(f, i)] ELSE 0
    <2> DEFINE l == Place(f, i)
    <2>1. l \in Nat \ {0} /\ (l = k + 1 <=> f = bytecount /\ i = bitcount)
      <3>1. f \in Nat /\ bytecount \in Nat /\ bitcount \in 0 .. BYTE - 1
        BY DEF Fields, TypeOK
      <3> QED
        BY <1>2, <3>1, PlaceIsUnique
    <2>2. dht[f][i] = IF l <= k THEN recorded[l] ELSE 0
      BY DEF FrameInv, FrameAsRecorded, Place
    <2>3. dht'[f][i] = IF data > 60 /\ l = k + 1 THEN 1 ELSE dht[f][i]
      <3>1. dht' = IF data > 60 /\ bytecount \in Fields
                   THEN [dht EXCEPT ![bytecount][bitcount] = 1] ELSE dht
        BY DEF TakeBit
      <3>2. dht \in [Fields -> Bytes] /\ dht[f] \in Bytes
        BY DEF TypeOK
      <3> QED
        BY <2>1, <3>1, <3>2 DEF Bytes
    <2> HIDE DEF l
    <2>4. CASE l = k + 1
      BY <1>1, <2>1, <2>2, <2>3, <2>4 DEF l
    <2>5. CASE l <= k
      BY <1>1, <2>1, <2>2, <2>3, <2>5 DEF l
    <2>6. CASE l > k + 1
      BY <1>1, <2>1, <2>2, <2>3, <2>6 DEF l
    <2> QED
      BY <1>1, <2>1, <2>4, <2>5, <2>6 DEF l
  <1> QED
    BY <1>1, <1>3, <1>4 DEF FrameInv, RecordedFits, FrameAsRecorded, Place

(* A cleared frame has no bit and no place for one is taken.                 *)
LEMMA ClearedFrame ==
  ASSUME NEW f \in Fields, NEW i \in 0 .. BYTE - 1
  PROVE  ZeroReading[f][i] = 0 /\ ~(BYTE * f + i + 1 <= 0)
  <1>1. f \in Nat /\ BYTE * f \in Nat
    BY DEF Fields
  <1> QED
    BY <1>1 DEF ZeroReading

(* A cleared frame records no bit.                                           *)
LEMMA StartClearsFrame == ClearFrame /\ recorded' = <<>> => FrameInv'
  <1> SUFFICES ASSUME ClearFrame, recorded' = <<>> PROVE FrameInv'
    OBVIOUS
  <1>1. recorded' \in Seq({0, 1}) /\ Len(recorded') = 0 /\ BYTE * 0 + 0 = 0
    BY EmptySeq
  <1> QED
    BY <1>1, ClearedFrame DEF ClearFrame, FrameInv, RecordedFits, FrameAsRecorded

(* Only a start pulse and a taken bit touch dht.                             *)
LEMMA NextFrameInv == TypeOK /\ FrameInv /\ [Next]_vars => FrameInv'
  <1> SUFFICES ASSUME TypeOK, FrameInv, [Next]_vars PROVE FrameInv'
    OBVIOUS
  <1> USE DEF users, edges, capture, message
  <1>1. CASE UNCHANGED <<bitcount, bytecount, dht, recorded>>
    BY <1>1 DEF FrameInv, RecordedFits, FrameAsRecorded
  <1>2. CASE FallingEdge
    BY <1>1, <1>2, TakeBitKeepsFrame DEF FallingEdge
  <1>3. ASSUME NEW p \in Procs, StartRead(p) PROVE FrameInv'
    BY <1>3, StartClearsFrame DEF StartRead
  <1>4. ASSUME NEW p \in Procs, OpenStep(p), ~StartRead(p) PROVE FrameInv'
    BY <1>1, <1>4 DEF OpenStep, LoadForIncrement, StoreIncrement, SetUp, CheckGood, CheckBad,
       CheckLast, ClearAndRetry, Report
  <1>5. CASE RisingEdge \/ UNCHANGED vars
    BY <1>1, <1>5 DEF RisingEdge, vars
  <1>6. ASSUME NEW p \in Procs,
               \/ OpenBusy(p) \/ TestOpen(p) \/ ReadEof(p) \/ ReadMsg(p)
               \/ LoadForDecrement(p) \/ CloseStep(p)
        PROVE  FrameInv'
    BY <1>1, <1>6 DEF OpenBusy, TestOpen, ReadEof, ReadMsg, LoadForDecrement, CloseStep,
       StoreDecrement, CloseClear, vars
  <1> QED
    BY <1>2, <1>3, <1>4, <1>5, <1>6 DEF Next

(* Whatever edges arrive, how many and of what length, and however many      *)
(* processes start pulses: dht is the bits taken since the last one, in      *)
(* their places, and zeros.                                                  *)
THEOREM FrameIsRecorded == SafetySpec => []FrameAsRecorded
  <1>1. Init => FrameInv
    <2> SUFFICES ASSUME Init PROVE FrameInv
      OBVIOUS
    <2>1. recorded \in Seq({0, 1}) /\ Len(recorded) = 0 /\ BYTE * 0 + 0 = 0
      BY EmptySeq DEF Init
    <2> QED
      BY <2>1, ClearedFrame DEF Init, FrameInv, RecordedFits, FrameAsRecorded
  <1>2. FrameInv => FrameAsRecorded
    BY DEF FrameInv
  <1> QED
    BY <1>1, <1>2, TypeCorrect, NextFrameInv, PTL DEF SafetySpec

-----------------------------------------------------------------------------
(***************************************************************************)
(* The handler.                                                            *)
(***************************************************************************)
(* Between the set-up and the clear that takes it back. *)
Holding == {"check", "clear", "reportOK", "reportBAD", "open", "dec", "closing"}

Holds(p) == pc[p] \in Holding

(* Until a request is refused, the handler and both enables are those of the *)
(* one process that is at such a place.                                      *)
HandlerInv ==
  ~refused => /\ \A p, q \in Procs : Holds(p) /\ Holds(q) => p = q
              /\ irq <=> \E p \in Procs : Holds(p)
              /\ rising = irq /\ falling = irq

(* A step that neither sets up nor clears. *)
LEMMA SameHolder ==
  ASSUME TypeOK, HandlerInv, UNCHANGED edges, NEW p \in Procs, NEW from, NEW to,
         Goto(p, from, to), from \in Holding <=> to \in Holding
  PROVE  HandlerInv'
  <1>1. \A q \in Procs : Holds(q)' <=> Holds(q)
    BY DEF Goto, Holds, TypeOK
  <1> QED
    BY <1>1 DEF HandlerInv, edges

(* A clear takes back what its own set-up gave. *)
LEMMA ClearEndsHolding ==
  ASSUME TypeOK, HandlerInv, clear_interrupts, NEW p \in Procs, NEW from, NEW to,
         Goto(p, from, to), from \in Holding, to \notin Holding
  PROVE  HandlerInv'
  <1> SUFFICES ASSUME ~refused'
               PROVE  /\ \A q \in Procs : ~Holds(q)'
                      /\ irq' = FALSE /\ rising' = FALSE /\ falling' = FALSE
    BY DEF HandlerInv
  <1>1. ~refused /\ Holds(p)
    BY DEF clear_interrupts, Goto, Holds
  <1>2. irq = TRUE /\ rising = irq /\ falling = irq /\ \A q \in Procs : Holds(q) => q = p
    BY <1>1 DEF HandlerInv, TypeOK
  <1>3. \A q \in Procs : Holds(q)' => Holds(q) /\ q # p
    BY DEF Goto, Holds, TypeOK
  <1> QED
    BY <1>2, <1>3 DEF clear_interrupts

(* A set-up gives the handler and both enables to its process.               *)
LEMMA SetUpBeginsHolding ==
  ASSUME TypeOK, HandlerInv, NEW p \in Procs, SetUp(p)
  PROVE  HandlerInv'
  <1> SUFFICES ASSUME ~refused' PROVE HandlerInv'
    BY DEF HandlerInv
  <1>1. irq = FALSE /\ irq' = TRUE /\ rising' = TRUE /\ falling' = TRUE /\ ~refused
    BY DEF SetUp, setup_interrupts, Obtained, Refused, TypeOK
  <1>2. \A q \in Procs : ~Holds(q)
    BY <1>1 DEF HandlerInv
  <1>3. \A q \in Procs : Holds(q)' <=> q = p
    BY <1>2 DEF SetUp, Goto, Holds, Holding, TypeOK
  <1> QED
    BY <1>1, <1>3 DEF HandlerInv

(* Each set-up is cleared by the process that made it.                       *)
LEMMA NextHandlerInv == TypeOK /\ HandlerInv /\ [Next]_vars => HandlerInv'
  <1> SUFFICES ASSUME TypeOK, HandlerInv, [Next]_vars PROVE HandlerInv'
    OBVIOUS
  <1>1. CASE UNCHANGED <<pc, edges>>
    BY <1>1 DEF HandlerInv, Holds, edges
  <1>2. ASSUME NEW p \in Procs, OpenStep(p) PROVE HandlerInv'
    <2>1. CASE LoadForIncrement(p) \/ StoreIncrement(p) \/ StartRead(p)
      BY <2>1, SameHolder DEF LoadForIncrement, StoreIncrement, StartRead, Holding
    <2>2. CASE SetUp(p)
      BY <2>2, SetUpBeginsHolding
    <2>3. CASE CheckGood(p) \/ CheckBad(p) \/ CheckLast(p)
      BY <2>3, SameHolder DEF CheckGood, CheckBad, CheckLast, Holding
    <2>4. CASE ClearAndRetry(p)
      BY <2>4, ClearEndsHolding DEF ClearAndRetry, Holding
    <2>5. ASSUME NEW result \in {"OK", "BAD"}, Report(p, result) PROVE HandlerInv'
      BY <2>5, SameHolder DEF Report, Holding
    <2> QED
      BY <1>2, <2>1, <2>2, <2>3, <2>4, <2>5 DEF OpenStep
  <1>3. ASSUME NEW p \in Procs, CloseStep(p) PROVE HandlerInv'
    <2>1. CASE StoreDecrement(p)
      BY <2>1, SameHolder DEF StoreDecrement, Holding
    <2>2. CASE CloseClear(p)
      BY <2>2, ClearEndsHolding DEF CloseClear, Holding
    <2> QED
      BY <1>3, <2>1, <2>2 DEF CloseStep
  <1>4. ASSUME NEW p \in Procs, TestOpen(p) \/ LoadForDecrement(p) PROVE HandlerInv'
    BY <1>4, SameHolder DEF TestOpen, LoadForDecrement, Holding
  <1>5. ASSUME NEW p \in Procs, OpenBusy(p) \/ ReadEof(p) \/ ReadMsg(p) PROVE HandlerInv'
    BY <1>1, <1>5 DEF OpenBusy, ReadEof, ReadMsg, vars, edges
  <1>6. CASE RisingEdge \/ FallingEdge \/ UNCHANGED vars
    BY <1>1, <1>6 DEF RisingEdge, FallingEdge, vars, edges
  <1> QED
    BY <1>2, <1>3, <1>4, <1>5, <1>6 DEF Next

(* The exclusive or of every clear meets the enable of its own set-up, even  *)
(* when several processes get past the test of Device_Open, as long as each  *)
(* request_irq succeeds.                                                     *)
THEOREM EnablesFollowHandler == SafetySpec => []EdgesFollowHandler
  <1>1. Init => HandlerInv
    BY DEF Init, HandlerInv, Holds, Holding
  <1>2. HandlerInv => EdgesFollowHandler
    BY DEF HandlerInv, Holds, Holding, EdgesFollowHandler
  <1> QED
    BY <1>1, <1>2, TypeCorrect, NextHandlerInv, PTL DEF SafetySpec

-----------------------------------------------------------------------------
(***************************************************************************)
(* The refinement, for opens that are spaced.                              *)
(***************************************************************************)
OneSession == \A p, q \in Procs : InSession(p) /\ InSession(q) => p = q

Counted == {"start", "setup", "check", "clear", "reportOK", "reportBAD", "open", "dec"}

CountIsSession ==
  /\ (\E p \in Procs : pc[p] \in Counted) => Device_Open = 1
  /\ (\A p \in Procs : pc[p] \notin Counted) => Device_Open = 0
  /\ \A p \in Procs : (pc[p] = "inc" => count[p] = 0) /\ (pc[p] = "dec" => count[p] = 1)

Reported == {"open", "dec", "closing"}

SessionHasReport == \A p \in Procs : pc[p] \in Reported => msg \in Reports

SessionInv == OneSession /\ CountIsSession /\ SessionHasReport

(* No session is under way when the driver is loaded.                        *)
LEMMA InitSessionInv == Init => SessionInv
  BY DEF Init, SessionInv, OneSession, InSession, CountIsSession, Counted, SessionHasReport,
     Reported

(* Nobody else is in the middle of a session when one begins. *)
LEMMA TestFindsNobody ==
  ASSUME Spaced, SessionInv, TypeOK, NEW p \in Procs, TestOpen(p)
  PROVE  \A q \in Procs : pc[q] = "closed"
  <1>1. Device_Open = 0 /\ \A q \in Procs : pc[q] \notin {"enter", "inc", "dec", "closing"}
    BY DEF TestOpen, DeviceFree
  <1>2. \A q \in Procs : pc[q] \notin Counted
    BY <1>1 DEF SessionInv, CountIsSession
  <1> QED
    BY <1>1, <1>2 DEF TypeOK, Counted

(* A step of the process in session, which leaves the others where they are. *)
LEMMA OwnerMoves ==
  ASSUME TypeOK, SessionInv, NEW p \in Procs, NEW from, NEW to, Goto(p, from, to),
         from # "closed"
  PROVE  /\ InSession(p) /\ pc[p] = from /\ pc'[p] = to
         /\ \A q \in Procs : q # p => pc[q] = "closed" /\ pc'[q] = "closed"
  BY DEF TypeOK, SessionInv, OneSession, InSession, Goto

(* The process that has the device goes on, the others stay outside.         *)
LEMMA OwnerKeeps ==
  ASSUME TypeOK, SessionInv, NEW p \in Procs, NEW from, NEW to, Goto(p, from, to),
         from # "closed",
         Device_Open' = IF to \in Counted THEN 1 ELSE 0,
         to = "inc" => count'[p] = 0, to = "dec" => count'[p] = 1,
         to \in Reported => msg' \in Reports
  PROVE  SessionInv'
  <1>1. pc'[p] = to /\ \A q \in Procs : q # p => pc'[q] = "closed"
    BY OwnerMoves
  <1>2. OneSession'
    BY <1>1 DEF OneSession, InSession
  <1>3. CountIsSession'
    BY <1>1 DEF CountIsSession, Counted
  <1>4. SessionHasReport'
    BY <1>1 DEF SessionHasReport, Reported
  <1> QED
    BY <1>2, <1>3, <1>4 DEF SessionInv

(* Where opens keep their distance one process at a time is in session.      *)
LEMMA NextSessionInv == Spaced /\ TypeOK /\ SessionInv /\ [Next]_vars => SessionInv'
  <1> SUFFICES ASSUME Spaced, TypeOK, SessionInv, [Next]_vars PROVE SessionInv'
    OBVIOUS
  <1> USE DEF users, message
  <1>1. CASE UNCHANGED <<pc, Device_Open, count, msg>>
    BY <1>1 DEF SessionInv, OneSession, InSession, CountIsSession, Counted, SessionHasReport,
       Reported
  <1>2. ASSUME NEW p \in Procs, TestOpen(p) PROVE SessionInv'
    <2>1. /\ pc'[p] = "enter" /\ \A q \in Procs : q # p => pc'[q] = "closed"
          /\ Device_Open' = 0
      BY <1>2, TestFindsNobody DEF TestOpen, Goto, DeviceFree, TypeOK
    <2> QED
      BY <2>1 DEF SessionInv, OneSession, InSession, CountIsSession, Counted,
         SessionHasReport, Reported
  <1>3. ASSUME NEW p \in Procs, NEW from \in Counted, NEW to \in Counted \ {"dec"},
               Goto(p, from, to), UNCHANGED Device_Open, to = "open" => msg' \in Reports
        PROVE  SessionInv'
    <2>1. Device_Open = 1
      BY <1>3 DEF SessionInv, CountIsSession, Goto
    <2> QED
      BY <1>3, <2>1, OwnerKeeps DEF Counted, Reported
  <1>4. ASSUME NEW p \in Procs, LoadForIncrement(p) PROVE SessionInv'
    <2>1. Goto(p, "enter", "inc") /\ count'[p] = Device_Open /\ UNCHANGED Device_Open
      BY <1>4 DEF LoadForIncrement, TypeOK
    <2>2. \A q \in Procs : pc[q] \notin Counted
      BY <2>1, OwnerMoves DEF Counted
    <2>3. Device_Open = 0
      BY <2>2 DEF SessionInv, CountIsSession
    <2> QED
      BY <2>1, <2>3, OwnerKeeps DEF Counted, Reported
  <1>5. ASSUME NEW p \in Procs, StoreIncrement(p) PROVE SessionInv'
    <2>1. Goto(p, "inc", "start") /\ Device_Open' = count[p] + 1 /\ count[p] = 0
      BY <1>5 DEF StoreIncrement, Goto, SessionInv, CountIsSession
    <2> QED
      BY <2>1, OwnerKeeps DEF Counted, Reported
  <1>6. ASSUME NEW p \in Procs, NEW result \in {"OK", "BAD"}, Report(p, result)
        PROVE  SessionInv'
    <2>1. msg' \in Reports
      BY <1>6 DEF Report, Reports, TypeOK
    <2> QED
      BY <1>3, <1>6, <2>1 DEF Report, Counted
  <1>7. ASSUME NEW p \in Procs, OpenStep(p) PROVE SessionInv'
    <2>1. CASE StartRead(p) \/ SetUp(p) \/ ClearAndRetry(p)
      BY <1>3, <2>1 DEF StartRead, SetUp, ClearAndRetry, Counted
    <2>2. CASE CheckGood(p) \/ CheckBad(p) \/ CheckLast(p)
      BY <1>3, <2>2 DEF CheckGood, CheckBad, CheckLast, Counted
    <2> QED
      BY <1>4, <1>5, <1>6, <1>7, <2>1, <2>2 DEF OpenStep
  <1>8. ASSUME NEW p \in Procs, LoadForDecrement(p) PROVE SessionInv'
    <2>1. Goto(p, "open", "dec") /\ count'[p] = Device_Open /\ UNCHANGED <<Device_Open, msg>>
      BY <1>8 DEF LoadForDecrement, TypeOK
    <2>2. Device_Open = 1 /\ msg \in Reports
      BY <2>1 DEF Goto, SessionInv, CountIsSession, Counted, SessionHasReport, Reported
    <2> QED
      BY <2>1, <2>2, OwnerKeeps DEF Counted
  <1>9. ASSUME NEW p \in Procs, StoreDecrement(p) PROVE SessionInv'
    <2>1. Goto(p, "dec", "closing") /\ Device_Open' = count[p] - 1 /\ UNCHANGED msg
      BY <1>9 DEF StoreDecrement
    <2>2. count[p] = 1 /\ msg \in Reports
      BY <2>1 DEF Goto, SessionInv, CountIsSession, SessionHasReport, Reported
    <2> QED
      BY <2>1, <2>2, OwnerKeeps DEF Counted
  <1>10. ASSUME NEW p \in Procs, CloseClear(p) PROVE SessionInv'
    <2>1. Goto(p, "closing", "closed") /\ UNCHANGED Device_Open
      BY <1>10 DEF CloseClear
    <2>2. \A q \in Procs : pc[q] \notin Counted
      BY <2>1, OwnerMoves DEF Counted
    <2>3. Device_Open = 0
      BY <2>2 DEF SessionInv, CountIsSession
    <2> QED
      BY <2>1, <2>3, OwnerKeeps DEF Counted, Reported
  <1>11. ASSUME NEW p \in Procs, OpenBusy(p) \/ ReadEof(p) \/ ReadMsg(p) PROVE SessionInv'
    BY <1>1, <1>11 DEF OpenBusy, ReadEof, ReadMsg, vars
  <1>12. CASE RisingEdge \/ FallingEdge \/ UNCHANGED vars
    BY <1>1, <1>12 DEF RisingEdge, FallingEdge, vars
  <1> QED
    BY <1>2, <1>7, <1>8, <1>9, <1>10, <1>11, <1>12 DEF Next, CloseStep

(* What the mapping shows while p is the only process that may be in session. *)
LEMMA ViewOf ==
  ASSUME NEW p \in Procs, \A q \in Procs : q # p => pc[q] = "closed"
  PROVE  /\ SessionOwner = IF pc[p] = "closed" THEN NONE ELSE p
         /\ SessionReport = IF pc[p] \in Reported THEN msg ELSE NONE
  BY DEF SessionOwner, SessionReport, InSession, Reported

(* What the abstract device sees of a step of the only process in session.   *)
LEMMA ViewOfNext ==
  ASSUME NEW p \in Procs, \A q \in Procs : q # p => pc'[q] = "closed"
  PROVE  /\ SessionOwner' = IF pc'[p] = "closed" THEN NONE ELSE p
         /\ SessionReport' = IF pc'[p] \in Reported THEN msg' ELSE NONE
  BY DEF SessionOwner, SessionReport, InSession, Reported

(* A step within a session shows nothing but the report.                     *)
LEMMA OwnerShows ==
  ASSUME TypeOK, SessionInv, NEW p \in Procs, NEW from, NEW to, Goto(p, from, to),
         from # "closed", to # "closed", from \in Reported <=> to \in Reported,
         from \in Reported => UNCHANGED msg
  PROVE  UNCHANGED <<SessionOwner, SessionReport>>
  <1>1. /\ pc[p] = from /\ pc'[p] = to
        /\ \A q \in Procs : q # p => pc[q] = "closed" /\ pc'[q] = "closed"
    BY OwnerMoves
  <1> QED
    BY <1>1, ViewOf, ViewOfNext

(* Every step is one of the session device, or none that it can see.         *)
LEMMA NextImplements ==
    Spaced /\ TypeOK /\ TypeOK' /\ SessionInv /\ [Next]_vars
      => [DS!Next]_<<SessionOwner, SessionReport>>
  <1> SUFFICES ASSUME Spaced, TypeOK, TypeOK', SessionInv, [Next]_vars
               PROVE  \/ \E p \in Procs : DS!Acquire(p) \/ DS!Publish(p) \/ DS!Release(p)
                      \/ UNCHANGED <<SessionOwner, SessionReport>>
    BY DEF DS!Next
  <1> DEFINE Shown == \/ \E p \in Procs : DS!Acquire(p) \/ DS!Publish(p) \/ DS!Release(p)
                      \/ UNCHANGED <<SessionOwner, SessionReport>>
  <1> USE DEF users, message
  <1>1. CASE UNCHANGED <<pc, msg>>
    BY <1>1 DEF SessionOwner, SessionReport, InSession
  <1>2. ASSUME NEW p \in Procs, TestOpen(p) PROVE Shown
    <2>1. /\ pc[p] = "closed" /\ pc'[p] = "enter"
          /\ \A q \in Procs : q # p => pc[q] = "closed" /\ pc'[q] = "closed"
      BY <1>2, TestFindsNobody DEF TestOpen, Goto, TypeOK
    <2>2. /\ SessionOwner = NONE /\ SessionReport = NONE
          /\ SessionOwner' = p /\ SessionReport' = NONE
      BY <2>1, ViewOf, ViewOfNext DEF Reported
    <2> QED
      BY <2>2 DEF DS!Acquire
  <1>3. ASSUME NEW p \in Procs, NEW result \in {"OK", "BAD"}, Report(p, result) PROVE Shown
    <2>1. Goto(p, IF result = "OK" THEN "reportOK" ELSE "reportBAD", "open") /\ msg' \in Reports
      BY <1>3 DEF Report, Reports, TypeOK
    <2>2. /\ pc[p] \notin Reported /\ pc[p] # "closed" /\ pc'[p] = "open"
          /\ \A q \in Procs : q # p => pc[q] = "closed" /\ pc'[q] = "closed"
      BY <2>1, OwnerMoves DEF Reported
    <2>3. /\ SessionOwner = p /\ SessionReport = NONE
          /\ SessionOwner' = p /\ SessionReport' = msg'
      BY <2>2, ViewOf, ViewOfNext DEF Reported
    <2> QED
      BY <2>1, <2>3 DEF DS!Publish
  <1>4. ASSUME NEW p \in Procs, CloseClear(p) PROVE Shown
    <2>1. Goto(p, "closing", "closed") /\ msg \in Reports
      BY <1>4 DEF CloseClear, Goto, SessionInv, SessionHasReport, Reported
    <2>2. /\ pc[p] = "closing" /\ pc'[p] = "closed"
          /\ \A q \in Procs : q # p => pc[q] = "closed" /\ pc'[q] = "closed"
      BY <2>1, OwnerMoves
    <2>3. /\ SessionOwner = p /\ SessionReport = msg
          /\ SessionOwner' = NONE /\ SessionReport' = NONE
      BY <2>2, ViewOf, ViewOfNext DEF Reported
    <2> QED
      BY <2>1, <2>3, NoneIsNoReport DEF DS!Release
  <1>5. ASSUME NEW p \in Procs, OpenStep(p) PROVE Shown
    <2>1. CASE LoadForIncrement(p) \/ StoreIncrement(p) \/ StartRead(p) \/ SetUp(p)
      BY <2>1, OwnerShows DEF LoadForIncrement, StoreIncrement, StartRead, SetUp, Reported
    <2>2. CASE CheckGood(p) \/ CheckBad(p) \/ CheckLast(p) \/ ClearAndRetry(p)
      BY <2>2, OwnerShows DEF CheckGood, CheckBad, CheckLast, ClearAndRetry, Reported
    <2> QED
      BY <1>3, <1>5, <2>1, <2>2 DEF OpenStep
  <1>6. ASSUME NEW p \in Procs, LoadForDecrement(p) \/ StoreDecrement(p) PROVE Shown
    BY <1>6, OwnerShows DEF LoadForDecrement, StoreDecrement, Reported
  <1>7. ASSUME NEW p \in Procs, OpenBusy(p) \/ ReadEof(p) \/ ReadMsg(p) PROVE Shown
    BY <1>1, <1>7 DEF OpenBusy, ReadEof, ReadMsg, vars
  <1>8. CASE RisingEdge \/ FallingEdge \/ UNCHANGED vars
    BY <1>1, <1>8 DEF RisingEdge, FallingEdge, vars
  <1> QED
    BY <1>2, <1>4, <1>5, <1>6, <1>7, <1>8 DEF Next, CloseStep

(* Where no open begins while another open or close is between its accesses  *)
(* to Device_Open, the counter makes the driver an exclusive session device. *)
THEOREM CounterImplementsSession == ASSUME Spaced PROVE SafetySpec => ImplementsSession
  <1>1. Init => DS!Init
    BY DEF Init, DS!Init, SessionOwner, SessionReport, InSession
  <1>2. Spaced
    OBVIOUS
  <1> QED
    BY <1>1, <1>2, InitSessionInv, TypeCorrect, NextSessionInv, NextImplements, PTL
       DEF SafetySpec, ImplementsSession, DS!Safety, DS!vars
=============================================================================
