--------------------------- MODULE ChannelProofs ---------------------------
(***************************************************************************)
(* The UART programs implement ByteChannel, whatever the sizes of their    *)
(* queue and buffers.  What is under way is a concatenation of what each   *)
(* stage holds; a step moves a byte from one stage to the next, which      *)
(* changes nothing, appends to the last stage, takes from the first, or    *)
(* drops a stage.                                                          *)
(*                                                                         *)
(* In the loopback program a byte is lost only after one of its tasks was  *)
(* late: until then the places where the two tasks stand, and the delays   *)
(* that they have left, tell which register holds the byte.                *)
(***************************************************************************)
EXTENDS UartLab, SerialPort, UartLoopback, SequenceTheorems, TLAPS

(* A sequence is a prefix when its elements are the first ones.             *)
LEMMA PrefixIs ==
  ASSUME NEW S, NEW f \in Seq(S), NEW s \in Seq(S), Len(s) <= Len(f),
         \A i \in 1 .. Len(s) : f[i] = s[i]
  PROVE  SubSeq(f, 1, Len(s)) = s
<1>1. Len(s) \in Nat /\ \A i \in 1 .. Len(s) : f[i] \in S
  BY LenProperties, ElementOfSeq
<1>2. /\ SubSeq(f, 1, Len(s)) \in Seq(S) /\ Len(SubSeq(f, 1, Len(s))) = Len(s)
      /\ \A i \in 1 .. Len(s) : SubSeq(f, 1, Len(s))[i] = f[i]
  BY <1>1, SubSeqProperties
<1> QED
  BY <1>2, SeqEqual

(* A sequence is a suffix when its elements are the last ones.              *)
LEMMA SuffixIs ==
  ASSUME NEW S, NEW f \in Seq(S), NEW u \in Seq(S), NEW b \in Nat, Len(f) = b + Len(u),
         \A i \in 1 .. Len(u) : f[b + i] = u[i]
  PROVE  SubSeq(f, b + 1, Len(f)) = u
<1>1. Len(u) \in Nat /\ Len(f) \in Nat
  BY LenProperties
<1>2. \A i \in b + 1 .. Len(f) : f[i] \in S
  BY <1>1, ElementOfSeq
<1> DEFINE m == b + 1
           n == Len(f)
<1>3. m \in Int /\ n \in Int /\ n - m + 1 = Len(u) /\ (IF m <= n THEN n - m + 1 ELSE 0) = Len(u)
  BY <1>1
<1>4. \A i \in 1 .. Len(u) : m + i - 1 = b + i
  BY <1>1
<1>5. \A i \in m .. n : f[i] \in S
  BY <1>2
<1> HIDE DEF m, n
<1>6. /\ SubSeq(f, m, n) \in Seq(S) /\ Len(SubSeq(f, m, n)) = Len(u)
      /\ \A i \in 1 .. Len(u) : SubSeq(f, m, n)[i] = f[m + i - 1]
  BY <1>3, <1>5, SubSeqProperties
<1>7. SubSeq(f, m, n) = u
  <2> DEFINE g == SubSeq(f, m, n)
  <2>1. g \in Seq(S) /\ Len(g) = Len(u)
    BY <1>6
  <2>2. ASSUME NEW k \in 1 .. Len(u) PROVE g[k] = u[k]
    <3>1. g[k] = f[m + k - 1]
      BY <1>6
    <3>2. m + k - 1 = b + k
      BY <1>4
    <3>3. f[b + k] = u[k]
      OBVIOUS
    <3> QED
      BY <3>1, <3>2, <3>3
  <2> HIDE DEF g
  <2>3. g = u
    BY <2>1, <2>2, SeqEqual
  <2> QED
    BY <2>3 DEF g
<1> QED
  BY <1>7 DEF m, n

(* A stretch of f is lost: what remains is g. *)
Loses(f, g) ==
  \E a \in 0 .. Len(f) : \E b \in a .. Len(f) :
    g = SubSeq(f, 1, a) \o SubSeq(f, b + 1, Len(f))

(* So it is when of three pieces the first and the last remain.              *)
LEMMA LosingAStretch ==
  ASSUME NEW S, NEW s \in Seq(S), NEW t \in Seq(S), NEW u \in Seq(S)
  PROVE  Loses(s \o t \o u, s \o u)
<1> DEFINE f == s \o t \o u
<1>1. Len(s) \in Nat /\ Len(t) \in Nat /\ Len(u) \in Nat
  BY LenProperties
<1>2. /\ s \o t \in Seq(S) /\ Len(s \o t) = Len(s) + Len(t)
      /\ \A i \in 1 .. Len(s) : (s \o t)[i] = s[i]
  BY <1>1, ConcatProperties
<1>3. /\ f \in Seq(S) /\ Len(f) = Len(s \o t) + Len(u)
      /\ \A i \in 1 .. Len(s \o t) : f[i] = (s \o t)[i]
      /\ \A i \in 1 .. Len(u) : f[Len(s \o t) + i] = u[i]
  <2> DEFINE st == s \o t
  <2>1. st \in Seq(S) /\ Len(st) \in Nat /\ f = st \o u
    BY <1>2, LenProperties
  <2> HIDE DEF st
  <2>2. /\ f \in Seq(S) /\ Len(f) = Len(st) + Len(u)
        /\ \A i \in 1 .. Len(st) + Len(u) : f[i] =
             IF i <= Len(st) THEN st[i] ELSE u[i - Len(st)]
    BY <2>1, ConcatProperties
  <2>3. \A i \in 1 .. Len(u) : f[Len(st) + i] = u[i]
    <3> TAKE i \in 1 .. Len(u)
    <3> DEFINE k == Len(st) + i
    <3>1. k \in 1 .. Len(st) + Len(u) /\ ~(k <= Len(st)) /\ k - Len(st) = i
      BY <1>1, <2>1
    <3> HIDE DEF k
    <3>2. f[k] = u[i]
      BY <2>2, <3>1
    <3> QED
      BY <3>2 DEF k
  <2>4. \A i \in 1 .. Len(st) : f[i] = st[i]
    BY <1>1, <2>1, <2>2
  <2> QED
    BY <2>2, <2>3, <2>4 DEF st
<1>4. SubSeq(f, 1, Len(s)) = s
  BY <1>1, <1>2, <1>3, PrefixIs
<1>5. SubSeq(f, Len(s \o t) + 1, Len(f)) = u
  BY <1>1, <1>2, <1>3, SuffixIs
<1>6. Len(s) \in 0 .. Len(f) /\ Len(s \o t) \in Len(s) .. Len(f)
  BY <1>1, <1>2, <1>3
<1> HIDE DEF f
<1>7. Loses(f, s \o u)
  BY <1>4, <1>5, <1>6 DEF Loses
<1> QED
  BY <1>7 DEF f

(* Head and tail come from the first piece, if there is anything in it.     *)
LEMMA HeadTailOfConcat ==
  ASSUME NEW S, NEW s \in Seq(S), NEW t \in Seq(S), s # <<>>
  PROVE  /\ s \o t # <<>> /\ Head(s \o t) = Head(s)
         /\ Tail(s \o t) = Tail(s) \o t
<1>1. Len(s) \in Nat \ {0} /\ Len(t) \in Nat
  BY EmptySeq, LenProperties
<1> DEFINE st == s \o t
<1>2. /\ st \in Seq(S) /\ Len(st) = Len(s) + Len(t)
      /\ \A i \in 1 .. Len(s) + Len(t) : st[i] = IF i <= Len(s) THEN s[i] ELSE t[i - Len(s)]
  BY ConcatProperties
<1>3. /\ Tail(s) \in Seq(S) /\ Len(Tail(s)) = Len(s) - 1
      /\ \A i \in 1 .. Len(s) - 1 : Tail(s)[i] = s[i + 1]
  BY HeadTailProperties
<1>4. /\ Tail(s) \o t \in Seq(S) /\ Len(Tail(s) \o t) = Len(s) - 1 + Len(t)
      /\ \A i \in 1 .. Len(s) - 1 + Len(t) : (Tail(s) \o t)[i] =
           IF i <= Len(s) - 1 THEN Tail(s)[i] ELSE t[i - (Len(s) - 1)]
  <2> DEFINE ts == Tail(s)
  <2>1. ts \in Seq(S) /\ Len(ts) = Len(s) - 1
    BY <1>3
  <2> HIDE DEF ts
  <2>2. /\ ts \o t \in Seq(S) /\ Len(ts \o t) = Len(ts) + Len(t)
        /\ \A i \in 1 .. Len(ts) + Len(t) : (ts \o t)[i] =
             IF i <= Len(ts) THEN ts[i] ELSE t[i - Len(ts)]
    BY <2>1, ConcatProperties
  <2> QED
    BY <2>1, <2>2 DEF ts
<1> HIDE DEF st
<1>5. st # <<>> /\ Len(st) \in Nat \ {0}
  BY <1>1, <1>2, EmptySeq
<1>6. Tail(st) \in Seq(S) /\ Len(Tail(st)) = Len(st) - 1
      /\ \A i \in 1 .. Len(st) - 1 : Tail(st)[i] = st[i + 1]
  BY <1>2, <1>5, HeadTailProperties
<1>7. Tail(st) = Tail(s) \o t
  <2>1. Len(Tail(st)) = Len(Tail(s) \o t)
    BY <1>1, <1>2, <1>4, <1>6
  <2>2. ASSUME NEW i \in 1 .. Len(Tail(st))
        PROVE  Tail(st)[i] = (Tail(s) \o t)[i]
    <3>1. i \in 1 .. Len(s) - 1 + Len(t) /\ i + 1 \in 1 .. Len(s) + Len(t) /\ i \in Int
      BY <1>1, <1>2, <1>6
    <3>2. CASE i <= Len(s) - 1
      BY <1>1, <1>2, <1>3, <1>4, <1>6, <3>1, <3>2
    <3>3. CASE ~(i <= Len(s) - 1)
      <4>1. ~(i + 1 <= Len(s)) /\ i + 1 - Len(s) = i - (Len(s) - 1)
        BY <1>1, <3>1, <3>3
      <4> QED
        BY <1>1, <1>2, <1>4, <1>6, <3>1, <3>3, <4>1
    <3> QED
      BY <3>2, <3>3
  <2> QED
    BY <1>4, <1>6, <2>1, <2>2, SeqEqual
<1>8. Head(st) = Head(s)
  BY <1>1, <1>2, <1>5
<1> QED
  BY <1>5, <1>7, <1>8 DEF st
-----------------------------------------------------------------------------
(***************************************************************************)
(* UartLab.                                                                *)
(***************************************************************************)
LabInv ==
  /\ labRBR \in LabBytes \cup {Empty}
  /\ nextByte \in LabBytes
  /\ IER \in BOOLEAN
  /\ your_uart_rx_queue = NULL \/ your_uart_rx_queue \in Seq(LabBytes)
  /\ IER = FALSE => your_uart_rx_queue = NULL
  /\ labPc = "create" => IER
  /\ labPc \in {"poll", "read", "unread"} => IER = FALSE
  /\ labPc = "poll" => labRBR # Empty
  /\ labPc = "read" => input_byte \in LabBytes
  /\ got[1] \in {0, 1}

LabFlight == Queued \o Copied \o Register

(* The mark of an empty register is no byte of the line.                    *)
LEMMA EmptyIsNoByte == Empty \notin LabBytes /\ SLOTS \in Nat
BY UartLabAssumption DEF UartLabAssumption, Empty, LabBytes

(* A queue that was created is never taken for none.                        *)
LEMMA NullIsNoQueue == \A q \in Seq(LabBytes) : q # NULL
<1> SUFFICES ASSUME NEW q \in Seq(LabBytes), q = NULL PROVE FALSE
  OBVIOUS
<1>1. Len(q) = 1 /\ q[1] = Empty
  BY DEF NULL
<1>2. q[1] \in LabBytes
  BY <1>1, ElementOfSeq
<1> QED
  BY <1>1, <1>2, EmptyIsNoByte

(* Neither the handler nor the task makes up a byte or a queue.              *)
LEMMA LabInvHolds == LabSpec => []LabInv
<1>1. LabInit => LabInv
  <2>1. 0 \in LabBytes
    BY EmptyIsNoByte DEF LabBytes
  <2>2. LabInit => got[1] = 0
    BY DEF LabInit
  <2> QED
    BY <2>1, <2>2 DEF LabInit, LabInv
<1>2. LabInv /\ [LabNext]_labVars => LabInv'
  <2> SUFFICES ASSUME LabInv, [LabNext]_labVars
               PROVE  LabInv'
    OBVIOUS
  <2> USE EmptyIsNoByte DEF LabInv, LabStep
  <2>1. CASE uart_lab__init
    BY <2>1 DEF uart_lab__init
  <2>2. CASE LineByte
    <3>1. nextByte' \in LabBytes
      BY <2>2 DEF LineByte, LabBytes
    <3> QED
      BY <2>2, <3>1 DEF LineByte
  <2>3. CASE PollStatus
    BY <2>3 DEF PollStatus
  <2>4. CASE PollData \/ PollFalse
    BY <2>4 DEF PollData, PollFalse
  <2>10. CASE PollTrue
    <3>1. PICK b \in IF input_byte = Empty THEN LabBytes ELSE {input_byte} : GetByte(b)
      BY <2>10 DEF PollTrue
    <3> QED
      BY <2>10, <3>1 DEF PollTrue, GetByte
  <2>5. CASE EnableInterrupt
    BY <2>5 DEF EnableInterrupt
  <2>6. CASE CreateQueue
    BY <2>6 DEF CreateQueue
  <2>7. CASE your_receive_interrupt
    <3>1. ASSUME your_uart_rx_queue \in Seq(LabBytes)
          PROVE  QueueSend(your_uart_rx_queue, labRBR) \in Seq(LabBytes)
      BY <2>7, <3>1, AppendProperties DEF your_receive_interrupt, QueueSend
    <3> QED
      BY <2>7, <3>1 DEF your_receive_interrupt
  <2>8. CASE uart_lab__get_char_from_queue
    <3>1. Tail(your_uart_rx_queue) \in Seq(LabBytes)
      BY <2>8, HeadTailProperties DEF uart_lab__get_char_from_queue
    <3> QED
      BY <2>8, <3>1 DEF uart_lab__get_char_from_queue, GetByte
  <2>9. CASE UNCHANGED labVars
    BY <2>9 DEF labVars
  <2> QED
    BY <2>1, <2>2, <2>3, <2>4, <2>5, <2>6, <2>7, <2>8, <2>9, <2>10 DEF LabNext, Stopped
<1> QED
  BY <1>1, <1>2, PTL DEF LabSpec

(* What is under way is made of sequences of bytes.                         *)
LEMMA LabPieces ==
  ASSUME LabInv
  PROVE  /\ Queued \in Seq(LabBytes) /\ Register \in Seq(LabBytes)
         /\ Copied \in Seq(LabBytes)
         /\ your_uart_rx_queue # NULL => Queued = your_uart_rx_queue
         /\ LabFlight \in Seq(LabBytes)
         /\ IER = FALSE => Queued = <<>>
<1>1. Queued \in Seq(LabBytes) /\ Register \in Seq(LabBytes) /\ Copied \in Seq(LabBytes)
  BY EmptySeq DEF LabInv, Queued, Copied, Register
<1>2. Queued \o Copied \in Seq(LabBytes)
  BY <1>1, ConcatProperties
<1>3. LabFlight \in Seq(LabBytes)
  BY <1>1, <1>2, ConcatProperties DEF LabFlight
<1> QED
  BY <1>1, <1>3 DEF Queued, LabInv

(* A byte of the line that finds room is sent.                               *)
LEMMA LineByteSends ==
  ASSUME LabInv, LineByte
  PROVE  \/ nextByte \in LabBytes /\ LabFlight' = Append(LabFlight, nextByte) /\ UNCHANGED got
         \/ UNCHANGED <<LabFlight, got>>
<1> DEFINE front == Queued \o Copied
<1>0. front \in Seq(LabBytes)
  BY LabPieces, ConcatProperties
<1>1. CASE labRBR = Empty
  <2>1. Register = <<>> /\ Register' = <<nextByte>> /\ nextByte \in LabBytes
        /\ UNCHANGED <<front, got>>
    BY <1>1, EmptyIsNoByte DEF LineByte, Register, Queued, Copied, LabInv
  <2>2. LabFlight = front /\ LabFlight' = front \o <<nextByte>>
    BY <1>0, <2>1, ConcatEmptySeq DEF LabFlight
  <2> QED
    BY <1>0, <2>1, <2>2, AppendIsConcat
<1>2. CASE labRBR # Empty
  BY <1>2 DEF LineByte, LabFlight, Register, Queued, Copied
<1> QED
  BY <1>1, <1>2

(* A poll moves the byte of the register to the task's variable; if it is    *)
(* believed, the byte is delivered, if not, it is lost.                      *)
LEMMA PollMoves ==
  ASSUME LabInv, PollData \/ PollTrue \/ PollFalse
  PROVE  \/ Misled
         \/ /\ LabFlight # <<>> /\ LabFlight' = Tail(LabFlight)
            /\ got' = <<1 - got[1], Head(LabFlight)>>
         \/ /\ UNCHANGED got
            /\ LabFlight' = LabFlight \/ Loses(LabFlight, LabFlight')
<1>1. /\ Queued = <<>> /\ Queued' = <<>>
  BY LabPieces DEF LabInv, PollData, PollTrue, PollFalse, LabStep, Queued
<1>2. LabFlight = Copied \o Register
  BY <1>1, LabPieces, ConcatEmptySeq DEF LabFlight
<1>3. CASE PollData
  <2>1. /\ Copied = <<>> /\ Copied' = <<labRBR>> /\ Register = <<labRBR>> /\ Register' = <<>>
        /\ labRBR \in LabBytes /\ UNCHANGED got
    BY <1>3, EmptyIsNoByte DEF PollData, LabStep, LabInv, Copied, Register
  <2>2. <<>> \o Copied' = <<labRBR>> /\ LabFlight = <<labRBR>>
    BY <1>2, <2>1, LabPieces, ConcatEmptySeq
  <2>3. LabFlight' = <<labRBR>> \o <<>>
    BY <1>1, <2>1, <2>2 DEF LabFlight
  <2> QED
    BY <2>1, <2>2, <2>3, LabPieces, ConcatEmptySeq
<1>4. CASE labPc = "unread" /\ (PollTrue \/ PollFalse)
  <2>1. UNCHANGED <<Copied, Register>>
    BY <1>4 DEF PollTrue, PollFalse, Copied, Register
  <2>2. UNCHANGED LabFlight
    BY <1>1, <2>1 DEF LabFlight
  <2> QED
    BY <1>4, <2>2 DEF Misled, PollFalse
<1>5. CASE labPc = "read" /\ (PollTrue \/ PollFalse)
  <2>1. /\ Copied = <<input_byte>> /\ input_byte \in LabBytes /\ Copied' = <<>>
        /\ UNCHANGED Register
    BY <1>5 DEF PollTrue, PollFalse, Copied, Register, LabInv
  <2>2. LabFlight' = Register
    <3>1. LabFlight' = <<>> \o <<>> \o Register
      BY <1>1, <2>1 DEF LabFlight
    <3> QED
      BY <3>1, LabPieces, ConcatEmptySeq
  <2>3. CASE PollTrue
    <3>1. got' = <<1 - got[1], input_byte>>
      BY <2>1, <2>3, EmptyIsNoByte DEF PollTrue, GetByte
    <3>2. /\ Copied \o Register # <<>> /\ Head(Copied \o Register) = Head(Copied)
          /\ Tail(Copied \o Register) = Tail(Copied) \o Register
      BY <2>1, LabPieces, HeadTailOfConcat
    <3>3. Head(Copied) = input_byte /\ Tail(Copied) = <<>>
      BY <2>1
    <3>4. <<>> \o Register = Register
      BY LabPieces, ConcatEmptySeq
    <3>5. LabFlight' = Tail(LabFlight)
      BY <1>2, <2>2, <3>2, <3>3, <3>4
    <3> QED
      BY <1>2, <3>1, <3>2, <3>3, <3>5
  <2>4. CASE PollFalse
    <3>1. LabFlight = <<>> \o Copied \o Register /\ LabFlight' = <<>> \o Register
      BY <1>2, <2>2, LabPieces, ConcatEmptySeq
    <3>2. Loses(LabFlight, LabFlight')
      BY <3>1, LabPieces, EmptySeq, LosingAStretch
    <3> QED
      BY <2>4, <3>2 DEF PollFalse
  <2> QED
    BY <1>5, <2>3, <2>4
<1> QED
  BY <1>3, <1>4, <1>5 DEF PollTrue, PollFalse

(* The first byte of the queue is the one that the task gets.                *)
LEMMA TaskDelivers ==
  ASSUME LabInv, uart_lab__get_char_from_queue
  PROVE  /\ LabFlight # <<>> /\ LabFlight' = Tail(LabFlight)
         /\ got' = <<1 - got[1], Head(LabFlight)>>
<1> DEFINE q == your_uart_rx_queue
<1>1. /\ q # NULL /\ q # <<>> /\ q \in Seq(LabBytes) /\ Queued = q
      /\ q' = Tail(q) /\ got' = <<1 - got[1], Head(q)>> /\ UNCHANGED labRBR
  BY LabPieces DEF uart_lab__get_char_from_queue, GetByte, LabInv
<1>2. Tail(q) \in Seq(LabBytes) /\ Queued' = Tail(q) /\ Register' = Register
  BY <1>1, HeadTailProperties, NullIsNoQueue DEF Queued, Register
<1>3. Copied = <<>> /\ Copied' = <<>>
  BY DEF uart_lab__get_char_from_queue, Copied
<1>4. LabFlight = q \o Register /\ LabFlight' = Tail(q) \o Register
  BY <1>1, <1>2, <1>3, ConcatEmptySeq DEF LabFlight
<1>5. q \o Register # <<>> /\ Head(q \o Register) = Head(q)
      /\ Tail(q \o Register) = Tail(q) \o Register
  BY <1>1, LabPieces, HeadTailOfConcat
<1> QED
  BY <1>1, <1>4, <1>5

(* What else changes in a step is the register, the queue or neither: a byte *)
(* goes from one to the other, or a stretch is lost.                         *)
LEMMA HandlerMoves ==
  ASSUME LabInv, your_receive_interrupt \/ CreateQueue
  PROVE  /\ UNCHANGED got
         /\ LabFlight' = LabFlight \/ Loses(LabFlight, LabFlight')
<1>1. ASSUME NEW s \in Seq(LabBytes), NEW t \in Seq(LabBytes), NEW u \in Seq(LabBytes),
             LabFlight = s \o t \o u, LabFlight' = s \o u
      PROVE  Loses(LabFlight, LabFlight')
  BY <1>1, LosingAStretch
<1>2. <<>> \in Seq(LabBytes)
  BY EmptySeq
<1>0. Copied = <<>> /\ Copied' = <<>>
  BY DEF your_receive_interrupt, CreateQueue, LabStep, Copied, LabInv
<1>5. LabFlight = Queued \o Register
  BY <1>0, LabPieces, ConcatEmptySeq DEF LabFlight
<1>6. ASSUME NEW s \in Seq(LabBytes), Queued' = s PROVE LabFlight' = s \o Register'
  BY <1>0, <1>6, ConcatEmptySeq DEF LabFlight
<1>3. CASE CreateQueue
  <2>1. Queued' = <<>> /\ Register' = Register /\ UNCHANGED got
    BY <1>3 DEF CreateQueue, LabStep, Queued, Register, NULL
  <2>2. LabFlight' = <<>> \o Register
    BY <1>2, <1>6, <2>1
  <2>3. LabFlight = <<>> \o Queued \o Register
    BY <1>5, LabPieces, ConcatEmptySeq
  <2> QED
    BY <1>1, <1>2, <2>1, <2>2, <2>3, LabPieces
<1>4. CASE your_receive_interrupt
  <2>1. /\ labRBR \in LabBytes /\ Register = <<labRBR>> /\ Register' = <<>> /\ UNCHANGED got
    BY <1>4 DEF your_receive_interrupt, Register, LabInv
  <2>2. CASE your_uart_rx_queue = NULL
    <3>1. Queued = <<>> /\ Queued' = <<>>
      BY <1>4, <2>2 DEF your_receive_interrupt, Queued
    <3>2. LabFlight' = <<>> \o <<>>
      BY <1>2, <1>6, <2>1, <3>1
    <3>3. LabFlight = <<>> \o Register \o <<>>
      BY <1>5, <3>1, LabPieces, ConcatEmptySeq
    <3> QED
      BY <1>1, <1>2, <2>1, <3>2, <3>3, LabPieces
  <2>3. CASE your_uart_rx_queue # NULL
    <3>1. /\ your_uart_rx_queue \in Seq(LabBytes) /\ Queued = your_uart_rx_queue
          /\ your_uart_rx_queue' = QueueSend(Queued, labRBR)
      BY <1>4, <2>3 DEF your_receive_interrupt, Queued, LabInv
    <3>2. CASE Len(Queued) < SLOTS
      <4>1. your_uart_rx_queue' = Append(Queued, labRBR)
        BY <3>1, <3>2 DEF QueueSend
      <4>2. Append(Queued, labRBR) = Queued \o Register /\ Append(Queued, labRBR) \in Seq(LabBytes)
        BY <2>1, <3>1, AppendIsConcat, AppendProperties
      <4>3. Queued' = Queued \o Register /\ Queued \o Register \in Seq(LabBytes)
        BY <4>1, <4>2, NullIsNoQueue DEF Queued
      <4>4. LabFlight' = (Queued \o Register) \o <<>>
        BY <1>6, <2>1, <4>3
      <4> QED
        BY <1>5, <2>1, <4>3, <4>4, ConcatEmptySeq
    <3>3. CASE ~(Len(Queued) < SLOTS)
      <4>1. Queued' = Queued
        BY <2>3, <3>1, <3>3 DEF QueueSend, Queued
      <4>2. LabFlight' = Queued \o <<>>
        BY <1>6, <2>1, <4>1, LabPieces
      <4>3. LabFlight = Queued \o Register \o <<>>
        <5>1. LabFlight \in Seq(LabBytes)
          BY LabPieces
        <5> QED
          BY <1>5, <5>1, ConcatEmptySeq
      <4> QED
        BY <1>1, <1>2, <2>1, <4>2, <4>3, LabPieces
    <3> QED
      BY <3>2, <3>3
  <2> QED
    BY <2>2, <2>3
<1> QED
  BY <1>3, <1>4

(* Every step is one of the channel, none that it sees, or the poll that     *)
(* misleads.                                                                 *)
LEMMA LabStepsAreChannelSteps ==
  LabInv /\ [LabNext]_labVars => [Misled \/ LabChannel!Next]_(LabChannel!vars)
<1> SUFFICES ASSUME LabInv, [LabNext]_labVars
             PROVE  [Misled \/ LabChannel!Next]_(LabChannel!vars)
  OBVIOUS
<1>1. CASE LineByte
  BY <1>1, LineByteSends DEF LabChannel!Next, LabChannel!Send, LabChannel!vars, LabFlight
<1>2. CASE uart_lab__get_char_from_queue
  BY <1>2, TaskDelivers DEF LabChannel!Next, LabChannel!Deliver, LabFlight
<1>3. CASE your_receive_interrupt \/ CreateQueue
  BY <1>3, HandlerMoves DEF Loses, LabChannel!Next, LabChannel!Lose, LabChannel!vars, LabFlight
<1>4. CASE uart_lab__init \/ PollStatus \/ EnableInterrupt \/ UNCHANGED labVars
  BY <1>4 DEF uart_lab__init, PollStatus, EnableInterrupt, LabStep, labVars,
     LabChannel!vars, Queued, Copied, Register
<1>5. CASE PollData \/ PollTrue \/ PollFalse
  BY <1>5, PollMoves DEF Loses, LabChannel!Next, LabChannel!Deliver, LabChannel!Lose,
     LabChannel!vars, LabFlight
<1> QED
  BY <1>1, <1>2, <1>3, <1>4, <1>5 DEF LabNext, Stopped

(* For a queue of any length, and whatever order the task calls uart_lab.c   *)
(* in: bytes reach the task in order and at most once, but for a poll that   *)
(* read nothing and whose missing return value is taken for TRUE.            *)
THEOREM LabImplementsChannel == LabSpec => LabIsChannel
<1>1. LabInit => LabChannel!Init
  BY DEF LabInit, LabChannel!Init, Queued, Copied, Register
<1> QED
  BY <1>1, LabInvHolds, LabStepsAreChannelSteps, PTL DEF LabSpec, LabIsChannel
-----------------------------------------------------------------------------
(***************************************************************************)
(* SerialPort.                                                             *)
(***************************************************************************)
SerialInv ==
  /\ tty \in Seq(SerialBytes) /\ readBuff \in Seq(SerialBytes)
  /\ fresh \in SerialBytes
  /\ readPc = "read" => readBuff = <<>>
  /\ readPc = "print" => readBuff # <<>>

SerialFlight == readBuff \o tty

(* Both buffers take at least one byte.                                     *)
LEMMA BufferSizes == MAX_STR_LEN \in Nat \ {0} /\ TTY \in Nat \ {0}
BY SerialPortAssumption DEF SerialPortAssumption

(* A read cuts the bytes the kernel has in two.                              *)
LEMMA ReadCuts ==
  ASSUME SerialInv, ReadData
  PROVE  /\ readBuff' \in Seq(SerialBytes) /\ readBuff' # <<>> /\ tty' \in Seq(SerialBytes)
         /\ readBuff' \o tty' = tty
<1>1. tty \in Seq(SerialBytes) /\ tty # <<>> /\ Len(tty) \in Nat \ {0}
  BY EmptySeq DEF ReadData, SerialInv
<1>2. PICK len \in 1 .. Min2(Len(tty), MAX_STR_LEN) :
        readBuff' = SubSeq(tty, 1, len) /\ tty' = SubSeq(tty, len + 1, Len(tty))
  BY DEF ReadData
<1>3. len \in 1 .. Len(tty)
  BY <1>1, <1>2, BufferSizes DEF Min2
<1>4. \A i \in 1 .. Len(tty) : tty[i] \in SerialBytes
  BY <1>1, ElementOfSeq
<1>5. SubSeq(tty, 1, len) \in Seq(SerialBytes) /\ Len(SubSeq(tty, 1, len)) = len
  <2>1. 1 \in Int /\ len \in Int /\ \A i \in 1 .. len : tty[i] \in SerialBytes
    BY <1>1, <1>3, <1>4
  <2>2. /\ SubSeq(tty, 1, len) \in Seq(SerialBytes)
        /\ Len(SubSeq(tty, 1, len)) = IF 1 <= len THEN len - 1 + 1 ELSE 0
    BY <2>1, SubSeqProperties
  <2> QED
    BY <1>3, <2>2
<1>6. SubSeq(tty, len + 1, Len(tty)) \in Seq(SerialBytes)
  <2> DEFINE m == len + 1
             n == Len(tty)
  <2>1. m \in Int /\ n \in Int /\ \A i \in m .. n : tty[i] \in SerialBytes
    BY <1>1, <1>3, <1>4
  <2> HIDE DEF m, n
  <2>2. SubSeq(tty, m, n) \in Seq(SerialBytes)
    BY <2>1, SubSeqProperties
  <2> QED
    BY <2>2 DEF m, n
<1>7. SubSeq(tty, 1, len) \o SubSeq(tty, len + 1, Len(tty)) = tty
  <2>1. 1 \in 1 .. Len(tty) + 1 /\ len \in 1 - 1 .. Len(tty) /\ Len(tty) \in len .. Len(tty)
    BY <1>1, <1>3
  <2>2. SubSeq(tty, 1, len) \o SubSeq(tty, len + 1, Len(tty)) = SubSeq(tty, 1, Len(tty))
    BY <1>1, <2>1, ConcatAdjacentSubSeq
  <2> QED
    BY <1>1, <2>2, SubSeqFull
<1>8. SubSeq(tty, 1, len) # <<>>
  BY <1>3, <1>5, EmptySeq
<1> QED
  BY <1>2, <1>5, <1>6, <1>7, <1>8

(* The reader holds bytes only between a read and the printing of the last. *)
LEMMA SerialInvHolds == SerialSpec => []SerialInv
<1>1. SerialInit => SerialInv
  <2>1. 0 \in SerialBytes /\ <<>> \in Seq(SerialBytes)
    BY BufferSizes, EmptySeq DEF SerialBytes
  <2> QED
    BY <2>1 DEF SerialInit, SerialInv
<1>2. SerialInv /\ [SerialNext]_serialVars => SerialInv'
  <2> SUFFICES ASSUME SerialInv, [SerialNext]_serialVars
               PROVE  SerialInv'
    OBVIOUS
  <2>1. CASE ReadData
    BY <2>1, ReadCuts DEF ReadData, SerialInv
  <2>2. CASE ShowByte
    <3>1. Tail(readBuff) \in Seq(SerialBytes)
      BY <2>2, HeadTailProperties DEF ShowByte, SerialInv
    <3> QED
      BY <2>2, <3>1 DEF ShowByte, Rest, SerialInv
  <2>3. CASE PeerSends
    <3>1. fresh' \in SerialBytes
      BY <2>3, BufferSizes DEF PeerSends, SerialInv, SerialBytes
    <3>2. tty' \in Seq(SerialBytes)
      BY <2>3, AppendProperties DEF PeerSends, SerialInv
    <3> QED
      BY <2>3, <3>1, <3>2 DEF PeerSends, SerialInv
  <2>4. CASE OpenDevice \/ SetInterfaceAttribs \/ ReadNothing \/ ReadFails \/ EndOfFile \/ Unplug
    BY <2>4 DEF OpenDevice, SetInterfaceAttribs, ReadNothing, ReadFails, EndOfFile, Unplug,
       SerialInv
  <2>5. CASE UNCHANGED serialVars
    BY <2>5 DEF serialVars, SerialInv
  <2> QED
    BY <2>1, <2>2, <2>3, <2>4, <2>5 DEF SerialNext, readThread, sendThread, Exited
<1> QED
  BY <1>1, <1>2, PTL DEF SerialSpec

(* A read moves bytes, a byte that the kernel has room for is sent, a byte   *)
(* that is printed is the first one.                                         *)
LEMMA SerialStepsAreChannelSteps ==
  SerialInv /\ [SerialNext]_serialVars => [SerialChannel!Next]_(SerialChannel!vars)
<1> SUFFICES ASSUME SerialInv, [SerialNext]_serialVars
             PROVE  [SerialChannel!Next]_(SerialChannel!vars)
  OBVIOUS
<1>1. CASE ReadData
  <2>1. readBuff = <<>> /\ UNCHANGED shown
    BY <1>1 DEF ReadData, SerialInv
  <2>2. SerialFlight' = SerialFlight
    BY <1>1, <2>1, ReadCuts, ConcatEmptySeq DEF SerialFlight, SerialInv
  <2> QED
    BY <2>1, <2>2 DEF SerialChannel!vars, SerialFlight
<1>2. CASE ShowByte
  <2>1. /\ readBuff # <<>> /\ readBuff' = Tail(readBuff) /\ UNCHANGED tty
        /\ shown' = <<1 - shown[1], Head(readBuff)>>
    BY <1>2 DEF ShowByte, Rest, SerialInv
  <2>2. /\ SerialFlight # <<>> /\ Head(SerialFlight) = Head(readBuff)
        /\ SerialFlight' = Tail(SerialFlight)
    BY <2>1, HeadTailOfConcat DEF SerialFlight, SerialInv
  <2> QED
    BY <2>1, <2>2 DEF SerialChannel!Next, SerialChannel!Deliver, SerialFlight
<1>3. CASE PeerSends
  <2>1. UNCHANGED <<readBuff, shown>> /\ fresh \in SerialBytes
    BY <1>3 DEF PeerSends, SerialInv
  <2>2. CASE Len(tty) < TTY
    <3>1. tty' = tty \o <<fresh>>
      BY <1>3, <2>1, <2>2, AppendIsConcat DEF PeerSends, SerialInv
    <3>2. SerialFlight \in Seq(SerialBytes) /\ <<fresh>> \in Seq(SerialBytes)
      BY <2>1, ConcatProperties DEF SerialFlight, SerialInv
    <3>3. SerialFlight' = SerialFlight \o <<fresh>>
      BY <2>1, <3>1, <3>2, ConcatAssociative DEF SerialFlight, SerialInv
    <3>4. SerialFlight' = Append(SerialFlight, fresh)
      BY <2>1, <3>2, <3>3, AppendIsConcat
    <3> QED
      BY <2>1, <3>4 DEF SerialChannel!Next, SerialChannel!Send, SerialFlight
  <2>3. CASE ~(Len(tty) < TTY)
    BY <1>3, <2>1, <2>3 DEF PeerSends, SerialChannel!vars
  <2> QED
    BY <2>2, <2>3
<1>4. CASE OpenDevice \/ SetInterfaceAttribs \/ ReadNothing \/ ReadFails \/ EndOfFile \/ Unplug
  BY <1>4 DEF OpenDevice, SetInterfaceAttribs, ReadNothing, ReadFails, EndOfFile, Unplug,
     SerialChannel!vars
<1>5. CASE UNCHANGED serialVars
  BY <1>5 DEF serialVars, SerialChannel!vars
<1> QED
  BY <1>1, <1>2, <1>3, <1>4, <1>5 DEF SerialNext, readThread, sendThread, Exited

(* For buffers of any length: each byte that thread_user_block_rp3.c prints  *)
(* was received, in that order and once.                                     *)
THEOREM SerialImplementsChannel == SerialSpec => SerialIsChannel
<1>1. SerialInit => SerialChannel!Init
  BY EmptySeq, ConcatEmptySeq DEF SerialInit, SerialChannel!Init
<1> QED
  BY <1>1, SerialInvHolds, SerialStepsAreChannelSteps, PTL
     DEF SerialSpec, SerialIsChannel, SerialChannel!Safety
-----------------------------------------------------------------------------
(***************************************************************************)
(* UartLoopback.                                                           *)
(***************************************************************************)
LoopInv ==
  /\ THR \in LoopBytes \cup {NONE} /\ TSR \in LoopBytes \cup {NONE}
  /\ RBR \in LoopBytes \cup {NONE} /\ byte_read \in LoopBytes \cup {NONE}
  /\ index \in LoopBytes
  /\ rpc \in {"main", "get", "again", "print"}
  /\ wpc = "main" <=> rpc = "main"
  /\ byte_read = NONE <=> rpc \in {"main", "get"}

LoopFlight == Held(byte_read) \o Held(RBR) \o Held(TSR) \o Held(THR)

(* The mark of an empty register is no byte of the string.                  *)
LEMMA NoneIsNoByte == NONE \notin LoopBytes /\ LENGTH \in Nat \ {0}
BY UartLoopbackAssumption DEF UartLoopbackAssumption, NONE, LoopBytes

(* Between two bytes the reader holds none; while it waits for the second    *)
(* it holds the first.                                                       *)
LEMMA LoopInvHolds == LoopSpec => []LoopInv
<1>1. LoopInit => LoopInv
  <2>1. 0 \in LoopBytes
    BY NoneIsNoByte DEF LoopBytes
  <2> QED
    BY <2>1 DEF LoopInit, LoopInv
<1>2. LoopInv /\ [LoopNext]_loopVars => LoopInv'
  <2> SUFFICES ASSUME LoopInv, [LoopNext]_loopVars
               PROVE  LoopInv'
    OBVIOUS
  <2> USE NoneIsNoByte DEF LoopInv, uart, writer, reader
  <2>1. CASE StartScheduler
    BY <2>1 DEF StartScheduler, Started
  <2>2. CASE Put
    BY <2>2 DEF Put
  <2>3. CASE PutReturns
    <3>1. index' \in LoopBytes
      BY <2>3 DEF PutReturns, LoopBytes
    <3> QED
      BY <2>3, <3>1 DEF PutReturns
  <2>4. CASE Get
    BY <2>4 DEF Get
  <2>5. CASE GetReturns
    BY <2>5 DEF GetReturns, AfterWait
  <2>6. CASE PrintByte
    BY <2>6 DEF PrintByte
  <2>7. CASE Shift
    BY <2>7 DEF Shift
  <2>8. CASE Arrive
    BY <2>8 DEF Arrive
  <2>9. CASE Tick \/ UNCHANGED loopVars
    BY <2>9 DEF Tick, loopVars
  <2> QED
    BY <2>1, <2>2, <2>3, <2>4, <2>5, <2>6, <2>7, <2>8, <2>9
       DEF LoopNext, uart_write_task, uart_read_task
<1> QED
  BY <1>1, <1>2, PTL DEF LoopSpec

(* What is under way is made of sequences of bytes.                         *)
LEMMA LoopPieces ==
  ASSUME LoopInv
  PROVE  /\ Held(byte_read) \in Seq(LoopBytes) /\ Held(RBR) \in Seq(LoopBytes)
         /\ Held(TSR) \in Seq(LoopBytes) /\ Held(THR) \in Seq(LoopBytes)
         /\ Held(byte_read) \o Held(RBR) \in Seq(LoopBytes)
         /\ Held(byte_read) \o Held(RBR) \o Held(TSR) \in Seq(LoopBytes)
<1>1. /\ Held(byte_read) \in Seq(LoopBytes) /\ Held(RBR) \in Seq(LoopBytes)
      /\ Held(TSR) \in Seq(LoopBytes) /\ Held(THR) \in Seq(LoopBytes)
  BY EmptySeq DEF LoopInv, Held
<1>2. Held(byte_read) \o Held(RBR) \in Seq(LoopBytes)
  BY <1>1, ConcatProperties
<1> QED
  BY <1>1, <1>2, ConcatProperties

(* A byte that goes on to the next place, which is free, stays where it is   *)
(* among the others.                                                         *)
LEMMA ByteMovesOn ==
  ASSUME LoopInv, Get \/ Shift \/ (Arrive /\ RBR = NONE)
  PROVE  UNCHANGED <<LoopFlight, printed>>
<1> USE LoopPieces DEF LoopFlight
<1>1. CASE Get
  <2>1. /\ Held(byte_read) = <<>> /\ Held(byte_read)' = Held(RBR) /\ Held(RBR)' = <<>>
        /\ UNCHANGED <<Held(TSR), Held(THR), printed>>
    BY <1>1 DEF Get, Held, LoopInv
  <2>2. Held(byte_read) \o Held(RBR) = Held(RBR) /\ (Held(byte_read) \o Held(RBR))' = Held(RBR)
    BY <2>1, ConcatEmptySeq
  <2> QED
    BY <2>1, <2>2
<1>2. CASE Shift
  <2> DEFINE x == Held(byte_read) \o Held(RBR)
  <2>1. /\ Held(TSR) = <<>> /\ Held(TSR)' = Held(THR) /\ Held(THR)' = <<>>
        /\ UNCHANGED <<x, printed>>
    BY <1>2 DEF Shift, Held, reader
  <2>2. x \in Seq(LoopBytes) /\ x \o Held(THR) \in Seq(LoopBytes)
    BY ConcatProperties
  <2> HIDE DEF x
  <2>3. x \o Held(TSR) = x /\ (x \o Held(TSR))' = x \o Held(THR)
        /\ (x \o Held(TSR) \o Held(THR))' = x \o Held(THR)
    BY <2>1, <2>2, ConcatEmptySeq
  <2>4. UNCHANGED (x \o Held(TSR) \o Held(THR))
    BY <2>3
  <2> QED
    BY <2>1, <2>4 DEF x
<1>3. CASE Arrive /\ RBR = NONE
  <2>1. /\ Held(RBR) = <<>> /\ Held(RBR)' = Held(TSR) /\ Held(TSR)' = <<>>
        /\ UNCHANGED <<Held(byte_read), Held(THR), printed>>
    BY <1>3 DEF Arrive, Held, reader
  <2>2. Held(byte_read) \o Held(TSR) \in Seq(LoopBytes)
    BY ConcatProperties
  <2>3. /\ Held(byte_read) \o Held(RBR) = Held(byte_read)
        /\ (Held(byte_read) \o Held(RBR))' = Held(byte_read) \o Held(TSR)
    BY <2>1, ConcatEmptySeq
  <2>4. (Held(byte_read) \o Held(RBR) \o Held(TSR))' = Held(byte_read) \o Held(TSR)
    BY <2>1, <2>2, <2>3, ConcatEmptySeq
  <2> QED
    BY <2>1, <2>3, <2>4
<1> QED
  BY <1>1, <1>2, <1>3

(* A byte that finds the receive register full is lost.                      *)
LEMMA ArriveLoses ==
  ASSUME LoopInv, Arrive, RBR # NONE
  PROVE  Loses(LoopFlight, LoopFlight') /\ UNCHANGED printed
<1> DEFINE x == Held(byte_read) \o Held(RBR)
<1>1. Held(TSR)' = <<>> /\ UNCHANGED <<x, Held(THR), printed>>
  BY DEF Arrive, Held, reader
<1>2. x \in Seq(LoopBytes) /\ Held(TSR) \in Seq(LoopBytes) /\ Held(THR) \in Seq(LoopBytes)
  BY LoopPieces
<1>3. LoopFlight = x \o Held(TSR) \o Held(THR) /\ LoopFlight' = (x \o Held(TSR) \o Held(THR))'
  BY DEF LoopFlight
<1> HIDE DEF x
<1>4. (x \o Held(TSR) \o Held(THR))' = x \o Held(THR)
  BY <1>1, <1>2, ConcatEmptySeq
<1> QED
  BY <1>1, <1>2, <1>3, <1>4, LosingAStretch

(* The byte that is printed is the first.                                    *)
LEMMA PrintDelivers ==
  ASSUME LoopInv, PrintByte
  PROVE  /\ LoopFlight # <<>> /\ LoopFlight' = Tail(LoopFlight)
         /\ printed' = <<1 - printed[1], Head(LoopFlight)>>
<1> DEFINE b == Held(byte_read)
           br == b \o Held(RBR)
           brt == br \o Held(TSR)
<1>1. /\ b = <<byte_read>> /\ b' = <<>> /\ byte_read \in LoopBytes
      /\ UNCHANGED <<Held(RBR), Held(TSR), Held(THR)>>
      /\ printed' = <<1 - printed[1], byte_read>>
  BY NoneIsNoByte DEF PrintByte, Held, LoopInv, uart
<1>2. /\ b \in Seq(LoopBytes) /\ br \in Seq(LoopBytes) /\ brt \in Seq(LoopBytes)
      /\ Held(RBR) \in Seq(LoopBytes) /\ Held(TSR) \in Seq(LoopBytes)
      /\ Held(THR) \in Seq(LoopBytes)
  BY LoopPieces
<1>3. b # <<>> /\ Head(b) = byte_read /\ Tail(b) = b'
  <2>1. Len(b) = 1 /\ b[1] = byte_read /\ Len(Tail(b)) = 0 /\ Tail(b) \in Seq(LoopBytes)
    BY <1>1
  <2> QED
    BY <1>1, <1>2, <2>1, EmptySeq
<1>4. LoopFlight = brt \o Held(THR) /\ LoopFlight' = brt' \o Held(THR)
  BY <1>1 DEF LoopFlight
<1>5. br # <<>> /\ Head(br) = Head(b) /\ Tail(br) = br'
  <2>1. br # <<>> /\ Head(br) = Head(b) /\ Tail(br) = Tail(b) \o Held(RBR)
    BY <1>2, <1>3, HeadTailOfConcat
  <2>2. br' = b' \o Held(RBR)
    BY <1>1
  <2> QED
    BY <1>3, <2>1, <2>2
<1>6. brt # <<>> /\ Head(brt) = Head(br) /\ Tail(brt) = brt'
  <2>1. brt' = br' \o Held(TSR)
    BY <1>1
  <2> HIDE DEF b, br
  <2>2. brt # <<>> /\ Head(brt) = Head(br) /\ Tail(brt) = Tail(br) \o Held(TSR)
    BY <1>2, <1>5, HeadTailOfConcat
  <2> QED
    BY <1>5, <2>1, <2>2
<1> HIDE DEF b, br, brt
<1>7. /\ brt \o Held(THR) # <<>> /\ Head(brt \o Held(THR)) = Head(brt)
      /\ Tail(brt \o Held(THR)) = Tail(brt) \o Held(THR)
  BY <1>2, <1>6, HeadTailOfConcat
<1> QED
  BY <1>1, <1>3, <1>4, <1>5, <1>6, <1>7

(* Every step is one of the channel, or none that it sees.                  *)
LEMMA LoopStepsAreChannelSteps ==
  LoopInv /\ [LoopNext]_loopVars => [LoopChannel!Next]_(LoopChannel!vars)
<1> SUFFICES ASSUME LoopInv, [LoopNext]_loopVars
             PROVE  [LoopChannel!Next]_(LoopChannel!vars)
  OBVIOUS
<1>1. CASE Put
  <2>1. /\ LoopFlight' = Append(LoopFlight, index) /\ index \in LoopBytes /\ UNCHANGED printed
    <3> DEFINE x == Held(byte_read) \o Held(RBR) \o Held(TSR)
    <3>1. /\ Held(THR) = <<>> /\ Held(THR)' = <<index>> /\ index \in LoopBytes
          /\ UNCHANGED <<x, printed>>
      BY <1>1, NoneIsNoByte DEF Put, Held, reader, LoopInv
    <3>2. x \in Seq(LoopBytes) /\ LoopFlight = x \o Held(THR) /\ LoopFlight' = (x \o Held(THR))'
      BY LoopPieces DEF LoopFlight
    <3> HIDE DEF x
    <3>3. LoopFlight = x /\ LoopFlight' = x \o <<index>>
      BY <3>1, <3>2, ConcatEmptySeq
    <3> QED
      BY <3>1, <3>2, <3>3, AppendIsConcat
  <2> QED
    BY <2>1 DEF LoopChannel!Next, LoopChannel!Send, LoopFlight
<1>2. CASE Get \/ Shift \/ (Arrive /\ RBR = NONE)
  BY <1>2, ByteMovesOn DEF LoopFlight, LoopChannel!vars
<1>3. CASE Arrive /\ RBR # NONE
  BY <1>3, ArriveLoses DEF Loses, LoopFlight, LoopChannel!Next, LoopChannel!Lose
<1>4. CASE PrintByte
  BY <1>4, PrintDelivers DEF LoopFlight, LoopChannel!Next, LoopChannel!Deliver
<1>5. CASE StartScheduler \/ PutReturns \/ GetReturns \/ Tick \/ UNCHANGED loopVars
  BY <1>5 DEF StartScheduler, PutReturns, GetReturns, AfterWait, Tick, loopVars, uart, reader,
     LoopChannel!vars
<1> QED
  BY <1>1, <1>2, <1>3, <1>4, <1>5 DEF LoopNext, uart_write_task, uart_read_task

(* For a string of any length and delays of any: the loopback program prints *)
(* what it sent, in that order, none twice.                                  *)
THEOREM LoopImplementsChannel == LoopSpec => LoopIsChannel
<1>1. LoopInit => LoopChannel!Init
  BY EmptySeq, ConcatEmptySeq DEF LoopInit, LoopChannel!Init, Held
<1> QED
  BY <1>1, LoopInvHolds, LoopStepsAreChannelSteps, PTL
     DEF LoopSpec, LoopIsChannel, LoopChannel!Safety

-----------------------------------------------------------------------------
(* As long as nothing is late: a byte is on the line only while the writer   *)
(* waits for it or has just begun to sleep; the reader sleeps as long as the *)
(* writer; and what it has not fetched is either new or from the period      *)
(* before, when both have woken up.                                          *)
Punctual ==
  ~ overtaken =>
    /\ ~ lost
    /\ wpc = "main" => THR = NONE /\ TSR = NONE /\ RBR = NONE /\ wDelay = 0 /\ rDelay = 0
    /\ wpc = "sent" => wDelay = 0
    /\ THR # NONE => wpc = "sent" /\ TSR = NONE
    /\ TSR # NONE => wpc = "sent" \/ wDelay = DELAY
    /\ rDelay > 0 => rDelay = wDelay /\ rpc = "get" /\ TSR = NONE /\ THR = NONE
    /\ RBR # NONE /\ rDelay = 0 => (rpc = "get" /\ wDelay = 0) \/ wDelay = DELAY
    /\ rpc = "again" /\ RBR # NONE => TSR = NONE /\ THR = NONE /\ wDelay = DELAY
    /\ rpc = "print" => RBR # NONE /\ rDelay = 0 /\ TSR = NONE /\ THR = NONE /\ wDelay = DELAY

LateInv ==
  /\ wDelay \in Nat /\ rDelay \in Nat
  /\ overtaken \in BOOLEAN /\ lost \in BOOLEAN
  /\ wpc \in {"main", "put", "sent"} /\ rpc \in {"main", "get", "again", "print"}
  /\ wpc = "main" <=> rpc = "main"
  /\ Punctual

(* Nothing is late, and nothing lost, when the scheduler starts.             *)
LEMMA LateStarts == LoopInit => LateInv
<1> SUFFICES ASSUME LoopInit PROVE LateInv
  OBVIOUS
<1>1. Punctual
  BY DEF LoopInit, Punctual
<1> QED
  BY <1>1 DEF LoopInit, LateInv

(* One step per action.                                                      *)
LEMMA LateSteps == LateInv /\ [LoopNext]_loopVars => LateInv'
<1> SUFFICES ASSUME LateInv, [LoopNext]_loopVars PROVE LateInv'
  OBVIOUS
<1>0. DELAY \in Nat \ {0}
  BY UartLoopbackAssumption
<1> USE <1>0, NoneIsNoByte DEF LateInv, Punctual, uart, writer, reader, Started
<1>1. CASE StartScheduler
  BY <1>1 DEF StartScheduler
<1>2. CASE Put
  <2>1. THR' # NONE => (wpc' = "sent" /\ TSR' = NONE) \/ overtaken'
    BY <1>2 DEF Put, WriterRuns
  <2> QED
    BY <1>2, <2>1 DEF Put, WriterRuns
<1>3. CASE PutReturns
  BY <1>3 DEF PutReturns, WriterRuns, vTaskDelay
<1>4. CASE Get
  BY <1>4 DEF Get, ReaderRuns, WriterRuns
<1>5. CASE GetReturns
  BY <1>5 DEF GetReturns, ReaderRuns, WriterRuns
<1>6. CASE PrintByte
  BY <1>6 DEF PrintByte, PrintDelay, ReaderRuns, WriterRuns
<1>7. CASE Shift
  BY <1>7 DEF Shift
<1>8. CASE Arrive
  <2>1. /\ overtaken' = (overtaken \/ Overdue) /\ lost' = (lost \/ RBR # NONE) /\ TSR # NONE /\ TSR' = NONE
        /\ RBR' = (IF RBR = NONE THEN TSR ELSE RBR) /\ UNCHANGED <<THR, writer, reader>>
    BY <1>8 DEF Arrive
  <2>2. LateInv' \/ ~ overtaken'
    BY <2>1 DEF Overdue, WriterRuns, ReaderRuns
  <2>3. CASE ~ overtaken'
    <3>1. ~ overtaken /\ ~ Overdue
      BY <2>1, <2>3
    <3>2. wpc # "main"
      BY <2>1, <3>1
    <3>3. wpc # "sent"
      BY <2>1, <3>1 DEF Overdue, WriterRuns
    <3>4. wDelay = DELAY /\ THR = NONE /\ rDelay = 0
      BY <2>1, <3>1, <3>3
    <3>5. RBR = NONE
      BY <3>1, <3>2, <3>4 DEF Overdue, WriterRuns, ReaderRuns
    <3>6. ~ lost' /\ lost' \in BOOLEAN /\ overtaken' \in BOOLEAN
      BY <2>1, <2>3, <3>1, <3>5
    <3> QED
      BY <2>1, <3>1, <3>2, <3>3, <3>4, <3>5, <3>6
  <2> QED
    BY <2>2, <2>3
<1>9. CASE Tick
  <2>1. /\ overtaken' = (overtaken \/ Overdue \/ THR # NONE \/ TSR # NONE) /\ lost' = lost /\ wpc # "main"
        /\ wDelay' = Down(wDelay) /\ rDelay' = Down(rDelay)
        /\ UNCHANGED <<THR, TSR, RBR, wpc, rpc>>
    BY <1>9 DEF Tick
  <2>2. wDelay' \in Nat /\ rDelay' \in Nat /\ overtaken' \in BOOLEAN
    BY <2>1 DEF Down
  <2>3. CASE overtaken'
    BY <2>1, <2>2, <2>3
  <2>4. CASE ~ overtaken'
    <3>1. ~ overtaken /\ ~ Overdue /\ THR = NONE /\ TSR = NONE
      BY <2>1, <2>4
    <3>2. wDelay > 0
      BY <2>1, <3>1 DEF Overdue, WriterRuns
    <3>3. rDelay = 0 => RBR = NONE /\ rpc # "print"
      BY <2>1, <3>1, <3>2 DEF Overdue, ReaderRuns, WriterRuns
    <3>4. rDelay > 0 => rDelay = wDelay /\ rpc = "get"
      BY <3>1
    <3> QED
      BY <2>1, <2>2, <3>1, <3>2, <3>3, <3>4 DEF Down
  <2> QED
    BY <2>2, <2>3, <2>4
<1>10. CASE UNCHANGED loopVars
  BY <1>10 DEF loopVars
<1> QED
  BY <1>1, <1>2, <1>3, <1>4, <1>5, <1>6, <1>7, <1>8, <1>9, <1>10
  DEF LoopNext, uart_write_task, uart_read_task

(* Whatever the string and the delay, as long as it is the same for both     *)
(* tasks (main.c:34 and 55): only lateness loses a byte.                     *)
THEOREM OnlyLatenessLoses == LoopSpec => []LossIsLateness
<1>1. LateInv => LossIsLateness
  BY DEF LateInv, Punctual, LossIsLateness
<1> QED
  BY <1>1, LateStarts, LateSteps, PTL DEF LoopSpec
=============================================================================
