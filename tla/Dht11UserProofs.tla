--------------------------- MODULE Dht11UserProofs ---------------------------
(***************************************************************************)
(* Why no hold-up of the reader can drive j past the array, and none can   *)
(* make a reading of silence.  A transition that is counted has an edge of *)
(* its own, since laststate is the level of an edge that was counted       *)
(* already or is still to be; and of the transitions counted only every    *)
(* second one, from the fifth on, stores a bit.                            *)
(*                                                                         *)
(* A read that nothing held up has seen every phase to its end, and so has *)
(* stored the bits that were sent, each in its byte.                       *)
(***************************************************************************)
EXTENDS Dht11User, NaturalsInduction, WellFoundedInduction, TLAPS

Numbers == phase \in 0 .. LastPhase /\ i \in Nat /\ j \in Nat

(* Each transition has an edge; one that has been noticed, and not yet been  *)
(* counted, one more.                                                        *)
EdgePerTransition ==
  /\ i <= phase
  /\ userPc = "wait" /\ i = phase => laststate = digitalRead
  /\ userPc = "sample" /\ counter # LIMIT => i < phase

(* Bits are stored at the transitions 4, 6, 8 ...                            *)
BitPerPulse ==
  /\ i < 4 => j = 0
  /\ i >= 4 => 2 * j <= i - 3
  /\ i >= 4 /\ i % 2 = 0 => 2 * j <= i - 4

GoodIsCounted == good => j >= BITS

IInv == Numbers /\ EdgePerTransition /\ BitPerPulse /\ GoodIsCounted

(* The length of a frame: five bytes have some bits.                         *)
LEMMA LengthIsNat == BYTE \in Nat /\ BITS \in Nat \ {0} /\ LastPhase \in Nat
BY Dht11UserAssumption DEF Dht11UserAssumption, BITS, LastPhase

(* A read starts with nothing counted, on the level that the line rests at.  *)
LEMMA StartInv == UserInit => IInv
BY LengthIsNat DEF UserInit, IInv, Numbers, EdgePerTransition, BitPerPulse, GoodIsCounted,
   digitalRead, HIGH

(* One step per action of the reader and of the line.                        *)
LEMMA StepInv == IInv /\ [UserNext]_userVars => IInv'
<1> SUFFICES ASSUME IInv, [UserNext]_userVars
             PROVE  IInv'
  OBVIOUS
<1> USE LengthIsNat DEF IInv
<1>1. CASE EndPhase
  <2>1. /\ phase < LastPhase /\ phase' = phase + 1
        /\ UNCHANGED <<userPc, i, j, counter, laststate, good>>
    BY <1>1 DEF EndPhase, locals
  <2> QED
    BY <2>1 DEF Numbers, EdgePerTransition, BitPerPulse, GoodIsCounted
<1>2. CASE Poll
  <2>1. userPc = "wait" /\ UNCHANGED <<phase, i, j, laststate, good>>
    BY <1>2 DEF Poll
  <2>2. Numbers' /\ BitPerPulse' /\ GoodIsCounted'
    BY <2>1 DEF Numbers, BitPerPulse, GoodIsCounted
  <2>3. CASE digitalRead = laststate
    <3>1. \/ userPc' = "sample" /\ counter' = LIMIT
          \/ userPc' = "wait"
      BY <1>2, <2>3 DEF Poll, AtLimit
    <3> QED
      BY <2>1, <2>2, <2>3, <3>1 DEF EdgePerTransition, digitalRead
  <2>4. CASE digitalRead # laststate
    <3>1. userPc' = "sample"
      BY <1>2, <2>4 DEF Poll
    <3>2. i < phase
      BY <2>1, <2>4 DEF EdgePerTransition, Numbers
    <3> QED
      BY <2>1, <2>2, <3>1, <3>2 DEF EdgePerTransition
  <2> QED
    BY <2>3, <2>4
<1>3. CASE Transition
  <2>1. /\ userPc = "sample" /\ counter # LIMIT
        /\ laststate' = digitalRead
        /\ i' = i + 1
        /\ userPc' \in {"check", "wait"}
        /\ UNCHANGED <<phase, good>>
    BY <1>3 DEF Transition
  <2>2. j' = IF i >= 4 /\ i % 2 = 0 THEN j + 1 ELSE j
    BY <1>3 DEF Transition, TakesBit, StoreBit
  <2>3. Numbers'
    BY <2>1, <2>2 DEF Numbers
  <2>4. EdgePerTransition'
    BY <2>1 DEF EdgePerTransition, Numbers, digitalRead
  <2>5. BitPerPulse'
    BY <2>1, <2>2 DEF BitPerPulse, Numbers
  <2>6. GoodIsCounted'
    BY <2>1, <2>2 DEF GoodIsCounted, Numbers, BITS
  <2> QED
    BY <2>3, <2>4, <2>5, <2>6
<1>4. CASE NoTransition
  <2>1. userPc' = "check" /\ UNCHANGED <<phase, i, j, good>>
    BY <1>4 DEF NoTransition
  <2> QED
    BY <2>1 DEF Numbers, EdgePerTransition, BitPerPulse, GoodIsCounted
<1>5. CASE Check
  <2>1. /\ userPc' = "done" /\ UNCHANGED <<phase, i, j>>
        /\ good' = DataGood
    BY <1>5 DEF Check
  <2>2. GoodIsCounted'
    BY <2>1 DEF GoodIsCounted, DataGood
  <2> QED
    BY <2>1, <2>2 DEF Numbers, EdgePerTransition, BitPerPulse
<1>6. CASE ReadAgain
  <2>1. /\ phase' = 0 /\ i' = 0 /\ j' = 0 /\ userPc' = "wait"
        /\ laststate' = HIGH /\ good' = FALSE
    BY <1>6 DEF ReadAgain
  <2> QED
    BY <2>1 DEF Numbers, EdgePerTransition, BitPerPulse, GoodIsCounted, digitalRead, HIGH
<1>7. CASE UNCHANGED userVars
  BY <1>7 DEF userVars, locals, Numbers, EdgePerTransition, BitPerPulse, GoodIsCounted,
     digitalRead
<1> QED
  BY <1>1, <1>2, <1>3, <1>4, <1>5, <1>6, <1>7 DEF UserNext, read_dht11_dat

(* The invariant holds throughout, for frames of any length.                 *)
LEMMA Invariant == SafetySpec => []IInv
BY StartInv, StepInv, PTL DEF SafetySpec

(* The index j of read_dht11_dat never passes the last of the 40 bits, which *)
(* no statement there tests (USER_DHT11/dht11.c:58): a frame has 84 edges.   *)
THEOREM IndexStaysInBounds == SafetySpec => []IndexInBounds
<1>1. IInv => IndexInBounds
  BY LengthIsNat DEF IInv, Numbers, EdgePerTransition, BitPerPulse, IndexInBounds, LastPhase, BITS
<1> QED
  BY <1>1, Invariant, PTL

(* No frame that broke off before its last bit is printed as a reading       *)
(* (USER_DHT11/dht11.c:69), whatever the values left in dht11_dat.           *)
THEOREM SilenceIsNotPrinted == SafetySpec => []SilenceIsNoReading
<1>1. IInv => SilenceIsNoReading
  BY LengthIsNat DEF IInv, Numbers, EdgePerTransition, BitPerPulse, GoodIsCounted,
     SilenceIsNoReading, LastPhase
<1> QED
  BY <1>1, Invariant, PTL
-----------------------------------------------------------------------------
(***************************************************************************)
(* Why a read that nothing held up prints what was sent.  Its transitions  *)
(* are the edges of the line, each noticed at the poll that ends its       *)
(* phase, with the number of polls that the phase lasted; so the bit that  *)
(* is stored in turn j is bit j of the frame, and byte b holds the value   *)
(* of the first bits of byte b, as many of them as j has reached.          *)
(***************************************************************************)

(* f gives the values of the first 0 .. n bits of byte b in the frame s.     *)
Unfolds(s, b, n, f) ==
  f = [k \in 0 .. n |-> IF k = 0 THEN 0 ELSE 2 * f[k - 1] + s[b * BYTE + k - 1]]

Value(s, b) == CHOOSE f : Unfolds(s, b, BYTE, f)

(* What ended phase p when the reader was polling throughout.                *)
Matches(p) == IsBit(p) => (counter > THRESHOLD <=> sent[(p - 4) \div 2] = 1)

Followed ==
  /\ i \in Nat /\ j \in Nat /\ counter \in 0 .. LIMIT /\ phase \in 0 .. LastPhase
  /\ sent \in Frames
  /\ userPc \in {"wait", "sample", "check", "done"}
  /\ userPc = "wait" =>
       /\ counter < LIMIT
       /\ \/ phase = i /\ laststate = digitalRead
          \/ phase = i + 1 /\ laststate # digitalRead /\ Matches(i)
  /\ userPc = "sample" =>
       \/ phase = i /\ counter = LIMIT
       \/ phase = i + 1 /\ counter # LIMIT /\ Matches(i)
  /\ userPc \in {"check", "done"} => phase = i

(* Every second transition, from the fifth on, has stored a bit.             *)
Counted ==
  /\ i < 4 => j = 0
  /\ i >= 4 /\ i % 2 = 0 => 2 * j = i - 4
  /\ i >= 4 /\ i % 2 # 0 => 2 * j = i - 3

(* How many bits of byte b have been stored.                                 *)
Taken(n, b) ==
  IF n <= b * BYTE THEN 0 ELSE IF n >= b * BYTE + BYTE THEN BYTE ELSE n - b * BYTE

Stored == dht11_dat = [b \in 0 .. 4 |-> Value(sent, b)[Taken(j, b)]]

Printed == good \in BOOLEAN /\ (userPc = "done" => good = DataGood)

DecodedInv == stalls \in Nat /\ (stalls = 0 => Followed /\ Counted /\ Stored /\ Printed)

(* The least of some natural numbers.                                        *)
LEMMA Least ==
  ASSUME NEW T, T \subseteq Nat, T # {}
  PROVE  \E x \in T : \A y \in T : x <= y
<1>1. PICK x \in T : \A y \in T : ~ (<<y, x>> \in OpToRel(<, Nat))
  BY WFMin, NatLessThanWellFounded
<1>2. \A y \in T : ~ (y < x)
  BY <1>1 DEF OpToRel
<1> QED
  BY <1>2

(* The recursion of SentByte has a solution: each k needs only k - 1.        *)
LEMMA ValueUnfolds ==
  ASSUME NEW s, NEW b
  PROVE  \A n \in Nat : \E f : Unfolds(s, b, n, f)
<1> DEFINE T == {n \in Nat : ~ \E f : Unfolds(s, b, n, f)}
<1> SUFFICES ASSUME T # {} PROVE FALSE
  OBVIOUS
<1>1. PICK n \in T : \A m \in T : n <= m
  <2>1. T \subseteq Nat
    OBVIOUS
  <2> HIDE DEF T
  <2> QED
    BY <2>1, Least
<1>2. n # 0
  <2> SUFFICES ASSUME n = 0 PROVE FALSE
    OBVIOUS
  <2> DEFINE f == [k \in 0 .. 0 |-> 0]
  <2>1. Unfolds(s, b, 0, f)
    BY DEF Unfolds
  <2> QED
    BY <2>1
<1>3. n - 1 \in Nat /\ n - 1 \notin T
  BY <1>1, <1>2
<1>4. PICK g : Unfolds(s, b, n - 1, g)
  BY <1>3
<1> DEFINE last == 2 * g[n - 1] + s[b * BYTE + n - 1]
           f == [k \in 0 .. n |-> IF k = n THEN last ELSE g[k]]
<1>5. \A k \in 0 .. n - 1 : g[k] = IF k = 0 THEN 0 ELSE 2 * g[k - 1] + s[b * BYTE + k - 1]
  <2> DEFINE rhs == [k \in 0 .. n - 1 |-> IF k = 0 THEN 0 ELSE 2 * g[k - 1] + s[b * BYTE + k - 1]]
  <2>1. g = rhs
    BY <1>4 DEF Unfolds
  <2>2. \A k \in 0 .. n - 1 :
          rhs[k] = IF k = 0 THEN 0 ELSE 2 * g[k - 1] + s[b * BYTE + k - 1]
    OBVIOUS
  <2> HIDE DEF rhs
  <2> QED
    BY <2>1, <2>2
<1>6. \A k \in 0 .. n : f[k] = IF k = 0 THEN 0 ELSE 2 * f[k - 1] + s[b * BYTE + k - 1]
  <2> SUFFICES ASSUME NEW k \in 0 .. n
               PROVE  f[k] = IF k = 0 THEN 0 ELSE 2 * f[k - 1] + s[b * BYTE + k - 1]
    OBVIOUS
  <2>1. CASE k = n
    BY <2>1, <1>2, <1>3
  <2>2. CASE k # n /\ k # 0
    <3>1. k \in 0 .. n - 1 /\ k - 1 \in 0 .. n - 1
      BY <2>2, <1>3
    <3>2. f[k] = g[k] /\ f[k - 1] = g[k - 1]
      BY <3>1, <2>2, <1>3
    <3> QED
      BY <3>1, <3>2, <1>5, <2>2
  <2>3. CASE k # n /\ k = 0
    <3>1. k \in 0 .. n - 1
      BY <2>3, <1>3
    <3> QED
      BY <3>1, <1>5, <2>3
  <2> QED
    BY <2>1, <2>2, <2>3
<1>7. Unfolds(s, b, n, f)
  BY <1>6 DEF Unfolds
<1> QED
  BY <1>7

(* So the value of no bits is 0, and one more bit doubles it and adds itself.*)
LEMMA ValueIs ==
  ASSUME NEW s, NEW b \in 0 .. 4
  PROVE  /\ Value(s, b)[0] = 0
         /\ \A k \in 0 .. BYTE - 1 :
              Value(s, b)[k + 1] = 2 * Value(s, b)[k] + s[b * BYTE + k]
<1> DEFINE V == Value(s, b)
           rhs == [k \in 0 .. BYTE |-> IF k = 0 THEN 0 ELSE 2 * V[k - 1] + s[b * BYTE + k - 1]]
<1>1. Unfolds(s, b, BYTE, V)
  BY ValueUnfolds, LengthIsNat DEF Value
<1>2. V = rhs
  BY <1>1 DEF Unfolds
<1>3. /\ rhs[0] = 0
      /\ \A k \in 1 .. BYTE : rhs[k] = 2 * V[k - 1] + s[b * BYTE + k - 1]
  <2> HIDE DEF V
  <2>1. BYTE \in Nat
    BY LengthIsNat
  <2>2. ASSUME NEW k \in 1 .. BYTE
        PROVE  rhs[k] = 2 * V[k - 1] + s[b * BYTE + k - 1]
    <3>1. k \in 0 .. BYTE /\ k # 0
      BY <2>1
    <3>2. rhs[k] = IF k = 0 THEN 0 ELSE 2 * V[k - 1] + s[b * BYTE + k - 1]
      BY <3>1
    <3> QED
      BY <3>1, <3>2
  <2>3. rhs[0] = 0
    BY <2>1
  <2> QED
    BY <2>2, <2>3
<1> HIDE DEF rhs, V
<1>4. /\ V[0] = 0
      /\ \A k \in 1 .. BYTE : V[k] = 2 * V[k - 1] + s[b * BYTE + k - 1]
  BY <1>2, <1>3
<1>5. ASSUME NEW k \in 0 .. BYTE - 1
      PROVE  V[k + 1] = 2 * V[k] + s[b * BYTE + k]
  <2> DEFINE c == b * BYTE
  <2>1. c \in Int /\ k \in Int /\ k + 1 \in 1 .. BYTE
    BY LengthIsNat
  <2>2. V[k + 1] = 2 * V[(k + 1) - 1] + s[(c + (k + 1)) - 1]
    BY <1>4, <2>1
  <2> HIDE DEF c
  <2>3. (k + 1) - 1 = k /\ (c + (k + 1)) - 1 = c + k
    BY <2>1
  <2> QED
    BY <2>2, <2>3 DEF c
<1> QED
  BY <1>4, <1>5 DEF V

(* The byte that was sent is the value of all its bits.                      *)
LEMMA SentByteIs == \A b : SentByte(b) = Value(sent, b)[BYTE]
BY DEF SentByte, Value, Unfolds
-----------------------------------------------------------------------------
(* A bit belongs to one byte: turn n stores it there, and it is the next     *)
(* one of that byte.                                                         *)
LEMMA ByteOfTurn ==
  ASSUME NEW n \in 0 .. BITS - 1
  PROVE  /\ ByteOf(n) \in 0 .. 4
         /\ n = ByteOf(n) * BYTE + Taken(n, ByteOf(n))
         /\ Taken(n, ByteOf(n)) \in 0 .. BYTE - 1
         /\ Taken(n + 1, ByteOf(n)) = Taken(n, ByteOf(n)) + 1
         /\ \A b \in 0 .. 4 : b # ByteOf(n) => Taken(n + 1, b) = Taken(n, b)
<1>1. BYTE \in Nat \ {0} /\ n \in Nat /\ n < 5 * BYTE
  BY Dht11UserAssumption, LengthIsNat DEF Dht11UserAssumption, BITS
<1>2. \/ ByteOf(n) = 0 /\ n < BYTE
      \/ ByteOf(n) = 1 /\ BYTE <= n /\ n < 2 * BYTE
      \/ ByteOf(n) = 2 /\ 2 * BYTE <= n /\ n < 3 * BYTE
      \/ ByteOf(n) = 3 /\ 3 * BYTE <= n /\ n < 4 * BYTE
      \/ ByteOf(n) = 4 /\ 4 * BYTE <= n /\ n < 5 * BYTE
  <2>1. CASE n < BYTE
    BY <1>1, <2>1 DEF ByteOf
  <2>2. CASE BYTE <= n /\ n < 2 * BYTE
    BY <1>1, <2>2 DEF ByteOf
  <2>3. CASE 2 * BYTE <= n /\ n < 3 * BYTE
    BY <1>1, <2>3 DEF ByteOf
  <2>4. CASE 3 * BYTE <= n /\ n < 4 * BYTE
    BY <1>1, <2>4 DEF ByteOf
  <2>5. CASE 4 * BYTE <= n
    BY <1>1, <2>5 DEF ByteOf
  <2> QED
    BY <1>1, <2>1, <2>2, <2>3, <2>4, <2>5
<1>3. CASE ByteOf(n) = 0
  BY <1>1, <1>2, <1>3 DEF Taken
<1>4. CASE ByteOf(n) = 1
  BY <1>1, <1>2, <1>4 DEF Taken
<1>5. CASE ByteOf(n) = 2
  BY <1>1, <1>2, <1>5 DEF Taken
<1>6. CASE ByteOf(n) = 3
  BY <1>1, <1>2, <1>6 DEF Taken
<1>7. CASE ByteOf(n) = 4
  BY <1>1, <1>2, <1>7 DEF Taken
<1> QED
  BY <1>2, <1>3, <1>4, <1>5, <1>6, <1>7

(* Before the first turn no bit of any byte is taken, after the last one all.*)
LEMMA TakenEnds ==
  \A b \in 0 .. 4 : Taken(0, b) = 0 /\ Taken(BITS, b) = BYTE
<1> SUFFICES ASSUME NEW b \in 0 .. 4 PROVE Taken(0, b) = 0 /\ Taken(BITS, b) = BYTE
  OBVIOUS
<1>1. BYTE \in Nat \ {0} /\ BITS = 5 * BYTE /\ b \in {0, 1, 2, 3, 4}
  BY Dht11UserAssumption DEF Dht11UserAssumption, BITS
<1>2. CASE b = 0
  BY <1>1, <1>2 DEF Taken
<1>3. CASE b = 1
  BY <1>1, <1>3 DEF Taken
<1>4. CASE b = 2
  BY <1>1, <1>4 DEF Taken
<1>5. CASE b = 3
  BY <1>1, <1>5 DEF Taken
<1>6. CASE b = 4
  BY <1>1, <1>6 DEF Taken
<1> QED
  BY <1>1, <1>2, <1>3, <1>4, <1>5, <1>6

(* A read begins with no bit stored, and with nothing of its frame missed.   *)
Fresh ==
  /\ sent \in Frames /\ phase = 0 /\ stalls = 0
  /\ userPc = "wait" /\ i = 0 /\ j = 0 /\ counter = 0
  /\ laststate = HIGH /\ dht11_dat = Zeros /\ good = FALSE

(* The invariant holds for it.                                               *)
LEMMA FreshRead == Fresh => DecodedInv
<1> SUFFICES ASSUME Fresh PROVE DecodedInv
  OBVIOUS
<1> USE DEF Fresh
<1>1. Followed
  BY LengthIsNat, Dht11UserAssumption DEF Followed, digitalRead, HIGH, Dht11UserAssumption
<1>2. Counted
  BY DEF Counted
<1>3. Stored
  <2>1. \A b \in 0 .. 4 : Value(sent, b)[Taken(0, b)] = 0
    BY TakenEnds, ValueIs
  <2> QED
    BY <2>1 DEF Stored, Zeros
<1>4. Printed
  BY DEF Printed
<1> QED
  BY <1>1, <1>2, <1>3, <1>4 DEF DecodedInv

(* The first read begins like that.                                          *)
LEMMA StartDecoded == UserInit => DecodedInv
BY FreshRead DEF UserInit, Fresh

(* An edge comes while the reader waits for it, and ends the phase i.        *)
LEMMA EdgeDecoded == DecodedInv /\ EndPhase => DecodedInv'
<1> SUFFICES ASSUME DecodedInv, EndPhase, stalls' = 0
             PROVE  (Followed /\ Counted /\ Stored /\ Printed)'
  BY DEF DecodedInv, EndPhase
<1>1. /\ stalls = 0 /\ userPc = "wait" /\ digitalRead = laststate /\ InTime
      /\ phase < LastPhase /\ phase' = phase + 1
      /\ UNCHANGED <<sent, userPc, i, j, counter, laststate, dht11_dat, good>>
  BY DEF DecodedInv, EndPhase, locals
<1>2. Followed /\ Counted /\ Stored /\ Printed
  BY <1>1 DEF DecodedInv
<1>3. phase = i /\ phase \in Nat /\ Matches(i)
  BY <1>1, <1>2, LengthIsNat DEF Followed, InTime, Matches
<1>4. Matches(i)'
  BY <1>1, <1>3 DEF Matches, IsBit
<1>5. laststate # digitalRead'
  BY <1>1, <1>3 DEF digitalRead, HIGH, LOW
<1>6. Followed'
  BY <1>1, <1>2, <1>3, <1>4, <1>5, LengthIsNat DEF Followed
<1>7. Counted'
  BY <1>1, <1>2 DEF Counted
<1>8. Stored'
  BY <1>1, <1>2 DEF Stored
<1>9. Printed'
  BY <1>1, <1>2 DEF Printed
<1> QED
  BY <1>6, <1>7, <1>8, <1>9

(* A poll counts the phase that goes on, or notices that it has ended.       *)
LEMMA PollDecoded == DecodedInv /\ Poll => DecodedInv'
<1> SUFFICES ASSUME DecodedInv, Poll, stalls = 0
             PROVE  (Followed /\ Counted /\ Stored /\ Printed)'
  BY DEF DecodedInv, Poll
<1>1. /\ userPc = "wait"
      /\ UNCHANGED <<sent, phase, stalls, i, j, laststate, dht11_dat, good>>
  BY DEF Poll
<1>2. Followed /\ Counted /\ Stored /\ Printed
  BY DEF DecodedInv
<1>3. LIMIT \in Nat /\ counter \in Nat /\ counter < LIMIT
  BY <1>1, <1>2, Dht11UserAssumption DEF Followed, Dht11UserAssumption
<1>4. Followed'
  <2>1. CASE digitalRead = laststate
    <3>1. counter' = counter + 1
      BY <1>3, <2>1 DEF Poll
    <3>2. phase = i
      BY <1>1, <1>2, <2>1 DEF Followed
    <3>3. \/ counter' = LIMIT /\ userPc' = "sample"
          \/ counter' < LIMIT /\ userPc' = "wait"
      BY <1>3, <2>1, <3>1 DEF Poll, AtLimit
    <3>4. laststate' = digitalRead'
      BY <1>1, <2>1 DEF digitalRead
    <3> QED
      BY <1>1, <1>2, <1>3, <3>1, <3>2, <3>3, <3>4 DEF Followed
  <2>2. CASE digitalRead # laststate
    <3>1. userPc' = "sample" /\ counter' = counter
      BY <2>2 DEF Poll
    <3>2. phase = i + 1 /\ Matches(i)
      BY <1>1, <1>2, <2>2 DEF Followed
    <3>3. Matches(i)'
      BY <1>1, <3>1, <3>2 DEF Matches, IsBit
    <3> QED
      BY <1>1, <1>2, <1>3, <3>1, <3>2, <3>3 DEF Followed
  <2> QED
    BY <2>1, <2>2
<1>5. userPc' # "done"
  BY DEF Poll
<1> QED
  BY <1>1, <1>2, <1>4, <1>5 DEF Counted, Stored, Printed

(* The bit that a counted transition stores is the next of the frame.        *)
LEMMA BitDecoded ==
  ASSUME Followed, Counted, userPc = "sample", counter # LIMIT, TakesBit
  PROVE  j \in 0 .. BITS - 1 /\ Bit = sent[j]
<1>1. /\ phase = i + 1 /\ Matches(i) /\ i \in Nat /\ j \in Nat /\ i >= 4 /\ i % 2 = 0
      /\ 2 * j = i - 4 /\ phase <= 2 * BITS + 4 /\ BITS \in Nat /\ sent \in Frames
  BY LengthIsNat DEF Followed, Counted, TakesBit, LastPhase
<1>2. i \in 4 .. 2 * BITS + 2 /\ j \in 0 .. BITS - 1 /\ (i - 4) \div 2 = j
  BY <1>1
<1>3. counter > THRESHOLD <=> sent[j] = 1
  BY <1>1, <1>2 DEF Matches, IsBit
<1>4. sent[j] \in {0, 1}
  BY <1>1, <1>2, Dht11UserAssumption DEF Dht11UserAssumption
<1> QED
  BY <1>2, <1>3, <1>4 DEF Bit

(* A counted transition moves on to the next phase, and may store a bit.     *)
LEMMA TransitionDecoded == DecodedInv /\ Transition => DecodedInv'
<1> SUFFICES ASSUME DecodedInv, Transition, stalls = 0
             PROVE  (Followed /\ Counted /\ Stored /\ Printed)'
  BY DEF DecodedInv, Transition
<1>1. /\ userPc = "sample" /\ counter # LIMIT
      /\ laststate' = digitalRead /\ i' = i + 1 /\ counter' = 0
      /\ userPc' \in {"check", "wait"}
      /\ UNCHANGED <<sent, phase, stalls, good>>
      /\ IF TakesBit THEN StoreBit ELSE UNCHANGED <<dht11_dat, j>>
  BY DEF Transition
<1>2. Followed /\ Counted /\ Stored /\ Printed
  BY DEF DecodedInv
<1>3. i \in Nat /\ j \in Nat /\ phase = i + 1
  BY <1>1, <1>2 DEF Followed
<1>4. j' = IF TakesBit THEN j + 1 ELSE j
  BY <1>1 DEF StoreBit
<1>5. Followed'
  <2>1. LIMIT \in Nat /\ LIMIT > 0
    BY Dht11UserAssumption DEF Dht11UserAssumption
  <2>2. laststate' = digitalRead' /\ phase' = i'
    BY <1>1, <1>3 DEF digitalRead
  <2> QED
    BY <1>1, <1>2, <1>3, <1>4, <2>1, <2>2 DEF Followed
<1>6. Counted'
  BY <1>1, <1>2, <1>3, <1>4 DEF Counted, TakesBit
<1>7. Stored'
  <2>1. CASE TakesBit
    <3> DEFINE B == ByteOf(j)
               K == Taken(j, B)
    <3>1. j \in 0 .. BITS - 1 /\ Bit = sent[j]
      BY <1>1, <1>2, <2>1, BitDecoded
    <3>2. /\ B \in 0 .. 4 /\ j = B * BYTE + K /\ K \in 0 .. BYTE - 1
          /\ Taken(j + 1, B) = K + 1
          /\ \A b \in 0 .. 4 : b # B => Taken(j + 1, b) = Taken(j, b)
      BY <3>1, ByteOfTurn
    <3>3. dht11_dat' = [dht11_dat EXCEPT ![B] = 2 * @ + Bit] /\ j' = j + 1
      BY <1>1, <2>1, <3>1, LengthIsNat DEF StoreBit
    <3>4. dht11_dat = [b \in 0 .. 4 |-> Value(sent, b)[Taken(j, b)]]
      BY <1>2 DEF Stored
    <3> HIDE DEF B, K
    <3>5. Value(sent, B)[K + 1] = 2 * Value(sent, B)[K] + sent[j]
      BY <3>2, ValueIs
    <3>6. \A b \in 0 .. 4 : dht11_dat'[b] = Value(sent, b)[Taken(j + 1, b)]
      <4> SUFFICES ASSUME NEW b \in 0 .. 4
                   PROVE  dht11_dat'[b] = Value(sent, b)[Taken(j + 1, b)]
        OBVIOUS
      <4>1. CASE b = B
        <5>1. dht11_dat'[b] = 2 * Value(sent, B)[K] + sent[j]
          BY <3>1, <3>3, <3>4, <4>1 DEF K
        <5> QED
          BY <3>2, <3>5, <4>1, <5>1
      <4>2. CASE b # B
        BY <3>2, <3>3, <3>4, <4>2
      <4> QED
        BY <4>1, <4>2
    <3>7. dht11_dat' = [b \in 0 .. 4 |-> dht11_dat'[b]]
      BY <3>3, <3>4
    <3> QED
      BY <1>1, <3>3, <3>6, <3>7 DEF Stored
  <2>2. CASE ~ TakesBit
    BY <1>1, <1>2, <2>2 DEF Stored
  <2> QED
    BY <2>1, <2>2
<1>8. Printed'
  BY <1>1, <1>2 DEF Printed
<1> QED
  BY <1>5, <1>6, <1>7, <1>8

(* One step per action.                                                      *)
LEMMA StepDecoded == DecodedInv /\ [UserNext]_userVars => DecodedInv'
<1> SUFFICES ASSUME DecodedInv, [UserNext]_userVars PROVE DecodedInv'
  OBVIOUS
<1>1. CASE EndPhase
  BY <1>1, EdgeDecoded
<1>2. CASE Poll
  BY <1>2, PollDecoded
<1>3. CASE Transition
  BY <1>3, TransitionDecoded
<1>4. CASE NoTransition
  <2>1. /\ userPc = "sample" /\ counter = LIMIT /\ userPc' = "check"
        /\ UNCHANGED <<sent, phase, stalls, i, j, counter, dht11_dat, good>>
    BY <1>4 DEF NoTransition
  <2>2. ASSUME stalls = 0 PROVE Followed'
    BY <2>1, <2>2 DEF Followed, DecodedInv
  <2>3. ASSUME stalls = 0 PROVE (Counted /\ Stored /\ Printed)'
    BY <2>1, <2>3 DEF Counted, Stored, Printed, DecodedInv
  <2> QED
    BY <2>1, <2>2, <2>3 DEF DecodedInv
<1>5. CASE Check
  <2>1. /\ userPc = "check" /\ userPc' = "done" /\ good' = DataGood
        /\ UNCHANGED <<sent, phase, stalls, i, j, counter, laststate, dht11_dat>>
    BY <1>5 DEF Check
  <2>2. ASSUME stalls = 0 PROVE Followed'
    BY <2>1, <2>2 DEF Followed, DecodedInv
  <2>3. ASSUME stalls = 0 PROVE (Counted /\ Stored)'
    BY <2>1, <2>3 DEF Counted, Stored, DecodedInv
  <2>4. Printed'
    BY <2>1 DEF Printed, DataGood
  <2> QED
    BY <2>1, <2>2, <2>3, <2>4 DEF DecodedInv
<1>6. CASE ReadAgain
  <2>1. Fresh'
    BY <1>6 DEF ReadAgain, Fresh
  <2>2. Fresh' => DecodedInv'
    BY FreshRead, PTL
  <2> QED
    BY <2>1, <2>2
<1>7. CASE UNCHANGED userVars
  <2>1. UNCHANGED <<sent, phase, stalls, userPc, i, j, counter, laststate, dht11_dat, good>>
    BY <1>7 DEF userVars, locals
  <2>2. ASSUME stalls = 0 PROVE Followed'
    BY <2>1, <2>2 DEF Followed, DecodedInv, Matches, digitalRead
  <2>3. ASSUME stalls = 0 PROVE (Counted /\ Stored /\ Printed)'
    BY <2>1, <2>3 DEF Counted, Stored, Printed, DecodedInv, DataGood
  <2> QED
    BY <2>1, <2>2, <2>3 DEF DecodedInv
<1> QED
  BY <1>1, <1>2, <1>3, <1>4, <1>5, <1>6, <1>7 DEF UserNext, read_dht11_dat

(* A read that nothing held up and that saw the frame to its end has decoded *)
(* the bytes that the sensor sent, and prints them just when the checksum    *)
(* among them is right (USER_DHT11/dht11.c:37-70), for bytes of any width,   *)
(* every frame, and every THRESHOLD that tells the two pulses apart.         *)
THEOREM FrameIsDecoded == SafetySpec => []FrameDecoded
<1>1. DecodedInv => FrameDecoded
  <2> SUFFICES ASSUME DecodedInv, userPc = "done", stalls = 0, phase = LastPhase
               PROVE  dht11_dat = SentBytes /\ (good <=> SentByte(4) = Sum(SentBytes))
    BY DEF FrameDecoded
  <2>1. Followed /\ Counted /\ Stored /\ Printed
    BY DEF DecodedInv
  <2>2. BITS \in Nat \ {0} /\ i = 2 * BITS + 4 /\ j \in Nat
    BY <2>1, LengthIsNat DEF Followed, LastPhase
  <2>3. j = BITS
    BY <2>1, <2>2 DEF Counted
  <2>4. dht11_dat = [b \in 0 .. 4 |-> Value(sent, b)[BYTE]]
    BY <2>1, <2>3, TakenEnds DEF Stored
  <2>5. dht11_dat = SentBytes
    BY <2>4, SentByteIs DEF SentBytes
  <2>6. dht11_dat[4] = SentByte(4)
    BY <2>4, SentByteIs
  <2>7. good <=> dht11_dat[4] = Sum(dht11_dat)
    <3>1. j >= BITS
      BY <2>2, <2>3
    <3>2. DataGood <=> dht11_dat[4] = Sum(dht11_dat)
      BY <3>1 DEF DataGood
    <3> QED
      BY <2>1, <3>2 DEF Printed
  <2> QED
    BY <2>5, <2>6, <2>7
<1>2. SafetySpec => []DecodedInv
  BY StartDecoded, StepDecoded, PTL DEF SafetySpec
<1> QED
  BY <1>1, <1>2, PTL
=============================================================================
