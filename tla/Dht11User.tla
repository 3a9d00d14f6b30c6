----------------------------- MODULE Dht11User -----------------------------
(***************************************************************************)
(* The user-space DHT11 reader, USER_DHT11/dht11.c.  It has no interrupts: *)
(* it polls the pin, counts how often it finds the level unchanged, and    *)
(* takes a high phase that lasted more than THRESHOLD polls for a 1.  The  *)
(* kernel may take the processor away from it at any moment, so that it    *)
(* sees a level late, or never.                                            *)
(*                                                                         *)
(* The line of one frame is a sequence of phases, high and low in turn:    *)
(* phase 0 before the sensor answers, 1 and 2 its answer, then each bit as *)
(* a low and a high phase, a last low one, and high for good.              *)
(*                                                                         *)
(* An operator with a suffix (_early, _uncounted...) is the faulty twin of *)
(* the one below it; no action uses it.                                    *)
(***************************************************************************)
EXTENDS Integers

CONSTANTS
  BYTE,        (* bits of a byte, 8 in the program                          *)
  THRESHOLD,   (* 16 in the program                                         *)
  LIMIT,       (* polls after which a wait is given up, 255 in the program  *)
  Frames,      (* the frames that the sensor may send                       *)
  MaxStalls    (* bound: phases that end while the reader is held up        *)

BITS == 5 * BYTE
MAXTIMINGS == 2 * BITS + 5      (* 85 in the program *)
LastPhase == 2 * BITS + 4
HIGH == 1
LOW == 0

ASSUME Dht11UserAssumption ==
  /\ BYTE \in Nat \ {0}
  /\ THRESHOLD \in Nat /\ LIMIT \in Nat /\ THRESHOLD + 1 < LIMIT
  /\ Frames \subseteq [0 .. BITS - 1 -> {0, 1}]
  /\ MaxStalls \in Nat

VARIABLES
  sent,      (* the sensor: the bits of this frame                          *)
  phase,     (* the line: how many edges it has had in this frame           *)
  stalls,    (* history: phases of this frame that ended during a hold-up   *)
  userPc, i, j, counter, laststate, dht11_dat,
  good       (* TRUE when the reading is printed                            *)

locals == <<userPc, i, j, counter, laststate, dht11_dat, good>>
userVars == <<sent, phase, stalls, locals>>

Zeros == [b \in 0 .. 4 |-> 0]

UserInit ==
  /\ sent \in Frames
  /\ phase = 0 /\ stalls = 0
  /\ userPc = "wait"
  /\ i = 0 /\ j = 0 /\ counter = 0
  /\ laststate = HIGH
  /\ dht11_dat = Zeros
  /\ good = FALSE

(***************************************************************************)
(* The sensor.  How many polls fall into a phase depends on the machine;   *)
(* THRESHOLD is right for it when the high phase of a 0 takes no more, and *)
(* that of a 1 takes more.  A sensor may also fall silent in any phase.    *)
(***************************************************************************)
digitalRead == IF phase % 2 = 0 THEN HIGH ELSE LOW

IsBit(p) == p % 2 = 0 /\ p \in 4 .. 2 * BITS + 2

InTime ==
  IsBit(phase) => (counter > THRESHOLD <=> sent[(phase - 4) \div 2] = 1)

EndPhase ==
  /\ phase < LastPhase
  /\ phase' = phase + 1
  /\ \/ userPc = "wait" /\ digitalRead = laststate /\ InTime /\ UNCHANGED stalls
     \/ stalls < MaxStalls /\ userPc \in {"wait", "sample"} /\ stalls' = stalls + 1
  /\ UNCHANGED <<sent, locals>>

(***************************************************************************)
(* read_dht11_dat.                                                         *)
(***************************************************************************)
AtLimit(n) == n = LIMIT

(* One turn of the inner loop, or its end. *)
Poll ==
  /\ userPc = "wait"
  /\ \/ /\ digitalRead = laststate
        /\ counter' = (counter + 1) % (LIMIT + 1)
        /\ userPc' = IF AtLimit(counter') THEN "sample" ELSE "wait"
     \/ /\ digitalRead # laststate
        /\ userPc' = "sample"
        /\ UNCHANGED counter
  /\ UNCHANGED <<sent, phase, stalls, i, j, laststate, dht11_dat, good>>

TakesBit_early == i >= 2 /\ i % 2 = 0

TakesBit == i >= 4 /\ i % 2 = 0

Bit_wide == IF counter >= THRESHOLD THEN 1 ELSE 0

Bit == IF counter > THRESHOLD THEN 1 ELSE 0

ByteOf(n) == n \div BYTE

(* A store past the array hits something else. *)
StoreBit ==
  /\ dht11_dat' = IF j < BITS
                  THEN [dht11_dat EXCEPT ![ByteOf(j)] = 2 * @ + Bit]
                  ELSE dht11_dat
  /\ j' = j + 1

(* The level is read once more after the inner loop. *)
Transition ==
  /\ userPc = "sample"
  /\ counter # LIMIT
  /\ laststate' = digitalRead
  /\ IF TakesBit THEN StoreBit ELSE UNCHANGED <<dht11_dat, j>>
  /\ i' = i + 1
  /\ counter' = 0
  /\ userPc' = IF i' = MAXTIMINGS THEN "check" ELSE "wait"
  /\ UNCHANGED <<sent, phase, stalls, good>>

NoTransition ==
  /\ userPc = "sample"
  /\ counter = LIMIT
  /\ laststate' = digitalRead
  /\ userPc' = "check"
  /\ UNCHANGED <<sent, phase, stalls, i, j, counter, dht11_dat, good>>

Sum(d) == (d[0] + d[1] + d[2] + d[3]) % 2 ^ BYTE

DataGood_uncounted == dht11_dat[4] = Sum(dht11_dat)

DataGood == j >= BITS /\ dht11_dat[4] = Sum(dht11_dat)

Check ==
  /\ userPc = "check"
  /\ good' = DataGood
  /\ userPc' = "done"
  /\ UNCHANGED <<sent, phase, stalls, i, j, counter, laststate, dht11_dat>>

(* main waits a second and reads again: a new start pulse, a new frame. *)
ReadAgain ==
  /\ userPc = "done"
  /\ sent' \in Frames
  /\ phase' = 0 /\ stalls' = 0
  /\ userPc' = "wait"
  /\ i' = 0 /\ j' = 0 /\ counter' = 0
  /\ laststate' = HIGH
  /\ dht11_dat' = Zeros
  /\ good' = FALSE
-----------------------------------------------------------------------------
read_dht11_dat == Poll \/ Transition \/ NoTransition \/ Check

UserNext == EndPhase \/ read_dht11_dat \/ ReadAgain

SafetySpec == UserInit /\ [][UserNext]_userVars

-----------------------------------------------------------------------------
SentByte(b) ==
  LET v[k \in 0 .. BYTE] == IF k = 0 THEN 0 ELSE 2 * v[k - 1] + sent[b * BYTE + k - 1]
  IN  v[BYTE]

SentBytes == [b \in 0 .. 4 |-> SentByte(b)]

TypeOK ==
  /\ sent \in Frames /\ phase \in 0 .. LastPhase /\ stalls \in 0 .. MaxStalls
  /\ userPc \in {"wait", "sample", "check", "done"}
  /\ i \in 0 .. MAXTIMINGS /\ j \in 0 .. BITS + 1 /\ counter \in 0 .. LIMIT
  /\ laststate \in {LOW, HIGH} /\ good \in BOOLEAN
  /\ dht11_dat \in [0 .. 4 -> 0 .. 2 ^ BYTE - 1]

(* A read that was not held up and saw the frame to its end has the bytes     *)
(* that were sent, and prints them just when their checksum is right.         *)
FrameDecoded ==
  userPc = "done" /\ stalls = 0 /\ phase = LastPhase =>
    /\ dht11_dat = SentBytes
    /\ good <=> SentByte(4) = Sum(SentBytes)

(* A sensor that falls silent before its last bit has ended is never          *)
(* reported, wherever the reader was held up.                                 *)
SilenceIsNoReading == userPc = "done" /\ phase <= 2 * BITS + 2 => ~good

(* However the reader is held up it counts no more transitions than the line  *)
(* has edges, and those of a frame just fit the array of five bytes.          *)
IndexInBounds == j <= BITS
=============================================================================
