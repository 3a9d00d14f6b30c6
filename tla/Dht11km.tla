------------------------------ MODULE Dht11km ------------------------------
(***************************************************************************)
(* The first version of the DHT11 driver, dht11km/old_version_dht11km.c.   *)
(* It differs from Dht11 in three ways that matter: the device is guarded  *)
(* by a plain counter instead of a mutex, the interrupt handler decodes    *)
(* the bits itself, straight into dht[], and after a good frame the        *)
(* interrupts stay enabled until the file is closed.                       *)
(*                                                                         *)
(* Device_Open++ and Device_Open-- are a load and a store, and the test of *)
(* Device_Open is a third step.  The stretches of read_dht11 between two   *)
(* delays are one step each.                                               *)
(*                                                                         *)
(* An operator with a suffix (_missing, _partly...) is the faulty twin of  *)
(* the one below it; no action uses it.                                    *)
(***************************************************************************)
EXTENDS Dht11Frame, Sequences

CONSTANTS
  Procs,        (* processes that open the device                           *)
  NONE,         (* no process, no report                                    *)
  MAX_RETRY,    (* attempts of one open, 5 in the driver                    *)
  Widths,       (* microseconds between two edges                           *)
  MaxFalls,     (* falling edges that reach the handler per start pulse     *)
  Spaced        (* environment: no open begins while another open or close  *)
                (* is between its accesses to Device_Open                   *)

ASSUME Dht11kmAssumption ==
  /\ NONE \notin Procs
  /\ MAX_RETRY \in Nat \ {0}
  /\ Widths \subseteq Int
  /\ MaxFalls \in Nat
  /\ Spaced \in BOOLEAN

Reports == [values : [Fields -> Bytes], result : {"OK", "BAD"}]

ASSUME NoneIsNoReport == NONE \notin Reports

VARIABLES
  Device_Open, pc, retry,
  count,                    (* each process's copy of Device_Open           *)
  irq,                      (* TRUE while the handler is installed          *)
  rising, falling,          (* the pin's edge-detect enables                *)
  started, bitcount, bytecount, dht,
  msg, msgPtr,              (* as in Dht11                                  *)
  falls,                    (* environment: falling edges since the pulse   *)
  recorded,                 (* history: bits taken since the start pulse    *)
  refused                   (* history: request_irq has failed              *)

users == <<Device_Open, count>>
edges == <<irq, rising, falling, refused>>
capture == <<started, bitcount, bytecount, dht, falls, recorded>>
message == <<msg, msgPtr>>
vars == <<Device_Open, count, pc, retry, irq, rising, falling, refused, started, bitcount,
          bytecount, dht, falls, recorded, msg, msgPtr>>

Init ==
  /\ Device_Open = 0
  /\ count = [p \in Procs |-> 0]
  /\ pc = [p \in Procs |-> "closed"]
  /\ retry = [p \in Procs |-> 0]
  /\ irq = FALSE /\ rising = FALSE /\ falling = FALSE /\ refused = FALSE
  /\ started = FALSE /\ bitcount = 0 /\ bytecount = 0
  /\ dht = ZeroReading
  /\ falls = 0 /\ recorded = <<>>
  /\ msg = [values |-> ZeroReading, result |-> "none"]
  /\ msgPtr = 0

Goto(p, from, to) == pc[p] = from /\ pc' = [pc EXCEPT ![p] = to]

(***************************************************************************)
(* irq_handler.                                                            *)
(***************************************************************************)
(* A high level after more than 40 microseconds: the sensor is talking. *)
RisingEdge ==
  /\ irq /\ rising
  /\ \E data \in Widths : started' = (started \/ data > 40)
  /\ UNCHANGED <<users, pc, retry, edges, bitcount, bytecount, dht, falls, recorded, message>>

IsDataPulse(data) == started /\ data >= 15 /\ data <= 80

NextBit ==
  /\ bitcount' = (bitcount + 1) % BYTE
  /\ bytecount' = IF bitcount + 1 = BYTE THEN bytecount + 1 ELSE bytecount

(* A one is or-ed in, a zero leaves the bit as the start pulse cleared it. *)
TakeBit(data) ==
  /\ dht' = IF data > 60 /\ bytecount \in Fields
            THEN [dht EXCEPT ![bytecount][bitcount] = 1] ELSE dht
  /\ NextBit
  /\ recorded' = Append(recorded, IF data > 60 THEN 1 ELSE 0)

FallingEdge ==
  /\ irq /\ falling
  /\ falls < MaxFalls
  /\ falls' = falls + 1
  /\ \E data \in Widths :
       IF IsDataPulse(data) THEN TakeBit(data)
       ELSE UNCHANGED <<bitcount, bytecount, dht, recorded>>
  /\ UNCHANGED <<users, pc, retry, edges, started, message>>

(***************************************************************************)
(* setup_interrupts and clear_interrupts.                                  *)
(***************************************************************************)
(* The interrupt is not shared: a second request is refused.  A refusal      *)
(* that setup_interrupts expects returns before the edges are enabled, any   *)
(* other goes on as if the request had succeeded.  read_dht11 tests neither. *)
Obtained == ~irq /\ irq' = TRUE /\ UNCHANGED refused

Refused == refused' = TRUE /\ UNCHANGED irq

setup_interrupts ==
  \/ Obtained /\ rising' = TRUE /\ falling' = TRUE
  \/ Refused /\ rising' = TRUE /\ falling' = TRUE
  \/ Refused /\ UNCHANGED <<rising, falling>>

clear_interrupts_missing == UNCHANGED edges

(* The enables are switched off with an exclusive or. *)
clear_interrupts == irq' = FALSE /\ rising' = ~rising /\ falling' = ~falling /\ UNCHANGED refused

(***************************************************************************)
(* read_dht11, the open call.                                              *)
(***************************************************************************)
OpenBusy(p) == pc[p] = "closed" /\ Device_Open # 0 /\ UNCHANGED vars

DeviceFree_unchecked == TRUE

DeviceFree == Device_Open = 0

TestOpen(p) ==
  /\ Goto(p, "closed", "enter")
  /\ DeviceFree
  /\ Spaced => \A q \in Procs : pc[q] \notin {"enter", "inc", "dec", "closing"}
  /\ UNCHANGED <<users, retry, edges, capture, message>>

LoadForIncrement(p) ==
  /\ Goto(p, "enter", "inc")
  /\ count' = [count EXCEPT ![p] = Device_Open]
  /\ UNCHANGED <<Device_Open, retry, edges, capture, message>>

StoreIncrement(p) ==
  /\ Goto(p, "inc", "start")
  /\ Device_Open' = count[p] + 1
  /\ UNCHANGED <<count, retry, edges, capture, message>>

ClearFrame_partly == started' = FALSE /\ bitcount' = 0 /\ bytecount' = 0 /\ UNCHANGED dht

ClearFrame == started' = FALSE /\ bitcount' = 0 /\ bytecount' = 0 /\ dht' = ZeroReading

StartRead(p) ==
  /\ Goto(p, "start", "setup")
  /\ ClearFrame
  /\ falls' = 0 /\ recorded' = <<>>
  /\ UNCHANGED <<users, retry, edges, message>>

SetUp(p) ==
  /\ Goto(p, "setup", "check")
  /\ setup_interrupts
  /\ UNCHANGED <<users, retry, capture, message>>

Trusted == ChecksumHolds(dht) /\ Val(dht[4]) > 0

CheckGood(p) ==
  /\ Goto(p, "check", "reportOK")
  /\ Trusted
  /\ UNCHANGED <<users, retry, edges, capture, message>>

CountTry_missing(p) == UNCHANGED retry

CountTry(p) == retry' = [retry EXCEPT ![p] = @ + 1]

LastTry(p) == retry[p] + 1 = MAX_RETRY

CheckBad(p) ==
  /\ Goto(p, "check", "clear")
  /\ ~Trusted
  /\ ~LastTry(p)
  /\ CountTry(p)
  /\ UNCHANGED <<users, edges, capture, message>>

CheckLast(p) ==
  /\ Goto(p, "check", "reportBAD")
  /\ ~Trusted
  /\ LastTry(p)
  /\ UNCHANGED <<users, retry, edges, capture, message>>

ClearAndRetry(p) ==
  /\ Goto(p, "clear", "start")
  /\ clear_interrupts
  /\ UNCHANGED <<users, retry, capture, message>>

(* return_result: with the interrupts still enabled. *)
Report(p, result) ==
  /\ Goto(p, IF result = "OK" THEN "reportOK" ELSE "reportBAD", "open")
  /\ msg' = [values |-> dht, result |-> result]
  /\ msgPtr' = 0
  /\ retry' = [retry EXCEPT ![p] = 0]
  /\ UNCHANGED <<users, edges, capture>>

(***************************************************************************)
(* device_read and close_dht11.                                            *)
(***************************************************************************)
ReadEof(p) == pc[p] = "open" /\ msgPtr = 1 /\ UNCHANGED vars

(* A buffer that is too short leaves part of the message for the next call. *)
ReadMsg(p) ==
  /\ pc[p] = "open"
  /\ msgPtr = 0
  /\ msgPtr' \in {0, 1}
  /\ UNCHANGED <<users, pc, retry, edges, capture, msg>>

LoadForDecrement(p) ==
  /\ Goto(p, "open", "dec")
  /\ count' = [count EXCEPT ![p] = Device_Open]
  /\ UNCHANGED <<Device_Open, retry, edges, capture, message>>

StoreDecrement(p) ==
  /\ Goto(p, "dec", "closing")
  /\ Device_Open' = count[p] - 1
  /\ UNCHANGED <<count, retry, edges, capture, message>>

CloseClear(p) ==
  /\ Goto(p, "closing", "closed")
  /\ clear_interrupts
  /\ UNCHANGED <<users, retry, capture, message>>

-----------------------------------------------------------------------------
OpenStep(p) ==
  \/ LoadForIncrement(p) \/ StoreIncrement(p)
  \/ StartRead(p) \/ SetUp(p)
  \/ CheckGood(p) \/ CheckBad(p) \/ CheckLast(p) \/ ClearAndRetry(p)
  \/ \E result \in {"OK", "BAD"} : Report(p, result)

CloseStep(p) == StoreDecrement(p) \/ CloseClear(p)

Next ==
  \/ RisingEdge \/ FallingEdge
  \/ \E p \in Procs :
       \/ OpenBusy(p) \/ TestOpen(p) \/ OpenStep(p)
       \/ ReadEof(p) \/ ReadMsg(p)
       \/ LoadForDecrement(p) \/ CloseStep(p)

SafetySpec == Init /\ [][Next]_vars

(* Every delay of an open call ends, and a close that has begun is finished. *)
Spec == SafetySpec /\ \A p \in Procs : WF_vars(OpenStep(p)) /\ WF_vars(CloseStep(p))
-----------------------------------------------------------------------------
TypeOK ==
  /\ Device_Open \in Int
  /\ count \in [Procs -> Int]
  /\ pc \in [Procs -> {"closed", "enter", "inc", "start", "setup", "check", "clear",
                       "reportOK", "reportBAD", "open", "dec", "closing"}]
  /\ retry \in [Procs -> 0 .. MAX_RETRY - 1]
  /\ irq \in BOOLEAN /\ rising \in BOOLEAN /\ falling \in BOOLEAN /\ refused \in BOOLEAN
  /\ started \in BOOLEAN
  /\ bitcount \in 0 .. BYTE - 1
  /\ bytecount \in Nat
  /\ dht \in [Fields -> Bytes]
  /\ msg \in [values : [Fields -> Bytes], result : {"none", "OK", "BAD"}]
  /\ msgPtr \in {0, 1}
  /\ falls \in 0 .. MaxFalls

(* dht holds the bits taken since the start pulse, eight to a byte, most     *)
(* significant first, and zeros after them: nothing is left of an earlier    *)
(* attempt and no bit is skipped or written twice.                           *)
FrameAsRecorded ==
  \A f \in Fields : \A i \in 0 .. BYTE - 1 :
    LET k == BYTE * f + i + 1
    IN  dht[f][i] = IF k <= Len(recorded) THEN recorded[k] ELSE 0

(* While no request_irq has been refused, the handler is installed exactly   *)
(* when both edges are enabled, and it is off when no file is open: the      *)
(* exclusive or of every clear meets the enable of its own set-up, through   *)
(* retries too.                                                              *)
EdgesFollowHandler ==
  ~refused => /\ irq = rising /\ rising = falling
              /\ (\A p \in Procs : pc[p] = "closed") => ~irq

(* An open that passed the test returns, whatever the sensor does.           *)
OpenReturns == \A p \in Procs : pc[p] = "enter" ~> pc[p] = "open"

InSession(p) == pc[p] # "closed"

SessionOwner ==
  IF \E p \in Procs : InSession(p) THEN CHOOSE p \in Procs : InSession(p) ELSE NONE

SessionReport == IF \E p \in Procs : pc[p] \in {"open", "dec", "closing"} THEN msg ELSE NONE

DS == INSTANCE DeviceSession WITH owner <- SessionOwner, report <- SessionReport

(* When opens are spaced, the counter makes the file an exclusive session    *)
(* device like the mutex of the later driver.                                *)
ImplementsSession == DS!Safety

(* "Is device open?  Used to prevent multiple access to device" (98): there  *)
(* would never be two processes that hold an open file.                      *)
OneUser ==
  \A p, q \in Procs : pc[p] \in {"open", "check"} /\ pc[q] \in {"open", "check"} => p = q
=============================================================================
