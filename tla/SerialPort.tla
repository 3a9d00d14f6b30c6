----------------------------- MODULE SerialPort -----------------------------
(***************************************************************************)
(* The threaded serial program, USER_UART/thread_user_block_rp3.c: one     *)
(* thread writes a greeting for ever, another reads and prints, and takes  *)
(* a read of nothing for a lost device.  The settings may be refused,      *)
(* which main ignores; the device may be unplugged.                        *)
(*                                                                         *)
(* An operator with a suffix (_inverted, _whole) is the faulty twin of the *)
(* one below it; no action uses it.                                        *)
(***************************************************************************)
EXTENDS Integers, Sequences

CONSTANTS
  MAX_STR_LEN,  (* bytes of readBuff, 256 in the program                    *)
  TTY           (* bytes the kernel keeps for the reader                    *)

ASSUME SerialPortAssumption == MAX_STR_LEN \in Nat \ {0} /\ TTY \in Nat \ {0}

SerialBytes == 0 .. MAX_STR_LEN + TTY

VARIABLES
  state,        (* main: start, configure, running, or ended                *)
  timeout,      (* a read that finds nothing returns after a while          *)
  plugged,
  tty,          (* the bytes the kernel has for the reader                  *)
  readPc,       (* the reader: read, print, or gone                         *)
  readBuff,     (* what it has read and not printed                         *)
  fresh,        (* the next byte of the peer                                *)
  shown         (* how many bytes were printed, modulo 2, and the last      *)

serialVars == <<state, timeout, plugged, tty, readPc, readBuff, fresh, shown>>

SerialInit ==
  /\ state = "start"
  /\ timeout = FALSE
  /\ plugged = TRUE
  /\ tty = <<>>
  /\ readPc = "read" /\ readBuff = <<>>
  /\ fresh = 0
  /\ shown = <<0, 0>>

(***************************************************************************)
(* main.                                                                   *)
(***************************************************************************)
OpenDevice ==
  /\ state = "start"
  /\ state' \in {"configure", "ended"}
  /\ UNCHANGED <<timeout, plugged, tty, readPc, readBuff, fresh, shown>>

isBlockingMode_inverted(waitTime) == waitTime >= 0 /\ waitTime <= 255

isBlockingMode(waitTime) == waitTime < 0 \/ waitTime > 255

(* Where the settings are refused the terminal's own remain: they block. *)
SetInterfaceAttribs ==
  /\ state = "configure"
  /\ state' \in {"running", "refused"}
  /\ timeout' = (state' = "running" /\ ~isBlockingMode(20))
  /\ UNCHANGED <<plugged, tty, readPc, readBuff, fresh, shown>>

Running == state \in {"running", "refused"}

(***************************************************************************)
(* readThread.                                                             *)
(***************************************************************************)
Min2(a, b) == IF a < b THEN a ELSE b

ReadData ==
  /\ Running /\ readPc = "read" /\ tty # <<>>
  /\ \E len \in 1 .. Min2(Len(tty), MAX_STR_LEN) :
       /\ readBuff' = SubSeq(tty, 1, len)
       /\ tty' = SubSeq(tty, len + 1, Len(tty))
  /\ readPc' = "print"
  /\ UNCHANGED <<state, timeout, plugged, fresh, shown>>

(* Two seconds without a byte, or a device that is gone. *)
ReadNothing ==
  /\ Running /\ readPc = "read" /\ tty = <<>>
  /\ timeout \/ ~plugged
  /\ state' = "ended"
  /\ UNCHANGED <<timeout, plugged, tty, readPc, readBuff, fresh, shown>>

(* In the terminal's own settings a byte of the line may mean end of file. *)
EndOfFile ==
  /\ state = "refused" /\ readPc = "read" /\ tty = <<>> /\ plugged
  /\ state' = "ended"
  /\ UNCHANGED <<timeout, plugged, tty, readPc, readBuff, fresh, shown>>

(* The sender goes on without the reader, and main waits for both.  EAGAIN,  *)
(* after which the read is repeated, does not come without O_NONBLOCK.       *)
ReadFails ==
  /\ Running /\ readPc = "read"
  /\ ~plugged
  /\ readPc' = "gone"
  /\ UNCHANGED <<state, timeout, plugged, tty, readBuff, fresh, shown>>

Rest_whole == readBuff

Rest == Tail(readBuff)

ShowByte ==
  /\ Running /\ readPc = "print"
  /\ shown' = <<1 - shown[1], Head(readBuff)>>
  /\ readBuff' = Rest
  /\ readPc' = IF readBuff' = <<>> THEN "read" ELSE "print"
  /\ UNCHANGED <<state, timeout, plugged, tty, fresh>>

(***************************************************************************)
(* sendThread never looks at the result of a write and never ends.         *)
(***************************************************************************)
sendThread == Running /\ UNCHANGED serialVars

(***************************************************************************)
(* The peer and the device.                                                *)
(***************************************************************************)
PeerSends ==
  /\ state \notin {"start", "ended"} /\ plugged
  /\ tty' = IF Len(tty) < TTY THEN Append(tty, fresh) ELSE tty
  /\ fresh' = (fresh + 1) % (MAX_STR_LEN + TTY + 1)
  /\ UNCHANGED <<state, timeout, plugged, readPc, readBuff, shown>>

Unplug ==
  /\ state \notin {"start", "ended"} /\ plugged
  /\ plugged' = FALSE
  /\ UNCHANGED <<state, timeout, tty, readPc, readBuff, fresh, shown>>

(* exit ends both threads, wherever they are. *)
Exited == state = "ended" /\ UNCHANGED serialVars
-----------------------------------------------------------------------------
readThread == ReadData \/ ReadNothing \/ ReadFails \/ ShowByte

SerialNext ==
  \/ OpenDevice \/ SetInterfaceAttribs
  \/ readThread \/ EndOfFile \/ sendThread
  \/ PeerSends \/ Unplug \/ Exited

(* A read ends when there is something to return, and the thread runs on.    *)
SerialFairness == WF_serialVars(SetInterfaceAttribs) /\ WF_serialVars(readThread)

SerialSpec == SerialInit /\ [][SerialNext]_serialVars /\ SerialFairness
-----------------------------------------------------------------------------
SerialChannel == INSTANCE ByteChannel WITH
  Byte <- SerialBytes, output <- shown, flight <- readBuff \o tty

(* However the reads cut the stream into pieces, each byte is printed once,   *)
(* in order; bytes are lost only on the way.                                  *)
SerialIsChannel == SerialChannel!Safety

(* A peer that falls silent for good, or a device that is unplugged, does not *)
(* leave the reader waiting: where the settings were accepted or the device   *)
(* has gone, the reader goes on for ever only as long as the peer sends;      *)
(* otherwise the program, or at least that thread, ends.                      *)
SilenceIsNoticed ==
  []<>(readPc # "gone" /\ (state = "running" \/ (Running /\ ~plugged)))
    => []<><<PeerSends>>_serialVars
=============================================================================
