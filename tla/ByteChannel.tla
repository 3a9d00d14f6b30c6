---------------------------- MODULE ByteChannel ----------------------------
(***************************************************************************)
(* What a serial line promises to the program that prints what it          *)
(* receives: bytes may get lost on the way, but none is made up, printed   *)
(* twice or overtaken.  The UART programs are meant to implement this.     *)
(***************************************************************************)
EXTENDS Integers, Sequences

CONSTANT Byte

VARIABLES
  flight,   (* what has been sent and neither printed nor lost *)
  output    (* how many were printed, modulo 2, and the last   *)

vars == <<flight, output>>

Init == flight = <<>> /\ output = <<0, 0>>

Send(b) == flight' = Append(flight, b) /\ UNCHANGED output

(* A stretch of what is under way is lost. *)
Lose ==
  /\ \E a \in 0 .. Len(flight) : \E b \in a .. Len(flight) :
       flight' = SubSeq(flight, 1, a) \o SubSeq(flight, b + 1, Len(flight))
  /\ UNCHANGED output

Deliver ==
  /\ flight # <<>>
  /\ flight' = Tail(flight)
  /\ output' = <<1 - output[1], Head(flight)>>

Next == (\E b \in Byte : Send(b)) \/ Lose \/ Deliver

Safety == Init /\ [][Next]_vars
=============================================================================
