------------------------------ MODULE UserUart ------------------------------
(***************************************************************************)
(* The one-shot serial program, USER_UART/user_uart_rp3.c: it opens the    *)
(* port without blocking, sends a message, waits a little, reads once what *)
(* has come in and prints it.                                              *)
(***************************************************************************)
EXTENDS Integers

CONSTANTS
  LEN,      (* bytes of buf_read, 255 in the program   *)
  Errnos    (* what a failing system call may set      *)

ASSUME UserUartAssumption == LEN \in Nat \ {0} /\ Errnos \subseteq 1 .. LEN

FAIL == -1

VARIABLES
  mainPc,     (* the call that main makes next, or returned                 *)
  ret,
  filled,     (* bytes of buf_read that the line filled; the others are NUL *)
  shownCount, (* bytes printed                                              *)
  status,     (* what main returns                                          *)
  failed      (* history: a system call has failed                          *)

uuVars == <<mainPc, ret, filled, shownCount, status, failed>>

UuInit ==
  /\ mainPc = "open"
  /\ ret = 0 /\ filled = 0 /\ shownCount = 0 /\ status = 0
  /\ failed = FALSE

(* A call that returns one of results, of which the negative ones make main  *)
(* return FAIL.                                                              *)
MainCalls(place, results, next) ==
  /\ mainPc = place
  /\ ret' \in results
  /\ mainPc' = IF ret' < 0 THEN "returned" ELSE next
  /\ status' = IF ret' < 0 THEN FAIL ELSE status

OpenPort ==
  /\ MainCalls("open", {0, FAIL}, "attribs")
  /\ failed' = (ret' = FAIL)
  /\ UNCHANGED <<filled, shownCount>>

SetAttribs ==
  /\ MainCalls("attribs", {0, FAIL}, "send")
  /\ failed' = (ret' = FAIL)
  /\ UNCHANGED <<filled, shownCount>>

(* It returns errno, which is positive. *)
sending_data ==
  /\ MainCalls("send", {0} \cup Errnos, "ioctl")
  /\ failed' = (ret' # 0)
  /\ UNCHANGED <<filled, shownCount>>

ioctl ==
  /\ MainCalls("ioctl", {0, FAIL}, "read")
  /\ failed' = (failed \/ ret' = FAIL)
  /\ UNCHANGED <<filled, shownCount>>

(* It returns how many bytes it read, or again errno. *)
reading_data ==
  \/ /\ MainCalls("read", 0 .. LEN, "print")
     /\ filled' = ret'
     /\ UNCHANGED <<shownCount, failed>>
  \/ /\ MainCalls("read", Errnos, "print")
     /\ failed' = TRUE
     /\ UNCHANGED <<filled, shownCount>>

PrintBuffer ==
  /\ mainPc = "print"
  /\ shownCount' = ret
  /\ mainPc' = "returned"
  /\ status' = 0
  /\ UNCHANGED <<ret, filled, failed>>

MainReturned == mainPc = "returned" /\ UNCHANGED uuVars
-----------------------------------------------------------------------------
UuNext ==
  \/ OpenPort \/ SetAttribs \/ sending_data \/ ioctl \/ reading_data
  \/ PrintBuffer \/ MainReturned

UuSpec == UuInit /\ [][UuNext]_uuVars
-----------------------------------------------------------------------------
(* main reports a call that fails, and prints only what it has read: so say  *)
(* its messages "write failed" and "READ failed".                            *)
FailureIsReported ==
  mainPc = "returned" => (failed <=> status = FAIL) /\ shownCount <= filled
=============================================================================
