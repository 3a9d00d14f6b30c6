--------------------------- MODULE SoftUartModule ---------------------------
(***************************************************************************)
(* Loading and unloading of the software UART, RpiSoft-UART/softuart.c,    *)
(* and the sysfs files that change its pins and its rate while it runs.    *)
(* What the timers do is SoftUart's subject; here they are armed or not.   *)
(*                                                                         *)
(* A callback runs in the process that writes the file, several at a time; *)
(* GPIOFunction is a load and a store of a word that other pins share.     *)
(*                                                                         *)
(* An operator with a suffix (_unset, _missing...) is the faulty twin of   *)
(* the one below it; no action uses it.                                    *)
(***************************************************************************)
EXTENDS Integers, FiniteSets, Sequences

CONSTANTS
  Callers,         (* processes that write the files                        *)
  Pins,            (* GPIO numbers, 0 .. 53 in the driver                   *)
  TxPins, RxPins,  (* those that users choose for gpio_tx and for gpio_rx   *)
  WORD,            (* pins in one word of GPFSEL, 10 in the driver          *)
  Rates            (* what users write to the file baudrate                 *)

ASSUME SoftUartModuleAssumption ==
  /\ Pins \subseteq Nat /\ TxPins \subseteq Pins /\ RxPins \subseteq Pins
  /\ "module" \notin Callers
  /\ WORD \in Nat \ {0}
  /\ Rates \subseteq Nat

DEVICE_ATTR == <<"gpio_tx", "gpio_rx", "data", "loopback", "baudrate">>
Files == {DEVICE_ATTR[i] : i \in DOMAIN DEVICE_ATTR}
Threads == Callers \cup {"module"}
AllInputs == [p \in Pins |-> "in"]

VARIABLES
  GPFSEL,                 (* the function of each pin                       *)
  GPIO_TX, GPIO_RX, BAUDRATE,
  txTimer, rxTimer,       (* TRUE while the timer is armed                  *)
  files,                  (* the files there are                            *)
  mpc,                    (* where ModuleInit or ModuleExit stands          *)
  pc, file, arg,          (* each caller's place, its file and value        *)
  pin, old,               (* GPIOFunction: its pin and the word it loaded   *)
  late,                   (* history: a call overlapped the unloading       *)
  torn,                   (* history: a store has taken back what another   *)
                          (* call did to its word, in this loading          *)
  overlap                 (* history: two calls, or a call and an           *)
                          (* unloading, have overlapped                     *)

settings == <<GPIO_TX, GPIO_RX, BAUDRATE>>
timers == <<txTimer, rxTimer>>
calls == <<pc, file, arg>>
word == <<pin, old>>
vars == <<GPFSEL, settings, timers, files, mpc, calls, word, late, torn, overlap>>

(* What users may load the module with; ModuleInit checks none of it. *)
LegalRates == {b \in Rates : b >= 1200 /\ b <= 19200}

Init ==
  /\ GPFSEL = AllInputs
  /\ GPIO_TX \in TxPins /\ GPIO_RX \in RxPins /\ BAUDRATE \in LegalRates
  /\ txTimer = FALSE /\ rxTimer = FALSE
  /\ files = {}
  /\ mpc = "absent"
  /\ pc = [c \in Callers |-> "idle"]
  /\ file = [c \in Callers |-> "data"]
  /\ arg = [c \in Callers |-> 0]
  /\ pin = [t \in Threads |-> 0]
  /\ old = [t \in Threads |-> AllInputs]
  /\ late = FALSE /\ torn = FALSE /\ overlap = FALSE

(***************************************************************************)
(* GPIOFunction.                                                           *)
(***************************************************************************)
Word(gpio) == gpio \div WORD

LoadWord(t, gpio) ==
  /\ pin' = [pin EXCEPT ![t] = gpio]
  /\ old' = [old EXCEPT ![t] = GPFSEL]

Stale(t) == \E p \in Pins \ {pin[t]} : Word(p) = Word(pin[t]) /\ old[t][p] # GPFSEL[p]

(* The other pins of the word get the function they had when it was loaded. *)
StoreWord(t, function) ==
  /\ GPFSEL' = [p \in Pins |-> IF p = pin[t] THEN function
                               ELSE IF Word(p) = Word(pin[t]) THEN old[t][p]
                               ELSE GPFSEL[p]]
  /\ pin' = [pin EXCEPT ![t] = 0]
  /\ old' = [old EXCEPT ![t] = AllInputs]
  /\ torn' = (torn \/ Stale(t))

(***************************************************************************)
(* The files.                                                              *)
(***************************************************************************)
Busy == {c \in Callers : pc[c] # "idle"}

Unloading == mpc \in {"cancelRx", "restore", "restoreStore", "remove", "drain", "unregister", "destroy"}

FirstStep(f) ==
  CASE f = "gpio_tx" -> "release"
    [] f = "gpio_rx" -> "rxAssign"
    [] f = "data" -> "start"
    [] f = "baudrate" -> "rate"

Call(c, f, value) ==
  /\ pc[c] = "idle"
  /\ f \in files
  /\ pc' = [pc EXCEPT ![c] = FirstStep(f)]
  /\ file' = [file EXCEPT ![c] = f]
  /\ arg' = [arg EXCEPT ![c] = value]
  /\ late' = (late \/ Unloading)
  /\ overlap' = (overlap \/ Unloading \/ Busy # {})
  /\ UNCHANGED <<GPFSEL, settings, timers, files, mpc, word, torn>>

(* A value that is not a pin, or not a legal rate, is refused and changes    *)
(* nothing.                                                                  *)
Write(c) ==
  \/ \E gpio \in TxPins : Call(c, "gpio_tx", gpio)
  \/ \E gpio \in RxPins : Call(c, "gpio_rx", gpio)
  \/ Call(c, "data", 0)
  \/ \E b \in Rates : Call(c, "baudrate", b)

Step(c, from, to) == pc[c] = from /\ pc' = [pc EXCEPT ![c] = to]

ReleasedPin_new(c) == arg[c]

ReleasedPin(c) == GPIO_TX

(* set_gpio_tx_callback: the old pin becomes an input ... *)
Release(c) ==
  /\ Step(c, "release", "releaseStore")
  /\ LoadWord(c, ReleasedPin(c))
  /\ UNCHANGED <<GPFSEL, settings, timers, files, mpc, file, arg, late, torn, overlap>>

ReleaseStore(c) ==
  /\ Step(c, "releaseStore", "txAssign")
  /\ StoreWord(c, "in")
  /\ UNCHANGED <<settings, timers, files, mpc, file, arg, late, overlap>>

AfterAssign_unset == "idle"

AfterAssign == "drive"

TxAssign(c) ==
  /\ Step(c, "txAssign", AfterAssign)
  /\ GPIO_TX' = arg[c]
  /\ UNCHANGED <<GPFSEL, GPIO_RX, BAUDRATE, timers, files, mpc, file, arg, word, late, torn, overlap>>

(* ... and the new one an output.  The compiler may read GPIO_TX again or    *)
(* keep the value it has just assigned.                                      *)
Drive(c) ==
  /\ Step(c, "drive", "driveStore")
  /\ \E gpio \in {GPIO_TX, arg[c]} : LoadWord(c, gpio)
  /\ UNCHANGED <<GPFSEL, settings, timers, files, mpc, file, arg, late, torn, overlap>>

DriveStore(c) ==
  /\ Step(c, "driveStore", "idle")
  /\ StoreWord(c, "out")
  /\ UNCHANGED <<settings, timers, files, mpc, file, arg, late, overlap>>

RxAssign(c) ==
  /\ Step(c, "rxAssign", "listen")
  /\ GPIO_RX' = arg[c]
  /\ UNCHANGED <<GPFSEL, GPIO_TX, BAUDRATE, timers, files, mpc, file, arg, word, late, torn, overlap>>

Listen(c) ==
  /\ Step(c, "listen", "listenStore")
  /\ \E gpio \in {GPIO_RX, arg[c]} : LoadWord(c, gpio)
  /\ UNCHANGED <<GPFSEL, settings, timers, files, mpc, file, arg, late, torn, overlap>>

ListenStore(c) ==
  /\ Step(c, "listenStore", "idle")
  /\ StoreWord(c, "in")
  /\ UNCHANGED <<settings, timers, files, mpc, file, arg, late, overlap>>

RateAccepted(b) == b >= 1200 /\ b <= 19200

SetRate(c) ==
  /\ Step(c, "rate", "idle")
  /\ BAUDRATE' = IF RateAccepted(arg[c]) THEN arg[c] ELSE BAUDRATE
  /\ UNCHANGED <<GPFSEL, GPIO_TX, GPIO_RX, timers, files, mpc, file, arg, word, late, torn, overlap>>

(* The end of set_data_callback. *)
StartTx(c) ==
  /\ Step(c, "start", "idle")
  /\ txTimer' = TRUE
  /\ UNCHANGED <<GPFSEL, settings, rxTimer, files, mpc, file, arg, word, late, torn, overlap>>

(***************************************************************************)
(* ModuleInit.  A BUG_ON leaves the module where it is, for good.          *)
(***************************************************************************)
InitPins ==
  /\ mpc = "absent"
  /\ ~txTimer /\ ~rxTimer
  /\ GPIO_TX' \in TxPins /\ GPIO_RX' \in RxPins /\ BAUDRATE' \in LegalRates
  /\ GPFSEL' = [GPFSEL EXCEPT ![GPIO_TX'] = "out", ![GPIO_RX'] = "in"]
  /\ mpc' = "class"
  /\ late' = FALSE /\ torn' = FALSE
  /\ UNCHANGED <<timers, files, calls, word, overlap>>

CreateClass ==
  /\ mpc = "class"
  /\ mpc' \in {"timer", "stuck"}
  /\ UNCHANGED <<GPFSEL, settings, timers, files, calls, word, late, torn, overlap>>

StartRx ==
  /\ mpc = "timer"
  /\ mpc' = "device"
  /\ rxTimer' = TRUE
  /\ UNCHANGED <<GPFSEL, settings, txTimer, files, calls, word, late, torn, overlap>>

CreateDevice ==
  /\ mpc = "device"
  /\ mpc' \in {"files", "stuck"}
  /\ UNCHANGED <<GPFSEL, settings, timers, files, calls, word, late, torn, overlap>>

CreateFile ==
  /\ mpc = "files"
  /\ LET f == DEVICE_ATTR[Cardinality(files) + 1] IN
     \/ files' = files \cup {f} /\ mpc' = IF files' = Files THEN "live" ELSE "files"
     \/ files' = files /\ mpc' = "stuck"
  /\ UNCHANGED <<GPFSEL, settings, timers, calls, word, late, torn, overlap>>

(* insmod has been killed in ModuleInit, or rmmod in ModuleExit, and rmmod   *)
(* is refused from then on; or a timer fires into a module that is gone.     *)
Halted ==
  /\ \/ mpc \in {"stuck", "oops"}
     \/ mpc = "absent" /\ (txTimer \/ rxTimer)
  /\ UNCHANGED vars

(***************************************************************************)
(* ModuleExit.                                                             *)
(***************************************************************************)
CancelTx ==
  /\ mpc = "live"
  /\ mpc' = "cancelRx"
  /\ txTimer' = FALSE
  /\ late' = (Busy # {})
  /\ overlap' = (overlap \/ Busy # {})
  /\ UNCHANGED <<GPFSEL, settings, rxTimer, files, calls, word, torn>>

hrtimer_cancel_missing == UNCHANGED rxTimer

hrtimer_cancel == rxTimer' = FALSE

CancelRx ==
  /\ mpc = "cancelRx"
  /\ mpc' = "restore"
  /\ hrtimer_cancel
  /\ UNCHANGED <<GPFSEL, settings, txTimer, files, calls, word, late, torn, overlap>>

Restore ==
  /\ mpc = "restore"
  /\ mpc' = "restoreStore"
  /\ LoadWord("module", GPIO_TX)
  /\ UNCHANGED <<GPFSEL, settings, timers, files, calls, late, torn, overlap>>

RestoreStore ==
  /\ mpc = "restoreStore"
  /\ mpc' = "remove"
  /\ StoreWord("module", "in")
  /\ UNCHANGED <<settings, timers, files, calls, late, overlap>>

(* device_remove_file: no new call gets in ... *)
RemoveFile ==
  /\ mpc = "remove"
  /\ mpc' = "drain"
  /\ files' = files \ {DEVICE_ATTR[Len(DEVICE_ATTR) + 1 - Cardinality(files)]}
  /\ UNCHANGED <<GPFSEL, settings, timers, calls, word, late, torn, overlap>>

Drained == \A c \in Busy : file[c] \in files

(* ... and those that are in it are waited for. *)
FileRemoved ==
  /\ mpc = "drain"
  /\ Drained
  /\ mpc' = IF files = {} THEN "unregister" ELSE "remove"
  /\ UNCHANGED <<GPFSEL, settings, timers, files, calls, word, late, torn, overlap>>
(* device_destroy, and class_unregister: its last reference frees the class. *)
ClassUnregister ==
  /\ mpc = "unregister"
  /\ mpc' = "destroy"
  /\ UNCHANGED <<GPFSEL, settings, timers, files, calls, word, late, torn, overlap>>

(* class_destroy unregisters the class once more, which is freed memory:     *)
(* nothing is noticed, or the kernel kills rmmod.                            *)
ClassDestroy ==
  /\ mpc = "destroy"
  /\ mpc' \in {"absent", "oops"}
  /\ UNCHANGED <<GPFSEL, settings, timers, files, calls, word, late, torn, overlap>>
-----------------------------------------------------------------------------
CallStep(c) ==
  \/ Release(c) \/ ReleaseStore(c) \/ TxAssign(c) \/ Drive(c) \/ DriveStore(c)
  \/ RxAssign(c) \/ Listen(c) \/ ListenStore(c)
  \/ SetRate(c) \/ StartTx(c)

ModuleInit ==
  InitPins \/ CreateClass \/ StartRx \/ CreateDevice \/ CreateFile \/ Halted

ExitStep ==
  \/ CancelRx \/ Restore \/ RestoreStore \/ RemoveFile \/ FileRemoved
  \/ ClassUnregister \/ ClassDestroy

ModuleExit == CancelTx \/ ExitStep

Next == ModuleInit \/ ModuleExit \/ \E c \in Callers : Write(c) \/ CallStep(c)

Spec == Init /\ [][Next]_vars
-----------------------------------------------------------------------------
Settled == mpc \in {"files", "live", "stuck"} /\ Busy = {}

(* However calls of the pin files overlap, once they have returned the pin   *)
(* that the timer drives is an output, unless a store of GPFSEL has taken    *)
(* back another call's (and as long as no pin is used both ways).  Calls     *)
(* that do not overlap, and do not run into an unloading, take nothing back  *)
(* and leave no other pin an output, from one loading to the next.           *)
TxPinDriven ==
  Settled =>
    /\ ~torn => GPFSEL[GPIO_TX] = "out"
    /\ ~overlap => ~torn /\ \A p \in Pins : GPFSEL[p] = "out" => p = GPIO_TX

(* When the module is gone no callback of it is running; if no call ran into *)
(* the unloading, no timer is armed and the pin is released.                 *)
UnloadIsClean ==
  mpc = "absent" =>
    /\ Busy = {} /\ files = {}
    /\ ~late => ~txTimer /\ ~rxTimer /\ GPFSEL[GPIO_TX] = "in"
=============================================================================
