--------------------------- MODULE Dht11kmModule ---------------------------
(***************************************************************************)
(* Loading and unloading of the first DHT11 driver,                        *)
(* dht11km/old_version_dht11km.c, under the processes that open its        *)
(* device.  Its file operations have no owner, so only the use count that  *)
(* open and close keep themselves holds the module back, and the device is *)
(* there before the GPIO registers are mapped.                             *)
(*                                                                         *)
(* An operator with a suffix (_missing) is the faulty twin of the one      *)
(* below it; no action uses it.                                            *)
(***************************************************************************)
EXTENDS Integers

CONSTANT OldUsers    (* processes that open the device *)

VARIABLES
  oldStage,        (* where init or exit of the module stands               *)
  chrdev,          (* TRUE while the device can be opened                   *)
  region,          (* TRUE while the GPIO memory is reserved                *)
  gpio,            (* TRUE while it is mapped                               *)
  refs,            (* the module's use count                                *)
  call,            (* what each process does with the device                *)
  overlapped,      (* history: an open outside the life of the module, or   *)
                   (* an unloading that found a call under way              *)
  fault            (* history: the registers were accessed unmapped         *)

registers == <<region, gpio>>
oldVars == <<oldStage, chrdev, registers, refs, call, overlapped, fault>>

OldInit ==
  /\ oldStage = "absent"
  /\ chrdev = FALSE /\ region = FALSE /\ gpio = FALSE
  /\ refs = 0
  /\ call = [p \in OldUsers |-> "none"]
  /\ overlapped = FALSE /\ fault = FALSE

OldAt(from, to) == oldStage = from /\ oldStage' = to

(***************************************************************************)
(* dht11_init_module.  A load that fails leaves what it has acquired, the  *)
(* registered device included.                                             *)
(***************************************************************************)
CheckPin ==
  /\ OldAt("absent", "register")
  /\ refs' = 0
  /\ UNCHANGED <<chrdev, registers, call, overlapped, fault>>

register_chrdev ==
  /\ \/ ~chrdev /\ OldAt("register", "request") /\ chrdev' = TRUE
     \/ OldAt("register", "absent") /\ UNCHANGED chrdev
  /\ UNCHANGED <<registers, refs, call, overlapped, fault>>

request_mem_region ==
  /\ \/ ~region /\ OldAt("request", "remap") /\ region' = TRUE
     \/ OldAt("request", "absent") /\ UNCHANGED region
  /\ UNCHANGED <<chrdev, gpio, refs, call, overlapped, fault>>

ioremap ==
  /\ \/ OldAt("remap", "live") /\ gpio' = TRUE
     \/ OldAt("remap", "absent") /\ UNCHANGED gpio
  /\ UNCHANGED <<chrdev, region, refs, call, overlapped, fault>>

(***************************************************************************)
(* dht11_exit_module.                                                      *)
(***************************************************************************)
OldRmmod ==
  /\ OldAt("live", "unmap")
  /\ refs = 0
  /\ overlapped' = (overlapped \/ \E p \in OldUsers : call[p] \in {"open", "close"})
  /\ UNCHANGED <<chrdev, registers, refs, call, fault>>

iounmap ==
  /\ OldAt("unmap", "unregister")
  /\ region' = FALSE /\ gpio' = FALSE
  /\ UNCHANGED <<chrdev, refs, call, overlapped, fault>>

unregister_chrdev ==
  /\ OldAt("unregister", "absent")
  /\ chrdev' = FALSE
  /\ UNCHANGED <<registers, refs, call, overlapped, fault>>

(***************************************************************************)
(* read_dht11 and close_dht11, as far as the module is concerned.          *)
(***************************************************************************)
OldCall(p, from, to) == call[p] = from /\ call' = [call EXCEPT ![p] = to]

TouchRegisters == fault' = (fault \/ ~gpio)

try_module_get_missing == refs

(* It fails, which nobody looks at, once the unloading has begun. *)
try_module_get == IF oldStage \in {"unmap", "unregister"} THEN refs ELSE refs + 1

module_put == IF refs > 0 THEN refs - 1 ELSE 0

(* Device_Open is 0: no other process has the device. *)
OldOpen(p) ==
  /\ chrdev
  /\ \A q \in OldUsers : call[q] \in {"none", "close"}
  /\ OldCall(p, "none", "open")
  /\ refs' = try_module_get
  /\ overlapped' = (overlapped \/ oldStage # "live")
  /\ UNCHANGED <<oldStage, chrdev, registers, fault>>

(* The start pulse, the interrupts and the reading. *)
OldReading(p) ==
  /\ OldCall(p, "open", "session")
  /\ TouchRegisters
  /\ UNCHANGED <<oldStage, chrdev, registers, refs, overlapped>>

(* The count goes down first, that of the module and Device_Open. *)
OldClose(p) ==
  /\ OldCall(p, "session", "close")
  /\ refs' = module_put
  /\ UNCHANGED <<oldStage, chrdev, registers, overlapped, fault>>

clear_interrupts(p) ==
  /\ OldCall(p, "close", "none")
  /\ TouchRegisters
  /\ UNCHANGED <<oldStage, chrdev, registers, refs, overlapped>>
-----------------------------------------------------------------------------
OldModuleInit == CheckPin \/ register_chrdev \/ request_mem_region \/ ioremap

OldModuleExit == OldRmmod \/ iounmap \/ unregister_chrdev

OldNext ==
  \/ OldModuleInit \/ OldModuleExit
  \/ \E p \in OldUsers : OldOpen(p) \/ OldReading(p) \/ OldClose(p) \/ clear_interrupts(p)

OldSpec == OldInit /\ [][OldNext]_oldVars
-----------------------------------------------------------------------------
(* However loads fail and users come and go, the registers are accessed only  *)
(* where they are mapped, except after an open that ran into a load or an     *)
(* unloading, or an unloading that ran into the end of a close.               *)
RegistersMapped == fault => overlapped
=============================================================================
