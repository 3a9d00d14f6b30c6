---------------------------- MODULE Dht11Module ----------------------------
(***************************************************************************)
(* Loading and unloading of the DHT11 driver, dht11km/dht11.c, while other *)
(* processes open and close its device and another driver uses the pin.    *)
(* What an open does in between is Dht11's subject; here it is a session.  *)
(*                                                                         *)
(* An operator with a suffix (_early, _missing...) is the faulty twin of   *)
(* the one below it; no action uses it.                                    *)
(***************************************************************************)
EXTENDS FiniteSets, Naturals

CONSTANT Openers    (* processes that open the device *)

VARIABLES
  stage,      (* where dht11_init_module or dht11_exit_module stands        *)
  held,       (* what the module has acquired and not released              *)
  requested,  (* the kernel's flag that gpio_pin is in use                  *)
  other,      (* another driver has requested gpio_pin                      *)
  sessions,   (* the processes whose open has succeeded                     *)
  gpio_mutex, (* TRUE while locked                                          *)
  raced       (* history: mutex_init found a session                        *)

pinState == <<requested, other>>
users == <<sessions, gpio_mutex, raced>>
driverVars == <<stage, held, pinState, users>>

Everything == {"gpio", "region", "cdev", "class", "device"}

DriverInit ==
  /\ stage = "absent"
  /\ held = {}
  /\ requested = FALSE /\ other = FALSE
  /\ sessions = {} /\ gpio_mutex = FALSE /\ raced = FALSE

At(from, to) == stage = from /\ stage' = to

(***************************************************************************)
(* dht11_init_module.                                                      *)
(***************************************************************************)
(* The module's memory is new, its mutex unlocked. *)
Insmod ==
  /\ At("absent", "gpio")
  /\ gpio_mutex' = FALSE /\ raced' = FALSE
  /\ UNCHANGED <<held, pinState, sessions>>

gpio_request ==
  /\ \/ /\ ~requested
        /\ At("gpio", "region")
        /\ requested' = TRUE
        /\ held' = held \cup {"gpio"}
     \/ /\ requested
        /\ At("gpio", "gpio_free")
        /\ UNCHANGED <<requested, held>>
  /\ UNCHANGED <<other, users>>

(* A call that acquires r and goes on, or fails and jumps to a label. *)
Acquire(from, r, to, label) ==
  /\ \/ At(from, to) /\ held' = held \cup {r}
     \/ At(from, label) /\ UNCHANGED held
  /\ UNCHANGED <<pinState, users>>

NoClass_early == "unregister"

NoClass == "cdev_del"

alloc_chrdev_region == Acquire("region", "region", "alloc", "gpio_free")
cdev_alloc == Acquire("alloc", "cdev", "add", "unregister")
cdev_add == Acquire("add", "cdev", "class", "cdev_del")
class_create == Acquire("class", "class", "device", NoClass)

(* It fails with an error pointer, which is not the NULL that is tested for:  *)
(* the module goes on without a device.                                       *)
device_create == Acquire("device", "device", "locks", "locks")

InitLocks ==
  /\ At("locks", "live")
  /\ gpio_mutex' = FALSE
  /\ raced' = (sessions # {})
  /\ UNCHANGED <<held, pinState, sessions>>

(***************************************************************************)
(* dht11_exit_module, whose last three steps are the labels of the above.  *)
(***************************************************************************)
InUse_unowned == FALSE

(* fops.owner: the module cannot be removed while a file of it is open. *)
InUse == sessions # {}

Rmmod == At("live", "device_destroy") /\ ~InUse /\ UNCHANGED <<held, pinState, users>>

Drop(from, r, to) ==
  /\ At(from, to)
  /\ held' = held \ {r}
  /\ UNCHANGED users

device_destroy == Drop("device_destroy", "device", "class_destroy") /\ UNCHANGED pinState
class_destroy == Drop("class_destroy", "class", "cdev_del") /\ UNCHANGED pinState
cdev_del == Drop("cdev_del", "cdev", "unregister") /\ UNCHANGED pinState
unregister_chrdev_region == Drop("unregister", "region", "gpio_free") /\ UNCHANGED pinState

(* Whoever requested the pin, it is free afterwards. *)
gpio_free ==
  /\ Drop("gpio_free", "gpio", "absent")
  /\ requested' = FALSE
  /\ UNCHANGED other

(***************************************************************************)
(* The others.                                                             *)
(***************************************************************************)
mutex_trylock_untested == TRUE

mutex_trylock == ~gpio_mutex

open_dht11(p) ==
  /\ p \notin sessions
  /\ "device" \in held /\ stage \in {"locks", "live"}
  /\ mutex_trylock
  /\ gpio_mutex' = TRUE
  /\ sessions' = sessions \cup {p}
  /\ UNCHANGED <<stage, held, pinState, raced>>

close_dht11(p) ==
  /\ p \in sessions
  /\ gpio_mutex' = FALSE
  /\ sessions' = sessions \ {p}
  /\ UNCHANGED <<stage, held, pinState, raced>>

OtherDriver ==
  /\ \/ ~requested /\ requested' = TRUE /\ other' = TRUE
     \/ other /\ requested' = FALSE /\ other' = FALSE
  /\ UNCHANGED <<stage, held, users>>
-----------------------------------------------------------------------------
dht11_init_module ==
  \/ Insmod \/ gpio_request \/ alloc_chrdev_region \/ cdev_alloc \/ cdev_add
  \/ class_create \/ device_create \/ InitLocks

dht11_exit_module ==
  \/ Rmmod \/ device_destroy \/ class_destroy \/ cdev_del \/ unregister_chrdev_region
  \/ gpio_free

DriverNext ==
  \/ dht11_init_module \/ dht11_exit_module \/ OtherDriver
  \/ \E p \in Openers : open_dht11(p) \/ close_dht11(p)

DriverSpec == DriverInit /\ [][DriverNext]_driverVars
-----------------------------------------------------------------------------
(* The device can be opened before mutex_init unlocks its mutex.  Sessions    *)
(* exclude each other unless that happens, and then at most two overlap,      *)
(* however many opens and closes follow.                                      *)
ExclusiveUnlessRaced == Cardinality(sessions) <= IF raced THEN 2 ELSE 1

(* As long as a process has the device open, all that the module acquired is  *)
(* there: no failing load and no unloading takes it away under a session.     *)
SessionKeepsModule == sessions # {} => held = Everything

(* A load that fails at any point, and an unloading, leave nothing acquired,  *)
(* and the pin is in use only if another driver has requested it.             *)
NothingLeftBehind == stage = "absent" => held = {} /\ (requested => other)
=============================================================================
