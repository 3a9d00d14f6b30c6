----------------------------- MODULE ModuleProofs -----------------------------
(***************************************************************************)
(* Theorems about the kernel modules that come and go under their users:   *)
(* the two DHT11 drivers and the software UART, each for any number of     *)
(* processes.                                                              *)
(*                                                                         *)
(* DHT11 driver: what the module holds follows from the place where its    *)
(* load or unload stands, and a session is either the one that has the     *)
(* mutex or the one that mutex_init found.                                 *)
(*                                                                         *)
(* Its first version: until an open and an unloading run into each other,  *)
(* calls are under way only in a module that is live, and the use count is *)
(* that of the one session there can be.                                   *)
(*                                                                         *)
(* Software UART: the last caller to choose the transmitting pin is the    *)
(* last to drive it, and what an unloading has undone stays undone unless  *)
(* a call is there to do it again.                                         *)
(***************************************************************************)
EXTENDS SoftUartModule, Dht11Module, Dht11kmModule, FiniteSetTheorems, TLAPS

-----------------------------------------------------------------------------
(***************************************************************************)
(* The DHT11 driver.                                                       *)
(***************************************************************************)
Stages ==
  {"absent", "gpio", "region", "alloc", "add", "class", "device", "locks", "live",
   "device_destroy", "class_destroy", "cdev_del", "unregister", "gpio_free"}

DriverTypeOK ==
  /\ stage \in Stages
  /\ held \subseteq Everything
  /\ requested \in BOOLEAN /\ other \in BOOLEAN
  /\ gpio_mutex \in BOOLEAN /\ raced \in BOOLEAN

(* What the module holds, at each place; the device is there or it is not.   *)
HeldByStage ==
  /\ stage \in {"absent", "gpio"} => held = {}
  /\ stage = "gpio_free" => held \subseteq {"gpio"}
  /\ stage = "region" => held = {"gpio"}
  /\ stage \in {"alloc", "unregister"} => held = {"gpio", "region"}
  /\ stage \in {"add", "class", "cdev_del"} => held = {"gpio", "region", "cdev"}
  /\ stage \in {"device", "class_destroy"} => held = {"gpio", "region", "cdev", "class"}
  /\ stage \in {"locks", "live", "device_destroy"} => Everything \ {"device"} \subseteq held

PinIsOthers == stage = "absent" => (requested => other)

SessionsHaveDevice ==
  sessions # {} => "device" \in held /\ stage \in {"locks", "live"}

(* One session for the mutex, and one for a mutex_init that found one.       *)
SessionsCounted ==
  /\ IsFiniteSet(sessions)
  /\ Cardinality(sessions) <= (IF gpio_mutex THEN 1 ELSE 0) + (IF raced THEN 1 ELSE 0)
  /\ stage = "locks" => ~raced

(* Until the locks are initialised nothing has raced for them.               *)
NotYetRaced ==
  stage \in {"gpio", "region", "alloc", "add", "class", "device"} => ~raced

DriverInv ==
  /\ DriverTypeOK /\ HeldByStage /\ PinIsOthers
  /\ SessionsHaveDevice /\ SessionsCounted /\ NotYetRaced

(* Nothing is held, and nobody has a session, before the first load.          *)
LEMMA DriverStarts == DriverInit => DriverInv
<1> SUFFICES ASSUME DriverInit PROVE DriverInv
  OBVIOUS
<1>1. DriverTypeOK /\ HeldByStage /\ PinIsOthers /\ SessionsHaveDevice /\ NotYetRaced
  BY DEF DriverInit, DriverTypeOK, Stages, HeldByStage, PinIsOthers, SessionsHaveDevice,
     NotYetRaced
<1>2. SessionsCounted
  BY FS_EmptySet DEF DriverInit, SessionsCounted
<1> QED
  BY <1>1, <1>2 DEF DriverInv

(* An open takes the room that the free mutex leaves, a close gives it back. *)
LEMMA OpenIsCounted ==
  ASSUME DriverTypeOK, SessionsCounted, NEW p \in Openers, open_dht11(p)
  PROVE  SessionsCounted'
<1>1. gpio_mutex = FALSE /\ gpio_mutex' = TRUE /\ raced' = raced /\ stage' = stage
  BY DEF open_dht11, mutex_trylock, DriverTypeOK
<1>2. p \notin sessions /\ sessions' = sessions \cup {p}
  BY DEF open_dht11
<1>3. IsFiniteSet(sessions') /\ Cardinality(sessions') = Cardinality(sessions) + 1
  BY <1>2, FS_AddElement DEF SessionsCounted
<1>4. Cardinality(sessions) \in Nat
  BY FS_CardinalityType DEF SessionsCounted
<1>5. CASE raced = TRUE
  BY <1>1, <1>3, <1>4, <1>5 DEF SessionsCounted
<1>6. CASE raced = FALSE
  BY <1>1, <1>3, <1>4, <1>6 DEF SessionsCounted
<1> QED
  BY <1>5, <1>6 DEF DriverTypeOK

(* A close takes its own session off the count.                              *)
LEMMA CloseIsCounted ==
  ASSUME DriverTypeOK, SessionsCounted, NEW p \in Openers, close_dht11(p)
  PROVE  SessionsCounted'
<1>1. gpio_mutex' = FALSE /\ raced' = raced /\ stage' = stage
  BY DEF close_dht11
<1>2. p \in sessions /\ sessions' = sessions \ {p}
  BY DEF close_dht11
<1>3. IsFiniteSet(sessions') /\ Cardinality(sessions') = Cardinality(sessions) - 1
  BY <1>2, FS_RemoveElement DEF SessionsCounted
<1>4. Cardinality(sessions) \in Nat
  BY FS_CardinalityType DEF SessionsCounted
<1>5. CASE raced = TRUE
  BY <1>1, <1>3, <1>4, <1>5 DEF SessionsCounted
<1>6. CASE raced = FALSE
  BY <1>1, <1>3, <1>4, <1>6 DEF SessionsCounted
<1> QED
  BY <1>5, <1>6 DEF DriverTypeOK

(* The mutex that mutex_init unlocks may be that of a session.               *)
LEMMA InitIsCounted ==
  ASSUME DriverTypeOK, SessionsCounted, InitLocks
  PROVE  SessionsCounted'
<1>1. /\ raced = FALSE /\ gpio_mutex' = FALSE /\ raced' = (sessions # {})
      /\ sessions' = sessions /\ stage' = "live"
  BY DEF InitLocks, SessionsCounted, At, DriverTypeOK
<1>2. IsFiniteSet(sessions) /\ Cardinality(sessions) \in Nat
  BY FS_CardinalityType DEF SessionsCounted
<1>3. Cardinality(sessions) <= 1
  BY <1>1, <1>2 DEF SessionsCounted
<1>4. CASE sessions = {}
  BY <1>1, <1>2, <1>4, FS_EmptySet DEF SessionsCounted
<1>5. CASE sessions # {}
  <2>1. raced' = TRUE
    BY <1>1, <1>5
  <2>2. gpio_mutex' = FALSE /\ sessions' = sessions /\ stage' = "live"
    BY <1>1
  <2> QED
    BY <2>1, <2>2, <1>2, <1>3 DEF SessionsCounted
<1> QED
  BY <1>4, <1>5

(* One step per action.                                                      *)
LEMMA DriverSteps == DriverInv /\ [DriverNext]_driverVars => DriverInv'
<1> SUFFICES ASSUME DriverInv, [DriverNext]_driverVars
             PROVE  DriverInv'
  OBVIOUS
<1> USE DEF DriverInv, DriverTypeOK, HeldByStage, PinIsOthers, SessionsHaveDevice, NotYetRaced,
            Stages, Everything, pinState, users, At
<1>1. ASSUME UNCHANGED <<sessions, gpio_mutex, raced>>, stage' = "locks" => ~raced
      PROVE  SessionsCounted'
  BY <1>1 DEF SessionsCounted
<1>2. CASE Insmod
  <2>1. sessions' = {} /\ raced' = FALSE /\ gpio_mutex' = FALSE
    BY <1>2 DEF Insmod
  <2>2. SessionsCounted'
    BY <2>1, FS_EmptySet DEF SessionsCounted
  <2> QED
    BY <1>2, <2>2 DEF Insmod
<1>3. CASE gpio_request
  BY <1>1, <1>3 DEF gpio_request
<1>4. CASE alloc_chrdev_region
  BY <1>1, <1>4 DEF alloc_chrdev_region, Acquire
<1>5. CASE cdev_alloc
  BY <1>1, <1>5 DEF cdev_alloc, Acquire
<1>6. CASE cdev_add
  BY <1>1, <1>6 DEF cdev_add, Acquire
<1>7. CASE class_create
  BY <1>1, <1>7 DEF class_create, Acquire, NoClass
<1>8. CASE device_create
  BY <1>1, <1>8 DEF device_create, Acquire
<1>9. CASE InitLocks
  BY <1>9, InitIsCounted DEF InitLocks
<1>10. CASE Rmmod
  BY <1>1, <1>10 DEF Rmmod, InUse
<1>11. CASE device_destroy
  BY <1>1, <1>11 DEF device_destroy, Drop
<1>12. CASE class_destroy
  BY <1>1, <1>12 DEF class_destroy, Drop
<1>13. CASE cdev_del
  BY <1>1, <1>13 DEF cdev_del, Drop
<1>14. CASE unregister_chrdev_region
  BY <1>1, <1>14 DEF unregister_chrdev_region, Drop
<1>15. CASE gpio_free
  BY <1>1, <1>15 DEF gpio_free, Drop
<1>16. CASE OtherDriver
  <2>1. UNCHANGED <<stage, held, users>> /\ (requested' => other')
        /\ requested' \in BOOLEAN /\ other' \in BOOLEAN
    BY <1>16 DEF OtherDriver
  <2>2. SessionsCounted'
    BY <1>1, <2>1 DEF SessionsCounted
  <2> QED
    BY <2>1, <2>2
<1>17. ASSUME NEW p \in Openers, open_dht11(p)
       PROVE  DriverInv'
  BY <1>17, OpenIsCounted DEF open_dht11
<1>18. ASSUME NEW p \in Openers, close_dht11(p)
       PROVE  DriverInv'
  BY <1>18, CloseIsCounted DEF close_dht11
<1>19. CASE UNCHANGED driverVars
  BY <1>1, <1>19 DEF driverVars, SessionsCounted
<1> QED
  BY <1>2, <1>3, <1>4, <1>5, <1>6, <1>7, <1>8, <1>9, <1>10, <1>11, <1>12, <1>13, <1>14,
     <1>15, <1>16, <1>17, <1>18, <1>19
     DEF DriverNext, dht11_init_module, dht11_exit_module

(* The invariant holds throughout.                                           *)
LEMMA DriverInvariant == DriverSpec => []DriverInv
BY DriverStarts, DriverSteps, PTL DEF DriverSpec

(* However many processes there are: sessions exclude each other unless one  *)
(* came before mutex_init (dht11.c:224), and then at most two overlap.       *)
THEOREM SessionsAreFew == DriverSpec => []ExclusiveUnlessRaced
<1>1. DriverInv => ExclusiveUnlessRaced
  <2> SUFFICES ASSUME DriverInv PROVE ExclusiveUnlessRaced
    OBVIOUS
  <2>1. Cardinality(sessions) \in Nat
    BY FS_CardinalityType DEF DriverInv, SessionsCounted
  <2> QED
    BY <2>1 DEF DriverInv, DriverTypeOK, SessionsCounted, ExclusiveUnlessRaced
<1> QED
  BY <1>1, DriverInvariant, PTL

(* Neither a failing load nor an unloading takes from a session what the     *)
(* module acquired (dht11.c:229 and 246).                                    *)
THEOREM ModuleIsKept == DriverSpec => []SessionKeepsModule
<1>1. DriverInv => SessionKeepsModule
  BY DEF DriverInv, DriverTypeOK, HeldByStage, SessionsHaveDevice, SessionKeepsModule, Everything
<1> QED
  BY <1>1, DriverInvariant, PTL

(* No error path and no unloading leaves anything acquired (dht11.c:229-240).*)
THEOREM NothingIsLeft == DriverSpec => []NothingLeftBehind
<1>1. DriverInv => NothingLeftBehind
  BY DEF DriverInv, HeldByStage, PinIsOthers, NothingLeftBehind
<1> QED
  BY <1>1, DriverInvariant, PTL

-----------------------------------------------------------------------------
(***************************************************************************)
(* The first version of the DHT11 driver.                                  *)
(***************************************************************************)
OldStages == {"absent", "register", "request", "remap", "live", "unmap", "unregister"}

KmTypeOK ==
  /\ oldStage \in OldStages
  /\ gpio \in BOOLEAN /\ overlapped \in BOOLEAN /\ fault \in BOOLEAN
  /\ refs \in Nat
  /\ call \in [OldUsers -> {"none", "open", "session", "close"}]

InSession == {p \in OldUsers : call[p] \in {"open", "session"}}

LiveIsMapped == oldStage = "live" => gpio

CallsNeedModule == \A p \in OldUsers : call[p] # "none" => oldStage = "live"

OneSession == \A p, q \in InSession : p = q

CountIsSession == refs = IF InSession = {} THEN 0 ELSE 1

(* As long as nothing has overlapped. *)
InOrder ==
  ~overlapped => ~fault /\ CallsNeedModule /\ OneSession /\ CountIsSession

KmInv == KmTypeOK /\ LiveIsMapped /\ InOrder

(* Nobody has the device before the first version is loaded.                 *)
LEMMA KmStarts == OldInit => KmInv
<1> SUFFICES ASSUME OldInit PROVE KmInv
  OBVIOUS
<1>1. InSession = {}
  BY DEF OldInit, InSession
<1>2. KmTypeOK /\ LiveIsMapped
  BY DEF OldInit, KmTypeOK, OldStages, LiveIsMapped
<1>3. InOrder
  BY <1>1 DEF OldInit, InOrder, CallsNeedModule, OneSession, CountIsSession
<1> QED
  BY <1>2, <1>3 DEF KmInv

(* What the steps of load and unload leave alone.                            *)
LEMMA SameCalls ==
  ASSUME UNCHANGED <<refs, call, fault>>, OneSession, CountIsSession
  PROVE  OneSession' /\ CountIsSession'
BY DEF OneSession, CountIsSession, InSession

(* One step per action.                                                      *)
LEMMA KmSteps == KmInv /\ [OldNext]_oldVars => KmInv'
<1> SUFFICES ASSUME KmInv, [OldNext]_oldVars
             PROVE  KmInv'
  OBVIOUS
<1> USE DEF KmInv, KmTypeOK, OldStages, LiveIsMapped, registers, OldAt
<1>1. ASSUME UNCHANGED <<refs, call, fault>>, overlapped' = overlapped,
             oldStage = "live" => oldStage' = "live"
      PROVE  InOrder'
  <2>1. ~overlapped => CallsNeedModule'
    BY <1>1 DEF InOrder, CallsNeedModule
  <2> QED
    BY <1>1, <2>1, SameCalls DEF InOrder
<1>2. CASE CheckPin
  <2>1. ~overlapped => InSession = {} /\ InSession' = {}
    BY <1>2 DEF CheckPin, InOrder, CallsNeedModule, InSession
  <2>2. InOrder'
    BY <1>2, <2>1 DEF CheckPin, InOrder, CallsNeedModule, OneSession, CountIsSession
  <2> QED
    BY <1>2, <2>2 DEF CheckPin
<1>3. CASE register_chrdev
  BY <1>1, <1>3 DEF register_chrdev
<1>4. CASE request_mem_region
  BY <1>1, <1>4 DEF request_mem_region
<1>5. CASE ioremap
  BY <1>1, <1>5 DEF ioremap
<1>6. CASE OldRmmod
  <2>1. /\ oldStage' = "unmap" /\ refs = 0 /\ UNCHANGED <<gpio, refs, call, fault>>
        /\ overlapped' = (overlapped \/ \E p \in OldUsers : call[p] \in {"open", "close"})
    BY <1>6 DEF OldRmmod
  <2>2. ASSUME ~overlapped'
        PROVE  ~fault' /\ CallsNeedModule' /\ OneSession' /\ CountIsSession'
    <3>1. ~overlapped /\ \A p \in OldUsers : call[p] \notin {"open", "close"}
      BY <2>1, <2>2
    <3>2. InSession = {}
      BY <2>1, <3>1 DEF InOrder, CountIsSession
    <3>3. \A p \in OldUsers : call[p] = "none"
      BY <3>1, <3>2 DEF InSession
    <3> QED
      BY <2>1, <3>1, <3>3, SameCalls DEF InOrder, CallsNeedModule
  <2>3. KmTypeOK'
    BY <2>1
  <2> QED
    BY <2>1, <2>2, <2>3 DEF InOrder
<1>7. CASE iounmap
  BY <1>1, <1>7 DEF iounmap
<1>8. CASE unregister_chrdev
  BY <1>1, <1>8 DEF unregister_chrdev
<1>9. ASSUME NEW p \in OldUsers, OldOpen(p)
      PROVE  KmInv'
  <2>1. /\ \A q \in OldUsers : call[q] \in {"none", "close"}
        /\ call' = [call EXCEPT ![p] = "open"]
        /\ refs' = (IF oldStage \in {"unmap", "unregister"} THEN refs ELSE refs + 1)
        /\ overlapped' = (overlapped \/ oldStage # "live")
        /\ UNCHANGED <<oldStage, gpio, fault>>
    BY <1>9 DEF OldOpen, OldCall, try_module_get
  <2>2. KmTypeOK' /\ LiveIsMapped'
    BY <2>1
  <2>3. InSession = {} /\ InSession' = {p}
    BY <2>1 DEF InSession
  <2>4. ASSUME ~overlapped'
        PROVE  ~fault' /\ CallsNeedModule' /\ OneSession' /\ CountIsSession'
    <3>1. ~overlapped /\ oldStage = "live"
      BY <2>1, <2>4
    <3>2. refs = 0 /\ refs' = 1
      BY <2>1, <2>3, <3>1 DEF InOrder, CountIsSession
    <3> QED
      BY <2>1, <2>3, <3>1, <3>2 DEF InOrder, CallsNeedModule, OneSession, CountIsSession
  <2> QED
    BY <2>2, <2>4 DEF InOrder
<1>10. ASSUME NEW p \in OldUsers, OldReading(p)
       PROVE  KmInv'
  <2>1. /\ call[p] = "open" /\ call' = [call EXCEPT ![p] = "session"]
        /\ fault' = (fault \/ ~gpio)
        /\ UNCHANGED <<oldStage, gpio, refs, overlapped>>
    BY <1>10 DEF OldReading, OldCall, TouchRegisters
  <2>2. KmTypeOK' /\ LiveIsMapped'
    BY <2>1
  <2>3. InSession' = InSession
    BY <2>1 DEF InSession
  <2>4. ASSUME ~overlapped
        PROVE  ~fault' /\ CallsNeedModule' /\ OneSession' /\ CountIsSession'
    BY <2>1, <2>3, <2>4 DEF InOrder, CallsNeedModule, OneSession, CountIsSession
  <2> QED
    BY <2>1, <2>2, <2>4 DEF InOrder
<1>11. ASSUME NEW p \in OldUsers, OldClose(p)
       PROVE  KmInv'
  <2>1. /\ call[p] = "session" /\ call' = [call EXCEPT ![p] = "close"]
        /\ refs' = (IF refs > 0 THEN refs - 1 ELSE 0)
        /\ UNCHANGED <<oldStage, gpio, fault, overlapped>>
    BY <1>11 DEF OldClose, OldCall, module_put
  <2>2. KmTypeOK' /\ LiveIsMapped'
    BY <2>1
  <2>3. p \in InSession /\ InSession' = InSession \ {p}
    BY <2>1 DEF InSession
  <2>4. ASSUME ~overlapped
        PROVE  ~fault' /\ CallsNeedModule' /\ OneSession' /\ CountIsSession'
    <3>1. InSession' = {} /\ refs = 1 /\ refs' = 0
      BY <2>1, <2>3, <2>4 DEF InOrder, OneSession, CountIsSession
    <3> QED
      BY <2>1, <2>4, <3>1 DEF InOrder, CallsNeedModule, OneSession, CountIsSession
  <2> QED
    BY <2>1, <2>2, <2>4 DEF InOrder
<1>12. ASSUME NEW p \in OldUsers, clear_interrupts(p)
       PROVE  KmInv'
  <2>1. /\ call[p] = "close" /\ call' = [call EXCEPT ![p] = "none"]
        /\ fault' = (fault \/ ~gpio)
        /\ UNCHANGED <<oldStage, gpio, refs, overlapped>>
    BY <1>12 DEF clear_interrupts, OldCall, TouchRegisters
  <2>2. KmTypeOK' /\ LiveIsMapped'
    BY <2>1
  <2>3. InSession' = InSession
    BY <2>1 DEF InSession
  <2>4. ASSUME ~overlapped
        PROVE  ~fault' /\ CallsNeedModule' /\ OneSession' /\ CountIsSession'
    BY <2>1, <2>3, <2>4 DEF InOrder, CallsNeedModule, OneSession, CountIsSession
  <2> QED
    BY <2>1, <2>2, <2>4 DEF InOrder
<1>13. CASE UNCHANGED oldVars
  BY <1>1, <1>13 DEF oldVars
<1> QED
  BY <1>2, <1>3, <1>4, <1>5, <1>6, <1>7, <1>8, <1>9, <1>10, <1>11, <1>12, <1>13
     DEF OldNext, OldModuleInit, OldModuleExit

(* For any number of processes, and however loads fail: the registers are     *)
(* accessed only where ioremap (old_version_dht11km.c:217) has mapped them,   *)
(* unless an open or an unloading ran into the other.                         *)
THEOREM RegistersStayMapped == OldSpec => []RegistersMapped
<1>1. KmInv => RegistersMapped
  BY DEF KmInv, KmTypeOK, InOrder, RegistersMapped
<1> QED
  BY <1>1, KmStarts, KmSteps, PTL DEF OldSpec

-----------------------------------------------------------------------------
(***************************************************************************)
(* The software UART.                                                      *)
(***************************************************************************)
OnTx == {"release", "releaseStore", "txAssign", "drive", "driveStore"}
OnRx == {"rxAssign", "listen", "listenStore"}
Functions == {"in", "out"}

UartTypeOK ==
  /\ GPFSEL \in [Pins -> Functions]
  /\ GPIO_TX \in TxPins /\ GPIO_RX \in RxPins
  /\ txTimer \in BOOLEAN /\ rxTimer \in BOOLEAN
  /\ mpc \in {"absent", "class", "timer", "device", "files", "live", "stuck",
              "cancelRx", "restore", "restoreStore", "remove", "drain", "unregister", "destroy", "oops"}
  /\ pc \in [Callers -> OnTx \cup OnRx \cup {"idle", "start", "rate"}]
  /\ arg \in [Callers -> Nat]
  /\ pin \in [Threads -> Nat] /\ old \in [Threads -> [Pins -> Functions]]
  /\ late \in BOOLEAN /\ torn \in BOOLEAN /\ overlap \in BOOLEAN
  /\ \A c \in Callers : /\ pc[c] \in OnTx => arg[c] \in TxPins
                        /\ pc[c] \in OnRx => arg[c] \in RxPins
                        /\ pc[c] \in {"releaseStore", "driveStore"} => pin[c] \in TxPins
                        /\ pc[c] = "listenStore" => pin[c] \in RxPins

(* What users can do without harm: no pin is used both ways.                 *)
PinsApart == TxPins \cap RxPins = {}

Loaded == mpc \in {"class", "timer", "device", "files", "live", "stuck"}

(* A caller that has yet to choose the transmitting pin, or to drive the one *)
(* that is chosen.                                                           *)
WillDrive(c) ==
  \/ pc[c] \in {"release", "releaseStore", "txAssign"}
  \/ pc[c] = "drive" /\ arg[c] = GPIO_TX
  \/ pc[c] = "driveStore" /\ pin[c] = GPIO_TX

DrivenInv == Loaded /\ ~ torn => GPFSEL[GPIO_TX] = "out" \/ \E c \in Callers : WillDrive(c)

(* A call needs a file, and the files are there from the loading's end to    *)
(* the unloading's.                                                          *)
FilesInv ==
  mpc \in {"absent", "class", "timer", "device", "unregister", "destroy"} => files = {} /\ Busy = {}

(* What an unloading that no call ran into has undone so far.                *)
CleanInv ==
  ~ late /\ (Unloading \/ mpc = "absent") =>
    /\ Busy = {} /\ ~ txTimer
    /\ mpc # "cancelRx" => ~ rxTimer
    /\ mpc = "restoreStore" => pin["module"] = GPIO_TX
    /\ mpc \in {"remove", "drain", "unregister", "destroy", "absent"} => GPFSEL[GPIO_TX] = "in"

(* Until something overlaps, one call is under way at a time and in a loaded *)
(* module, the word that a thread holds is the one that is there, and the    *)
(* transmitting pin is the only output.                                      *)
AloneInv ==
  ~ overlap =>
    /\ \A c, d \in Busy : c = d
    /\ Busy # {} => ~ Unloading
    /\ \A c \in Callers : pc[c] \in {"releaseStore", "driveStore", "listenStore"} => old[c] = GPFSEL
    /\ \A c \in Callers : pc[c] \in {"releaseStore", "driveStore"} => pin[c] = GPIO_TX
    /\ \A c \in Callers : pc[c] = "drive" => arg[c] = GPIO_TX
    /\ mpc = "restoreStore" => old["module"] = GPFSEL /\ pin["module"] = GPIO_TX

ReleasedNow ==
  mpc \in {"absent", "remove", "drain", "unregister", "destroy"} \/ \E c \in Callers : pc[c] \in {"txAssign", "drive", "driveStore"}

OnlyOutput ==
  ~ overlap => \A p \in Pins : GPFSEL[p] = "out" => p = GPIO_TX /\ ~ ReleasedNow

TornInv == ~ overlap => ~ torn

UartInv == UartTypeOK /\ FilesInv /\ CleanInv /\ AloneInv /\ TornInv /\ OnlyOutput

(* Before the module is loaded there is no call and every pin is an input.   *)
LEMMA UartStarts == Init => UartInv /\ DrivenInv
<1> SUFFICES ASSUME Init PROVE UartInv /\ DrivenInv
  OBVIOUS
<1>1. AllInputs \in [Pins -> Functions] /\ \A p \in Pins : AllInputs[p] = "in"
  BY DEF AllInputs, Functions
<1>2. Busy = {} /\ \A c \in Callers : pc[c] = "idle"
  BY DEF Init, Busy
<1>3. UartTypeOK
  BY <1>1, <1>2, SoftUartModuleAssumption DEF Init, UartTypeOK, OnTx, OnRx
<1> QED
  BY <1>1, <1>2, <1>3, SoftUartModuleAssumption
  DEF Init, UartInv, DrivenInv, Loaded, FilesInv, CleanInv, AloneInv, TornInv, OnlyOutput, Unloading

(* A word that is loaded and stored has the function of one pin changed.     *)
LEMMA StoreType ==
  ASSUME UartTypeOK, NEW t \in Threads, NEW f \in Functions, StoreWord(t, f)
  PROVE  /\ GPFSEL' \in [Pins -> Functions]
         /\ pin' \in [Threads -> Nat] /\ old' \in [Threads -> [Pins -> Functions]]
         /\ pin[t] \in Pins => GPFSEL'[pin[t]] = f
         /\ \A s \in Threads \ {t} : pin'[s] = pin[s] /\ old'[s] = old[s]
         /\ torn' \in BOOLEAN
<1>1. AllInputs \in [Pins -> Functions]
  BY DEF AllInputs, Functions
<1>2. \A p \in Pins : (IF p = pin[t] THEN f ELSE IF Word(p) = Word(pin[t]) THEN old[t][p]
                       ELSE GPFSEL[p]) \in Functions
  BY DEF UartTypeOK
<1>3. torn' \in BOOLEAN
  BY DEF StoreWord, Stale, UartTypeOK
<1> QED
  BY <1>1, <1>2, <1>3 DEF StoreWord, UartTypeOK

(* A word that is loaded is a word of function codes.                        *)
LEMMA LoadType ==
  ASSUME UartTypeOK, NEW t \in Threads, NEW which \in Nat, LoadWord(t, which)
  PROVE  /\ pin' \in [Threads -> Nat] /\ old' \in [Threads -> [Pins -> Functions]]
         /\ pin'[t] = which /\ old'[t] = GPFSEL
         /\ \A s \in Threads \ {t} : pin'[s] = pin[s] /\ old'[s] = old[s]
BY DEF LoadWord, UartTypeOK

(* Callers and the module are threads, and pins have numbers.                *)
LEMMA CallerIsThread ==
  /\ \A c \in Callers : c \in Threads /\ c # "module"
  /\ "module" \in Threads
  /\ TxPins \subseteq Pins /\ RxPins \subseteq Pins /\ Pins \subseteq Nat
BY SoftUartModuleAssumption DEF Threads

(* One step per action keeps every range.                                    *)
LEMMA UartTypes == UartTypeOK /\ [Next]_vars => UartTypeOK'
<1> SUFFICES ASSUME UartTypeOK, [Next]_vars PROVE UartTypeOK'
  OBVIOUS
<1> USE CallerIsThread
<1>1. ASSUME NEW c \in Callers, Write(c) PROVE UartTypeOK'
  <2>1. ASSUME NEW f \in Files, NEW value \in Nat, Call(c, f, value),
               f = "gpio_tx" => value \in TxPins, f = "gpio_rx" => value \in RxPins,
               f \in {"gpio_tx", "gpio_rx", "data", "baudrate"}
        PROVE  UartTypeOK'
    <3>1. /\ FirstStep(f) \in {"release", "rxAssign", "start", "rate"}
          /\ FirstStep(f) \in OnTx => value \in TxPins
          /\ FirstStep(f) \in OnRx => value \in RxPins
      BY <2>1 DEF FirstStep, OnTx, OnRx
    <3>2. /\ pc' = [pc EXCEPT ![c] = FirstStep(f)] /\ arg' = [arg EXCEPT ![c] = value]
          /\ late' \in BOOLEAN /\ overlap' \in BOOLEAN
          /\ UNCHANGED <<GPFSEL, settings, timers, files, mpc, word, torn>>
      BY <2>1 DEF Call
    <3> QED
      BY <3>1, <3>2 DEF UartTypeOK, settings, timers, word, OnTx, OnRx
  <2>2. Rates \subseteq Nat /\ {"gpio_tx", "gpio_rx", "data", "baudrate"} \subseteq Files
    BY SoftUartModuleAssumption DEF Files, DEVICE_ATTR
  <2> QED
    BY <1>1, <2>1, <2>2 DEF Write
<1>2. ASSUME NEW c \in Callers, CallStep(c) PROVE UartTypeOK'
  <2> USE DEF Step, settings, timers, word, OnTx, OnRx
  <2>1. CASE Release(c)
    <3>1. GPIO_TX \in Nat /\ LoadWord(c, GPIO_TX)
      BY <2>1 DEF Release, ReleasedPin, UartTypeOK
    <3> QED
      BY <2>1, <3>1, LoadType DEF Release, UartTypeOK
  <2>2. CASE ReleaseStore(c)
    <3>1. StoreWord(c, "in") /\ "in" \in Functions
      BY <2>2 DEF ReleaseStore, Functions
    <3> QED
      BY <2>2, <3>1, StoreType DEF ReleaseStore, UartTypeOK
  <2>3. CASE TxAssign(c)
    BY <2>3 DEF TxAssign, AfterAssign, UartTypeOK
  <2>4. CASE Drive(c)
    <3>1. PICK which \in {GPIO_TX, arg[c]} : LoadWord(c, which)
      BY <2>4 DEF Drive
    <3>2. which \in TxPins /\ which \in Nat
      BY <2>4 DEF Drive, UartTypeOK
    <3> QED
      BY <2>4, <3>1, <3>2, LoadType DEF Drive, UartTypeOK
  <2>5. CASE DriveStore(c)
    <3>1. StoreWord(c, "out") /\ "out" \in Functions
      BY <2>5 DEF DriveStore, Functions
    <3> QED
      BY <2>5, <3>1, StoreType DEF DriveStore, UartTypeOK
  <2>6. CASE RxAssign(c)
    BY <2>6 DEF RxAssign, UartTypeOK
  <2>7. CASE Listen(c)
    <3>1. PICK which \in {GPIO_RX, arg[c]} : LoadWord(c, which)
      BY <2>7 DEF Listen
    <3>2. which \in RxPins /\ which \in Nat
      BY <2>7 DEF Listen, UartTypeOK
    <3> QED
      BY <2>7, <3>1, <3>2, LoadType DEF Listen, UartTypeOK
  <2>8. CASE ListenStore(c)
    <3>1. StoreWord(c, "in") /\ "in" \in Functions
      BY <2>8 DEF ListenStore, Functions
    <3> QED
      BY <2>8, <3>1, StoreType DEF ListenStore, UartTypeOK
  <2>9. CASE SetRate(c) \/ StartTx(c)
    BY <2>9 DEF SetRate, StartTx, UartTypeOK
  <2> QED
    BY <1>2, <2>1, <2>2, <2>3, <2>4, <2>5, <2>6, <2>7, <2>8, <2>9 DEF CallStep
<1>3. CASE ModuleInit
  <2>1. CASE InitPins
    <3>1. GPFSEL' \in [Pins -> Functions]
      BY <2>1 DEF InitPins, UartTypeOK, Functions
    <3> QED
      BY <2>1, <3>1 DEF InitPins, UartTypeOK, timers, calls, word
  <2>2. CASE CreateClass \/ StartRx \/ CreateDevice
    BY <2>2 DEF CreateClass, StartRx, CreateDevice, UartTypeOK, settings, timers, calls, word
  <2>3. CASE CreateFile
    BY <2>3 DEF CreateFile, UartTypeOK, settings, timers, calls, word
  <2>4. CASE Halted
    BY <2>4 DEF Halted, UartTypeOK, vars, settings, timers, calls, word
  <2> QED
    BY <1>3, <2>1, <2>2, <2>3, <2>4 DEF ModuleInit
<1>4. CASE ModuleExit
  <2>1. CASE CancelTx \/ CancelRx
    BY <2>1 DEF CancelTx, CancelRx, hrtimer_cancel, UartTypeOK, settings, timers, calls, word
  <2>2. CASE Restore
    <3>1. GPIO_TX \in Nat /\ LoadWord("module", GPIO_TX)
      BY <2>2 DEF Restore, UartTypeOK
    <3> QED
      BY <2>2, <3>1, LoadType DEF Restore, UartTypeOK, settings, timers, calls
  <2>3. CASE RestoreStore
    <3>1. StoreWord("module", "in") /\ "in" \in Functions
      BY <2>3 DEF RestoreStore, Functions
    <3> QED
      BY <2>3, <3>1, StoreType DEF RestoreStore, UartTypeOK, settings, timers, calls
  <2>4. CASE RemoveFile \/ FileRemoved \/ ClassUnregister \/ ClassDestroy
    BY <2>4 DEF RemoveFile, FileRemoved, ClassUnregister, ClassDestroy, UartTypeOK,
                settings, timers, calls, word
  <2> QED
    BY <1>4, <2>1, <2>2, <2>3, <2>4 DEF ModuleExit, ExitStep
<1>5. CASE UNCHANGED vars
  BY <1>5 DEF UartTypeOK, vars, settings, timers, calls, word
<1> QED
  BY <1>1, <1>2, <1>3, <1>4, <1>5 DEF Next

(* One step per action: there is no file, and no call, before the last stage of *)
(* the loading.                                                              *)
LEMMA FilesSteps == UartTypeOK /\ FilesInv /\ [Next]_vars => FilesInv'
<1> SUFFICES ASSUME UartTypeOK, FilesInv, [Next]_vars PROVE FilesInv'
  OBVIOUS
<1>1. ASSUME NEW c \in Callers, Write(c) PROVE FilesInv'
  BY <1>1 DEF Write, Call, FilesInv
<1>2. ASSUME NEW c \in Callers, CallStep(c) PROVE FilesInv'
  <2>1. c \in Busy /\ UNCHANGED <<mpc, files>>
    BY <1>2 DEF CallStep, Release, ReleaseStore, TxAssign, Drive, DriveStore, RxAssign, Listen,
                ListenStore, SetRate, StartTx, Step, Busy
  <2> QED
    BY <2>1 DEF FilesInv
<1>3. CASE ModuleInit
  BY <1>3 DEF ModuleInit, InitPins, CreateClass, StartRx, CreateDevice, CreateFile, Halted,
              FilesInv, Busy, calls, vars
<1>4. CASE ModuleExit
  <2>1. CASE FileRemoved
    <3>1. UNCHANGED <<files, calls>> /\ (mpc' = "unregister" => files = {})
      BY <2>1 DEF FileRemoved
    <3>2. files = {} => Busy = {}
      BY <2>1 DEF FileRemoved, Drained
    <3>3. mpc' \in {"unregister", "remove"}
      BY <2>1 DEF FileRemoved
    <3> QED
      BY <3>1, <3>2, <3>3 DEF FilesInv, Busy, calls
  <2>2. CASE ClassUnregister \/ ClassDestroy
    BY <2>2 DEF ClassUnregister, ClassDestroy, FilesInv, Busy, calls
  <2>3. CASE CancelTx \/ CancelRx \/ Restore \/ RestoreStore \/ RemoveFile
    BY <2>3 DEF CancelTx, CancelRx, Restore, RestoreStore, RemoveFile, FilesInv
  <2> QED
    BY <1>4, <2>1, <2>2, <2>3 DEF ModuleExit, ExitStep
<1>5. CASE UNCHANGED vars
  BY <1>5 DEF FilesInv, Busy, calls, vars
<1> QED
  BY <1>1, <1>2, <1>3, <1>4, <1>5 DEF Next

(* A step of a call leaves the module's place and its history alone; and so  *)
(* an unloading that no call ran into has none.                              *)
LEMMA CallStepFacts ==
  ASSUME UartTypeOK, NEW c \in Callers, CallStep(c)
  PROVE  /\ c \in Busy /\ UNCHANGED <<mpc, files, late, overlap, file, arg, rxTimer>>
         /\ \A d \in Callers \ {c} : pc'[d] = pc[d]
         /\ \A t \in Threads \ {c} : pin'[t] = pin[t] /\ old'[t] = old[t]
         /\ Busy' \subseteq Busy
<1>1. /\ pc[c] # "idle" /\ pc' = [pc EXCEPT ![c] = pc'[c]]
      /\ UNCHANGED <<mpc, files, late, overlap, file, arg, rxTimer>>
  BY DEF CallStep, Release, ReleaseStore, TxAssign, Drive, DriveStore, RxAssign, Listen,
         ListenStore, SetRate, StartTx, Step, timers, UartTypeOK
<1>2. \A t \in Threads \ {c} : pin'[t] = pin[t] /\ old'[t] = old[t]
  BY CallerIsThread
  DEF CallStep, Release, ReleaseStore, TxAssign, Drive, DriveStore, RxAssign, Listen,
      ListenStore, SetRate, StartTx, LoadWord, StoreWord, UartTypeOK, word
<1> QED
  BY <1>1, <1>2 DEF UartTypeOK, Busy

(* One step per action: what is loaded is what there is to remove.           *)
LEMMA CleanSteps == UartTypeOK /\ FilesInv /\ CleanInv /\ [Next]_vars => CleanInv'
<1> SUFFICES ASSUME UartTypeOK, FilesInv, CleanInv, [Next]_vars PROVE CleanInv'
  OBVIOUS
<1> USE CallerIsThread
<1>1. ASSUME NEW c \in Callers, Write(c) PROVE CleanInv'
  <2>1. /\ mpc # "absent" /\ mpc' = mpc /\ late' = (late \/ Unloading)
    BY <1>1 DEF Write, Call, FilesInv
  <2> QED
    BY <2>1 DEF CleanInv, Unloading
<1>2. ASSUME NEW c \in Callers, CallStep(c) PROVE CleanInv'
  BY <1>2, CallStepFacts DEF CleanInv, Unloading
<1>3. CASE ModuleInit
  <2>1. CASE InitPins \/ CreateClass \/ StartRx \/ CreateDevice \/ CreateFile
    <3>1. mpc' \in {"class", "timer", "stuck", "device", "files", "live"}
      BY <2>1 DEF InitPins, CreateClass, StartRx, CreateDevice, CreateFile
    <3> QED
      BY <3>1 DEF CleanInv, Unloading
  <2>2. CASE Halted
    BY <2>2 DEF Halted, CleanInv, Unloading, Busy, vars, settings, timers, calls, word
  <2> QED
    BY <1>3, <2>1, <2>2 DEF ModuleInit
<1>4. CASE ModuleExit
  <2>1. CASE CancelTx
    BY <2>1 DEF CancelTx, CleanInv, Busy, calls
  <2>2. CASE CancelRx
    BY <2>2 DEF CancelRx, hrtimer_cancel, CleanInv, Unloading, Busy, calls
  <2>3. CASE Restore
    BY <2>3 DEF Restore, LoadWord, UartTypeOK, CleanInv, Unloading, Busy, settings, timers, calls
  <2>4. CASE RestoreStore
    <3>1. StoreWord("module", "in") /\ "in" \in Functions
      BY <2>4 DEF RestoreStore, Functions
    <3>2. pin["module"] = GPIO_TX => GPFSEL'[GPIO_TX] = "in"
      BY <3>1, StoreType DEF UartTypeOK
    <3> QED
      BY <2>4, <3>2 DEF RestoreStore, CleanInv, Unloading, Busy, settings, timers, calls
  <2>5. CASE RemoveFile
    BY <2>5 DEF RemoveFile, CleanInv, Unloading, Busy, settings, timers, calls
  <2>6. CASE FileRemoved
    BY <2>6 DEF FileRemoved, CleanInv, Unloading, Busy, settings, timers, calls
  <2>7. CASE ClassUnregister \/ ClassDestroy
    BY <2>7 DEF ClassUnregister, ClassDestroy, CleanInv, Unloading, Busy, settings, timers, calls
  <2> QED
    BY <1>4, <2>1, <2>2, <2>3, <2>4, <2>5, <2>6, <2>7 DEF ModuleExit, ExitStep
<1>5. CASE UNCHANGED vars
  BY <1>5 DEF CleanInv, Unloading, Busy, vars, settings, timers, calls, word
<1> QED
  BY <1>1, <1>2, <1>3, <1>4, <1>5 DEF Next

(* For any number of callers: a module that is gone leaves no file and no    *)
(* callback; and if no call ran into the unloading (softuart.c:266), no      *)
(* armed timer and no pin that is still an output.                           *)
THEOREM UnloadingIsClean == Spec => []UnloadIsClean
<1> DEFINE Inv == UartTypeOK /\ FilesInv /\ CleanInv
<1>1. Init => Inv
  BY UartStarts DEF UartInv
<1>2. Inv /\ [Next]_vars => Inv'
  BY UartTypes, FilesSteps, CleanSteps
<1>3. Inv => UnloadIsClean
  BY DEF UartTypeOK, FilesInv, CleanInv, UnloadIsClean
<1> QED
  BY <1>1, <1>2, <1>3, PTL DEF Spec

(* A store into the word that is there changes the one pin only.             *)
LEMMA StoreInPlace ==
  ASSUME UartTypeOK, NEW t \in Threads, NEW f \in Functions, StoreWord(t, f), old[t] = GPFSEL
  PROVE  \A p \in Pins : GPFSEL'[p] = IF p = pin[t] THEN f ELSE GPFSEL[p]
BY DEF StoreWord, UartTypeOK

(* A store for another pin that takes nothing back changes nothing here.     *)
LEMMA StoreElsewhere ==
  ASSUME UartTypeOK, NEW t \in Threads, NEW f \in Functions, StoreWord(t, f),
         pin[t] # GPIO_TX, ~ torn'
  PROVE  GPFSEL'[GPIO_TX] = GPFSEL[GPIO_TX]
<1>1. GPIO_TX \in Pins \ {pin[t]} /\ ~ Stale(t)
  BY CallerIsThread DEF UartTypeOK, StoreWord
<1>2. Word(GPIO_TX) = Word(pin[t]) => old[t][GPIO_TX] = GPFSEL[GPIO_TX]
  BY <1>1 DEF Stale
<1> QED
  BY <1>1, <1>2 DEF StoreWord

(* Whoever chooses the transmitting pin drives it next; while no store takes *)
(* anything back, nobody changes its function but to release it before       *)
(* choosing.                                                                 *)
LEMMA DrivenSteps == PinsApart /\ UartTypeOK /\ DrivenInv /\ [Next]_vars => DrivenInv'
<1> SUFFICES ASSUME PinsApart, UartTypeOK, DrivenInv, [Next]_vars PROVE DrivenInv'
  OBVIOUS
<1> USE CallerIsThread
<1>1. ASSUME NEW c \in Callers, Write(c) PROVE DrivenInv'
  <2>1. /\ pc[c] = "idle" /\ \A d \in Callers \ {c} : pc'[d] = pc[d] /\ arg'[d] = arg[d]
        /\ UNCHANGED <<GPFSEL, GPIO_TX, mpc, pin, torn>>
    BY <1>1 DEF Write, Call, UartTypeOK, settings, word
  <2>2. \A d \in Callers : WillDrive(d) => WillDrive(d)'
    BY <2>1 DEF WillDrive
  <2> QED
    BY <2>1, <2>2 DEF DrivenInv, Loaded
<1>2. ASSUME NEW c \in Callers, CallStep(c) PROVE DrivenInv'
  <2>1. /\ UNCHANGED <<mpc, arg>> /\ \A d \in Callers \ {c} : pc'[d] = pc[d] /\ pin'[d] = pin[d]
    BY <1>2, CallStepFacts
  <2>2. GPIO_TX' = GPIO_TX => \A d \in Callers \ {c} : WillDrive(d) => WillDrive(d)'
    BY <2>1 DEF WillDrive
  <2>12. ~ torn' => ~ torn
    BY <1>2 DEF CallStep, Release, ReleaseStore, TxAssign, Drive, DriveStore, RxAssign, Listen,
                ListenStore, SetRate, StartTx, StoreWord, UartTypeOK
  <2>3. ASSUME GPIO_TX' = GPIO_TX, ~ torn' => GPFSEL'[GPIO_TX] = GPFSEL[GPIO_TX],
               WillDrive(c) => WillDrive(c)'
        PROVE  DrivenInv'
    BY <2>1, <2>2, <2>3, <2>12 DEF DrivenInv, Loaded
  <2>4. ASSUME WillDrive(c)' PROVE DrivenInv'
    BY <2>4 DEF DrivenInv
  <2>5. CASE Release(c) \/ ReleaseStore(c)
    <3>1. pc'[c] \in {"releaseStore", "txAssign"}
      BY <2>5 DEF Release, ReleaseStore, Step, UartTypeOK
    <3> QED
      BY <3>1, <2>4 DEF WillDrive
  <2>6. CASE TxAssign(c)
    <3>1. pc'[c] = "drive" /\ arg'[c] = GPIO_TX'
      BY <2>6 DEF TxAssign, AfterAssign, Step, UartTypeOK
    <3> QED
      BY <3>1, <2>4 DEF WillDrive
  <2>7. CASE Drive(c)
    <3>1. PICK which \in {GPIO_TX, arg[c]} : LoadWord(c, which)
      BY <2>7 DEF Drive
    <3>2. pc[c] = "drive" /\ pc'[c] = "driveStore" /\ UNCHANGED <<GPFSEL, GPIO_TX>>
      BY <2>7 DEF Drive, Step, UartTypeOK, settings
    <3>3. pin'[c] = which
      BY <3>1 DEF LoadWord, UartTypeOK
    <3> QED
      BY <3>2, <3>3, <2>3 DEF WillDrive
  <2>8. CASE DriveStore(c)
    <3>1. /\ StoreWord(c, "out") /\ pin[c] \in TxPins /\ pc[c] = "driveStore"
          /\ GPIO_TX' = GPIO_TX /\ GPIO_TX \in Pins
      BY <2>8 DEF DriveStore, Step, UartTypeOK, settings
    <3>2. CASE pin[c] = GPIO_TX
      BY <3>1, <3>2 DEF StoreWord, DrivenInv
    <3>3. CASE pin[c] # GPIO_TX
      <4>1. ~ torn' => GPFSEL'[GPIO_TX] = GPFSEL[GPIO_TX]
        BY <3>1, <3>3, StoreElsewhere DEF Functions
      <4> QED
        BY <4>1, <3>1, <3>3, <2>3 DEF WillDrive
    <3> QED
      BY <3>2, <3>3
  <2>9. CASE ListenStore(c)
    <3>1. /\ StoreWord(c, "in") /\ pin[c] \in RxPins /\ pc[c] = "listenStore"
          /\ GPIO_TX' = GPIO_TX /\ pin[c] # GPIO_TX
      BY <2>9 DEF ListenStore, Step, UartTypeOK, PinsApart, settings
    <3>2. ~ torn' => GPFSEL'[GPIO_TX] = GPFSEL[GPIO_TX]
      BY <3>1, StoreElsewhere DEF Functions
    <3> QED
      BY <3>1, <3>2, <2>3 DEF WillDrive
  <2>10. CASE RxAssign(c) \/ Listen(c) \/ SetRate(c) \/ StartTx(c)
    <3>1. /\ UNCHANGED <<GPFSEL, GPIO_TX>>
          /\ pc[c] \in {"rxAssign", "listen", "rate", "start"}
      BY <2>10 DEF RxAssign, Listen, SetRate, StartTx, Step, settings
    <3> QED
      BY <3>1, <2>3 DEF WillDrive
  <2> QED
    BY <1>2, <2>5, <2>6, <2>7, <2>8, <2>9, <2>10 DEF CallStep
<1>3. ASSUME UNCHANGED <<GPFSEL, GPIO_TX, pc, arg, torn>>, \A d \in Callers : pin'[d] = pin[d],
             Loaded' => Loaded
      PROVE  DrivenInv'
  <2>1. \A d \in Callers : WillDrive(d) => WillDrive(d)'
    BY <1>3 DEF WillDrive
  <2> QED
    BY <1>3, <2>1 DEF DrivenInv
<1>4. CASE ModuleInit
  <2>1. CASE InitPins
    <3>1. GPIO_TX' \in Pins /\ GPIO_RX' # GPIO_TX'
      BY <2>1 DEF InitPins, PinsApart
    <3>2. GPFSEL'[GPIO_TX'] = "out"
      BY <2>1, <3>1 DEF InitPins, UartTypeOK
    <3> QED
      BY <3>2 DEF DrivenInv
  <2>2. CASE CreateClass \/ StartRx \/ CreateDevice \/ CreateFile \/ Halted
    BY <2>2, <1>3 DEF CreateClass, StartRx, CreateDevice, CreateFile, Halted, Loaded,
                      vars, settings, calls, word
  <2> QED
    BY <1>4, <2>1, <2>2 DEF ModuleInit
<1>5. CASE ModuleExit
  <2>1. mpc' \in {"cancelRx", "restore", "restoreStore", "remove", "drain", "unregister",
                   "destroy", "absent", "oops"}
    BY <1>5 DEF ModuleExit, ExitStep, CancelTx, CancelRx, Restore, RestoreStore, RemoveFile,
                FileRemoved, ClassUnregister, ClassDestroy
  <2> QED
    BY <2>1 DEF DrivenInv, Loaded
<1>6. CASE UNCHANGED vars
  BY <1>6, <1>3 DEF Loaded, vars, settings, calls, word
<1> QED
  BY <1>1, <1>2, <1>4, <1>5, <1>6 DEF Next

(* Before an overlap, a caller that takes a step is the only one, and the    *)
(* module stays while it is there.                                           *)
LEMMA AloneFacts ==
  ASSUME FilesInv, AloneInv, ~ overlap, NEW c \in Callers, pc[c] # "idle"
  PROVE  /\ \A d \in Callers \ {c} : pc[d] = "idle"
         /\ ~ Unloading /\ mpc # "absent"
BY DEF AloneInv, FilesInv, Busy

(* The first call after nobody's is alone; a second one is an overlap.       *)
LEMMA AloneWrite ==
  ASSUME UartTypeOK, FilesInv, AloneInv, NEW c \in Callers, Write(c)
  PROVE  AloneInv'
<1>1. PICK f \in {"gpio_tx", "gpio_rx", "data", "baudrate"}, value \in TxPins \cup RxPins \cup Rates \cup {0} :
        Call(c, f, value)
  BY DEF Write
<1>2. /\ overlap' = (overlap \/ Unloading \/ Busy # {})
      /\ pc' = [pc EXCEPT ![c] = FirstStep(f)] /\ UNCHANGED <<mpc, GPFSEL, word>>
  BY <1>1 DEF Call
<1>3. FirstStep(f) \in {"release", "rxAssign", "start", "rate"}
  BY DEF FirstStep
<1> SUFFICES ASSUME ~ overlap'
             PROVE  /\ \A d, e \in Busy' : d = e
                    /\ ~ Unloading'
                    /\ \A d \in Callers : pc'[d] \notin {"releaseStore", "driveStore", "listenStore", "drive"}
  BY DEF AloneInv, Unloading
<1>4. Busy = {} /\ ~ Unloading
  BY <1>2
<1>5. \A d \in Callers : IF d = c THEN pc'[d] = FirstStep(f) ELSE pc'[d] = "idle"
  BY <1>2, <1>4 DEF Busy, UartTypeOK
<1> QED
  BY <1>2, <1>3, <1>4, <1>5 DEF Busy, Unloading

(* What a caller that is alone loads is what it stores over.                 *)
LEMMA AloneCallStep ==
  ASSUME UartTypeOK, FilesInv, AloneInv, NEW c \in Callers, CallStep(c)
  PROVE  AloneInv'
<1> USE CallerIsThread
<1>1. /\ c \in Busy /\ UNCHANGED <<mpc, overlap, arg>> /\ Busy' \subseteq Busy
      /\ \A d \in Callers \ {c} : pc'[d] = pc[d]
  BY CallStepFacts
<1> SUFFICES ASSUME ~ overlap PROVE AloneInv'
  BY <1>1 DEF AloneInv
<1>2. /\ \A d \in Callers \ {c} : pc'[d] = "idle"
      /\ ~ Unloading' /\ \A d, e \in Busy' : d = e
  BY <1>1, AloneFacts DEF Busy, Unloading, AloneInv
<1>3. ASSUME /\ pc'[c] \in {"releaseStore", "driveStore", "listenStore"} => old'[c] = GPFSEL'
             /\ pc'[c] \in {"releaseStore", "driveStore"} => pin'[c] = GPIO_TX'
             /\ pc'[c] = "drive" => arg'[c] = GPIO_TX'
      PROVE  AloneInv'
  BY <1>1, <1>2, <1>3 DEF AloneInv, Unloading
<1> USE DEF Step, settings
<1>4. CASE Release(c)
  BY <1>3, <1>4 DEF Release, ReleasedPin, LoadWord, UartTypeOK
<1>5. CASE TxAssign(c)
  BY <1>3, <1>5 DEF TxAssign, AfterAssign, UartTypeOK
<1>6. CASE Drive(c)
  BY <1>3, <1>6 DEF Drive, LoadWord, UartTypeOK, AloneInv
<1>7. CASE Listen(c)
  BY <1>3, <1>7 DEF Listen, LoadWord, UartTypeOK
<1>8. CASE ReleaseStore(c) \/ DriveStore(c) \/ RxAssign(c) \/ ListenStore(c) \/ SetRate(c) \/ StartTx(c)
  <2>1. pc'[c] \in {"txAssign", "idle", "listen"}
    BY <1>8 DEF ReleaseStore, DriveStore, RxAssign, ListenStore, SetRate, StartTx, UartTypeOK
  <2> QED
    BY <2>1, <1>3
<1> QED
  BY <1>4, <1>5, <1>6, <1>7, <1>8 DEF CallStep

(* One step per action: nobody else changes the word that a caller has       *)
(* loaded.                                                                   *)
LEMMA AloneSteps == UartTypeOK /\ FilesInv /\ AloneInv /\ [Next]_vars => AloneInv'
<1> SUFFICES ASSUME UartTypeOK, FilesInv, AloneInv, [Next]_vars PROVE AloneInv'
  OBVIOUS
<1> USE CallerIsThread
<1>1. CASE InitPins
  <2>1. Busy = {} /\ pc' = pc /\ mpc' = "class"
    BY <1>1 DEF InitPins, FilesInv, calls
  <2>2. \A c \in Callers : pc'[c] = "idle"
    BY <2>1 DEF Busy
  <2> QED
    BY <2>1, <2>2 DEF AloneInv, Unloading, Busy
<1>2. CASE CreateClass \/ StartRx \/ CreateDevice \/ CreateFile
  <2>1. /\ UNCHANGED <<GPFSEL, GPIO_TX, calls, word, overlap>>
        /\ mpc' \in {"timer", "stuck", "device", "files", "live"}
    BY <1>2 DEF CreateClass, StartRx, CreateDevice, CreateFile, settings
  <2> QED
    BY <2>1 DEF AloneInv, Unloading, Busy, calls, word
<1>3. CASE ModuleExit
  <2>1. /\ UNCHANGED <<GPIO_TX, pc, arg>>
        /\ ~ overlap' => ~ overlap /\ Busy = {}
    <3>1. CASE CancelTx
      BY <3>1 DEF CancelTx, AloneInv, settings, calls
    <3>2. CASE ExitStep
      <4>1. Unloading /\ UNCHANGED <<GPIO_TX, pc, arg, overlap>>
        BY <3>2 DEF ExitStep, CancelRx, Restore, RestoreStore, RemoveFile, FileRemoved,
                    ClassUnregister, ClassDestroy,
                    Unloading, settings, calls
      <4> QED
        BY <4>1 DEF AloneInv
    <3> QED
      BY <1>3, <3>1, <3>2 DEF ModuleExit
  <2>2. mpc' = "restoreStore" => old'["module"] = GPFSEL' /\ pin'["module"] = GPIO_TX'
    BY <1>3 DEF ModuleExit, ExitStep, CancelTx, CancelRx, Restore, RestoreStore, RemoveFile,
                FileRemoved, ClassUnregister, ClassDestroy, LoadWord, UartTypeOK, settings
  <2>3. ~ overlap' => Busy' = {} /\ \A c \in Callers : pc'[c] = "idle"
    BY <2>1 DEF Busy
  <2> QED
    BY <2>2, <2>3 DEF AloneInv
<1>4. CASE Halted \/ UNCHANGED vars
  BY <1>4 DEF Halted, AloneInv, Unloading, Busy, vars, settings, calls, word
<1> QED
  BY <1>1, <1>2, <1>3, <1>4, AloneWrite, AloneCallStep DEF Next, ModuleInit

(* A store over the word that is there takes nothing back.                   *)
LEMMA TornSteps ==
  UartTypeOK /\ FilesInv /\ AloneInv /\ TornInv /\ [Next]_vars => TornInv'
<1> SUFFICES ASSUME UartTypeOK, FilesInv, AloneInv, TornInv, [Next]_vars, ~ overlap'
             PROVE  ~ torn'
  BY DEF TornInv
<1> USE CallerIsThread
<1>1. ASSUME NEW t \in Threads, NEW f \in Functions, StoreWord(t, f), old[t] = GPFSEL, ~ torn
      PROVE  ~ torn'
  BY <1>1 DEF StoreWord, Stale
<1>2. ASSUME NEW c \in Callers, CallStep(c) PROVE ~ torn'
  <2>1. ~ overlap /\ ~ torn
    BY <1>2, CallStepFacts DEF TornInv
  <2>2. CASE ReleaseStore(c)
    BY <1>1, <2>1, <2>2 DEF ReleaseStore, Step, AloneInv, Functions
  <2>3. CASE DriveStore(c)
    BY <1>1, <2>1, <2>3 DEF DriveStore, Step, AloneInv, Functions
  <2>4. CASE ListenStore(c)
    BY <1>1, <2>1, <2>4 DEF ListenStore, Step, AloneInv, Functions
  <2> QED
    BY <1>2, <2>1, <2>2, <2>3, <2>4
    DEF CallStep, Release, TxAssign, Drive, RxAssign, Listen, SetRate, StartTx
<1>3. ASSUME NEW c \in Callers, Write(c) PROVE ~ torn'
  BY <1>3 DEF Write, Call, TornInv, UartTypeOK
<1>4. CASE ModuleInit
  BY <1>4 DEF ModuleInit, InitPins, CreateClass, StartRx, CreateDevice, CreateFile, Halted,
              TornInv, vars
<1>5. CASE RestoreStore
  BY <1>1, <1>5 DEF RestoreStore, AloneInv, TornInv, Functions
<1>6. CASE CancelTx \/ CancelRx \/ Restore \/ RemoveFile \/ FileRemoved \/ ClassUnregister
           \/ ClassDestroy
  BY <1>6 DEF CancelTx, CancelRx, Restore, RemoveFile, FileRemoved, ClassUnregister,
              ClassDestroy, TornInv
<1>7. CASE UNCHANGED vars
  BY <1>7 DEF TornInv, vars
<1> QED
  BY <1>2, <1>3, <1>4, <1>5, <1>6, <1>7 DEF Next, ModuleExit, ExitStep

(* Until something overlaps, no output is left behind.                       *)
LEMMA OutputSteps ==
  UartTypeOK /\ FilesInv /\ AloneInv /\ OnlyOutput /\ [Next]_vars => OnlyOutput'
<1> SUFFICES ASSUME UartTypeOK, FilesInv, AloneInv, OnlyOutput, [Next]_vars, ~ overlap'
             PROVE  \A p \in Pins : GPFSEL'[p] = "out" => p = GPIO_TX' /\ ~ ReleasedNow'
  BY DEF OnlyOutput
<1> USE CallerIsThread
<1>1. ASSUME UNCHANGED <<GPFSEL, overlap>>, ~ ReleasedNow => GPIO_TX' = GPIO_TX /\ ~ ReleasedNow'
      PROVE  \A p \in Pins : GPFSEL'[p] = "out" => p = GPIO_TX' /\ ~ ReleasedNow'
  BY <1>1 DEF OnlyOutput
<1>2. ASSUME NEW c \in Callers, Write(c)
      PROVE  \A p \in Pins : GPFSEL'[p] = "out" => p = GPIO_TX' /\ ~ ReleasedNow'
  <2>1. PICK f \in {"gpio_tx", "gpio_rx", "data", "baudrate"}, value \in TxPins \cup RxPins \cup Rates \cup {0} :
          Call(c, f, value)
    BY <1>2 DEF Write
  <2>2. /\ pc' = [pc EXCEPT ![c] = FirstStep(f)] /\ UNCHANGED <<GPFSEL, GPIO_TX, mpc>>
        /\ overlap' = (overlap \/ Unloading \/ Busy # {}) /\ overlap' \in BOOLEAN
    BY <2>1 DEF Call, settings, UartTypeOK
  <2>3. FirstStep(f) \in {"release", "rxAssign", "start", "rate"}
    BY DEF FirstStep
  <2>4. ~ ReleasedNow => ~ ReleasedNow'
    BY <2>2, <2>3 DEF ReleasedNow, UartTypeOK
  <2> QED
    BY <2>2, <2>4 DEF OnlyOutput
<1>3. ASSUME NEW c \in Callers, CallStep(c)
      PROVE  \A p \in Pins : GPFSEL'[p] = "out" => p = GPIO_TX' /\ ~ ReleasedNow'
  <2>1. /\ c \in Busy /\ UNCHANGED <<mpc, overlap, arg>>
        /\ \A d \in Callers \ {c} : pc'[d] = pc[d]
    BY <1>3, CallStepFacts
  <2>2. ~ overlap
    BY <2>1
  <2>3. pc[c] # "idle"
    BY <2>1 DEF Busy
  <2>4. \A d \in Callers \ {c} : pc[d] = "idle"
    BY <2>2, <2>3, AloneFacts
  <2>5. ~ Unloading /\ mpc # "absent"
    BY <2>2, <2>3, AloneFacts
  <2>6. /\ ReleasedNow <=> pc[c] \in {"txAssign", "drive", "driveStore"}
        /\ ReleasedNow' <=> pc'[c] \in {"txAssign", "drive", "driveStore"}
    BY <2>1, <2>4, <2>5 DEF ReleasedNow, Unloading
  <2> USE DEF Step, settings
  <2>7. CASE Release(c) \/ RxAssign(c) \/ Listen(c) \/ SetRate(c) \/ StartTx(c)
    <3>1. /\ UNCHANGED <<GPFSEL, GPIO_TX>>
          /\ pc'[c] \in {"releaseStore", "listen", "listenStore", "idle"}
      BY <2>7 DEF Release, RxAssign, Listen, SetRate, StartTx, UartTypeOK
    <3> QED
      BY <3>1, <2>1, <2>6, <1>1
  <2>8. CASE TxAssign(c) \/ Drive(c)
    <3>1. GPFSEL' = GPFSEL /\ pc[c] \in {"txAssign", "drive"}
      BY <2>8 DEF TxAssign, Drive
    <3> QED
      BY <3>1, <2>1, <2>6, <1>1
  <2>9. CASE ReleaseStore(c)
    <3>1. /\ StoreWord(c, "in") /\ pc[c] = "releaseStore" /\ old[c] = GPFSEL
          /\ pin[c] = GPIO_TX /\ GPIO_TX' = GPIO_TX
      BY <2>2, <2>9 DEF ReleaseStore, AloneInv
    <3>2. \A p \in Pins : GPFSEL'[p] = IF p = GPIO_TX THEN "in" ELSE GPFSEL[p]
      BY <3>1, StoreInPlace DEF Functions
    <3> QED
      BY <3>2, <2>2 DEF OnlyOutput
  <2>10. CASE DriveStore(c)
    <3>1. /\ StoreWord(c, "out") /\ pc[c] = "driveStore" /\ old[c] = GPFSEL
          /\ pin[c] = GPIO_TX /\ GPIO_TX' = GPIO_TX /\ pc'[c] = "idle"
      BY <2>2, <2>10 DEF DriveStore, AloneInv, UartTypeOK
    <3>2. \A p \in Pins : GPFSEL'[p] = IF p = GPIO_TX THEN "out" ELSE GPFSEL[p]
      BY <3>1, StoreInPlace DEF Functions
    <3> QED
      BY <3>1, <3>2, <2>2, <2>6 DEF OnlyOutput
  <2>11. CASE ListenStore(c)
    <3>1. /\ StoreWord(c, "in") /\ pc[c] = "listenStore" /\ old[c] = GPFSEL
          /\ GPIO_TX' = GPIO_TX /\ pc'[c] = "idle"
      BY <2>2, <2>11 DEF ListenStore, AloneInv, UartTypeOK
    <3>2. \A p \in Pins : GPFSEL'[p] = IF p = pin[c] THEN "in" ELSE GPFSEL[p]
      BY <3>1, StoreInPlace DEF Functions
    <3> QED
      BY <3>1, <3>2, <2>2, <2>6 DEF OnlyOutput
  <2> QED
    BY <1>3, <2>7, <2>8, <2>9, <2>10, <2>11 DEF CallStep
<1>4. CASE InitPins
  <2>1. /\ Busy = {} /\ pc' = pc /\ mpc' = "class" /\ ReleasedNow /\ ~ overlap
        /\ GPFSEL' = [GPFSEL EXCEPT ![GPIO_TX'] = "out", ![GPIO_RX'] = "in"]
    BY <1>4 DEF InitPins, FilesInv, ReleasedNow, calls
  <2>2. ~ ReleasedNow'
    BY <2>1 DEF ReleasedNow, Busy
  <2> QED
    BY <2>1, <2>2 DEF OnlyOutput, UartTypeOK
<1>5. CASE CreateClass \/ StartRx \/ CreateDevice \/ CreateFile
  <2>1. /\ UNCHANGED <<GPFSEL, GPIO_TX, pc, overlap>>
        /\ mpc' \in {"timer", "stuck", "device", "files", "live"}
    BY <1>5 DEF CreateClass, StartRx, CreateDevice, CreateFile, settings, calls
  <2> QED
    BY <2>1, <1>1 DEF ReleasedNow
<1>6. CASE CancelTx
  <2>1. ~ overlap /\ UNCHANGED <<GPFSEL, GPIO_TX, pc>> /\ mpc' = "cancelRx"
    BY <1>6 DEF CancelTx, settings, calls
  <2> QED
    BY <2>1 DEF OnlyOutput, ReleasedNow
<1>7. CASE RestoreStore
  <2>1. /\ StoreWord("module", "in") /\ ~ overlap /\ old["module"] = GPFSEL
        /\ pin["module"] = GPIO_TX /\ GPIO_TX' = GPIO_TX
    BY <1>7 DEF RestoreStore, AloneInv, settings
  <2>2. \A p \in Pins : GPFSEL'[p] = IF p = GPIO_TX THEN "in" ELSE GPFSEL[p]
    BY <2>1, StoreInPlace DEF Functions
  <2> QED
    BY <2>1, <2>2 DEF OnlyOutput
<1>8. CASE CancelRx \/ Restore \/ RemoveFile \/ FileRemoved \/ ClassUnregister \/ ClassDestroy
  <2>1. /\ UNCHANGED <<GPFSEL, GPIO_TX, pc, overlap>>
        /\ mpc \in {"remove", "drain", "unregister", "destroy"} \/ mpc' \in {"restore", "restoreStore"}
    BY <1>8 DEF CancelRx, Restore, RemoveFile, FileRemoved, ClassUnregister,
                ClassDestroy, settings, calls
  <2> QED
    BY <2>1, <1>1 DEF ReleasedNow
<1>9. CASE Halted \/ UNCHANGED vars
  BY <1>9 DEF Halted, OnlyOutput, ReleasedNow, vars, settings, calls
<1> QED
  BY <1>2, <1>3, <1>4, <1>5, <1>6, <1>7, <1>8, <1>9 DEF Next, ModuleInit, ModuleExit, ExitStep

(* For any number of callers, pins that share words as they may, and none    *)
(* used both ways: once the calls have returned the pin the timer drives is  *)
(* an output (softuart.c:109), unless a store of GPFSEL (84) took back what  *)
(* another call had stored; and the only output unless something overlapped. *)
THEOREM TxPinIsDriven == ASSUME PinsApart PROVE Spec => []TxPinDriven
<1> DEFINE Inv == UartInv /\ DrivenInv
<1>1. Init => Inv
  BY UartStarts
<1>2. Inv /\ [Next]_vars => Inv'
  BY PinsApart, UartTypes, FilesSteps, CleanSteps, AloneSteps, TornSteps, OutputSteps, DrivenSteps
  DEF UartInv
<1>3. Inv => TxPinDriven
  <2> SUFFICES ASSUME Inv, Settled PROVE TxPinDriven
    BY DEF TxPinDriven
  <2>1. \A c \in Callers : ~ WillDrive(c)
    BY DEF Settled, Busy, WillDrive
  <2>2. ~ torn => GPFSEL[GPIO_TX] = "out"
    BY <2>1 DEF DrivenInv, Settled, Loaded
  <2> QED
    BY <2>2 DEF UartInv, TornInv, OnlyOutput, TxPinDriven
<1> QED
  BY <1>1, <1>2, <1>3, PTL DEF Spec
=============================================================================
