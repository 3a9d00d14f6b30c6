--------------------------- MODULE DeviceSession ---------------------------
(***************************************************************************)
(* What a single-user sensor device file promises to the processes that    *)
(* open it: at most one of them has a session, a session gets exactly one  *)
(* report, and that report stays as it is until the session is closed.     *)
(* The DHT11 drivers of dht11km/ are meant to implement this.              *)
(***************************************************************************)
CONSTANTS
  Procs,    (* the processes that may open the device *)
  Reports,  (* the reports a session can be given     *)
  NONE      (* no owner, no report                    *)

VARIABLES
  owner,    (* the process whose session is open, or NONE *)
  report    (* the report of that session, or NONE        *)

vars == <<owner, report>>

Init == owner = NONE /\ report = NONE

(* The open call gets past the driver's guard against a second user. *)
Acquire(p) ==
  /\ owner = NONE
  /\ owner' = p
  /\ UNCHANGED report

(* The open call returns with a report ready to be read. *)
Publish(p) ==
  /\ owner = p
  /\ report = NONE
  /\ report' \in Reports
  /\ UNCHANGED owner

(* The last reference to the open file goes away. *)
Release(p) ==
  /\ owner = p
  /\ report # NONE
  /\ owner' = NONE
  /\ report' = NONE

Next == \E p \in Procs : Acquire(p) \/ Publish(p) \/ Release(p)

Safety == Init /\ [][Next]_vars
=============================================================================
