-------------------------------- MODULE Fleet --------------------------------
(***************************************************************************)
(* The device register of src/relay (fleet.py): heartbeats, quarantine and *)
(* the sweep that marks silent devices offline (reaper.py).  Every method  *)
(* runs without an await.  An operation is an operator that changes the    *)
(* register, next to the sequence of events it publishes on the way; the   *)
(* listeners run inside publish, so module Relay joins the two.            *)
(***************************************************************************)
EXTENDS Naturals, SequencesExt, Rows

CONSTANTS Devices,
          Timeout  (* config.heartbeat_timeout_seconds, in clock ticks         *)

ASSUME TimeoutAssumption == Timeout \in Nat

VARIABLES
  known,        (* the keys of Fleet.devices, in the order they were added      *)
  status,       (* Device.status; "unknown" without a row                       *)
  quarantined,  (* Device.quarantined                                           *)
  age           (* clock.now() - last_seen, counted no further than needed      *)

fleetVars == <<known, status, quarantined, age>>

MaxAge == Timeout + 1

FleetTypeOK ==
  /\ known \in Seq(Devices) /\ IsInjective(known)
  /\ \A d \in Devices : d \in ToSet(known) <=> status[d] # "unknown"
  /\ status \in [Devices -> {"unknown", "online", "offline"}]
  /\ quarantined \in [Devices -> BOOLEAN]
  /\ age \in [Devices -> 0..MaxAge]

FleetInit ==
  /\ known = <<>>
  /\ status = [d \in Devices |-> "unknown"]
  /\ quarantined = [d \in Devices |-> FALSE]
  /\ age = [d \in Devices |-> 0]

Registered(d) == status[d] # "unknown"
EventOf(type, d) == [type |-> type, device |-> d]

-----------------------------------------------------------------------------
(* heartbeat: a new device is announced, and so is one that comes back.       *)
HeartbeatEvents_OnlyNew(d) ==
  IF ~Registered(d) THEN <<EventOf("device.new", d)>> ELSE <<>>
HeartbeatEvents(d) ==
  CASE status[d] = "unknown" -> <<EventOf("device.new", d)>>
    [] status[d] = "offline" -> <<EventOf("device.online", d)>>
    [] OTHER -> <<>>
Heard(d) ==
  /\ known' = IF Registered(d) THEN known ELSE Append(known, d)
  /\ status' = [status EXCEPT ![d] = "online"]
  /\ age' = [age EXCEPT ![d] = 0]
  /\ UNCHANGED quarantined

(* record_event leaves the register alone; the endpoints refuse a device that
   is not in it.                                                              *)
ReportEvents(d) == <<EventOf("device.event", d)>>
Reported(d) == Registered(d) /\ UNCHANGED fleetVars

QuarantineEvents(d, on) ==
  <<EventOf(IF on THEN "device.quarantined" ELSE "device.released", d)>>
Quarantined(d, on) ==
  /\ Registered(d)
  /\ quarantined' = [quarantined EXCEPT ![d] = on]
  /\ UNCHANGED <<known, status, age>>

(* Reaper.sweep_once: mark_offline for every stale device, in register order. *)
Overdue_TooEager(d) == status[d] = "online" /\ age[d] >= Timeout
Overdue(d) == status[d] = "online" /\ age[d] > Timeout
Stale == Those(known, {i \in DOMAIN known : Overdue(known[i])})
SweepEvents == [i \in DOMAIN Stale |-> EventOf("device.offline", Stale[i])]
Swept_Never == UNCHANGED fleetVars
Swept ==
  /\ status' = [d \in Devices |-> IF Overdue(d) THEN "offline" ELSE status[d]]
  /\ UNCHANGED <<known, quarantined, age>>

(* Time passes for every device; what lies beyond the timeout is all alike.   *)
Aged ==
  /\ age' = [d \in Devices |->
               IF Registered(d) /\ age[d] < MaxAge THEN age[d] + 1 ELSE age[d]]
  /\ UNCHANGED <<known, status, quarantined>>

-----------------------------------------------------------------------------
(* A device is offline only while its last heartbeat is older than the timeout:
   neither a late sweep nor a sweep on demand hits a device that has just
   reported.                                                                  *)
OfflineMeansSilent == \A d \in Devices : status[d] = "offline" => age[d] > Timeout

=============================================================================
