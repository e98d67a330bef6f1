-------------------------------- MODULE Relay --------------------------------
(***************************************************************************)
(* The relay process: the requests and the sweep that move the fleet, each *)
(* published to the live feed in the same step, the connections, and the   *)
(* lifecycle.  The servers stop first and wait for their connections; then *)
(* EventStream stops listening (events.py, "dependency order is the        *)
(* shutdown order").  Fleet and EventStream keep their state over a        *)
(* restart.                                                                *)
(***************************************************************************)
EXTENDS EventStream

VARIABLE phase

vars == <<phase, fleetVars, streamVars>>

(* The types of the variables, and the bound on the backlog of a client.      *)
TypeOK == phase \in {"down", "up", "stopping"} /\ FleetTypeOK /\ StreamTypeOK

Init == phase = "down" /\ FleetInit /\ StreamInit

Running == phase # "down" /\ UNCHANGED phase

Heartbeat(d) == Running /\ Heard(d) /\ Fanout(HeartbeatEvents(d))
RecordEvent(d) == Running /\ Reported(d) /\ Fanout(ReportEvents(d))
Quarantine(d, on) == Running /\ Quarantined(d, on) /\ Fanout(QuarantineEvents(d, on))
Sweep == Running /\ Swept /\ Fanout(SweepEvents)
Tick == Aged /\ UNCHANGED <<phase, streamVars>>

Start ==
  /\ phase = "down"
  /\ phase' = "up"
  /\ UNCHANGED <<fleetVars, streamVars>>

(* PublicServer closes its connections and takes no new one.                  *)
Stop ==
  /\ phase = "up"
  /\ phase' = "stopping"
  /\ present' = [c \in Clients |-> FALSE]
  /\ UNCHANGED <<fleetVars, clients, stage, pump, hand, inboxVars, picture>>

(* EventStream.release, once no connection is served any more.                *)
Release ==
  /\ phase = "stopping"
  /\ \A c \in Clients : stage[c] \in {"away", "over"}
  /\ phase' = "down"
  /\ queue' = [c \in Clients |-> IF c \in clients THEN WithFinish(queue[c]) ELSE queue[c]]
  /\ UNCHANGED <<fleetVars, clients, taskVars, only, lossy, picture>>

Requests ==
  \E d \in Devices :
    Heartbeat(d) \/ RecordEvent(d) \/ \E on \in BOOLEAN : Quarantine(d, on)
Peers ==
  \E c \in Clients :
    \/ phase = "up" /\ Connect(c) /\ UNCHANGED <<phase, fleetVars>>
    \/ HangUp(c) /\ UNCHANGED <<phase, fleetVars>>
    \/ \E kinds \in Filters : Narrow(c, kinds) /\ UNCHANGED <<phase, fleetVars>>
Serve(c) == (Connection(c) \/ Pump(c)) /\ UNCHANGED <<phase, fleetVars>>

Next == \/ Requests \/ Sweep \/ Tick \/ Peers \/ Start \/ Stop \/ Release
        \/ \E c \in Clients : Serve(c)

Spec == Init /\ [][Next]_vars

(* The event loop runs the tasks of a connection, the sweep loop wakes after
   every interval and survives an exception, and stop() carries on once the
   connections have ended.                                                    *)
FairSpec ==
  /\ Spec
  /\ WF_vars(Sweep) /\ WF_vars(Release)
  /\ \A c \in Clients : WF_vars(Serve(c))

-----------------------------------------------------------------------------
(* Stopping the process ends, whatever the peers do and however full their
   backlogs are.                                                              *)
StopFinishes == phase = "stopping" ~> phase = "down"

(* A device that stays silent is noticed.                                     *)
SilenceNoticed ==
  \A d \in Devices :
    status[d] = "online" /\ age[d] > Timeout
      ~> status[d] = "offline" \/ age[d] = 0 \/ phase = "down"

=============================================================================
