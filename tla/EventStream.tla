----------------------------- MODULE EventStream -----------------------------
(***************************************************************************)
(* /ws/events of src/relay (events.py): the subscribers of the live feed.  *)
(* A connection is two tasks, the one that reads from the client and the   *)
(* pump that writes to it, with a bounded queue between Fleet.publish and  *)
(* the pump.  An action is the code between two awaits.                    *)
(***************************************************************************)
EXTENDS Fleet, Integers

CONSTANTS Clients,    (* one Subscriber object each                            *)
          QueueSize,  (* config.stream_queue_size; 0 means unbounded            *)
          Filters     (* the lists of types a client may narrow itself to       *)

Kinds == {"device.new", "device.online", "device.offline", "device.event",
          "device.quarantined", "device.released"}
NoFilter == Kinds \cup {"*"}   (* Subscriber.only is None                      *)

ASSUME StreamAssumption == QueueSize \in Nat /\ Filters \subseteq SUBSET Kinds

VARIABLES
  clients,  (* EventStream.clients                                             *)
  stage,    (* where __call__ of a connection stands; "over": it has raised     *)
  present,  (* the server still holds the connection of the peer                *)
  queue, only,  (* fields of Subscriber                                         *)
  lossy,    (* Subscriber.dropped > 0                                           *)
  pump,     (* the state of the pump task                                       *)
  hand,     (* the message the pump is sending                                  *)
  picture   (* history: the fleet as hello and the messages sent since describe
               it to a client that is still served and has lost none           *)

taskVars   == <<stage, present, pump, hand>>
inboxVars  == <<queue, only, lossy>>
streamVars == <<clients, taskVars, inboxVars, picture>>

Subscribed == [type |-> "subscribed"]
Finish == [type |-> "finish"]
Nothing == [type |-> "nothing"]
Message == [type : Kinds, device : Devices] \cup {Subscribed, Finish}
Pictures == [Devices -> [status : {"unknown", "online", "offline"}, held : BOOLEAN]]

StreamTypeOK ==
  /\ clients \subseteq Clients
  /\ stage \in [Clients -> {"away", "greeting", "open", "closing", "over"}]
  /\ present \in [Clients -> BOOLEAN]
  /\ queue \in [Clients -> Seq(Message)]
  /\ QueueSize > 0 => \A c \in Clients : Len(queue[c]) <= QueueSize
  /\ only \in [Clients -> Filters \cup {NoFilter}]
  /\ lossy \in [Clients -> BOOLEAN]
  /\ pump \in [Clients -> {"none", "waiting", "sending", "failed", "done", "cancelled"}]
  /\ hand \in [Clients -> Message \cup {Nothing}]
  /\ picture \in [Clients -> Pictures]

FleetPicture == [d \in Devices |-> [status |-> status[d], held |-> quarantined[d]]]

Blank == [d \in Devices |-> [status |-> "unknown", held |-> FALSE]]
Forgotten == [c \in Clients |-> IF lossy'[c] THEN Blank ELSE picture[c]]

StreamInit ==
  /\ clients = {}
  /\ stage = [c \in Clients |-> "away"]
  /\ present = [c \in Clients |-> FALSE]
  /\ queue = [c \in Clients |-> <<>>]
  /\ only = [c \in Clients |-> NoFilter]
  /\ lossy = [c \in Clients |-> FALSE]
  /\ pump = [c \in Clients |-> "none"]
  /\ hand = [c \in Clients |-> Nothing]
  /\ picture = [c \in Clients |-> Blank]

-----------------------------------------------------------------------------
(* Subscriber.                                                                *)

(* push, for each of ms: it never blocks the publisher, the oldest message
   makes room.                                                                *)
Push_NeverDrops(q, ms) == q \o ms
Push_RefusesNewest(q, ms) ==
  LET all == q \o ms
  IN IF QueueSize = 0 \/ Len(all) <= QueueSize THEN all ELSE SubSeq(all, 1, QueueSize)
Push(q, ms) ==
  LET all == q \o ms
      over == Len(all) - QueueSize
  IN IF QueueSize = 0 \/ over <= 0 THEN all ELSE SubSeq(all, over + 1, Len(all))
Overflows(q, ms) == QueueSize > 0 /\ Len(q) + Len(ms) > QueueSize

(* finish: the end mark is lost when there is no room.                        *)
WithFinish(q) == IF Overflows(q, <<Finish>>) THEN q ELSE Append(q, Finish)

Wanted(c, events) == Those(events, {i \in DOMAIN events : events[i].type \in only[c]})

(* fanout, as Fleet.publish calls it for each of the events.                  *)
Fanout(events) ==
  /\ queue' = [c \in Clients |->
                IF c \in clients THEN Push(queue[c], Wanted(c, events)) ELSE queue[c]]
  /\ lossy' = [c \in Clients |->
                lossy[c] \/ (c \in clients /\ Overflows(queue[c], Wanted(c, events)))]
  /\ picture' = Forgotten
  /\ UNCHANGED <<clients, taskVars, only>>

-----------------------------------------------------------------------------
(* The reading task.                                                          *)

(* The connection is accepted: the subscriber exists, and the state that hello
   summarises is read, before the send of hello is awaited.                   *)
Connect(c) ==
  /\ stage[c] = "away"
  /\ stage' = [stage EXCEPT ![c] = "greeting"]
  /\ present' = [present EXCEPT ![c] = TRUE]
  /\ clients' = clients \cup {c}
  /\ picture' = [picture EXCEPT ![c] = FleetPicture]
  /\ UNCHANGED <<pump, hand, inboxVars>>

Greet(c) ==
  /\ stage[c] = "greeting" /\ present[c]
  /\ stage' = [stage EXCEPT ![c] = "open"]
  /\ pump' = [pump EXCEPT ![c] = "waiting"]
  /\ UNCHANGED <<clients, present, hand, inboxVars, picture>>

(* The send of hello raises: it is outside the try, nothing is cleaned up.    *)
GreetFails(c) ==
  /\ stage[c] = "greeting" /\ ~present[c]
  /\ stage' = [stage EXCEPT ![c] = "over"]
  /\ picture' = [picture EXCEPT ![c] = Blank]
  /\ UNCHANGED <<clients, present, pump, hand, inboxVars>>

(* {"only": [...]}, acknowledged through the queue.                           *)
Narrow(c, kinds) ==
  /\ stage[c] = "open"
  /\ only' = [only EXCEPT ![c] = kinds]
  /\ queue' = [queue EXCEPT ![c] = Push(@, <<Subscribed>>)]
  /\ lossy' = [lossy EXCEPT ![c] = @ \/ Overflows(queue[c], <<Subscribed>>)]
  /\ picture' = Forgotten
  /\ UNCHANGED <<clients, taskVars>>

(* websocket.disconnect is read: finish, cancel the pump, await it.           *)
ReadEnds_JustWaits(c) ==
  /\ stage[c] = "open" /\ ~present[c]
  /\ stage' = [stage EXCEPT ![c] = "closing"]
  /\ UNCHANGED <<clients, present, pump, hand, inboxVars, picture>>
ReadEnds(c) ==
  /\ stage[c] = "open" /\ ~present[c]
  /\ stage' = [stage EXCEPT ![c] = "closing"]
  /\ queue' = [queue EXCEPT ![c] = WithFinish(@)]
  /\ pump' = [pump EXCEPT ![c] = IF @ \in {"waiting", "sending"} THEN "cancelled" ELSE @]
  /\ hand' = [hand EXCEPT ![c] = Nothing]
  /\ picture' = [picture EXCEPT ![c] = Blank]
  /\ UNCHANGED <<clients, present, only, lossy>>

(* The pump has ended: the subscriber is forgotten, and its fields with it.   *)
CloseEnds(c) ==
  /\ stage[c] = "closing" /\ pump[c] \in {"cancelled", "done"}
  /\ stage' = [stage EXCEPT ![c] = "away"]
  /\ clients' = clients \ {c}
  /\ pump' = [pump EXCEPT ![c] = "none"]
  /\ queue' = [queue EXCEPT ![c] = <<>>]
  /\ only' = [only EXCEPT ![c] = NoFilter]
  /\ lossy' = [lossy EXCEPT ![c] = FALSE]
  /\ picture' = [picture EXCEPT ![c] = Blank]
  /\ UNCHANGED <<present, hand>>

(* The pump has raised: await pump raises it again, past the discard.         *)
CloseFails(c) ==
  /\ stage[c] = "closing" /\ pump[c] = "failed"
  /\ stage' = [stage EXCEPT ![c] = "over"]
  /\ UNCHANGED <<clients, present, pump, hand, inboxVars, picture>>

-----------------------------------------------------------------------------
(* The pump task.                                                             *)

Apply(pic, m) ==
  CASE m.type \in {"device.new", "device.online"} -> [pic EXCEPT ![m.device].status = "online"]
    [] m.type = "device.offline" -> [pic EXCEPT ![m.device].status = "offline"]
    [] m.type = "device.quarantined" -> [pic EXCEPT ![m.device].held = TRUE]
    [] m.type = "device.released" -> [pic EXCEPT ![m.device].held = FALSE]
    [] OTHER -> pic

PumpTakes(c) ==
  /\ pump[c] = "waiting" /\ queue[c] # <<>>
  /\ queue' = [queue EXCEPT ![c] = Tail(@)]
  /\ IF Head(queue[c]) = Finish
       THEN /\ pump' = [pump EXCEPT ![c] = "done"]
            /\ UNCHANGED hand
       ELSE /\ pump' = [pump EXCEPT ![c] = "sending"]
            /\ hand' = [hand EXCEPT ![c] = Head(queue[c])]
  /\ UNCHANGED <<clients, stage, present, only, lossy, picture>>

PumpSends(c) ==
  /\ pump[c] = "sending" /\ present[c]
  /\ pump' = [pump EXCEPT ![c] = "waiting"]
  /\ hand' = [hand EXCEPT ![c] = Nothing]
  /\ picture' = [picture EXCEPT ![c] = IF lossy[c] THEN Blank ELSE Apply(@, hand[c])]
  /\ UNCHANGED <<clients, stage, present, inboxVars>>

(* The server refuses to send to a connection that is gone.                   *)
PumpFails(c) ==
  /\ pump[c] = "sending" /\ ~present[c]
  /\ pump' = [pump EXCEPT ![c] = "failed"]
  /\ hand' = [hand EXCEPT ![c] = Nothing]
  /\ picture' = [picture EXCEPT ![c] = Blank]
  /\ UNCHANGED <<clients, stage, present, inboxVars>>

(* The peer goes away.                                                        *)
HangUp(c) ==
  /\ present[c]
  /\ present' = [present EXCEPT ![c] = FALSE]
  /\ UNCHANGED <<clients, stage, pump, hand, inboxVars, picture>>

Connection(c) ==
  \/ Greet(c) \/ GreetFails(c) \/ ReadEnds(c) \/ CloseEnds(c) \/ CloseFails(c)
Pump(c) == PumpTakes(c) \/ PumpSends(c) \/ PumpFails(c)

-----------------------------------------------------------------------------
(* Properties.                                                                *)

StatusKinds == {"device.new", "device.online", "device.offline"}
HoldKinds == {"device.quarantined", "device.released"}

Following(c) == stage[c] \in {"greeting", "open"} /\ pump[c] # "failed" /\ only[c] = NoFilter

Mentions(ms, d, kinds) == {i \in DOMAIN ms : ms[i].type \in kinds /\ ms[i].device = d}

(* The fleet as a client knows it once it has applied the message being sent
   and everything queued behind it: what is said last about a device stands.  *)
Replayed(c) ==
  LET sent == Apply(picture[c], hand[c])
      After(d, kinds) == LET told == Mentions(queue[c], d, kinds)
                         IN IF told = {} THEN sent ELSE Apply(sent, queue[c][Max(told)])
  IN [d \in Devices |-> [status |-> After(d, StatusKinds)[d].status,
                         held |-> After(d, HoldKinds)[d].held]]

(* No gap between hello and the feed: who starts from the state that hello
   summarises and applies each event sent or still queued has the fleet as it
   is, as long as the backlog never overflowed and no filter was set.         *)
NoGap == \A c \in Clients : Following(c) /\ ~lossy[c] => Replayed(c) = FleetPicture

(* A slow client sees "what is happening now" (the docstring of Subscriber):
   whatever was dropped, for every device its backlog still mentions the
   backlog ends with the truth.                                               *)
BacklogIsCurrent ==
  \A c \in Clients : Following(c) =>
    \A d \in Devices :
      Mentions(queue[c], d, StatusKinds) # {} => Replayed(c)[d].status = status[d]

=============================================================================
