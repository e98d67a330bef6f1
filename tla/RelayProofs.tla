----------------------------- MODULE RelayProofs -----------------------------
(***************************************************************************)
(* Theorems about Relay, for any devices, clients, timeout and backlog.    *)
(***************************************************************************)
EXTENDS Relay, RowLemmas

(* The part of the fleet's types that decides who is offline, with the property:
   together they are inductive.                                               *)
RegisterInv ==
  /\ status \in [Devices -> {"unknown", "online", "offline"}]
  /\ age \in [Devices -> 0..MaxAge]
  /\ OfflineMeansSilent

LEMMA RegisterInvInit == Init => RegisterInv
  BY TimeoutAssumption
     DEF Init, FleetInit, RegisterInv, OfflineMeansSilent, MaxAge

(* A step that moves neither status nor age keeps the invariant.              *)
LEMMA RegisterUntouched ==
  RegisterInv /\ UNCHANGED <<status, age>> => RegisterInv'
  BY DEF RegisterInv, OfflineMeansSilent

LEMMA HeartbeatKeeps ==
  ASSUME RegisterInv, NEW d \in Devices, Heartbeat(d)
  PROVE  RegisterInv'
  <1>1. /\ status' = [status EXCEPT ![d] = "online"]
        /\ age' = [age EXCEPT ![d] = 0]
    BY DEF Heartbeat, Heard
  <1> QED
    BY <1>1, TimeoutAssumption DEF RegisterInv, OfflineMeansSilent, MaxAge

(* Only who is overdue is marked offline.                                     *)
LEMMA SweepKeeps ==
  ASSUME RegisterInv, Sweep
  PROVE  RegisterInv'
  <1>1. /\ status' = [d \in Devices |-> IF Overdue(d) THEN "offline" ELSE status[d]]
        /\ age' = age
    BY DEF Sweep, Swept
  <1> QED
    BY <1>1 DEF RegisterInv, OfflineMeansSilent, Overdue

(* Whoever is past the timeout stays past it.                                 *)
LEMMA TickKeeps ==
  ASSUME RegisterInv, Tick
  PROVE  RegisterInv'
  <1>1. /\ age' = [d \in Devices |->
                     IF Registered(d) /\ age[d] < MaxAge THEN age[d] + 1 ELSE age[d]]
        /\ status' = status
    BY DEF Tick, Aged
  <1>2. age' \in [Devices -> 0..MaxAge]
    BY <1>1, TimeoutAssumption DEF RegisterInv, MaxAge
  <1>3. \A d \in Devices : age'[d] >= age[d]
    BY <1>1, TimeoutAssumption DEF RegisterInv, MaxAge
  <1> QED
    BY <1>1, <1>2, <1>3, TimeoutAssumption DEF RegisterInv, OfflineMeansSilent, MaxAge

LEMMA RegisterInvStep == RegisterInv /\ [Next]_vars => RegisterInv'
  <1> SUFFICES ASSUME RegisterInv, [Next]_vars PROVE RegisterInv'
    OBVIOUS
  <1>1. CASE Requests
    <2>1. PICK d \in Devices :
            \/ Heartbeat(d) \/ RecordEvent(d)
            \/ \E on \in BOOLEAN : Quarantine(d, on)
      BY <1>1 DEF Requests
    <2>2. CASE Heartbeat(d)
      BY <2>2, HeartbeatKeeps
    <2>3. CASE RecordEvent(d)
      BY <2>3, RegisterUntouched DEF RecordEvent, Reported, fleetVars
    <2>4. CASE \E on \in BOOLEAN : Quarantine(d, on)
      BY <2>4, RegisterUntouched DEF Quarantine, Quarantined
    <2> QED
      BY <2>1, <2>2, <2>3, <2>4
  <1>2. CASE Sweep
    BY <1>2, SweepKeeps
  <1>3. CASE Tick
    BY <1>3, TickKeeps
  <1>4. CASE Peers \/ \E c \in Clients : Serve(c)
    BY <1>4, RegisterUntouched DEF Peers, Serve, fleetVars
  <1>5. CASE Start \/ Stop \/ Release
    BY <1>5, RegisterUntouched DEF Start, Stop, Release, fleetVars
  <1>6. CASE UNCHANGED vars
    BY <1>6, RegisterUntouched DEF vars, fleetVars
  <1> QED
    BY <1>1, <1>2, <1>3, <1>4, <1>5, <1>6 DEF Next

(* A device is offline only while its last heartbeat is older than the timeout,
   however heartbeats, sweeps and requests interleave.                        *)
THEOREM OfflineMeansSilentHolds == Spec => []OfflineMeansSilent
  <1>1. RegisterInv => OfflineMeansSilent
    BY DEF RegisterInv
  <1> QED
    BY RegisterInvInit, RegisterInvStep, <1>1, PTL DEF Spec

-----------------------------------------------------------------------------
(* Types.                                                                     *)

(* A backlog is what was queued and what is pushed, less the k oldest messages. *)
Drops(q, ms, k) ==
  /\ k \in Nat /\ k <= Len(q) + Len(ms)
  /\ Push(q, ms) \in Seq(Message)
  /\ Len(Push(q, ms)) = Len(q) + Len(ms) - k
  /\ \A i \in 1..Len(Push(q, ms)) :
       Push(q, ms)[i] = IF i + k <= Len(q) THEN q[i + k] ELSE ms[i + k - Len(q)]
  /\ ~Overflows(q, ms) => k = 0
  /\ QueueSize > 0 => Len(Push(q, ms)) <= QueueSize

LEMMA PushShape ==
  ASSUME NEW q \in Seq(Message), NEW ms \in Seq(Message)
  PROVE  \E k : Drops(q, ms, k)
<1> DEFINE all == q \o ms
           n == Len(q) + Len(ms)
<1>1. /\ all \in Seq(Message) /\ Len(all) = n
      /\ \A i \in 1..n : all[i] = IF i <= Len(q) THEN q[i] ELSE ms[i - Len(q)]
  BY ConcatProperties
<1>2. Len(q) \in Nat /\ Len(ms) \in Nat /\ n \in Nat /\ QueueSize \in Nat
  BY LenProperties, StreamAssumption
<1>3. \A i \in 1..n : all[i] \in Message
  BY <1>1, ElementOfSeq
<1>4. CASE QueueSize = 0 \/ n <= QueueSize
  <2>1. Push(q, ms) = all
    BY <1>1, <1>2, <1>4 DEF Push
  <2>. HIDE DEF all
  <2>2. /\ Push(q, ms) \in Seq(Message) /\ Len(Push(q, ms)) = n
        /\ QueueSize > 0 => Len(Push(q, ms)) <= QueueSize
    BY <1>1, <1>2, <1>4, <2>1
  <2>3. ASSUME NEW i \in 1..n
        PROVE  Push(q, ms)[i] = IF i + 0 <= Len(q) THEN q[i + 0] ELSE ms[i + 0 - Len(q)]
    <3>1. i + 0 = i /\ i + 0 - Len(q) = i - Len(q)
      BY <1>2
    <3>. QED
      BY <1>1, <2>1, <3>1
  <2>4. Drops(q, ms, 0)
    BY <1>2, <2>2, <2>3 DEF Drops
  <2>. QED
    BY <2>4
<1>5. CASE QueueSize > 0 /\ n > QueueSize
  <2> DEFINE k == n - QueueSize
  <2>1. Push(q, ms) = SubSeq(all, k + 1, n)
    BY <1>1, <1>2, <1>5 DEF Push
  <2>2. k \in Nat /\ k + 1 \in Int /\ n \in Int /\ k + 1 <= n /\ k <= n
    BY <1>2, <1>5
  <2>3. \A i \in (k + 1)..n : all[i] \in Message
    BY <1>2, <1>3, <2>2
  <2>. HIDE DEF all, k, n
  <2>4. /\ Push(q, ms) \in Seq(Message)
        /\ Len(Push(q, ms)) = n - (k + 1) + 1
        /\ \A i \in 1..(n - (k + 1) + 1) : Push(q, ms)[i] = all[(k + 1) + i - 1]
    BY <2>1, <2>2, <2>3, SubSeqProperties
  <2>5. Len(Push(q, ms)) = n - k /\ Len(Push(q, ms)) = QueueSize
    BY <1>2, <2>2, <2>4 DEF k
  <2>6. ASSUME NEW i \in 1..Len(Push(q, ms))
        PROVE  Push(q, ms)[i] = IF i + k <= Len(q) THEN q[i + k] ELSE ms[i + k - Len(q)]
    <3>1. i + k \in 1..n /\ (k + 1) + i - 1 = i + k /\ i \in 1..(n - (k + 1) + 1)
      BY <1>2, <2>2, <2>5
    <3>2. Push(q, ms)[i] = all[i + k]
      BY <2>4, <3>1
    <3>3. all[i + k] = IF i + k <= Len(q) THEN q[i + k] ELSE ms[i + k - Len(q)]
      BY <1>1, <1>2, <2>2, <2>5, <3>1
    <3>. QED
      BY <3>2, <3>3
  <2>7. Overflows(q, ms)
    BY <1>5 DEF Overflows, n
  <2>8. Drops(q, ms, k)
    BY <1>2, <2>2, <2>4, <2>5, <2>6, <2>7 DEF Drops, n
  <2>. QED
    BY <2>8
<1>. QED
  BY <1>2, <1>4, <1>5

LEMMA PushTypes ==
  ASSUME NEW q \in Seq(Message), NEW ms \in Seq(Message)
  PROVE  Push(q, ms) \in Seq(Message) /\ (QueueSize > 0 => Len(Push(q, ms)) <= QueueSize)
BY PushShape DEF Drops

LEMMA FinishTypes ==
  ASSUME NEW q \in Seq(Message), QueueSize > 0 => Len(q) <= QueueSize
  PROVE  /\ WithFinish(q) \in Seq(Message)
         /\ QueueSize > 0 => Len(WithFinish(q)) <= QueueSize
<1>1. Finish \in Message /\ Len(<<Finish>>) = 1
  BY DEF Message
<1>2. /\ Append(q, Finish) \in Seq(Message) /\ Len(Append(q, Finish)) = Len(q) + 1
      /\ Len(q) \in Nat
  BY <1>1, AppendProperties, LenProperties
<1>. QED
  BY <1>1, <1>2, StreamAssumption DEF WithFinish, Overflows

LEMMA EventIsMessage ==
  ASSUME NEW d \in Devices, NEW t \in Kinds
  PROVE  /\ EventOf(t, d) \in Message
         /\ EventOf(t, d).type = t /\ EventOf(t, d).device = d
BY DEF EventOf, Message

(* Who is marked offline: the overdue devices, each in one event.             *)
LEMMA StaleDevices ==
  ASSUME FleetTypeOK
  PROVE  /\ SweepEvents \in Seq(Message)
         /\ \A k \in 1..Len(SweepEvents) :
              \E d \in Devices : Overdue(d) /\ SweepEvents[k] = EventOf("device.offline", d)
         /\ \A d \in Devices : Overdue(d) =>
              \E k \in 1..Len(SweepEvents) : SweepEvents[k] = EventOf("device.offline", d)
<1> DEFINE places == {i \in DOMAIN known : Overdue(known[i])}
<1>1. known \in Seq(Devices) /\ places \subseteq DOMAIN known
  BY DEF FleetTypeOK
<1>3. Stale = Those(known, places)
  BY DEF Stale
<1>4. \A d \in Devices : Overdue(d) => \E i \in places : known[i] = d
  BY DEF FleetTypeOK, Overdue, ToSet
<1>5. \A i \in places : Overdue(known[i])
  OBVIOUS
<1> HIDE DEF places
<1>2. PICK f : /\ Ascending(f, Len(Those(known, places)), places)
               /\ Those(known, places) \in Seq(Devices)
               /\ \A k \in 1..Len(Those(known, places)) :
                    Those(known, places)[k] = known[f[k]]
  BY <1>1, ThoseRows
<1>6. /\ Stale \in Seq(Devices) /\ Len(Stale) \in Nat /\ DOMAIN Stale = 1..Len(Stale)
      /\ Ascending(f, Len(Stale), places)
      /\ \A k \in 1..Len(Stale) : Stale[k] = known[f[k]] /\ Stale[k] \in Devices
  BY <1>2, <1>3, LenProperties, ElementOfSeq
<1>7. SweepEvents = [k \in 1..Len(Stale) |-> EventOf("device.offline", Stale[k])]
  BY <1>6 DEF SweepEvents
<1>8. \A k \in 1..Len(Stale) : EventOf("device.offline", Stale[k]) \in Message
  BY <1>6, EventIsMessage DEF Kinds
<1>9. SweepEvents \in Seq(Message) /\ Len(SweepEvents) = Len(Stale)
  BY <1>6, <1>7, <1>8
<1>10. \A k \in 1..Len(Stale) : Overdue(Stale[k])
  BY <1>5, <1>6 DEF Ascending
<1>11. \A d \in Devices : Overdue(d) => \E k \in 1..Len(Stale) : Stale[k] = d
  BY <1>4, <1>6 DEF Ascending
<1>. QED
  BY <1>6, <1>7, <1>9, <1>10, <1>11

LEMMA EventTypes ==
  ASSUME NEW d \in Devices
  PROVE  /\ HeartbeatEvents(d) \in Seq(Message) /\ ReportEvents(d) \in Seq(Message)
         /\ \A on \in BOOLEAN : QuarantineEvents(d, on) \in Seq(Message)
<1>1. \A m \in Message : <<m>> \in Seq(Message)
  OBVIOUS
<1>2. << >> \in Seq(Message)
  OBVIOUS
<1>3. \A t \in Kinds : <<EventOf(t, d)>> \in Seq(Message)
  BY <1>1, EventIsMessage
<1>. QED
  BY <1>2, <1>3 DEF HeartbeatEvents, ReportEvents, QuarantineEvents, Kinds

LEMMA WantedTypes ==
  ASSUME NEW ms \in Seq(Message), NEW c
  PROVE  Wanted(c, ms) \in Seq(Message)
<1> DEFINE places == {i \in DOMAIN ms : ms[i].type \in only[c]}
<1>1. places \subseteq DOMAIN ms
  OBVIOUS
<1>2. Those(ms, places) \in Seq(Message)
  <2>. HIDE DEF places
  <2>. QED
    BY <1>1, ThoseRows
<1>. QED
  BY <1>2 DEF Wanted

LEMMA PictureTypes ==
  /\ Blank \in Pictures
  /\ FleetTypeOK => FleetPicture \in Pictures
BY DEF Blank, Pictures, FleetPicture, FleetTypeOK

(* What one message changes in a picture.                                     *)
LEMMA ApplyShape ==
  ASSUME NEW pic \in Pictures, NEW m \in Message \cup {Nothing}
  PROVE  /\ Apply(pic, m) \in Pictures
         /\ \A d \in Devices :
              /\ m.type \in StatusKinds /\ m.device = d =>
                   Apply(pic, m)[d].status =
                     IF m.type = "device.offline" THEN "offline" ELSE "online"
              /\ ~(m.type \in StatusKinds /\ m.device = d) =>
                   Apply(pic, m)[d].status = pic[d].status
              /\ m.type \in HoldKinds /\ m.device = d =>
                   Apply(pic, m)[d].held = (m.type = "device.quarantined")
              /\ ~(m.type \in HoldKinds /\ m.device = d) =>
                   Apply(pic, m)[d].held = pic[d].held
<1> DEFINE e == m.device
<1>1. m.type \in StatusKinds \cup HoldKinds => e \in Devices
  BY DEF Message, StatusKinds, HoldKinds, Nothing, Subscribed, Finish
<1>2. \A d \in Devices : pic[d] \in [status : {"unknown", "online", "offline"}, held : BOOLEAN]
  BY DEF Pictures
<1>3. ASSUME m.type \in StatusKinds
      PROVE  Apply(pic, m) = [pic EXCEPT ![e] = [@ EXCEPT !.status =
               IF m.type = "device.offline" THEN "offline" ELSE "online"]]
  BY <1>3 DEF Apply, StatusKinds
<1>4. ASSUME m.type \in HoldKinds
      PROVE  Apply(pic, m) = [pic EXCEPT ![e] = [@ EXCEPT !.held =
               (m.type = "device.quarantined")]]
  <2>1. CASE m.type = "device.quarantined"
    BY <2>1 DEF Apply
  <2>2. CASE m.type = "device.released"
    BY <2>2 DEF Apply
  <2>. QED
    BY <1>4, <2>1, <2>2 DEF HoldKinds
<1>5. m.type \notin StatusKinds \cup HoldKinds => Apply(pic, m) = pic
  BY DEF Apply, StatusKinds, HoldKinds
<1>6. StatusKinds \cap HoldKinds = {}
  BY DEF StatusKinds, HoldKinds
<1>7. CASE m.type \in StatusKinds
  <2> DEFINE w == IF m.type = "device.offline" THEN "offline" ELSE "online"
             r == [pic[e] EXCEPT !.status = w]
  <2>1. w \in {"online", "offline"}
    OBVIOUS
  <2> HIDE DEF w
  <2>2. r = [status |-> w, held |-> pic[e].held]
    BY <1>1, <1>2, <1>7
  <2>3. Apply(pic, m) = [pic EXCEPT ![e] = r]
    BY <1>3, <1>7 DEF w
  <2> HIDE DEF r
  <2>4. r \in [status : {"unknown", "online", "offline"}, held : BOOLEAN]
        /\ r.status = w /\ r.held = pic[e].held
    BY <1>1, <1>2, <1>7, <2>1, <2>2
  <2>5. Apply(pic, m) \in Pictures /\ Apply(pic, m)[e] = r
        /\ \A d \in Devices : d # e => Apply(pic, m)[d] = pic[d]
    BY <1>1, <1>7, <2>3, <2>4 DEF Pictures
  <2>6. m.type \notin HoldKinds
    BY <1>6, <1>7
  <2>. QED
    BY <1>7, <2>4, <2>5, <2>6 DEF w
<1>8. CASE m.type \in HoldKinds
  <2> DEFINE w == (m.type = "device.quarantined")
             r == [pic[e] EXCEPT !.held = w]
  <2>1. w \in BOOLEAN
    OBVIOUS
  <2> HIDE DEF w
  <2>2. r = [status |-> pic[e].status, held |-> w]
    BY <1>1, <1>2, <1>8
  <2>3. Apply(pic, m) = [pic EXCEPT ![e] = r]
    BY <1>4, <1>8 DEF w
  <2> HIDE DEF r
  <2>4. r \in [status : {"unknown", "online", "offline"}, held : BOOLEAN]
        /\ r.status = pic[e].status /\ r.held = w
    BY <1>1, <1>2, <1>8, <2>1, <2>2
  <2>5. Apply(pic, m) \in Pictures /\ Apply(pic, m)[e] = r
        /\ \A d \in Devices : d # e => Apply(pic, m)[d] = pic[d]
    BY <1>1, <1>8, <2>3, <2>4 DEF Pictures
  <2>6. m.type \notin StatusKinds
    BY <1>6, <1>8
  <2>. QED
    BY <1>8, <2>4, <2>5, <2>6 DEF w
<1>9. CASE m.type \notin StatusKinds \cup HoldKinds
  BY <1>5, <1>9
<1>. QED
  BY <1>7, <1>8, <1>9

LEMMA TypesInit == Init => TypeOK
<1> SUFFICES ASSUME Init PROVE TypeOK
  OBVIOUS
<1>1. << >> \in Seq(Devices) /\ << >> \in Seq(Message) /\ Len(<< >>) = 0
  BY EmptySeq
<1>2. IsInjective(<< >>) /\ ToSet(<< >>) = {}
  BY DEF IsInjective, ToSet
<1>3. FleetTypeOK
  BY <1>1, <1>2, TimeoutAssumption DEF Init, FleetInit, FleetTypeOK, MaxAge
<1>4. StreamTypeOK
  BY <1>1, PictureTypes, StreamAssumption DEF Init, StreamInit, StreamTypeOK
<1>. QED
  BY <1>3, <1>4 DEF Init, TypeOK

LEMMA HeardTypes ==
  ASSUME FleetTypeOK, NEW d \in Devices, Heard(d)
  PROVE  FleetTypeOK'
<1>. /\ known \in Seq(Devices) /\ IsInjective(known)
     /\ \A e \in Devices : e \in ToSet(known) <=> status[e] # "unknown"
     /\ status \in [Devices -> {"unknown", "online", "offline"}]
     /\ quarantined \in [Devices -> BOOLEAN] /\ age \in [Devices -> 0..MaxAge]
  BY DEF FleetTypeOK
<1>1. /\ status' \in [Devices -> {"unknown", "online", "offline"}]
      /\ quarantined' \in [Devices -> BOOLEAN] /\ age' \in [Devices -> 0..MaxAge]
      /\ status'[d] = "online" /\ \A e \in Devices : e # d => status'[e] = status[e]
  BY TimeoutAssumption DEF Heard, MaxAge
<1>2. CASE Registered(d)
  <2>1. known' = known /\ d \in ToSet(known)
    BY <1>2 DEF Heard, Registered
  <2>. QED
    BY <1>1, <2>1 DEF FleetTypeOK
<1>3. CASE ~Registered(d)
  <2>1. known' = Append(known, d) /\ d \notin ToSet(known)
    BY <1>3 DEF Heard, Registered
  <2>2. /\ known' \in Seq(Devices) /\ Len(known') = Len(known) + 1 /\ Len(known) \in Nat
        /\ \A i \in 1..Len(known) : known'[i] = known[i]
        /\ known'[Len(known) + 1] = d
        /\ DOMAIN known = 1..Len(known) /\ DOMAIN known' = 1..Len(known')
    BY <2>1, AppendProperties, LenProperties
  <2>3. ToSet(known') = ToSet(known) \cup {d}
    <3>1. ToSet(known') \subseteq ToSet(known) \cup {d}
      BY <2>2 DEF ToSet
    <3>2. d \in ToSet(known')
      <4>1. Len(known) + 1 \in DOMAIN known'
        BY <2>2
      <4>. QED
        BY <2>2, <4>1 DEF ToSet
    <3>3. ToSet(known) \subseteq ToSet(known')
      <4>1. \A i \in DOMAIN known : i \in DOMAIN known' /\ known'[i] = known[i]
        BY <2>2
      <4>. QED
        BY <4>1 DEF ToSet
    <3>. QED
      BY <3>1, <3>2, <3>3
  <2>4. IsInjective(known')
    BY <2>1, <2>2 DEF IsInjective, ToSet
  <2>. QED
    BY <1>1, <2>2, <2>3, <2>4 DEF FleetTypeOK
<1>. QED
  BY <1>2, <1>3

LEMMA FleetTypeStep == FleetTypeOK /\ [Next]_vars => FleetTypeOK'
<1> SUFFICES ASSUME FleetTypeOK, [Next]_vars PROVE FleetTypeOK'
  OBVIOUS
<1>1. CASE UNCHANGED fleetVars
  BY <1>1 DEF FleetTypeOK, fleetVars
<1>2. ASSUME NEW d \in Devices, Heartbeat(d)  PROVE FleetTypeOK'
  BY <1>2, HeardTypes DEF Heartbeat
<1>3. ASSUME NEW d \in Devices, RecordEvent(d)  PROVE FleetTypeOK'
  BY <1>1, <1>3 DEF RecordEvent, Reported
<1>4. ASSUME NEW d \in Devices, NEW on \in BOOLEAN, Quarantine(d, on)  PROVE FleetTypeOK'
  BY <1>4 DEF Quarantine, Quarantined, FleetTypeOK
<1>5. CASE Sweep
  <2>1. /\ status' = [d \in Devices |-> IF Overdue(d) THEN "offline" ELSE status[d]]
        /\ UNCHANGED <<known, quarantined, age>>
    BY <1>5 DEF Sweep, Swept
  <2>2. \A d \in Devices : status'[d] # "unknown" <=> status[d] # "unknown"
    BY <2>1 DEF Overdue
  <2>3. status' \in [Devices -> {"unknown", "online", "offline"}]
    BY <2>1 DEF FleetTypeOK
  <2>. QED
    BY <2>1, <2>2, <2>3 DEF FleetTypeOK
<1>6. CASE Tick
  <2>1. /\ age' = [d \in Devices |->
                     IF Registered(d) /\ age[d] < MaxAge THEN age[d] + 1 ELSE age[d]]
        /\ UNCHANGED <<known, status, quarantined>>
    BY <1>6 DEF Tick, Aged
  <2>2. age' \in [Devices -> 0..MaxAge]
    BY <2>1, TimeoutAssumption DEF FleetTypeOK, MaxAge
  <2>. QED
    BY <2>1, <2>2 DEF FleetTypeOK
<1>7. CASE Peers \/ Start \/ Stop \/ Release \/ \E c \in Clients : Serve(c)
  BY <1>1, <1>7 DEF Peers, Start, Stop, Release, Serve
<1>8. CASE UNCHANGED vars
  BY <1>1, <1>8 DEF vars
<1>. QED
  BY <1>2, <1>3, <1>4, <1>5, <1>6, <1>7, <1>8 DEF Next, Requests

(* Publishing keeps the types of the stream.                                  *)
LEMMA FanoutTypes ==
  ASSUME StreamTypeOK, NEW ms \in Seq(Message), Fanout(ms)
  PROVE  StreamTypeOK'
<1>1. \A c \in Clients : /\ Push(queue[c], Wanted(c, ms)) \in Seq(Message)
                         /\ QueueSize > 0 => Len(Push(queue[c], Wanted(c, ms))) <= QueueSize
  BY WantedTypes, PushTypes DEF StreamTypeOK
<1>2. /\ queue' \in [Clients -> Seq(Message)]
      /\ QueueSize > 0 => \A c \in Clients : Len(queue'[c]) <= QueueSize
  BY <1>1 DEF Fanout, StreamTypeOK
<1>3. lossy' \in [Clients -> BOOLEAN]
  BY DEF Fanout, StreamTypeOK
<1>4. picture' \in [Clients -> Pictures]
  BY PictureTypes DEF Fanout, Forgotten, StreamTypeOK
<1>. QED
  BY <1>2, <1>3, <1>4 DEF Fanout, StreamTypeOK, taskVars

(* The backlog of one client changes.                                         *)
LEMMA QueueTypes ==
  ASSUME StreamTypeOK, NEW c \in Clients, NEW q \in Seq(Message),
         QueueSize > 0 => Len(q) <= QueueSize, queue' = [queue EXCEPT ![c] = q]
  PROVE  /\ queue' \in [Clients -> Seq(Message)]
         /\ QueueSize > 0 => \A e \in Clients : Len(queue'[e]) <= QueueSize
BY DEF StreamTypeOK

LEMMA ServeTypes ==
  ASSUME TypeOK, NEW c \in Clients, Serve(c)
  PROVE  StreamTypeOK'
<1> USE DEF taskVars, inboxVars, streamVars
<1>. /\ StreamTypeOK /\ queue[c] \in Seq(Message) /\ picture \in [Clients -> Pictures]
     /\ QueueSize > 0 => Len(queue[c]) <= QueueSize
  BY DEF TypeOK, StreamTypeOK
<1>1. CASE Greet(c) \/ CloseFails(c)
  BY <1>1 DEF Greet, CloseFails, StreamTypeOK
<1>2. CASE GreetFails(c) \/ PumpFails(c)
  <2>1. picture' \in [Clients -> Pictures]
    BY <1>2, PictureTypes DEF GreetFails, PumpFails
  <2>2. /\ stage' \in [Clients -> {"away", "greeting", "open", "closing", "over"}]
        /\ pump' \in [Clients -> {"none", "waiting", "sending", "failed", "done", "cancelled"}]
        /\ hand' \in [Clients -> Message \cup {Nothing}]
    BY <1>2 DEF GreetFails, PumpFails, StreamTypeOK
  <2>. QED
    BY <1>2, <2>1, <2>2 DEF GreetFails, PumpFails, StreamTypeOK
<1>3. CASE ReadEnds(c)
  <2>1. /\ queue' \in [Clients -> Seq(Message)]
        /\ QueueSize > 0 => \A e \in Clients : Len(queue'[e]) <= QueueSize
    BY <1>3, FinishTypes, QueueTypes DEF ReadEnds
  <2>2. pump' \in [Clients -> {"none", "waiting", "sending", "failed", "done", "cancelled"}]
    BY <1>3 DEF ReadEnds, StreamTypeOK
  <2>3. /\ stage' \in [Clients -> {"away", "greeting", "open", "closing", "over"}]
        /\ hand' \in [Clients -> Message \cup {Nothing}]
        /\ picture' \in [Clients -> Pictures]
    BY <1>3, PictureTypes DEF ReadEnds, StreamTypeOK
  <2>. QED
    BY <1>3, <2>1, <2>2, <2>3 DEF ReadEnds, StreamTypeOK
<1>4. CASE CloseEnds(c)
  <2>1. /\ queue' \in [Clients -> Seq(Message)]
        /\ QueueSize > 0 => \A e \in Clients : Len(queue'[e]) <= QueueSize
    <3>1. << >> \in Seq(Message) /\ (QueueSize > 0 => Len(<< >>) <= QueueSize)
      BY EmptySeq, StreamAssumption
    <3>2. queue' = [queue EXCEPT ![c] = << >>]
      BY <1>4 DEF CloseEnds
    <3>. QED
      BY <3>1, <3>2, QueueTypes
  <2>2. /\ stage' \in [Clients -> {"away", "greeting", "open", "closing", "over"}]
        /\ clients' \subseteq Clients
        /\ only' \in [Clients -> Filters \cup {NoFilter}]
        /\ lossy' \in [Clients -> BOOLEAN]
        /\ picture' \in [Clients -> Pictures]
    BY <1>4, PictureTypes DEF CloseEnds, StreamTypeOK
  <2>3. pump' \in [Clients -> {"none", "waiting", "sending", "failed", "done", "cancelled"}]
    BY <1>4 DEF CloseEnds, StreamTypeOK
  <2>. QED
    BY <1>4, <2>1, <2>2, <2>3 DEF CloseEnds, StreamTypeOK
<1>5. CASE PumpTakes(c)
  <2>1. queue[c] # << >>
    BY <1>5 DEF PumpTakes
  <2>2. /\ Tail(queue[c]) \in Seq(Message) /\ Head(queue[c]) \in Message
        /\ Len(Tail(queue[c])) = Len(queue[c]) - 1 /\ Len(queue[c]) \in Nat
    BY <2>1, HeadTailProperties, LenProperties
  <2>3. /\ queue' \in [Clients -> Seq(Message)]
        /\ QueueSize > 0 => \A e \in Clients : Len(queue'[e]) <= QueueSize
    <3>1. QueueSize > 0 => Len(Tail(queue[c])) <= QueueSize
      BY <2>2, StreamAssumption
    <3>2. queue' = [queue EXCEPT ![c] = Tail(queue[c])]
      BY <1>5 DEF PumpTakes
    <3>. QED
      BY <2>2, <3>1, <3>2, QueueTypes
  <2>4. /\ pump' \in [Clients -> {"none", "waiting", "sending", "failed", "done", "cancelled"}]
        /\ hand' \in [Clients -> Message \cup {Nothing}]
    BY <1>5, <2>2 DEF PumpTakes, StreamTypeOK
  <2>. QED
    BY <1>5, <2>3, <2>4 DEF PumpTakes, StreamTypeOK
<1>6. CASE PumpSends(c)
  <2>1. Apply(picture[c], hand[c]) \in Pictures
    BY ApplyShape DEF StreamTypeOK
  <2>2. picture' \in [Clients -> Pictures]
    BY <1>6, <2>1, PictureTypes DEF PumpSends
  <2>3. /\ pump' \in [Clients -> {"none", "waiting", "sending", "failed", "done", "cancelled"}]
        /\ hand' \in [Clients -> Message \cup {Nothing}]
    BY <1>6 DEF PumpSends, StreamTypeOK
  <2>. QED
    BY <1>6, <2>2, <2>3 DEF PumpSends, StreamTypeOK
<1>. QED
  BY <1>1, <1>2, <1>3, <1>4, <1>5, <1>6 DEF Serve, Connection, Pump

LEMMA StreamTypeStep == TypeOK /\ [Next]_vars => StreamTypeOK'
<1> SUFFICES ASSUME TypeOK, [Next]_vars PROVE StreamTypeOK'
  OBVIOUS
<1> USE DEF taskVars, inboxVars, streamVars
<1>. StreamTypeOK /\ FleetTypeOK
  BY DEF TypeOK
<1>1. CASE UNCHANGED streamVars
  BY <1>1 DEF StreamTypeOK
<1>2. ASSUME NEW ms \in Seq(Message), Fanout(ms)  PROVE StreamTypeOK'
  BY <1>2, FanoutTypes
<1>3. CASE Requests
  BY <1>2, <1>3, EventTypes DEF Requests, Heartbeat, RecordEvent, Quarantine
<1>4. CASE Sweep
  BY <1>2, <1>4, StaleDevices DEF Sweep
<1>5. ASSUME NEW c \in Clients, Connect(c)  PROVE StreamTypeOK'
  <2>1. picture' \in [Clients -> Pictures]
    BY <1>5, PictureTypes DEF Connect, StreamTypeOK
  <2>. QED
    BY <1>5, <2>1 DEF Connect, StreamTypeOK
<1>6. ASSUME NEW c \in Clients, HangUp(c)  PROVE StreamTypeOK'
  BY <1>6 DEF HangUp, StreamTypeOK
<1>7. ASSUME NEW c \in Clients, NEW kinds \in Filters, Narrow(c, kinds)  PROVE StreamTypeOK'
  <2>1. <<Subscribed>> \in Seq(Message)
    BY DEF Message
  <2>2. /\ queue' \in [Clients -> Seq(Message)]
        /\ QueueSize > 0 => \A e \in Clients : Len(queue'[e]) <= QueueSize
    BY <1>7, <2>1, PushTypes, QueueTypes DEF Narrow, StreamTypeOK
  <2>3. lossy' \in [Clients -> BOOLEAN] /\ only' \in [Clients -> Filters \cup {NoFilter}]
    BY <1>7 DEF Narrow, StreamTypeOK
  <2>4. picture' \in [Clients -> Pictures]
    BY <1>7, PictureTypes DEF Narrow, Forgotten, StreamTypeOK
  <2>. QED
    BY <1>7, <2>2, <2>3, <2>4 DEF Narrow, StreamTypeOK
<1>8. CASE Peers
  BY <1>5, <1>6, <1>7, <1>8 DEF Peers
<1>9. CASE Stop
  BY <1>9 DEF Stop, StreamTypeOK
<1>10. CASE Release
  <2>1. \A c \in Clients : /\ WithFinish(queue[c]) \in Seq(Message)
                           /\ QueueSize > 0 => Len(WithFinish(queue[c])) <= QueueSize
    BY FinishTypes DEF StreamTypeOK
  <2>2. /\ queue' \in [Clients -> Seq(Message)]
        /\ QueueSize > 0 => \A c \in Clients : Len(queue'[c]) <= QueueSize
    BY <1>10, <2>1 DEF Release, StreamTypeOK
  <2>. QED
    BY <1>10, <2>2 DEF Release, StreamTypeOK
<1>11. ASSUME NEW c \in Clients, Serve(c)  PROVE StreamTypeOK'
  BY <1>11, ServeTypes
<1>12. CASE Tick \/ Start \/ UNCHANGED vars
  BY <1>1, <1>12 DEF Tick, Start, vars
<1>. QED
  BY <1>3, <1>4, <1>8, <1>9, <1>10, <1>11, <1>12 DEF Next

LEMMA TypesStep == TypeOK /\ [Next]_vars => TypeOK'
<1> SUFFICES ASSUME TypeOK, [Next]_vars PROVE TypeOK'
  OBVIOUS
<1>1. phase' \in {"down", "up", "stopping"}
  BY DEF TypeOK, Next, vars, Requests, Heartbeat, RecordEvent, Quarantine, Running,
     Sweep, Tick, Peers, Start, Stop, Release, Serve
<1>2. FleetTypeOK' /\ StreamTypeOK'
  BY FleetTypeStep, StreamTypeStep DEF TypeOK
<1>. QED
  BY <1>1, <1>2 DEF TypeOK

(* The register and the feed keep their types, and no client's backlog grows
   past stream_queue_size.                                                    *)
THEOREM RelayTypeCorrect == Spec => []TypeOK
BY TypesInit, TypesStep, PTL DEF Spec

-----------------------------------------------------------------------------
(* The feed.  What a client will know about a device is what the last message
   about it says, wherever that message is: queued, in the pump's hand, or
   already sent.                                                              *)

LastMention(ms, d, kinds, i) ==
  /\ i \in Mentions(ms, d, kinds)
  /\ \A j \in Mentions(ms, d, kinds) : j <= i

StatusSaid(m) == IF m.type = "device.offline" THEN "offline" ELSE "online"
HoldSaid(m) == (m.type = "device.quarantined")

(* The events published in a step say what the step did to the register.      *)
Announces(ms) ==
  \A d \in Devices :
    /\ Mentions(ms, d, StatusKinds) = {} => status'[d] = status[d]
    /\ \A i : LastMention(ms, d, StatusKinds, i) => status'[d] = StatusSaid(ms[i])
    /\ Mentions(ms, d, HoldKinds) = {} => quarantined'[d] = quarantined[d]
    /\ \A i : LastMention(ms, d, HoldKinds, i) => quarantined'[d] = HoldSaid(ms[i])

(* The backlog of a client ends with the truth about every device in it.      *)
TellsStatus(c) ==
  \A d \in Devices : \A i :
    LastMention(queue[c], d, StatusKinds, i) => status[d] = StatusSaid(queue[c][i])

(* So it does about quarantine, and what it leaves out was said before.       *)
TellsAll(c) ==
  \A d \in Devices :
    /\ \A i : LastMention(queue[c], d, HoldKinds, i) =>
         quarantined[d] = HoldSaid(queue[c][i])
    /\ Mentions(queue[c], d, StatusKinds) = {} =>
         Apply(picture[c], hand[c])[d].status = status[d]
    /\ Mentions(queue[c], d, HoldKinds) = {} =>
         Apply(picture[c], hand[c])[d].held = quarantined[d]

Fed(c) == Following(c) => TellsStatus(c) /\ (~lossy[c] => TellsAll(c))
FeedShape == \A c \in Clients : Fed(c)

(* Who is in EventStream.clients, and what a connection that is not served has
   left behind.                                                               *)
ConnectionShape ==
  \A c \in Clients :
    /\ stage[c] \in {"greeting", "open", "closing"} => c \in clients
    /\ stage[c] = "away" => c \notin clients /\ queue[c] = <<>> /\ pump[c] = "none"
    /\ stage[c] = "greeting" => pump[c] = "none"
    /\ pump[c] # "sending" => hand[c] = Nothing

FeedInv == TypeOK /\ ConnectionShape /\ FeedShape

(* The last message about a device in what is left of a backlog is the last one
   pushed or, if none was, the last one that was queued.                      *)
LEMMA LastPushed ==
  ASSUME NEW q \in Seq(Message), NEW ms \in Seq(Message), NEW k, Drops(q, ms, k),
         NEW d, NEW kinds, NEW i, LastMention(Push(q, ms), d, kinds, i)
  PROVE  \/ \E j : LastMention(ms, d, kinds, j) /\ ms[j] = Push(q, ms)[i]
         \/ /\ Mentions(ms, d, kinds) = {}
            /\ \E j : LastMention(q, d, kinds, j) /\ q[j] = Push(q, ms)[i]
<1> DEFINE p == Push(q, ms)
<1>1. /\ k \in Nat /\ Len(q) \in Nat /\ Len(ms) \in Nat /\ Len(p) = Len(q) + Len(ms) - k
      /\ DOMAIN p = 1..Len(p) /\ DOMAIN q = 1..Len(q) /\ DOMAIN ms = 1..Len(ms)
      /\ i \in 1..Len(p) /\ Len(p) \in Nat
  BY LenProperties DEF Drops, LastMention, Mentions
<1>2. \A j \in 1..Len(p) : p[j] = IF j + k <= Len(q) THEN q[j + k] ELSE ms[j + k - Len(q)]
  BY DEF Drops
<1>3. /\ i \in Mentions(p, d, kinds)
      /\ \A j \in 1..Len(p) : p[j].type \in kinds /\ p[j].device = d => j <= i
  BY <1>1 DEF LastMention, Mentions
<1>. HIDE DEF p
<1>4. ASSUME NEW j \in 1..Len(ms), j + Len(q) - k >= 1
      PROVE  j + Len(q) - k \in 1..Len(p) /\ p[j + Len(q) - k] = ms[j]
  <2> DEFINE x == j + Len(q) - k
  <2>1. x \in 1..Len(p) /\ ~(x + k <= Len(q)) /\ x + k - Len(q) = j
    BY <1>1, <1>4
  <2>. HIDE DEF x
  <2>2. p[x] = ms[j]
    BY <1>1, <1>2, <2>1
  <2>. QED
    BY <2>1, <2>2 DEF x
<1>5. ASSUME NEW j \in 1..Len(q), j - k >= 1
      PROVE  j - k \in 1..Len(p) /\ p[j - k] = q[j]
  <2> DEFINE x == j - k
  <2>1. x \in 1..Len(p) /\ x + k <= Len(q) /\ x + k = j
    BY <1>1, <1>5
  <2>. HIDE DEF x
  <2>2. p[x] = q[j]
    BY <1>1, <1>2, <2>1
  <2>. QED
    BY <2>1, <2>2 DEF x
<1>6. CASE i + k <= Len(q)
  <2> DEFINE x == i + k
  <2>1. x \in 1..Len(q) /\ p[i] = q[x]
    BY <1>1, <1>2, <1>6
  <2>2. ASSUME NEW j \in Mentions(ms, d, kinds)  PROVE FALSE
    <3>1. j \in 1..Len(ms) /\ j + Len(q) - k >= 1 /\ j + Len(q) - k > i
      BY <1>1, <1>6 DEF Mentions
    <3> DEFINE y == j + Len(q) - k
    <3>2. y \in 1..Len(p) /\ p[y] = ms[j] /\ y > i
      BY <1>4, <3>1
    <3>3. ms[j].type \in kinds /\ ms[j].device = d
      BY DEF Mentions
    <3>. HIDE DEF y
    <3>4. y <= i
      BY <1>3, <3>2, <3>3
    <3>. QED
      BY <1>1, <3>2, <3>4
  <2>3. ASSUME NEW j \in Mentions(q, d, kinds)  PROVE j <= x
    <3>1. j \in 1..Len(q)
      BY <1>1 DEF Mentions
    <3>2. CASE j - k >= 1
      <4>1. j - k <= i
        BY <1>1, <1>3, <1>5, <3>1, <3>2 DEF Mentions
      <4>. QED
        BY <1>1, <3>1, <4>1
    <3>3. CASE ~(j - k >= 1)
      BY <1>1, <3>1, <3>3
    <3>. QED
      BY <3>2, <3>3
  <2>. HIDE DEF x
  <2>4. x \in Mentions(q, d, kinds)
    BY <1>1, <1>3, <2>1 DEF Mentions
  <2>5. LastMention(q, d, kinds, x) /\ Mentions(ms, d, kinds) = {}
    BY <2>2, <2>3, <2>4 DEF LastMention
  <2>. QED
    BY <2>1, <2>5 DEF p
<1>7. CASE i + k > Len(q)
  <2> DEFINE x == i + k - Len(q)
  <2>1. x \in 1..Len(ms) /\ p[i] = ms[x]
    BY <1>1, <1>2, <1>7
  <2>2. ASSUME NEW j \in Mentions(ms, d, kinds)  PROVE j <= x
    <3>1. j \in 1..Len(ms)
      BY <1>1 DEF Mentions
    <3>2. CASE j + Len(q) - k >= 1
      <4>1. j + Len(q) - k <= i
        BY <1>1, <1>3, <1>4, <3>1, <3>2 DEF Mentions
      <4>. QED
        BY <1>1, <3>1, <4>1
    <3>3. CASE ~(j + Len(q) - k >= 1)
      BY <1>1, <3>1, <3>3
    <3>. QED
      BY <3>2, <3>3
  <2>. HIDE DEF x
  <2>3. x \in Mentions(ms, d, kinds)
    BY <1>1, <1>3, <2>1 DEF Mentions
  <2>. QED
    BY <2>1, <2>2, <2>3 DEF LastMention, p
<1>. QED
  BY <1>1, <1>6, <1>7

(* A backlog that has lost nothing mentions whatever was queued or pushed.    *)
LEMMA NothingLost ==
  ASSUME NEW q \in Seq(Message), NEW ms \in Seq(Message), ~Overflows(q, ms),
         NEW d, NEW kinds, Mentions(Push(q, ms), d, kinds) = {}
  PROVE  Mentions(q, d, kinds) = {} /\ Mentions(ms, d, kinds) = {}
<1> DEFINE p == Push(q, ms)
<1>1. Drops(q, ms, 0)
  BY PushShape DEF Drops
<1>2. /\ Len(q) \in Nat /\ Len(ms) \in Nat /\ Len(p) = Len(q) + Len(ms)
      /\ DOMAIN p = 1..Len(p) /\ DOMAIN q = 1..Len(q) /\ DOMAIN ms = 1..Len(ms)
  BY <1>1, LenProperties DEF Drops
<1>3. \A j \in 1..Len(p) : p[j] = IF j + 0 <= Len(q) THEN q[j + 0] ELSE ms[j + 0 - Len(q)]
  BY <1>1 DEF Drops
<1>. HIDE DEF p
<1>4. \A j \in 1..Len(p) : ~(p[j].type \in kinds /\ p[j].device = d)
  BY <1>2 DEF Mentions, p
<1>5. ASSUME NEW j \in Mentions(q, d, kinds)  PROVE FALSE
  <2>1. j \in 1..Len(p) /\ j + 0 = j /\ j <= Len(q)
    BY <1>2 DEF Mentions
  <2>2. p[j] = q[j]
    BY <1>2, <1>3, <2>1
  <2>. QED
    BY <1>4, <2>1, <2>2 DEF Mentions
<1>6. ASSUME NEW j \in Mentions(ms, d, kinds)  PROVE FALSE
  <2> DEFINE x == j + Len(q)
  <2>1. x \in 1..Len(p) /\ ~(x + 0 <= Len(q)) /\ x + 0 - Len(q) = j
    BY <1>2 DEF Mentions
  <2>. HIDE DEF x
  <2>2. p[x] = ms[j]
    BY <1>2, <1>3, <2>1
  <2>. QED
    BY <1>4, <2>1, <2>2 DEF Mentions
<1>. QED
  BY <1>5, <1>6

(* The first message leaves a backlog.                                        *)
LEMMA LastOfTail ==
  ASSUME NEW q \in Seq(Message), q # << >>, NEW d, NEW kinds
  PROVE  /\ \A i : LastMention(Tail(q), d, kinds, i) =>
              LastMention(q, d, kinds, i + 1) /\ q[i + 1] = Tail(q)[i]
         /\ Mentions(Tail(q), d, kinds) = {} =>
              IF Head(q).type \in kinds /\ Head(q).device = d
                THEN LastMention(q, d, kinds, 1) /\ q[1] = Head(q)
                ELSE Mentions(q, d, kinds) = {}
<1> DEFINE t == Tail(q)
<1>1. /\ Len(q) \in Nat /\ Len(q) >= 1 /\ Len(t) = Len(q) - 1 /\ Head(q) = q[1]
      /\ DOMAIN q = 1..Len(q) /\ DOMAIN t = 1..Len(t)
      /\ \A i \in 1..Len(t) : t[i] = q[i + 1]
  BY HeadTailProperties, LenProperties, EmptySeq
<1>. HIDE DEF t
<1>2. ASSUME NEW j \in 1..Len(q), j # 1
      PROVE  j - 1 \in 1..Len(t) /\ t[j - 1] = q[j]
  <2> DEFINE x == j - 1
  <2>1. x \in 1..Len(t) /\ x + 1 = j
    BY <1>1, <1>2
  <2>. HIDE DEF x
  <2>2. t[x] = q[j]
    BY <1>1, <2>1
  <2>. QED
    BY <2>1, <2>2 DEF x
<1>3. ASSUME NEW i, LastMention(t, d, kinds, i)
      PROVE  LastMention(q, d, kinds, i + 1) /\ q[i + 1] = t[i]
  <2>1. i \in 1..Len(t) /\ t[i].type \in kinds /\ t[i].device = d
    BY <1>1, <1>3 DEF LastMention, Mentions
  <2>2. i + 1 \in 1..Len(q) /\ t[i] = q[i + 1]
    BY <1>1, <2>1
  <2>3. i + 1 \in Mentions(q, d, kinds)
    BY <1>1, <2>1, <2>2 DEF Mentions
  <2>4. ASSUME NEW j \in Mentions(q, d, kinds)  PROVE j <= i + 1
    <3>1. j \in 1..Len(q) /\ q[j].type \in kinds /\ q[j].device = d
      BY <1>1 DEF Mentions
    <3>2. CASE j # 1
      <4>1. j - 1 \in Mentions(t, d, kinds)
        BY <1>1, <1>2, <3>1, <3>2 DEF Mentions
      <4>. QED
        BY <1>1, <1>3, <2>1, <3>1, <4>1 DEF LastMention
    <3>3. CASE j = 1
      BY <2>1, <3>3
    <3>. QED
      BY <3>2, <3>3
  <2>. QED
    BY <2>2, <2>3, <2>4 DEF LastMention
<1>4. ASSUME Mentions(t, d, kinds) = {}
      PROVE  IF Head(q).type \in kinds /\ Head(q).device = d
                THEN LastMention(q, d, kinds, 1) /\ q[1] = Head(q)
                ELSE Mentions(q, d, kinds) = {}
  <2>1. ASSUME NEW j \in Mentions(q, d, kinds)  PROVE j = 1
    BY <1>1, <1>2, <1>4 DEF Mentions
  <2>. QED
    BY <1>1, <2>1 DEF LastMention, Mentions
<1>. QED
  BY <1>3, <1>4 DEF t

(* Whoever has set no filter is sent everything.                              *)
LEMMA WantsAll ==
  ASSUME NEW ms \in Seq(Message), NEW c, only[c] = NoFilter,
         \A k \in 1..Len(ms) : ms[k].type \in Kinds
  PROVE  Wanted(c, ms) = ms
<1> DEFINE places == {i \in DOMAIN ms : ms[i].type \in only[c]}
           n == Len(ms)
           f == [k \in 1..n |-> k]
<1>1. n \in Nat /\ DOMAIN ms = 1..n
  BY LenProperties
<1>2. places = 1..n
  BY <1>1 DEF NoFilter
<1>3. Ascending(f, n, places)
  BY <1>1, <1>2 DEF Ascending
<1>4. \A k \in 1..n : f[k] = k
  OBVIOUS
<1>. HIDE DEF f, places, n
<1>5. /\ Those(ms, places) \in Seq(Message)
      /\ Len(Those(ms, places)) = n
      /\ \A k \in 1..n : Those(ms, places)[k] = ms[f[k]]
  BY <1>1, <1>2, <1>3, ThoseUnique
<1>6. Those(ms, places) = ms
  BY <1>4, <1>5, SameRows DEF n
<1>. QED
  BY <1>6 DEF Wanted, places

-----------------------------------------------------------------------------
LEMMA ConnectionStep == TypeOK /\ ConnectionShape /\ [Next]_vars => ConnectionShape'
<1> SUFFICES ASSUME TypeOK, ConnectionShape, [Next]_vars PROVE ConnectionShape'
  OBVIOUS
<1> USE DEF taskVars, inboxVars, streamVars
<1>. /\ clients \subseteq Clients
     /\ stage \in [Clients -> {"away", "greeting", "open", "closing", "over"}]
     /\ queue \in [Clients -> Seq(Message)]
     /\ pump \in [Clients -> {"none", "waiting", "sending", "failed", "done", "cancelled"}]
     /\ hand \in [Clients -> Message \cup {Nothing}]
  BY DEF TypeOK, StreamTypeOK
<1> DEFINE Shape(c) ==
             /\ stage[c] \in {"greeting", "open", "closing"} => c \in clients
             /\ stage[c] = "away" => c \notin clients /\ queue[c] = <<>> /\ pump[c] = "none"
             /\ stage[c] = "greeting" => pump[c] = "none"
             /\ pump[c] # "sending" => hand[c] = Nothing
<1>0. (\A c \in Clients : Shape(c)) /\ ((\A c \in Clients : Shape(c)') => ConnectionShape')
  BY DEF ConnectionShape
<1>1. ASSUME UNCHANGED <<clients, stage, pump, hand>>,
             \A c \in Clients : c \notin clients => queue'[c] = queue[c]
      PROVE  ConnectionShape'
  BY <1>0, <1>1
<1>2. CASE Requests
  <2>1. \E ms : Fanout(ms)
    BY <1>2 DEF Requests, Heartbeat, RecordEvent, Quarantine
  <2>. QED
    BY <1>1, <2>1 DEF Fanout
<1>3. CASE Sweep
  BY <1>1, <1>3 DEF Sweep, Fanout
<1>4. ASSUME NEW c \in Clients, Connect(c)  PROVE ConnectionShape'
  BY <1>0, <1>4 DEF Connect
<1>5. ASSUME NEW c \in Clients, HangUp(c)  PROVE ConnectionShape'
  BY <1>1, <1>5 DEF HangUp
<1>6. ASSUME NEW c \in Clients, NEW kinds \in Filters, Narrow(c, kinds)
      PROVE  ConnectionShape'
  <2>1. c \in clients
    BY <1>0, <1>6 DEF Narrow
  <2>. QED
    BY <1>1, <1>6, <2>1 DEF Narrow
<1>7. CASE Peers
  BY <1>4, <1>5, <1>6, <1>7 DEF Peers
<1>8. CASE Stop
  BY <1>1, <1>8 DEF Stop
<1>9. CASE Release
  BY <1>1, <1>9 DEF Release
<1>10. ASSUME NEW c \in Clients, Serve(c)  PROVE ConnectionShape'
  <2> SUFFICES ASSUME NEW e \in Clients PROVE Shape(e)'
    BY <1>0
  <2>1. CASE Greet(c) \/ GreetFails(c)
    BY <1>0, <2>1 DEF Greet, GreetFails
  <2>2. CASE ReadEnds(c)
    BY <1>0, <2>2 DEF ReadEnds
  <2>3. CASE CloseEnds(c)
    BY <1>0, <2>3 DEF CloseEnds
  <2>4. CASE CloseFails(c)
    BY <1>0, <2>4 DEF CloseFails
  <2>5. CASE PumpTakes(c)
    BY <1>0, <2>5 DEF PumpTakes
  <2>6. CASE PumpSends(c) \/ PumpFails(c)
    BY <1>0, <2>6 DEF PumpSends, PumpFails
  <2>. QED
    BY <1>10, <2>1, <2>2, <2>3, <2>4, <2>5, <2>6 DEF Serve, Connection, Pump
<1>11. CASE Tick \/ Start \/ UNCHANGED vars
  BY <1>1, <1>11 DEF Tick, Start, vars
<1>. QED
  BY <1>2, <1>3, <1>7, <1>8, <1>9, <1>10, <1>11 DEF Next

-----------------------------------------------------------------------------
(* What is published.                                                         *)

(* ms is a single event, of type t about device d.                           *)
Lone(ms, t, d) ==
  /\ ms \in Seq(Message) /\ Len(ms) = 1 /\ ms[1].type = t
  /\ \A e, kinds : Mentions(ms, e, kinds) = IF t \in kinds /\ e = d THEN {1} ELSE {}
  /\ \A e, kinds, i : LastMention(ms, e, kinds, i) => i = 1 /\ t \in kinds /\ e = d

LEMMA OneEvent ==
  ASSUME NEW d \in Devices, NEW t \in Kinds, NEW ms, ms = <<EventOf(t, d)>>
  PROVE  Lone(ms, t, d)
<1>1. EventOf(t, d).type = t /\ EventOf(t, d).device = d /\ EventOf(t, d) \in Message
  BY EventIsMessage
<1>2. DOMAIN ms = {1} /\ ms[1] = EventOf(t, d) /\ Len(ms) = 1 /\ ms \in Seq(Message)
  BY <1>1
<1>3. \A e, kinds, i : i \in Mentions(ms, e, kinds) <=> i = 1 /\ t \in kinds /\ e = d
  BY <1>1, <1>2 DEF Mentions
<1>4. \A e, kinds : Mentions(ms, e, kinds) = IF t \in kinds /\ e = d THEN {1} ELSE {}
  BY <1>3
<1>5. \A e, kinds, i : LastMention(ms, e, kinds, i) => i = 1 /\ t \in kinds /\ e = d
  BY <1>3 DEF LastMention
<1>. QED
  BY <1>1, <1>2, <1>4, <1>5 DEF Lone

LEMMA NoEvent ==
  \A e, kinds : Mentions(<< >>, e, kinds) = {}
BY DEF Mentions

(* Every event is announced to the feed under a kind it has, and the register
   is left as the events say.                                                 *)
Published(ms) ==
  /\ ms \in Seq(Message) /\ (\A k \in 1..Len(ms) : ms[k].type \in Kinds)
  /\ Announces(ms)

LEMMA HeartbeatPublished ==
  ASSUME TypeOK, NEW d \in Devices, Heard(d)
  PROVE  Published(HeartbeatEvents(d))
<1>1. /\ status \in [Devices -> {"unknown", "online", "offline"}]
      /\ status' = [status EXCEPT ![d] = "online"] /\ quarantined' = quarantined
  BY DEF Heard, TypeOK, FleetTypeOK
<1>2. ASSUME NEW t \in {"device.new", "device.online"}
      PROVE  Published(<<EventOf(t, d)>>)
  <2> DEFINE ms == <<EventOf(t, d)>>
  <2>1. t \in Kinds /\ t \in StatusKinds /\ t \notin HoldKinds /\ t # "device.offline"
    BY DEF Kinds, StatusKinds, HoldKinds
  <2>. ms = <<EventOf(t, d)>>
    OBVIOUS
  <2>. HIDE DEF ms
  <2>2. Lone(ms, t, d)
    BY <2>1, OneEvent
  <2>3. Mentions(ms, d, StatusKinds) # {}
    BY <2>1, <2>2 DEF Lone
  <2>4. Announces(ms)
    BY <1>1, <2>1, <2>2, <2>3 DEF Announces, StatusSaid, Lone
  <2>5. \A k \in 1..Len(ms) : ms[k].type \in Kinds
    BY <2>1, <2>2 DEF Lone
  <2>. QED
    BY <2>2, <2>4, <2>5 DEF Published, Lone, ms
<1>3. CASE status[d] = "online"
  <2>1. HeartbeatEvents(d) = << >>
    BY <1>3 DEF HeartbeatEvents
  <2>2. \A e \in Devices : status'[e] = status[e]
    BY <1>1, <1>3 DEF Lone
  <2>3. Announces(<< >>)
    BY <1>1, <2>2, NoEvent DEF Announces, LastMention
  <2>4. << >> \in Seq(Message) /\ Len(<< >>) = 0
    BY EmptySeq
  <2>. QED
    BY <2>1, <2>3, <2>4 DEF Published
<1>4. CASE status[d] # "online"
  BY <1>1, <1>2, <1>4 DEF HeartbeatEvents
<1>. QED
  BY <1>3, <1>4

LEMMA ReportPublished ==
  ASSUME TypeOK, NEW d \in Devices, Reported(d)
  PROVE  Published(ReportEvents(d))
<1> DEFINE t == "device.event"
           ms == <<EventOf(t, d)>>
<1>1. t \in Kinds /\ t \notin StatusKinds /\ t \notin HoldKinds
  BY DEF Kinds, StatusKinds, HoldKinds
<1>2. status' = status /\ quarantined' = quarantined
  BY DEF Reported, fleetVars
<1>3. Lone(ms, t, d)
  BY <1>1, OneEvent
<1>. HIDE DEF ms
<1>4. Announces(ms)
  BY <1>1, <1>2, <1>3 DEF Announces, Lone
<1>5. \A k \in 1..Len(ms) : ms[k].type \in Kinds
  BY <1>1, <1>3 DEF Lone
<1>. QED
  BY <1>3, <1>4, <1>5 DEF Published, Lone, ReportEvents, ms

LEMMA QuarantinePublished ==
  ASSUME TypeOK, NEW d \in Devices, NEW on \in BOOLEAN, Quarantined(d, on)
  PROVE  Published(QuarantineEvents(d, on))
<1> DEFINE t == IF on THEN "device.quarantined" ELSE "device.released"
           ms == <<EventOf(t, d)>>
<1>1. /\ t \in Kinds /\ t \notin StatusKinds /\ t \in HoldKinds
      /\ (t = "device.quarantined") = on
  BY DEF Kinds, StatusKinds, HoldKinds
<1>2. /\ quarantined \in [Devices -> BOOLEAN] /\ status' = status
      /\ quarantined' = [quarantined EXCEPT ![d] = on]
  BY DEF Quarantined, TypeOK, FleetTypeOK
<1>. HIDE DEF t
<1>. ms = <<EventOf(t, d)>>
  OBVIOUS
<1>. HIDE DEF ms
<1>3. Lone(ms, t, d)
  BY <1>1, OneEvent
<1>4. Mentions(ms, d, HoldKinds) # {}
  BY <1>1, <1>3 DEF Lone
<1>5. quarantined'[d] = HoldSaid(ms[1]) /\ \A e \in Devices : e # d => quarantined'[e] = quarantined[e]
  BY <1>1, <1>2, <1>3 DEF HoldSaid, Lone
<1>6. Announces(ms)
  BY <1>1, <1>2, <1>3, <1>4, <1>5 DEF Announces, Lone
<1>7. \A k \in 1..Len(ms) : ms[k].type \in Kinds
  BY <1>1, <1>3 DEF Lone
<1>. QED
  BY <1>3, <1>6, <1>7 DEF Published, Lone, QuarantineEvents, ms, t

LEMMA SweepPublished ==
  ASSUME TypeOK, Swept
  PROVE  Published(SweepEvents)
<1> DEFINE ms == SweepEvents
<1>1. /\ status' = [d \in Devices |-> IF Overdue(d) THEN "offline" ELSE status[d]]
      /\ quarantined' = quarantined
  BY DEF Swept
<1>2. /\ ms \in Seq(Message)
      /\ \A k \in 1..Len(ms) :
           \E d \in Devices : Overdue(d) /\ ms[k] = EventOf("device.offline", d)
      /\ \A d \in Devices : Overdue(d) =>
           \E k \in 1..Len(ms) : ms[k] = EventOf("device.offline", d)
  BY StaleDevices DEF TypeOK
<1>3. DOMAIN ms = 1..Len(ms)
  BY <1>2, LenProperties
<1>. HIDE DEF ms
<1>5. "device.offline" \in StatusKinds /\ "device.offline" \notin HoldKinds
      /\ "device.offline" \in Kinds
  BY DEF StatusKinds, HoldKinds, Kinds
<1>6. \A d \in Devices : /\ EventOf("device.offline", d).type = "device.offline"
                         /\ EventOf("device.offline", d).device = d
  BY <1>5, EventIsMessage
<1>7. \A k \in 1..Len(ms) : \A d \in Devices :
        ms[k].device = d => Overdue(d) /\ ms[k].type = "device.offline"
  BY <1>2, <1>6
<1>8. \A k \in 1..Len(ms) : ms[k].type = "device.offline"
  BY <1>2, <1>6
<1>9. ASSUME NEW d \in Devices
      PROVE  /\ Mentions(ms, d, StatusKinds) = {} => ~Overdue(d)
             /\ \A i : LastMention(ms, d, StatusKinds, i) =>
                  Overdue(d) /\ ms[i].type = "device.offline"
             /\ \A i : ~LastMention(ms, d, HoldKinds, i)
  <2>1. Overdue(d) => \E k \in 1..Len(ms) : ms[k].device = d /\ ms[k].type = "device.offline"
    BY <1>2, <1>6
  <2>2. Mentions(ms, d, StatusKinds) = {} => ~Overdue(d)
    BY <1>3, <1>5, <2>1 DEF Mentions
  <2>3. \A i : LastMention(ms, d, StatusKinds, i) => Overdue(d) /\ ms[i].type = "device.offline"
    BY <1>3, <1>7 DEF Mentions, LastMention
  <2>4. \A i : ~LastMention(ms, d, HoldKinds, i)
    BY <1>3, <1>8, <1>5 DEF Mentions, LastMention
  <2>. QED
    BY <2>2, <2>3, <2>4
<1>10. Announces(ms)
  BY <1>1, <1>9 DEF Announces, StatusSaid
<1>. QED
  BY <1>2, <1>8, <1>5, <1>10 DEF Published, ms

-----------------------------------------------------------------------------
(* What a step does to the feed.                                              *)

(* A client is fed as before when a step leaves its backlog alone, and what it
   knows unless the backlog has overflowed.                                   *)
LEMMA Untouched ==
  ASSUME FeedShape, NEW c \in Clients, Following(c)' => Following(c),
         status' = status, quarantined' = quarantined,
         queue'[c] = queue[c], hand'[c] = hand[c],
         ~lossy'[c] => ~lossy[c] /\ picture'[c] = picture[c]
  PROVE  Fed(c)'
<1> SUFFICES ASSUME Following(c)'  PROVE TellsStatus(c)' /\ (~lossy'[c] => TellsAll(c)')
  BY DEF Fed
<1>1. TellsStatus(c) /\ (~lossy[c] => TellsAll(c))
  BY DEF FeedShape, Fed
<1>2. TellsStatus(c)'
  BY <1>1 DEF TellsStatus
<1>3. ASSUME ~lossy'[c]  PROVE TellsAll(c)'
  BY <1>1, <1>3 DEF TellsAll
<1>. QED
  BY <1>2, <1>3

(* Whoever is not followed needs nothing.                                     *)
LEMMA NotFollowing ==
  ASSUME NEW c \in Clients, ~Following(c)'
  PROVE  Fed(c)'
BY DEF Fed

LEMMA FanoutFeed ==
  ASSUME FeedInv, NEW ms, Published(ms), Fanout(ms)
  PROVE  FeedShape'
<1> SUFFICES ASSUME NEW c \in Clients, Following(c)'
             PROVE  TellsStatus(c)' /\ (~lossy'[c] => TellsAll(c)')
  BY DEF FeedShape, Fed
<1>1. Following(c) /\ c \in clients /\ only[c] = NoFilter
  BY DEF Following, FeedInv, ConnectionShape, Fanout, taskVars
<1>2. TellsStatus(c) /\ (~lossy[c] => TellsAll(c))
  BY <1>1 DEF FeedInv, FeedShape, Fed
<1>3. queue[c] \in Seq(Message) /\ ms \in Seq(Message)
  BY DEF FeedInv, TypeOK, StreamTypeOK, Published
<1>4. Wanted(c, ms) = ms
  BY <1>1, <1>3, WantsAll DEF Published
<1>5. /\ queue'[c] = Push(queue[c], ms) /\ hand'[c] = hand[c]
      /\ ~lossy'[c] => ~lossy[c] /\ ~Overflows(queue[c], ms) /\ picture'[c] = picture[c]
  BY <1>1, <1>4 DEF Fanout, Forgotten, taskVars
<1>6. PICK k : Drops(queue[c], ms, k)
  BY <1>3, PushShape
<1>7. Announces(ms)
  BY DEF Published
<1>8. ASSUME NEW d \in Devices, NEW i, LastMention(queue'[c], d, StatusKinds, i)
      PROVE  status'[d] = StatusSaid(queue'[c][i])
  <2>1. \/ \E j : LastMention(ms, d, StatusKinds, j) /\ ms[j] = queue'[c][i]
        \/ /\ Mentions(ms, d, StatusKinds) = {}
           /\ \E j : LastMention(queue[c], d, StatusKinds, j) /\ queue[c][j] = queue'[c][i]
    BY <1>3, <1>5, <1>6, <1>8, LastPushed
  <2>. QED
    BY <1>2, <1>7, <2>1 DEF Announces, TellsStatus
<1>9. TellsStatus(c)'
  BY <1>8 DEF TellsStatus
<1>10. ASSUME ~lossy'[c]  PROVE TellsAll(c)'
  <2>1. TellsAll(c)
    BY <1>2, <1>5, <1>10
  <2>2. ASSUME NEW d \in Devices, NEW i, LastMention(queue'[c], d, HoldKinds, i)
        PROVE  quarantined'[d] = HoldSaid(queue'[c][i])
    <3>1. \/ \E j : LastMention(ms, d, HoldKinds, j) /\ ms[j] = queue'[c][i]
          \/ /\ Mentions(ms, d, HoldKinds) = {}
             /\ \E j : LastMention(queue[c], d, HoldKinds, j) /\ queue[c][j] = queue'[c][i]
      BY <1>3, <1>5, <1>6, <2>2, LastPushed
    <3>. QED
      BY <1>7, <2>1, <3>1 DEF Announces, TellsAll
  <2>3. ASSUME NEW d \in Devices, NEW kinds, Mentions(queue'[c], d, kinds) = {}
        PROVE  Mentions(queue[c], d, kinds) = {} /\ Mentions(ms, d, kinds) = {}
    BY <1>3, <1>5, <1>10, <2>3, NothingLost
  <2>4. Apply(picture'[c], hand'[c]) = Apply(picture[c], hand[c])
    BY <1>5, <1>10
  <2>5. ASSUME NEW d \in Devices, Mentions(queue'[c], d, StatusKinds) = {}
        PROVE  Apply(picture'[c], hand'[c])[d].status = status'[d]
    BY <1>7, <2>1, <2>3, <2>4, <2>5 DEF Announces, TellsAll
  <2>6. ASSUME NEW d \in Devices, Mentions(queue'[c], d, HoldKinds) = {}
        PROVE  Apply(picture'[c], hand'[c])[d].held = quarantined'[d]
    BY <1>7, <2>1, <2>3, <2>4, <2>6 DEF Announces, TellsAll
  <2>. QED
    BY <2>2, <2>5, <2>6 DEF TellsAll
<1>. QED
  BY <1>9, <1>10

(* A client that connects is told the fleet as it is, and has nothing queued. *)
LEMMA ConnectFeed ==
  ASSUME FeedInv, NEW c \in Clients, Connect(c), UNCHANGED fleetVars
  PROVE  Fed(c)'
<1>1. /\ queue'[c] = << >> /\ hand'[c] = Nothing /\ picture'[c] = FleetPicture
      /\ status' = status /\ quarantined' = quarantined
  BY DEF FeedInv, ConnectionShape, TypeOK, StreamTypeOK, Connect, inboxVars, fleetVars
<1>2. Apply(FleetPicture, Nothing) = FleetPicture
  BY DEF Apply, Nothing
<1>3. \A d \in Devices : FleetPicture[d].status = status[d] /\ FleetPicture[d].held = quarantined[d]
  BY DEF FleetPicture
<1>4. \A e, kinds, i : ~LastMention(queue'[c], e, kinds, i)
  BY <1>1, NoEvent DEF LastMention
<1>5. TellsStatus(c)'
  BY <1>4 DEF TellsStatus
<1>6. TellsAll(c)'
  BY <1>1, <1>2, <1>3, <1>4 DEF TellsAll
<1>. QED
  BY <1>5, <1>6 DEF Fed

(* The message that the pump takes is still ahead of what the client knows.   *)
LEMMA PumpTakesFeed ==
  ASSUME FeedInv, NEW c \in Clients, PumpTakes(c), UNCHANGED fleetVars
  PROVE  Fed(c)'
<1> DEFINE q == queue[c]
           h == Head(q)
           t == Tail(q)
<1> SUFFICES ASSUME Following(c)'  PROVE TellsStatus(c)' /\ (~lossy'[c] => TellsAll(c)')
  BY DEF Fed
<1>1. /\ q \in Seq(Message) /\ q # << >> /\ h \in Message
      /\ picture[c] \in Pictures /\ hand[c] = Nothing
  BY HeadTailProperties DEF FeedInv, TypeOK, StreamTypeOK, ConnectionShape, PumpTakes
<1>2. /\ queue'[c] = t /\ picture'[c] = picture[c] /\ lossy'[c] = lossy[c]
      /\ hand'[c] = IF h = Finish THEN Nothing ELSE h
      /\ status' = status /\ quarantined' = quarantined
  BY <1>1 DEF PumpTakes, fleetVars, FeedInv, TypeOK, StreamTypeOK
<1>3. TellsStatus(c) /\ (~lossy[c] => TellsAll(c))
  BY DEF Following, PumpTakes, FeedInv, FeedShape, Fed
<1>. HIDE DEF q, h, t
<1>4. \A d, kinds :
        /\ \A i : LastMention(t, d, kinds, i) =>
             LastMention(q, d, kinds, i + 1) /\ q[i + 1] = t[i]
        /\ Mentions(t, d, kinds) = {} =>
             IF h.type \in kinds /\ h.device = d
               THEN LastMention(q, d, kinds, 1) /\ q[1] = h
               ELSE Mentions(q, d, kinds) = {}
  BY <1>1, LastOfTail DEF h, t
<1>5. TellsStatus(c)'
  <2>1. ASSUME NEW d \in Devices, NEW i, LastMention(queue'[c], d, StatusKinds, i)
        PROVE  status'[d] = StatusSaid(queue'[c][i])
    <3>1. LastMention(q, d, StatusKinds, i + 1) /\ q[i + 1] = t[i]
      BY <1>2, <1>4, <2>1
    <3>. QED
      BY <1>2, <1>3, <3>1 DEF TellsStatus, q
  <2>. QED
    BY <2>1 DEF TellsStatus
<1>6. ASSUME NEW d \in Devices
      PROVE  /\ Apply(picture[c], hand'[c])[d].status =
                  IF h.type \in StatusKinds /\ h.device = d
                    THEN StatusSaid(h) ELSE Apply(picture[c], Nothing)[d].status
             /\ Apply(picture[c], hand'[c])[d].held =
                  IF h.type \in HoldKinds /\ h.device = d
                    THEN HoldSaid(h) ELSE Apply(picture[c], Nothing)[d].held
  <2>1. Apply(picture[c], Nothing) = picture[c]
    BY DEF Apply, Nothing
  <2>2. CASE h = Finish
    BY <1>2, <2>2 DEF Finish, StatusKinds, HoldKinds
  <2>3. CASE h # Finish
    <3>1. /\ h.type \in StatusKinds /\ h.device = d =>
               Apply(picture[c], h)[d].status = StatusSaid(h)
          /\ ~(h.type \in StatusKinds /\ h.device = d) =>
               Apply(picture[c], h)[d].status = picture[c][d].status
          /\ h.type \in HoldKinds /\ h.device = d =>
               Apply(picture[c], h)[d].held = HoldSaid(h)
          /\ ~(h.type \in HoldKinds /\ h.device = d) =>
               Apply(picture[c], h)[d].held = picture[c][d].held
      BY <1>1, ApplyShape DEF StatusSaid, HoldSaid
    <3>. QED
      BY <1>2, <2>1, <2>3, <3>1
  <2>. QED
    BY <2>2, <2>3
<1>7. ASSUME ~lossy'[c]  PROVE TellsAll(c)'
  <2>1. TellsStatus(c) /\ TellsAll(c)
    BY <1>2, <1>3, <1>7
  <2>2. ASSUME NEW d \in Devices, NEW i, LastMention(queue'[c], d, HoldKinds, i)
        PROVE  quarantined'[d] = HoldSaid(queue'[c][i])
    <3>1. LastMention(q, d, HoldKinds, i + 1) /\ q[i + 1] = t[i]
      BY <1>2, <1>4, <2>2
    <3>. QED
      BY <1>2, <2>1, <3>1 DEF TellsAll, q
  <2>3. ASSUME NEW d \in Devices, Mentions(queue'[c], d, StatusKinds) = {}
        PROVE  Apply(picture'[c], hand'[c])[d].status = status'[d]
    <3>1. CASE h.type \in StatusKinds /\ h.device = d
      <4>1. LastMention(q, d, StatusKinds, 1) /\ q[1] = h
        BY <1>2, <1>4, <2>3, <3>1
      <4>. QED
        BY <1>2, <1>6, <2>1, <3>1, <4>1 DEF TellsStatus, q
    <3>2. CASE ~(h.type \in StatusKinds /\ h.device = d)
      <4>1. Mentions(q, d, StatusKinds) = {}
        BY <1>2, <1>4, <2>3, <3>2
      <4>. QED
        BY <1>1, <1>2, <1>6, <2>1, <3>2, <4>1 DEF TellsAll, q
    <3>. QED
      BY <3>1, <3>2
  <2>4. ASSUME NEW d \in Devices, Mentions(queue'[c], d, HoldKinds) = {}
        PROVE  Apply(picture'[c], hand'[c])[d].held = quarantined'[d]
    <3>1. CASE h.type \in HoldKinds /\ h.device = d
      <4>1. LastMention(q, d, HoldKinds, 1) /\ q[1] = h
        BY <1>2, <1>4, <2>4, <3>1
      <4>. QED
        BY <1>2, <1>6, <2>1, <3>1, <4>1 DEF TellsAll, q
    <3>2. CASE ~(h.type \in HoldKinds /\ h.device = d)
      <4>1. Mentions(q, d, HoldKinds) = {}
        BY <1>2, <1>4, <2>4, <3>2
      <4>. QED
        BY <1>1, <1>2, <1>6, <2>1, <3>2, <4>1 DEF TellsAll, q
    <3>. QED
      BY <3>1, <3>2
  <2>. QED
    BY <2>2, <2>3, <2>4 DEF TellsAll
<1>. QED
  BY <1>5, <1>7

(* Sending a message only moves it from the pump's hand into what is known.   *)
LEMMA PumpSendsFeed ==
  ASSUME FeedInv, NEW c \in Clients, PumpSends(c), UNCHANGED fleetVars
  PROVE  Fed(c)'
<1> SUFFICES ASSUME Following(c)'  PROVE TellsStatus(c)' /\ (~lossy'[c] => TellsAll(c)')
  BY DEF Fed
<1>1. /\ queue' = queue /\ lossy' = lossy /\ hand'[c] = Nothing
      /\ picture'[c] = IF lossy[c] THEN Blank ELSE Apply(picture[c], hand[c])
      /\ status' = status /\ quarantined' = quarantined
  BY DEF PumpSends, inboxVars, fleetVars, FeedInv, TypeOK, StreamTypeOK
<1>2. TellsStatus(c) /\ (~lossy[c] => TellsAll(c))
  BY DEF Following, PumpSends, inboxVars, FeedInv, FeedShape, Fed
<1>3. TellsStatus(c)'
  BY <1>1, <1>2 DEF TellsStatus
<1>4. ASSUME ~lossy'[c]  PROVE TellsAll(c)'
  <2>1. picture'[c] = Apply(picture[c], hand[c])
    BY <1>1, <1>4
  <2>2. Apply(picture'[c], hand'[c]) = picture'[c]
    BY <1>1 DEF Apply, Nothing
  <2>. QED
    BY <1>1, <1>2, <1>4, <2>1, <2>2 DEF TellsAll
<1>. QED
  BY <1>3, <1>4

(* The steps of a connection and of its pump, for the client they serve and for
   every other.                                                               *)
LEMMA ServeFeed ==
  ASSUME FeedInv, NEW c \in Clients, Serve(c)
  PROVE  FeedShape'
<1> USE DEF taskVars, inboxVars, fleetVars
<1> SUFFICES ASSUME NEW e \in Clients PROVE Fed(e)'
  BY DEF FeedShape
<1>1. /\ stage \in [Clients -> {"away", "greeting", "open", "closing", "over"}]
      /\ queue \in [Clients -> Seq(Message)]
      /\ only \in [Clients -> Filters \cup {NoFilter}]
      /\ lossy \in [Clients -> BOOLEAN]
      /\ pump \in [Clients -> {"none", "waiting", "sending", "failed", "done", "cancelled"}]
      /\ hand \in [Clients -> Message \cup {Nothing}]
      /\ picture \in [Clients -> Pictures]
      /\ FeedShape
  BY DEF FeedInv, TypeOK, StreamTypeOK
<1>2. status' = status /\ quarantined' = quarantined
  BY DEF Serve
<1>3. ASSUME e # c  PROVE Fed(e)'
  <2>1. /\ stage'[e] = stage[e] /\ queue'[e] = queue[e] /\ only'[e] = only[e]
        /\ lossy'[e] = lossy[e] /\ pump'[e] = pump[e] /\ hand'[e] = hand[e]
        /\ picture'[e] = picture[e]
    BY <1>1, <1>3 DEF Serve, Connection, Pump, Greet, GreetFails, ReadEnds, CloseEnds,
       CloseFails, PumpTakes, PumpSends, PumpFails
  <2>. QED
    BY <1>1, <1>2, <2>1, Untouched DEF Following
<1>4. CASE e = c /\ Greet(c)
  <2>1. Following(c)' => Following(c)
    BY <1>1, <1>4 DEF Greet, Following, FeedInv, ConnectionShape
  <2>. QED
    BY <1>1, <1>2, <1>4, <2>1, Untouched DEF Greet
<1>5. CASE e = c /\ (GreetFails(c) \/ ReadEnds(c) \/ CloseEnds(c) \/ CloseFails(c) \/ PumpFails(c))
  BY <1>1, <1>5, NotFollowing DEF GreetFails, ReadEnds, CloseEnds, CloseFails, PumpFails, Following
<1>6. CASE e = c /\ PumpTakes(c)
  BY <1>6, PumpTakesFeed DEF Serve
<1>7. CASE e = c /\ PumpSends(c)
  BY <1>7, PumpSendsFeed DEF Serve
<1>. QED
  BY <1>3, <1>4, <1>5, <1>6, <1>7 DEF Serve, Connection, Pump

LEMMA PeersFeed == FeedInv /\ Peers => FeedShape'
<1> SUFFICES ASSUME FeedInv, Peers, NEW e \in Clients PROVE Fed(e)'
  BY DEF FeedShape
<1> USE DEF taskVars, inboxVars, fleetVars
<1>1. /\ queue \in [Clients -> Seq(Message)] /\ only \in [Clients -> Filters \cup {NoFilter}]
      /\ stage \in [Clients -> {"away", "greeting", "open", "closing", "over"}]
      /\ lossy \in [Clients -> BOOLEAN] /\ picture \in [Clients -> Pictures]
      /\ FeedShape
  BY DEF FeedInv, TypeOK, StreamTypeOK
<1>2. status' = status /\ quarantined' = quarantined
  BY DEF Peers
<1>3. ASSUME NEW c \in Clients, Connect(c), UNCHANGED fleetVars  PROVE Fed(e)'
  <2>1. CASE e = c
    BY <1>3, <2>1, ConnectFeed
  <2>2. CASE e # c
    BY <1>1, <1>2, <1>3, <2>2, Untouched DEF Connect, Following
  <2>. QED
    BY <2>1, <2>2
<1>4. ASSUME NEW c \in Clients, HangUp(c)  PROVE Fed(e)'
  BY <1>1, <1>2, <1>4, Untouched DEF HangUp, Following
<1>5. ASSUME NEW c \in Clients, NEW kinds \in Filters, Narrow(c, kinds)  PROVE Fed(e)'
  <2>1. CASE e = c
    <3>1. only'[c] # NoFilter
      BY <1>1, <1>5, StreamAssumption DEF Narrow, NoFilter, Kinds
    <3>. QED
      BY <2>1, <3>1, NotFollowing DEF Following
  <2>2. CASE e # c
    <3>1. /\ queue'[e] = queue[e] /\ only'[e] = only[e] /\ lossy'[e] = lossy[e]
          /\ hand' = hand /\ stage' = stage /\ pump' = pump
          /\ ~lossy'[e] => picture'[e] = picture[e]
      BY <1>1, <1>5, <2>2 DEF Narrow, Forgotten
    <3>. QED
      BY <1>1, <1>2, <3>1, Untouched DEF Following
  <2>. QED
    BY <2>1, <2>2
<1>. QED
  BY <1>3, <1>4, <1>5 DEF Peers

LEMMA FeedStep == FeedInv /\ [Next]_vars => FeedInv'
<1> SUFFICES ASSUME FeedInv, [Next]_vars PROVE FeedShape'
  BY TypesStep, ConnectionStep DEF FeedInv
<1>1. TypeOK /\ FeedShape
  BY DEF FeedInv
<1>2. CASE Requests
  <2>1. PICK d \in Devices :
          Heartbeat(d) \/ RecordEvent(d) \/ \E on \in BOOLEAN : Quarantine(d, on)
    BY <1>2 DEF Requests
  <2>2. CASE Heartbeat(d)
    BY <1>1, <2>2, HeartbeatPublished, FanoutFeed DEF Heartbeat
  <2>3. CASE RecordEvent(d)
    BY <1>1, <2>3, ReportPublished, FanoutFeed DEF RecordEvent
  <2>4. ASSUME NEW on \in BOOLEAN, Quarantine(d, on)  PROVE FeedShape'
    BY <1>1, <2>4, QuarantinePublished, FanoutFeed DEF Quarantine
  <2>. QED
    BY <2>1, <2>2, <2>3, <2>4
<1>3. CASE Sweep
  BY <1>1, <1>3, SweepPublished, FanoutFeed DEF Sweep
<1>4. CASE Peers
  BY <1>4, PeersFeed
<1>5. ASSUME NEW c \in Clients, Serve(c)  PROVE FeedShape'
  BY <1>5, ServeFeed
<1>6. CASE Release
  <2>1. \A c \in Clients : ~Following(c)'
    BY <1>6 DEF Release, Following, taskVars
  <2>. QED
    BY <2>1, NotFollowing DEF FeedShape
<1>7. CASE Tick \/ Start \/ Stop \/ UNCHANGED vars
  <2>1. /\ status' = status /\ quarantined' = quarantined
        /\ UNCHANGED <<stage, pump, hand, inboxVars, picture>>
    BY <1>7 DEF Tick, Aged, Start, Stop, vars, fleetVars, streamVars, taskVars
  <2>2. \A c \in Clients : Fed(c)'
    BY <1>1, <2>1, Untouched DEF Following, inboxVars
  <2>. QED
    BY <2>2 DEF FeedShape
<1>. QED
  BY <1>2, <1>3, <1>4, <1>5, <1>6, <1>7 DEF Next

LEMMA FeedInit == Init => FeedInv
<1> SUFFICES ASSUME Init PROVE ConnectionShape /\ FeedShape
  BY TypesInit DEF FeedInv
<1>. QED
  BY DEF Init, StreamInit, ConnectionShape, FeedShape, Fed, Following

-----------------------------------------------------------------------------
(* From the invariant to the properties.                                      *)

LEMMA GreatestPlace ==
  ASSUME NEW n \in Nat, NEW T \in SUBSET (1..n), T # {}
  PROVE  Max(T) \in T /\ \A j \in T : j <= Max(T)
<1> DEFINE U == {n - i : i \in T}
<1>. PICK t \in T : TRUE
  OBVIOUS
<1>. U \in SUBSET Nat /\ n - t \in U
  OBVIOUS
<1>1. PICK u \in U : \A v \in U : u <= v
  <2>. HIDE DEF U
  <2>. QED
    BY LeastPlace
<1>2. PICK x \in T : u = n - x
  BY <1>1
<1>3. ASSUME NEW j \in T  PROVE x >= j
  <2>1. n - x <= n - j
    BY <1>1, <1>2
  <2>2. x \in Int /\ j \in Int
    OBVIOUS
  <2>. QED
    BY <2>1, <2>2
<1>4. Max(T) \in T /\ \A j \in T : Max(T) >= j
  BY <1>2, <1>3 DEF Max
<1>. QED
  BY <1>4

LEMMA LastMentioned ==
  ASSUME NEW q \in Seq(Message), NEW d, NEW kinds, Mentions(q, d, kinds) # {}
  PROVE  /\ LastMention(q, d, kinds, Max(Mentions(q, d, kinds)))
         /\ q[Max(Mentions(q, d, kinds))] \in Message
<1>1. Len(q) \in Nat /\ DOMAIN q = 1..Len(q) /\ Mentions(q, d, kinds) \in SUBSET (1..Len(q))
  BY LenProperties DEF Mentions
<1>2. /\ Max(Mentions(q, d, kinds)) \in Mentions(q, d, kinds)
      /\ \A j \in Mentions(q, d, kinds) : j <= Max(Mentions(q, d, kinds))
  BY <1>1, GreatestPlace
<1>. QED
  BY <1>1, <1>2, ElementOfSeq DEF LastMention

(* What a client will know of a device is what the last message about it says. *)
LEMMA ReplayedSays ==
  ASSUME TypeOK, NEW c \in Clients, NEW d \in Devices
  PROVE  /\ Mentions(queue[c], d, StatusKinds) = {} =>
              Replayed(c)[d].status = Apply(picture[c], hand[c])[d].status
         /\ Mentions(queue[c], d, StatusKinds) # {} =>
              \E i : LastMention(queue[c], d, StatusKinds, i)
                     /\ Replayed(c)[d].status = StatusSaid(queue[c][i])
         /\ Mentions(queue[c], d, HoldKinds) = {} =>
              Replayed(c)[d].held = Apply(picture[c], hand[c])[d].held
         /\ Mentions(queue[c], d, HoldKinds) # {} =>
              \E i : LastMention(queue[c], d, HoldKinds, i)
                     /\ Replayed(c)[d].held = HoldSaid(queue[c][i])
<1> DEFINE q == queue[c]
           sent == Apply(picture[c], hand[c])
           After(kinds) == LET told == Mentions(q, d, kinds)
                           IN IF told = {} THEN sent ELSE Apply(sent, q[Max(told)])
<1>1. Replayed(c)[d] = [status |-> After(StatusKinds)[d].status,
                        held |-> After(HoldKinds)[d].held]
  BY DEF Replayed
<1>2. q \in Seq(Message) /\ sent \in Pictures
  BY ApplyShape DEF TypeOK, StreamTypeOK
<1>. HIDE DEF q, sent
<1>3. ASSUME NEW kinds, Mentions(q, d, kinds) # {}
      PROVE  \E i : /\ LastMention(q, d, kinds, i) /\ After(kinds) = Apply(sent, q[i])
                    /\ q[i] \in Message /\ q[i].type \in kinds /\ q[i].device = d
  <2> DEFINE i == Max(Mentions(q, d, kinds))
  <2>1. After(kinds) = Apply(sent, q[i])
    BY <1>3
  <2>2. LastMention(q, d, kinds, i) /\ q[i] \in Message
    BY <1>2, <1>3, LastMentioned
  <2>. HIDE DEF After, i
  <2>3. q[i].type \in kinds /\ q[i].device = d
    BY <2>2 DEF LastMention, Mentions
  <2>. QED
    BY <2>1, <2>2, <2>3
<1>4. \A kinds : Mentions(q, d, kinds) = {} => After(kinds) = sent
  OBVIOUS
<1>. HIDE DEF After
<1>5. ASSUME Mentions(q, d, StatusKinds) # {}
      PROVE  \E i : LastMention(q, d, StatusKinds, i)
                    /\ Replayed(c)[d].status = StatusSaid(q[i])
  <2>1. PICK i : /\ LastMention(q, d, StatusKinds, i) /\ After(StatusKinds) = Apply(sent, q[i])
                 /\ q[i] \in Message /\ q[i].type \in StatusKinds /\ q[i].device = d
    BY <1>3, <1>5
  <2>2. Apply(sent, q[i])[d].status = StatusSaid(q[i])
    BY <1>2, <2>1, ApplyShape DEF StatusSaid
  <2>. QED
    BY <1>1, <2>1, <2>2
<1>6. ASSUME Mentions(q, d, HoldKinds) # {}
      PROVE  \E i : LastMention(q, d, HoldKinds, i)
                    /\ Replayed(c)[d].held = HoldSaid(q[i])
  <2>1. PICK i : /\ LastMention(q, d, HoldKinds, i) /\ After(HoldKinds) = Apply(sent, q[i])
                 /\ q[i] \in Message /\ q[i].type \in HoldKinds /\ q[i].device = d
    BY <1>3, <1>6
  <2>2. Apply(sent, q[i])[d].held = HoldSaid(q[i])
    BY <1>2, <2>1, ApplyShape DEF HoldSaid
  <2>. QED
    BY <1>1, <2>1, <2>2
<1>. QED
  BY <1>1, <1>4, <1>5, <1>6 DEF q, sent

LEMMA NoGapFollows == FeedInv => NoGap
<1> SUFFICES ASSUME FeedInv, NEW c \in Clients, Following(c), ~lossy[c]
             PROVE  Replayed(c) = FleetPicture
  BY DEF NoGap
<1>1. TypeOK /\ TellsStatus(c) /\ TellsAll(c)
  BY DEF FeedInv, FeedShape, Fed
<1>2. ASSUME NEW d \in Devices
      PROVE  Replayed(c)[d].status = status[d] /\ Replayed(c)[d].held = quarantined[d]
  <2>1. Replayed(c)[d].status = status[d]
    BY <1>1, ReplayedSays DEF TellsStatus, TellsAll
  <2>2. Replayed(c)[d].held = quarantined[d]
    BY <1>1, ReplayedSays DEF TellsAll
  <2>. QED
    BY <2>1, <2>2
<1>3. \E s, h : Replayed(c) = [d \in Devices |-> [status |-> s[d], held |-> h[d]]]
  <2> DEFINE s == [d \in Devices |-> Replayed(c)[d].status]
             h == [d \in Devices |-> Replayed(c)[d].held]
  <2>1. Replayed(c) = [d \in Devices |-> [status |-> s[d], held |-> h[d]]]
    BY DEF Replayed
  <2>. QED
    BY <2>1
<1>4. PICK s, h : Replayed(c) = [d \in Devices |-> [status |-> s[d], held |-> h[d]]]
  BY <1>3
<1>5. \A d \in Devices : s[d] = status[d] /\ h[d] = quarantined[d]
  BY <1>2, <1>4
<1>. QED
  BY <1>4, <1>5 DEF FleetPicture

LEMMA BacklogFollows == FeedInv => BacklogIsCurrent
<1> SUFFICES ASSUME FeedInv, NEW c \in Clients, Following(c), NEW d \in Devices,
                    Mentions(queue[c], d, StatusKinds) # {}
             PROVE  Replayed(c)[d].status = status[d]
  BY DEF BacklogIsCurrent
<1>. QED
  BY ReplayedSays DEF FeedInv, FeedShape, Fed, TellsStatus

(* hello and the messages that follow it leave no gap: a client that has set no
   filter and lost nothing will know the fleet as it is, wherever the connection,
   the pump and the publishers stand.                                         *)
THEOREM FeedHasNoGap == Spec => []NoGap
BY FeedInit, FeedStep, NoGapFollows, PTL DEF Spec

(* However much a slow client has lost, what it is last told about a device that
   its backlog still mentions is the device's status now.                     *)
THEOREM SlowClientsAreCurrent == Spec => []BacklogIsCurrent
BY FeedInit, FeedStep, BacklogFollows, PTL DEF Spec

=============================================================================
