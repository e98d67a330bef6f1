-------------------------- MODULE PipelineInvariant --------------------------
(***************************************************************************)
(* IInv is inductive.  One lemma per part of it, and under each the steps  *)
(* that can disturb that part.                                             *)
(***************************************************************************)
EXTENDS PipelineProofs, FiniteSetTheorems

(* A tuple of tuples of variables is unchanged when all of them are.          *)
Idle == UNCHANGED <<phase, accepting, closed, items, leftBehind, stage, drained,
                    done, inFlight, cursor, opened, accepted, lane, rows, state,
                    attempts, posted, rejected, postings, frozen>>

LEMMA StutterIsIdle == UNCHANGED vars => Idle
BY DEF Idle, vars, intakeVars, queueVars, laneVars, workVars, bookVars, jobVars

LEMMA EmptyQueue == /\ IsInjective(<< >>) /\ ToSet(<< >>) = {} /\ Len(<< >>) = 0
BY EmptySeq DEF IsInjective, ToSet

-----------------------------------------------------------------------------
(* What the parts of the invariant say about the job a step is about.         *)

LEMMA NewJob ==
  ASSUME IInv, NEW wish \in Lanes \cup {AutoLane}, NEW b \in Batches,
         Submit(wish, b)
  PROVE  /\ opened + 1 \in Jobs /\ ChooseLane(wish, b) \in Lanes
         /\ state[opened + 1] = "none" /\ attempts[opened + 1] = 0
         /\ \A l \in Lanes : opened + 1 \notin Queued(l)
         /\ \A w \in Workers : inFlight[w] # opened + 1
         /\ \A l \in Lanes : stage[l] = "up"
<1>1. opened + 1 \in Jobs /\ ChooseLane(wish, b) \in Lanes
  BY ConstantsAssumption DEF IInv, TypeOK, BookTypeOK, Submit, Jobs, ChooseLane, Lanes
<1>2. opened + 1 > opened
  BY ConstantsAssumption DEF IInv, TypeOK, BookTypeOK
<1>3. state[opened + 1] = "none" /\ attempts[opened + 1] = 0
  BY <1>1, <1>2 DEF IInv, BookShape
<1>4. \A l \in Lanes : opened + 1 \notin Queued(l)
  BY <1>3 DEF IInv, OnePlace
<1>5. \A w \in Workers : inFlight[w] # opened + 1
  BY <1>1, <1>3 DEF IInv, OnePlace, HeldJobs, Jobs, NoJob
<1>6. \A l \in Lanes : stage[l] = "up"
  BY DEF IInv, LifecycleShape, Submit
<1>. QED
  BY <1>1, <1>3, <1>4, <1>5, <1>6

LEMMA TakenJob ==
  ASSUME IInv, NEW w \in Workers, Take(w)
  PROVE  LET l == LaneOf[w]
             j == Head(items[l])
         IN /\ l \in Lanes /\ j \in Jobs
            /\ state[j] = "queued" /\ lane[j] = l /\ j \in accepted
            /\ attempts[j] < MostAttempts
            /\ \A v \in Workers : inFlight[v] # j
            /\ \A m \in Lanes : /\ IsInjective(items'[m])
                                /\ Queued(m)' = Queued(m) \ {j}
<1> DEFINE l == LaneOf[w]
           j == Head(items[l])
<1>1. l \in Lanes /\ items[l] \in Seq(Jobs) /\ items[l] # <<>>
  BY ConstantsAssumption DEF Take, IInv, TypeOK, QueueTypeOK
<1>2. /\ Tail(items[l]) \in Seq(Jobs) /\ j \in Jobs /\ IsInjective(Tail(items[l]))
      /\ ToSet(Tail(items[l])) = ToSet(items[l]) \ {j} /\ j \in ToSet(items[l])
  BY <1>1, TailToSet DEF IInv, OnePlace
<1>3. state[j] = "queued" /\ lane[j] = l /\ j \in accepted
  BY <1>1, <1>2 DEF IInv, OnePlace, Queued
<1>4. attempts[j] < MostAttempts
  BY <1>1, <1>2 DEF IInv, AttemptsBounded, QueuedJobs, Queued
<1>5. \A v \in Workers : inFlight[v] # j
  BY <1>2, <1>3 DEF IInv, OnePlace, HeldJobs, Jobs, NoJob
<1>6. ASSUME NEW m \in Lanes
      PROVE  IsInjective(items'[m]) /\ Queued(m)' = Queued(m) \ {j}
  <2>1. CASE m = l
    <3>1. items'[m] = Tail(items[l])
      BY <1>1, <2>1 DEF Take, IInv, TypeOK, QueueTypeOK
    <3>. QED
      BY <1>2, <2>1, <3>1 DEF Queued
  <2>2. CASE m # l
    <3>1. items'[m] = items[m]
      BY <1>1, <2>2 DEF Take, IInv, TypeOK, QueueTypeOK
    <3>2. j \notin Queued(m)
      BY <1>3, <2>2 DEF IInv, OnePlace
    <3>. QED
      BY <3>1, <3>2 DEF IInv, OnePlace, Queued
  <2>. QED
    BY <2>1, <2>2
<1>. QED
  BY <1>1, <1>2, <1>3, <1>4, <1>5, <1>6

LEMMA HeldJob ==
  ASSUME IInv, NEW w \in Workers, Busy(w)
  PROVE  /\ inFlight[w] \in Jobs /\ LaneOf[w] \in Lanes
         /\ state[inFlight[w]] = "running" /\ lane[inFlight[w]] = LaneOf[w]
         /\ inFlight[w] \in 1..opened
         /\ \A v \in Workers : inFlight[v] = inFlight[w] => v = w
         /\ \A m \in Lanes : inFlight[w] \notin Queued(m)
         /\ stage[LaneOf[w]] \in Live /\ inFlight[w] \in accepted
         /\ cursor[w] \in 1..Len(rows[inFlight[w]])
<1>1. inFlight[w] \in Jobs /\ LaneOf[w] \in Lanes
  BY BusyTypes DEF IInv, TypeOK
<1>2. state[inFlight[w]] = "running" /\ lane[inFlight[w]] = LaneOf[w]
  BY <1>1 DEF IInv, OnePlace, HeldJobs, Busy
<1>3. inFlight[w] \in 1..opened
  BY <1>1, <1>2, ConstantsAssumption DEF IInv, BookShape, TypeOK, BookTypeOK, Jobs
<1>4. \A v \in Workers : inFlight[v] = inFlight[w] => v = w
  BY DEF IInv, OnePlace, Busy
<1>5. \A m \in Lanes : inFlight[w] \notin Queued(m)
  BY <1>2 DEF IInv, OnePlace
<1>. QED
  BY <1>1, <1>2, <1>3, <1>4, <1>5 DEF IInv, ConsumerShape

LEMMA PutPlaces ==
  ASSUME IInv, NEW l \in Lanes, NEW j \in Jobs, Put(l, j), j \notin Queued(l)
  PROVE  \A m \in Lanes : /\ IsInjective(items'[m])
                          /\ Queued(m)' = IF m = l THEN Queued(m) \cup {j} ELSE Queued(m)
<1>1. items[l] \in Seq(Jobs) /\ IsInjective(items[l])
  BY DEF IInv, TypeOK, QueueTypeOK, OnePlace
<1>2. /\ ToSet(Append(items[l], j)) = ToSet(items[l]) \cup {j}
      /\ IsInjective(Append(items[l], j))
  BY <1>1, AppendToSet DEF Queued
<1>3. /\ items'[l] = Append(items[l], j)
      /\ \A m \in Lanes : m # l => items'[m] = items[m]
  BY DEF Put, IInv, TypeOK, QueueTypeOK
<1>4. \A m \in Lanes : IsInjective(items[m])
  BY DEF IInv, OnePlace
<1>. QED
  BY <1>2, <1>3, <1>4 DEF Queued

(* Nobody works while the process is down.                                    *)
LEMMA NobodyBusyWhenDown ==
  ASSUME IInv, phase = "idle"
  PROVE  /\ \A w \in Workers : inFlight[w] = NoJob
         /\ \A j \in Jobs : state[j] # "running"
         /\ \A l \in Lanes : stage[l] = "down"
<1>1. \A l \in Lanes : stage[l] = "down"
  BY DEF IInv, LifecycleShape
<1>2. \A w \in Workers : inFlight[w] = NoJob
  BY <1>1, ConstantsAssumption DEF IInv, ConsumerShape, Busy, Live
<1>3. \A j \in Jobs : state[j] # "running"
  BY <1>2 DEF IInv, OnePlace, HeldJobs
<1>. QED
  BY <1>1, <1>2, <1>3

-----------------------------------------------------------------------------
LEMMA InitInvariant == Init => IInv
<1> SUFFICES ASSUME Init PROVE IInv
  OBVIOUS
<1>1. LifecycleShape /\ ConsumerShape /\ BookShape /\ CountShape
  BY DEF Init, LifecycleShape, ConsumerShape, BookShape, CountShape, Busy, Jobs, NoJob
<1>2. \A l \in Lanes : items[l] = <<>> /\ Queued(l) = {} /\ IsInjective(items[l])
  BY EmptyQueue DEF Init, Queued
<1>3. OnePlace
  BY <1>2 DEF Init, OnePlace, Busy, HeldJobs
<1>4. DrainHonest
  BY DEF Init, DrainHonest
<1>5. AttemptsBounded
  BY <1>2, ConstantsAssumption DEF Init, AttemptsBounded, QueuedJobs, MostAttempts
<1>. QED
  BY <1>1, <1>3, <1>4, <1>5, InitTypes DEF IInv

(* The order of the lifecycle hooks: what is up when.                         *)
LEMMA LifecycleStep == IInv /\ [Next]_vars => LifecycleShape'
<1> SUFFICES ASSUME IInv, [Next]_vars PROVE LifecycleShape'
  OBVIOUS
<1> USE DEF intakeVars, queueVars, laneVars, workVars, bookVars, jobVars
<1>. /\ LifecycleShape /\ stage \in [Lanes -> Stages] /\ closed \in [Lanes -> BOOLEAN]
     /\ phase \in Phases
  BY DEF IInv, TypeOK, LifeTypeOK
<1>1. CASE UNCHANGED <<phase, accepting, closed, stage>>
  BY <1>1 DEF LifecycleShape
<1>2. CASE Start \/ FailStart \/ EnterServing \/ CloseTheGate
  BY <1>2 DEF Start, FailStart, EnterServing, CloseTheGate, LifecycleShape
<1>3. CASE StopListening \/ ShutGate
  BY <1>3 DEF StopListening, ShutGate, LifecycleShape
<1>4. ASSUME NEW l \in Lanes, DrainIdle(l) \/ DrainTimeout(l)
      PROVE  LifecycleShape'
  BY <1>4 DEF DrainIdle, DrainTimeout, LifecycleShape
<1>5. ASSUME NEW l \in Lanes, CloseLane(l)  PROVE LifecycleShape'
  BY <1>5 DEF CloseLane, LifecycleShape
<1>6. ASSUME NEW l \in Lanes, ShutQueue(l)  PROVE LifecycleShape'
  BY <1>6 DEF ShutQueue, LifecycleShape
<1>7. CASE Client \/ Operator
  BY <1>1, <1>7 DEF Client, Submit, Operator, Freeze, Unfreeze
<1>8. ASSUME NEW w \in Workers, Consumer(w)  PROVE LifecycleShape'
  BY <1>1, <1>8 DEF Consumer, Take, RejectRow, PostRow, HitFrozen
<1>9. CASE UNCHANGED vars
  BY <1>1, <1>9, StutterIsIdle DEF Idle
<1>. QED
  BY <1>2, <1>3, <1>4, <1>5, <1>6, <1>7, <1>8, <1>9 DEF Next, Lifecycle, Shutdown

(* A consumer that holds a job is alive and stands at one of its rows.        *)
LEMMA ConsumerStep == IInv /\ [Next]_vars => ConsumerShape'
<1> SUFFICES ASSUME IInv, [Next]_vars, NEW v \in Workers, Busy(v)'
             PROVE  /\ stage'[LaneOf[v]] \in Live /\ inFlight'[v] \in accepted'
                    /\ cursor'[v] \in 1..Len(rows'[inFlight'[v]])
  BY DEF ConsumerShape
<1> USE DEF intakeVars, queueVars, laneVars, workVars, bookVars, jobVars
<1> DEFINE Goal == /\ stage'[LaneOf[v]] \in Live /\ inFlight'[v] \in accepted'
                   /\ cursor'[v] \in 1..Len(rows'[inFlight'[v]])
           KeepsHands == UNCHANGED <<inFlight, cursor, rows, accepted>>
<1>. /\ LaneOf[v] \in Lanes /\ stage \in [Lanes -> Stages]
     /\ inFlight \in [Workers -> Jobs \cup {NoJob}]
     /\ cursor \in [Workers -> RowIndex \cup {0}]
  BY ConstantsAssumption DEF IInv, TypeOK, LifeTypeOK, WorkTypeOK
<1>1. CASE KeepsHands /\ stage'[LaneOf[v]] \in Live
  BY <1>1, HeldJob DEF Busy
<1>2. CASE KeepsHands /\ UNCHANGED stage
  BY <1>1, <1>2, HeldJob DEF Busy
<1>3. CASE Client
  <2>1. PICK wish \in Lanes \cup {AutoLane}, b \in Batches : Submit(wish, b)
    BY <1>3 DEF Client
  <2>2. Busy(v) /\ inFlight[v] # opened + 1 /\ UNCHANGED <<inFlight, cursor, stage>>
    BY <2>1, NewJob DEF Submit, Busy
  <2>3. rows'[inFlight[v]] = rows[inFlight[v]]
    BY <2>1, <2>2, HeldJob DEF Submit, IInv, TypeOK, BookTypeOK
  <2>4. accepted \subseteq accepted'
    BY <2>1 DEF Submit
  <2>. QED
    BY <2>2, <2>3, <2>4, HeldJob
<1>4. ASSUME NEW w \in Workers, Take(w)  PROVE Goal
  <2>1. CASE v # w \/ inFlight'[v] = inFlight[v]
    <3>1. UNCHANGED <<stage, rows, accepted>> /\ Busy(v)
      BY <1>4, <2>1 DEF Take, Busy
    <3>2. v # w
      BY <1>4, <3>1 DEF Take
    <3>3. inFlight'[v] = inFlight[v] /\ cursor'[v] = cursor[v]
      BY <1>4, <3>2 DEF Take
    <3>. QED
      BY <3>1, <3>3, HeldJob
  <2>2. CASE v = w /\ inFlight'[v] # inFlight[v]
    <3> DEFINE j == Head(items[LaneOf[w]])
    <3>1. /\ rows[j] # <<>> /\ inFlight'[v] = j /\ cursor'[v] = 1
          /\ UNCHANGED <<stage, rows, accepted>> /\ stage[LaneOf[v]] \in Live
      BY <1>4, <2>2 DEF Take
    <3>2. j \in Jobs /\ j \in accepted
      BY <1>4, TakenJob
    <3>3. Len(rows[j]) \in Nat /\ Len(rows[j]) # 0
      <4>1. rows[j] \in Seq(Accounts \cup {BadRow})
        BY <3>1, <3>2, ConstantsAssumption DEF IInv, TypeOK, BookTypeOK
      <4>. QED
        BY <3>1, <4>1, EmptySeq, LenProperties
    <3>. QED
      BY <3>1, <3>2, <3>3
  <2>. QED
    BY <2>1, <2>2
<1>5. ASSUME NEW w \in Workers, RejectRow(w) \/ PostRow(w) \/ HitFrozen(w)
      PROVE  Goal
  <2>1. UNCHANGED <<stage, rows, accepted>> /\ Busy(w)
    BY <1>5 DEF RejectRow, PostRow, HitFrozen, Working
  <2>2. CASE v # w
    <3>1. inFlight'[v] = inFlight[v] /\ cursor'[v] = cursor[v]
      BY <1>5, <2>2 DEF RejectRow, PostRow, HitFrozen, NextRow, Release
    <3>. QED
      BY <2>1, <3>1, HeldJob DEF Busy
  <2>3. CASE v = w
    <3>1. /\ cursor[w] < Len(rows[inFlight[w]])
          /\ inFlight' = inFlight /\ cursor'[w] = cursor[w] + 1
      BY <1>5, <2>3 DEF RejectRow, PostRow, HitFrozen, NextRow, Release, Busy
    <3>2. Len(rows[inFlight[w]]) \in Nat
      BY <2>1, HeldJob, RowsLength, ConstantsAssumption DEF IInv, TypeOK
    <3>. QED
      BY <2>1, <2>3, <3>1, <3>2, HeldJob
  <2>. QED
    BY <2>2, <2>3
<1>6. CASE Start \/ FailStart
  BY <1>6 DEF Start, FailStart, FreshRun, Busy
<1>7. CASE CloseTheGate
  <2>1. KeepsHands /\ stage'[LaneOf[v]] = "draining"
    BY <1>7 DEF CloseTheGate
  <2>. QED
    BY <1>1, <2>1 DEF Live
<1>8. ASSUME NEW l \in Lanes, DrainIdle(l) \/ DrainTimeout(l)  PROVE Goal
  <2>1. KeepsHands /\ stage' = [stage EXCEPT ![l] = "settled"] /\ Busy(v)
    BY <1>8 DEF DrainIdle, DrainTimeout, Busy
  <2>2. stage[LaneOf[v]] \in Live
    BY <2>1, HeldJob
  <2>. QED
    BY <1>1, <2>1, <2>2 DEF Live
<1>9. ASSUME NEW l \in Lanes, CloseLane(l)  PROVE Goal
  <2>1. v \notin InFlight(l)
    BY <1>9 DEF CloseLane, Busy
  <2>2. Busy(v) /\ inFlight'[v] = inFlight[v] /\ cursor'[v] = cursor[v]
    BY <1>9, <2>1 DEF CloseLane, Busy
  <2>3. stage'[LaneOf[v]] = stage[LaneOf[v]] /\ UNCHANGED <<rows, accepted>>
    BY <1>9, <2>1, <2>2 DEF CloseLane, InFlight
  <2>. QED
    BY <2>2, <2>3, HeldJob
<1>10. ASSUME NEW l \in Lanes, ShutQueue(l)  PROVE Goal
  <2>1. KeepsHands /\ stage' = [stage EXCEPT ![l] = "down"] /\ Busy(v)
    BY <1>10 DEF ShutQueue, Busy
  <2>2. LaneOf[v] # l
    BY <1>10, <2>1, HeldJob DEF ShutQueue, Live
  <2>. QED
    BY <1>1, <2>1, <2>2, HeldJob
<1>11. CASE EnterServing \/ StopListening \/ ShutGate \/ Operator
  BY <1>2, <1>11 DEF EnterServing, StopListening, ShutGate, Operator, Freeze, Unfreeze
<1>12. CASE UNCHANGED vars
  BY <1>2, <1>12, StutterIsIdle DEF Idle
<1>. QED
  BY <1>3, <1>4, <1>5, <1>6, <1>7, <1>8, <1>9, <1>10, <1>11, <1>12
     DEF Next, Lifecycle, Shutdown, Consumer

(* The book knows exactly the jobs it has opened.                             *)
LEMMA BookStep == IInv /\ [Next]_vars => BookShape'
<1> SUFFICES ASSUME IInv, [Next]_vars PROVE BookShape'
  OBVIOUS
<1> USE DEF intakeVars, queueVars, laneVars, workVars, bookVars, jobVars
<1>. /\ BookShape /\ state \in [Jobs -> States] /\ attempts \in [Jobs -> Nat]
     /\ opened \in Nat /\ accepted \subseteq Jobs
  BY ConstantsAssumption DEF IInv, TypeOK, BookTypeOK, JobTypeOK
<1>1. ASSUME UNCHANGED <<opened, accepted>>,
             \A j \in Jobs : j > opened =>
               state'[j] = state[j] /\ attempts'[j] = attempts[j],
             \A j \in Jobs : j <= opened => state'[j] # "none"
      PROVE  BookShape'
  BY <1>1 DEF BookShape, Jobs
<1>2. \A j \in Jobs : j <= opened => state[j] # "none"
  BY DEF BookShape, Jobs
<1>3. CASE UNCHANGED <<opened, accepted, state, attempts>>
  BY <1>1, <1>2, <1>3
<1>4. CASE Client
  <2>1. PICK wish \in Lanes \cup {AutoLane}, b \in Batches : Submit(wish, b)
    BY <1>4 DEF Client
  <2>2. opened + 1 \in Jobs /\ attempts[opened + 1] = 0
    BY <2>1, NewJob
  <2>3. /\ opened' = opened + 1 /\ accepted' \subseteq accepted \cup {opened + 1}
        /\ state' = [state EXCEPT ![opened + 1] = "queued"] /\ attempts' = attempts
    BY <2>1 DEF Submit
  <2>. QED
    BY <2>2, <2>3 DEF BookShape, Jobs
<1>5. ASSUME NEW w \in Workers, Take(w)  PROVE BookShape'
  <2> DEFINE j == Head(items[LaneOf[w]])
  <2>1. j \in Jobs /\ state[j] = "queued"
    BY <1>5, TakenJob
  <2>2. j <= opened
    BY <2>1 DEF BookShape, Jobs
  <2>3. /\ UNCHANGED <<opened, accepted>> /\ state'[j] # "none"
        /\ \A k \in Jobs : k # j => state'[k] = state[k] /\ attempts'[k] = attempts[k]
    BY <1>5, <2>1 DEF Take
  <2>. QED
    BY <1>1, <1>2, <2>2, <2>3 DEF Jobs
<1>6. ASSUME NEW w \in Workers, RejectRow(w) \/ PostRow(w) \/ HitFrozen(w)
      PROVE  BookShape'
  <2>1. inFlight[w] \in Jobs /\ inFlight[w] \in 1..opened
    BY <1>6, HeldJob DEF RejectRow, PostRow, HitFrozen, Working
  <2>2. UNCHANGED <<opened, accepted, attempts>>
    BY <1>6 DEF RejectRow, PostRow, HitFrozen
  <2>3. \/ state' = state
        \/ \E x \in {"done", "queued", "failed"} :
             state' = [state EXCEPT ![inFlight[w]] = x]
    BY <1>6 DEF RejectRow, PostRow, HitFrozen, NextRow, Requeue
  <2>4. \A j \in Jobs : j # inFlight[w] => state'[j] = state[j]
    BY <2>3
  <2>5. state'[inFlight[w]] # "none"
    BY <2>1, <2>3, <1>2
  <2>. QED
    BY <1>1, <1>2, <2>1, <2>2, <2>4, <2>5 DEF Jobs
<1>7. ASSUME NEW l \in Lanes, CloseLane(l)  PROVE BookShape'
  <2>1. \A w \in InFlight(l) : inFlight[w] \in 1..opened
    BY HeldJob DEF InFlight
  <2>2. UNCHANGED <<opened, accepted, attempts>>
    BY <1>7 DEF CloseLane
  <2>3. \A j \in Jobs : \/ state'[j] = state[j]
                        \/ state'[j] = "abandoned" /\ j \in 1..opened
    BY <1>7, <2>1 DEF CloseLane
  <2>. QED
    BY <1>1, <1>2, <2>2, <2>3 DEF Jobs
<1>8. CASE \/ Operator \/ Start \/ FailStart \/ EnterServing \/ CloseTheGate
           \/ StopListening \/ ShutGate
  BY <1>3, <1>8 DEF Operator, Freeze, Unfreeze, Start, FailStart, EnterServing,
     CloseTheGate, StopListening, ShutGate
<1>9. ASSUME NEW l \in Lanes, DrainIdle(l) \/ DrainTimeout(l) \/ ShutQueue(l)
      PROVE  BookShape'
  BY <1>3, <1>9 DEF DrainIdle, DrainTimeout, ShutQueue
<1>10. CASE UNCHANGED vars
  BY <1>3, <1>10, StutterIsIdle DEF Idle
<1>. QED
  BY <1>4, <1>5, <1>6, <1>7, <1>8, <1>9, <1>10
     DEF Next, Lifecycle, Shutdown, Consumer

(* left_behind is the length of the queue once it is shut, and zero before.   *)
LEMMA CountStep == IInv /\ [Next]_vars => CountShape'
<1> SUFFICES ASSUME IInv, [Next]_vars PROVE CountShape'
  OBVIOUS
<1> USE DEF intakeVars, queueVars, laneVars, workVars, bookVars, jobVars
<1>. /\ CountShape /\ stage \in [Lanes -> Stages] /\ drained \in [Lanes -> BOOLEAN]
     /\ items \in [Lanes -> Seq(Jobs)] /\ leftBehind \in [Lanes -> Nat]
  BY DEF IInv, TypeOK, LifeTypeOK, QueueTypeOK
<1>1. CASE UNCHANGED <<items, leftBehind, stage, drained>>
  BY <1>1 DEF CountShape
<1>2. CASE Client
  <2>1. PICK wish \in Lanes \cup {AutoLane}, b \in Batches : Submit(wish, b)
    BY <1>2 DEF Client
  <2>2. \A l \in Lanes : stage[l] = "up"
    BY <2>1, NewJob
  <2>. QED
    BY <2>1, <2>2 DEF Submit, CountShape
<1>3. ASSUME NEW w \in Workers, Consumer(w)  PROVE CountShape'
  <2>1. stage[LaneOf[w]] \in Live /\ LaneOf[w] \in Lanes
    BY <1>3, ConstantsAssumption
    DEF Consumer, Take, RejectRow, PostRow, HitFrozen, Working
  <2>2. UNCHANGED <<leftBehind, stage, drained>>
    BY <1>3 DEF Consumer, Take, RejectRow, PostRow, HitFrozen
  <2>3. \A m \in Lanes : m # LaneOf[w] => items'[m] = items[m]
    BY <1>3 DEF Consumer, Take, RejectRow, PostRow, HitFrozen, Requeue, Put
  <2>. QED
    BY <2>1, <2>2, <2>3 DEF CountShape, Live
<1>4. CASE Start \/ FailStart
  <2>1. \A l \in Lanes : /\ items'[l] = <<>> /\ leftBehind'[l] = 0
                         /\ drained'[l] = FALSE
    BY <1>4 DEF Start, FailStart, FreshRun
  <2>. QED
    BY <2>1, EmptyQueue DEF CountShape
<1>5. CASE CloseTheGate
  <2>1. \A l \in Lanes : stage[l] = "up"
    BY <1>5 DEF CloseTheGate, IInv, LifecycleShape
  <2>. QED
    BY <1>5, <2>1 DEF CloseTheGate, CountShape
<1>6. ASSUME NEW l \in Lanes, DrainIdle(l) \/ DrainTimeout(l)  PROVE CountShape'
  BY <1>6 DEF DrainIdle, DrainTimeout, CountShape
<1>7. ASSUME NEW l \in Lanes, CloseLane(l)  PROVE CountShape'
  BY <1>7 DEF CloseLane, CountShape
<1>8. ASSUME NEW l \in Lanes, ShutQueue(l)  PROVE CountShape'
  BY <1>8 DEF ShutQueue, CountShape
<1>9. CASE EnterServing \/ StopListening \/ ShutGate \/ Operator
  BY <1>1, <1>9 DEF EnterServing, StopListening, ShutGate, Operator, Freeze, Unfreeze
<1>10. CASE UNCHANGED vars
  BY <1>1, <1>10, StutterIsIdle DEF Idle
<1>. QED
  BY <1>2, <1>3, <1>4, <1>5, <1>6, <1>7, <1>8, <1>9, <1>10
     DEF Next, Lifecycle, Shutdown, Consumer

(* A job is in one place.  The conjuncts of OnePlace by name.                 *)
QueuesInjective == \A l \in Lanes : IsInjective(items[l])
QueuedInOrder == \A l \in Lanes : \A j \in Queued(l) :
                   lane[j] = l /\ state[j] = "queued" /\ j \in accepted
HeldOnce == \A w, v \in Workers : Busy(w) /\ inFlight[w] = inFlight[v] => w = v
HeldInLane == \A w \in Workers : Busy(w) => lane[inFlight[w]] = LaneOf[w]
RunningHeld == \A j \in Jobs : state[j] = "running" <=>
                 \E w \in Workers : inFlight[w] = j

LEMMA OnePlaceParts ==
  OnePlace <=> QueuesInjective /\ QueuedInOrder /\ HeldOnce /\ HeldInLane /\ RunningHeld
<1>1. \A j \in Jobs : j \in HeldJobs <=> \E w \in Workers : inFlight[w] = j
  BY DEF HeldJobs, Jobs, NoJob
<1>. QED
  BY <1>1 DEF OnePlace, QueuesInjective, QueuedInOrder, HeldOnce, HeldInLane, RunningHeld

LEMMA PlaceStep == IInv /\ [Next]_vars => OnePlace'
<1> SUFFICES ASSUME IInv, [Next]_vars
    PROVE (QueuesInjective /\ QueuedInOrder /\ HeldOnce /\ HeldInLane /\ RunningHeld)'
  BY OnePlaceParts, PTL
<1> DEFINE Goal == (QueuesInjective /\ QueuedInOrder /\ HeldOnce /\ HeldInLane
                    /\ RunningHeld)'
<1> USE DEF intakeVars, queueVars, laneVars, workVars, bookVars, jobVars
<1>. /\ QueuesInjective /\ QueuedInOrder /\ HeldOnce /\ HeldInLane /\ RunningHeld
     /\ state \in [Jobs -> States] /\ lane \in [Jobs -> Lanes]
     /\ inFlight \in [Workers -> Jobs \cup {NoJob}]
     /\ items \in [Lanes -> Seq(Jobs)]
     /\ \A l \in Lanes : \A j \in Queued(l) : j \in Jobs
  <2>1. \A l \in Lanes : Queued(l) \subseteq Jobs
    BY LenProperties, ElementOfSeq DEF IInv, TypeOK, QueueTypeOK, Queued, ToSet
  <2>. QED
    BY <2>1, OnePlaceParts DEF IInv, TypeOK, QueueTypeOK, BookTypeOK, JobTypeOK, WorkTypeOK
<1>1. CASE UNCHANGED <<items, lane, state, accepted, inFlight>>
  BY <1>1 DEF QueuesInjective, QueuedInOrder, Queued, HeldOnce, HeldInLane, RunningHeld,
     Busy
<1>2. CASE Client
  <2>1. PICK wish \in Lanes \cup {AutoLane}, b \in Batches : Submit(wish, b)
    BY <1>2 DEF Client
  <2> DEFINE j == opened + 1
             l == ChooseLane(wish, b)
  <2>2. /\ j \in Jobs /\ l \in Lanes /\ state[j] = "none"
        /\ \A m \in Lanes : j \notin Queued(m)
        /\ \A w \in Workers : inFlight[w] # j
    BY <2>1, NewJob
  <2>3. /\ inFlight' = inFlight
        /\ state' = [state EXCEPT ![j] = "queued"] /\ lane' = [lane EXCEPT ![j] = l]
    BY <2>1 DEF Submit
  <2>4. \/ UNCHANGED <<items, accepted>>
        \/ Put(l, j) /\ accepted' = accepted \cup {j}
    BY <2>1 DEF Submit
  <2> HIDE DEF j, l
  <2>5. /\ \A m \in Lanes : IsInjective(items'[m])
        /\ \A m \in Lanes : \A k \in Queued(m)' :
             \/ k \in Queued(m) /\ k # j
             \/ k = j /\ m = l /\ j \in accepted'
    BY <2>2, <2>4, PutPlaces DEF QueuesInjective, Queued
  <2>6. accepted \subseteq accepted'
    BY <2>4
  <2>7. QueuesInjective' /\ QueuedInOrder'
    BY <2>2, <2>3, <2>5, <2>6 DEF QueuesInjective, QueuedInOrder
  <2>8. HeldOnce' /\ RunningHeld'
    BY <2>2, <2>3 DEF HeldOnce, RunningHeld, Busy
  <2>9. HeldInLane'
    BY <2>2, <2>3 DEF HeldInLane, Busy
  <2>. QED
    BY <2>7, <2>8, <2>9
<1>3. ASSUME NEW w \in Workers, Take(w)  PROVE Goal
  <2> DEFINE l == LaneOf[w]
             j == Head(items[l])
  <2>1. /\ l \in Lanes /\ j \in Jobs /\ state[j] = "queued" /\ lane[j] = l
        /\ \A v \in Workers : inFlight[v] # j
        /\ \A m \in Lanes : IsInjective(items'[m]) /\ Queued(m)' = Queued(m) \ {j}
    BY <1>3, TakenJob
  <2>2. UNCHANGED <<lane, accepted>> /\ inFlight[w] = NoJob
    BY <1>3 DEF Take, Busy
  <2>3. \/ state' = [state EXCEPT ![j] = "done"] /\ inFlight' = inFlight
        \/ /\ state' = [state EXCEPT ![j] = "running"]
           /\ inFlight' = [inFlight EXCEPT ![w] = j]
    BY <1>3 DEF Take
  <2> HIDE DEF j
  <2>4. QueuesInjective' /\ QueuedInOrder'
    BY <2>1, <2>2, <2>3 DEF QueuesInjective, QueuedInOrder
  <2>5. CASE state' = [state EXCEPT ![j] = "done"] /\ inFlight' = inFlight
    <3>1. HeldOnce' /\ HeldInLane'
      BY <2>2, <2>5 DEF HeldOnce, HeldInLane, Busy
    <3>2. RunningHeld'
      BY <2>1, <2>5 DEF RunningHeld
    <3>. QED
      BY <2>4, <3>1, <3>2
  <2>6. CASE /\ state' = [state EXCEPT ![j] = "running"]
             /\ inFlight' = [inFlight EXCEPT ![w] = j]
    <3>1. inFlight'[w] = j /\ \A v \in Workers : v # w => inFlight'[v] = inFlight[v]
      BY <2>6
    <3>2. state'[j] = "running" /\ \A k \in Jobs : k # j => state'[k] = state[k]
      BY <2>1, <2>6
    <3>3. HeldOnce'
      BY <2>1, <3>1 DEF HeldOnce, Busy
    <3>4. HeldInLane'
      BY <2>1, <2>2, <3>1 DEF HeldInLane, Busy
    <3>5. ASSUME NEW k \in Jobs
          PROVE  state'[k] = "running" <=> \E v \in Workers : inFlight'[v] = k
      <4>1. CASE k = j
        BY <3>1, <3>2, <4>1
      <4>2. CASE k # j
        <5>1. \A v \in Workers : inFlight'[v] = k <=> inFlight[v] = k
          BY <2>2, <3>1, <4>2 DEF NoJob, Jobs
        <5>. QED
          BY <3>2, <4>2, <5>1 DEF RunningHeld
      <4>. QED
        BY <4>1, <4>2
    <3>6. RunningHeld'
      BY <3>5 DEF RunningHeld
    <3>. QED
      BY <2>4, <3>3, <3>4, <3>6
  <2>. QED
    BY <2>3, <2>5, <2>6
<1>4. ASSUME NEW w \in Workers, RejectRow(w) \/ PostRow(w)  PROVE Goal
  <2> DEFINE j == inFlight[w]
  <2>1. /\ j \in Jobs /\ state[j] = "running" /\ j # NoJob
        /\ \A v \in Workers : inFlight[v] = j => v = w
        /\ \A m \in Lanes : j \notin Queued(m)
    BY <1>4, HeldJob DEF RejectRow, PostRow, Working, Busy
  <2>2. UNCHANGED <<items, lane, accepted>>
    BY <1>4 DEF RejectRow, PostRow
  <2>3. \/ UNCHANGED <<state, inFlight>>
        \/ /\ state' = [state EXCEPT ![j] = "done"]
           /\ inFlight' = [inFlight EXCEPT ![w] = NoJob]
    BY <1>4 DEF RejectRow, PostRow, NextRow, Release
  <2> HIDE DEF j
  <2>4. CASE UNCHANGED <<state, inFlight>>
    BY <1>1, <2>2, <2>4
  <2>5. CASE /\ state' = [state EXCEPT ![j] = "done"]
             /\ inFlight' = [inFlight EXCEPT ![w] = NoJob]
    <3>1. QueuesInjective' /\ QueuedInOrder'
      BY <2>1, <2>2, <2>5 DEF QueuesInjective, QueuedInOrder, Queued
    <3>2. HeldOnce' /\ HeldInLane'
      BY <2>1, <2>2, <2>5 DEF HeldOnce, HeldInLane, Busy
    <3>3. RunningHeld'
      BY <2>1, <2>5 DEF RunningHeld, NoJob, Jobs, j
    <3>. QED
      BY <3>1, <3>2, <3>3
  <2>. QED
    BY <2>3, <2>4, <2>5
<1>5. ASSUME NEW w \in Workers, HitFrozen(w)  PROVE Goal
  <2> DEFINE j == inFlight[w]
             l == LaneOf[w]
  <2>1. /\ j \in Jobs /\ l \in Lanes /\ lane[j] = l
        /\ state[j] = "running" /\ j # NoJob /\ j \in accepted
        /\ \A v \in Workers : inFlight[v] = j => v = w
        /\ \A m \in Lanes : j \notin Queued(m)
    BY <1>5, HeldJob DEF HitFrozen, Working, Busy
  <2>2. UNCHANGED <<lane, accepted>>
    BY <1>5 DEF HitFrozen
  <2>3. \/ state' = [state EXCEPT ![j] = "queued"] /\ Put(l, j)
        \/ state' = [state EXCEPT ![j] = "failed"] /\ UNCHANGED items
    BY <1>5 DEF HitFrozen, Requeue
  <2>4. inFlight'[w] = NoJob /\ \A v \in Workers : v # w => inFlight'[v] = inFlight[v]
    BY <1>5 DEF HitFrozen, Release
  <2>5. state'[j] # "running" /\ \A k \in Jobs : k # j => state'[k] = state[k]
    BY <2>1, <2>3
  <2> HIDE DEF j, l
  <2>6. QueuesInjective' /\ QueuedInOrder'
    <3>1. CASE state' = [state EXCEPT ![j] = "queued"] /\ Put(l, j)
      <4>1. \A m \in Lanes : /\ IsInjective(items'[m])
                             /\ Queued(m)' = IF m = l THEN Queued(m) \cup {j} ELSE Queued(m)
        BY <2>1, <3>1, PutPlaces
      <4>2. state'[j] = "queued"
        BY <2>1, <3>1
      <4>3. QueuesInjective'
        BY <4>1 DEF QueuesInjective
      <4>4. ASSUME NEW m \in Lanes, NEW k \in Queued(m)'
            PROVE  lane'[k] = m /\ state'[k] = "queued" /\ k \in accepted'
        <5>1. k \in IF m = l THEN Queued(m) \cup {j} ELSE Queued(m)
          BY <4>1, <4>4
        <5>2. (k \in Queued(m) /\ k # j) \/ (k = j /\ m = l)
          BY <2>1, <5>1
        <5>. QED
          BY <2>1, <2>2, <2>5, <4>2, <5>2 DEF QueuedInOrder
      <4>. QED
        BY <4>3, <4>4 DEF QueuedInOrder
    <3>2. CASE UNCHANGED items
      BY <2>1, <2>2, <2>5, <3>2 DEF QueuesInjective, QueuedInOrder, Queued
    <3>. QED
      BY <2>3, <3>1, <3>2
  <2>7. HeldOnce' /\ HeldInLane'
    BY <2>2, <2>4 DEF HeldOnce, HeldInLane, Busy
  <2>8. ASSUME NEW k \in Jobs
        PROVE  state'[k] = "running" <=> \E v \in Workers : inFlight'[v] = k
    <3>1. CASE k = j
      BY <2>1, <2>4, <2>5, <3>1 DEF NoJob, Jobs, j
    <3>2. CASE k # j
      <4>1. \A v \in Workers : inFlight'[v] = k <=> inFlight[v] = k
        BY <2>4, <3>2 DEF NoJob, Jobs, j
      <4>. QED
        BY <2>5, <3>2, <4>1 DEF RunningHeld
    <3>. QED
      BY <3>1, <3>2
  <2>9. RunningHeld'
    BY <2>8 DEF RunningHeld
  <2>. QED
    BY <2>6, <2>7, <2>9
<1>6. CASE Start \/ FailStart
  <2>1. /\ \A w \in Workers : inFlight[w] = NoJob /\ inFlight'[w] = NoJob
        /\ \A j \in Jobs : state[j] # "running"
    BY <1>6, NobodyBusyWhenDown DEF Start, FailStart, FreshRun
  <2>2. UNCHANGED state /\ \A l \in Lanes : items'[l] = <<>>
    BY <1>6 DEF Start, FailStart, FreshRun
  <2>3. QueuesInjective' /\ QueuedInOrder'
    BY <2>2, EmptyQueue DEF QueuesInjective, QueuedInOrder, Queued
  <2>4. HeldOnce' /\ HeldInLane' /\ RunningHeld'
    BY <2>1, <2>2 DEF HeldOnce, HeldInLane, RunningHeld, Busy, NoJob, Jobs
  <2>. QED
    BY <2>3, <2>4
<1>7. ASSUME NEW l \in Lanes, CloseLane(l)  PROVE Goal
  <2>1. UNCHANGED <<items, lane, accepted>>
    BY <1>7 DEF CloseLane
  <2>2. \A w \in Workers : inFlight'[w] = IF w \in InFlight(l) THEN NoJob ELSE inFlight[w]
    BY <1>7 DEF CloseLane
  <2>3. \A j \in Jobs :
          state'[j] = IF \E w \in InFlight(l) : inFlight[w] = j THEN "abandoned" ELSE state[j]
    BY <1>7 DEF CloseLane
  <2>4. \A w \in InFlight(l) : w \in Workers /\ Busy(w)
    BY DEF InFlight
  <2>5. \A w \in InFlight(l) : state[inFlight[w]] = "running"
    BY <2>4, HeldJob
  <2>6. QueuesInjective' /\ QueuedInOrder'
    BY <2>1, <2>3, <2>5 DEF QueuesInjective, QueuedInOrder, Queued
  <2>7. HeldOnce' /\ HeldInLane'
    BY <2>1, <2>2 DEF HeldOnce, HeldInLane, Busy
  <2>8. ASSUME NEW j \in Jobs
        PROVE  state'[j] = "running" <=> \E w \in Workers : inFlight'[w] = j
    <3>1. CASE \E w \in InFlight(l) : inFlight[w] = j
      <4>1. state'[j] = "abandoned"
        BY <2>3, <3>1
      <4>2. \A w \in Workers : inFlight[w] = j => w \in InFlight(l)
        BY <2>4, <3>1 DEF HeldOnce
      <4>. QED
        BY <2>2, <4>1, <4>2 DEF NoJob, Jobs
    <3>2. CASE ~ \E w \in InFlight(l) : inFlight[w] = j
      <4>1. state'[j] = state[j]
        BY <2>3, <3>2
      <4>2. \A w \in Workers : inFlight'[w] = j <=> inFlight[w] = j
        BY <2>2, <3>2 DEF NoJob, Jobs
      <4>. QED
        BY <4>1, <4>2 DEF RunningHeld
    <3>. QED
      BY <3>1, <3>2
  <2>9. RunningHeld'
    BY <2>8 DEF RunningHeld
  <2>. QED
    BY <2>6, <2>7, <2>9
<1>8. ASSUME NEW l \in Lanes, DrainIdle(l) \/ DrainTimeout(l) \/ ShutQueue(l)
      PROVE  Goal
  BY <1>1, <1>8 DEF DrainIdle, DrainTimeout, ShutQueue
<1>9. CASE Operator \/ EnterServing \/ CloseTheGate \/ StopListening \/ ShutGate
  BY <1>1, <1>9 DEF Operator, Freeze, Unfreeze, EnterServing, CloseTheGate,
     StopListening, ShutGate
<1>10. CASE UNCHANGED vars
  BY <1>1, <1>10, StutterIsIdle DEF Idle
<1>. QED
  BY <1>2, <1>3, <1>4, <1>5, <1>6, <1>7, <1>8, <1>9, <1>10
     DEF Next, Lifecycle, Shutdown, Consumer

(* Once drained, always empty-handed until the next start.                    *)
LEMMA DrainStep == IInv /\ [Next]_vars => DrainHonest'
<1> SUFFICES ASSUME IInv, [Next]_vars, NEW l \in Lanes, drained'[l]
             PROVE  /\ items'[l] = <<>> /\ leftBehind'[l] = 0
                    /\ \A w \in Workers : LaneOf[w] = l => inFlight'[w] = NoJob
  BY DEF DrainHonest, Busy
<1> DEFINE Goal == /\ items'[l] = <<>> /\ leftBehind'[l] = 0
                   /\ \A w \in Workers : LaneOf[w] = l => inFlight'[w] = NoJob
           Settled == /\ items[l] = <<>> /\ leftBehind[l] = 0
                      /\ \A w \in Workers : LaneOf[w] = l => inFlight[w] = NoJob
<1> USE DEF intakeVars, queueVars, laneVars, workVars, bookVars, jobVars
<1>. /\ items \in [Lanes -> Seq(Jobs)] /\ leftBehind \in [Lanes -> Nat]
     /\ drained \in [Lanes -> BOOLEAN] /\ stage \in [Lanes -> Stages]
     /\ inFlight \in [Workers -> Jobs \cup {NoJob}]
  BY DEF IInv, TypeOK, LifeTypeOK, QueueTypeOK, WorkTypeOK
<1>0. drained[l] => Settled /\ stage[l] \in {"settled", "closed", "down"}
  BY DEF IInv, DrainHonest, CountShape, Busy
<1>1. CASE UNCHANGED <<items, leftBehind, drained, inFlight>>
  BY <1>0, <1>1
<1>2. CASE Client
  <2>1. PICK wish \in Lanes \cup {AutoLane}, b \in Batches : Submit(wish, b)
    BY <1>2 DEF Client
  <2>2. stage[l] = "up" /\ drained[l]
    BY <2>1, NewJob DEF Submit
  <2>. QED
    BY <1>0, <2>2
<1>3. ASSUME NEW w \in Workers, Consumer(w)  PROVE Goal
  <2>1. UNCHANGED <<leftBehind, drained>> /\ Settled
    BY <1>0, <1>3 DEF Consumer, Take, RejectRow, PostRow, HitFrozen
  <2>2. LaneOf[w] # l
    BY <1>3, <2>1 DEF Consumer, Take, RejectRow, PostRow, HitFrozen, Working, Busy
  <2>3. items'[l] = items[l]
    BY <1>3, <2>2 DEF Consumer, Take, RejectRow, PostRow, HitFrozen, Requeue, Put
  <2>4. \A v \in Workers : v # w => inFlight'[v] = inFlight[v]
    BY <1>3 DEF Consumer, Take, RejectRow, PostRow, HitFrozen, NextRow, Release
  <2>. QED
    BY <2>1, <2>2, <2>3, <2>4
<1>4. CASE Start \/ FailStart
  BY <1>4 DEF Start, FailStart, FreshRun
<1>5. ASSUME NEW m \in Lanes, DrainIdle(m) \/ DrainTimeout(m)  PROVE Goal
  <2>1. UNCHANGED <<items, leftBehind, inFlight>>
    BY <1>5 DEF DrainIdle, DrainTimeout
  <2>2. CASE drained[l]
    BY <1>0, <2>1, <2>2
  <2>3. CASE ~drained[l]
    <3>1. DrainIdle(l)
      BY <1>5, <2>3 DEF DrainIdle, DrainTimeout
    <3>2. leftBehind[l] = 0
      BY <3>1 DEF DrainIdle, IInv, CountShape
    <3>3. \A w \in Workers : LaneOf[w] = l => inFlight[w] = NoJob
      BY <3>1 DEF DrainIdle, LaneIdle, InFlight, Busy
    <3>. QED
      BY <2>1, <3>1, <3>2, <3>3 DEF DrainIdle, LaneIdle
  <2>. QED
    BY <2>2, <2>3
<1>6. ASSUME NEW m \in Lanes, CloseLane(m)  PROVE Goal
  <2>1. UNCHANGED <<items, leftBehind, drained>> /\ Settled
    BY <1>0, <1>6 DEF CloseLane
  <2>2. \A w \in Workers : inFlight'[w] \in {NoJob, inFlight[w]}
    BY <1>6 DEF CloseLane
  <2>. QED
    BY <2>1, <2>2
<1>7. ASSUME NEW m \in Lanes, ShutQueue(m)  PROVE Goal
  <2>1. UNCHANGED <<items, drained, inFlight>> /\ Settled
    BY <1>0, <1>7 DEF ShutQueue
  <2>2. leftBehind'[l] \in {leftBehind[l], Len(items[l])}
    BY <1>7 DEF ShutQueue
  <2>. QED
    BY <2>1, <2>2, EmptyQueue
<1>8. CASE \/ Operator \/ EnterServing \/ CloseTheGate \/ StopListening \/ ShutGate
  BY <1>1, <1>8 DEF Operator, Freeze, Unfreeze, EnterServing, CloseTheGate,
     StopListening, ShutGate
<1>9. CASE UNCHANGED vars
  BY <1>1, <1>9, StutterIsIdle DEF Idle
<1>. QED
  BY <1>2, <1>3, <1>4, <1>5, <1>6, <1>7, <1>8, <1>9
     DEF Next, Lifecycle, Shutdown

(* What waits has an attempt left.                                            *)
LEMMA AttemptsStep == IInv /\ [Next]_vars => AttemptsBounded'
<1> SUFFICES ASSUME IInv, [Next]_vars
             PROVE  /\ \A j \in Jobs : attempts'[j] <= MostAttempts
                    /\ \A l \in Lanes : \A j \in Queued(l)' : attempts'[j] < MostAttempts
  BY DEF AttemptsBounded, QueuedJobs, MostAttempts
<1> DEFINE Goal == /\ \A j \in Jobs : attempts'[j] <= MostAttempts
                   /\ \A l \in Lanes : \A j \in Queued(l)' : attempts'[j] < MostAttempts
<1> USE DEF intakeVars, queueVars, laneVars, workVars, bookVars, jobVars
<1>. /\ \A j \in Jobs : attempts[j] <= MostAttempts
     /\ \A l \in Lanes : \A j \in Queued(l) : attempts[j] < MostAttempts
     /\ attempts \in [Jobs -> Nat]
  BY DEF IInv, TypeOK, JobTypeOK, AttemptsBounded, QueuedJobs
<1>. MostAttempts \in Nat /\ MostAttempts >= 1 /\ MostAttempts >= MaxAttempts
  BY ConstantsAssumption DEF MostAttempts
<1>1. CASE UNCHANGED <<items, attempts>>
  BY <1>1 DEF Queued
<1>2. CASE Client
  <2>1. PICK wish \in Lanes \cup {AutoLane}, b \in Batches : Submit(wish, b)
    BY <1>2 DEF Client
  <2> DEFINE j == opened + 1
             l == ChooseLane(wish, b)
  <2>2. /\ j \in Jobs /\ l \in Lanes /\ attempts[j] = 0
        /\ \A m \in Lanes : j \notin Queued(m)
    BY <2>1, NewJob
  <2>3. attempts' = attempts /\ (Put(l, j) \/ UNCHANGED items)
    BY <2>1 DEF Submit
  <2> HIDE DEF j, l
  <2>4. \A m \in Lanes : \A k \in Queued(m)' : k \in Queued(m) \/ k = j
    <3>1. CASE Put(l, j)
      BY <2>2, <3>1, PutPlaces
    <3>2. CASE UNCHANGED items
      BY <3>2 DEF Queued
    <3>. QED
      BY <2>3, <3>1, <3>2
  <2>. QED
    BY <2>2, <2>3, <2>4
<1>3. ASSUME NEW w \in Workers, Take(w)  PROVE Goal
  <2> DEFINE j == Head(items[LaneOf[w]])
  <2>1. /\ j \in Jobs /\ attempts[j] < MostAttempts
        /\ \A m \in Lanes : Queued(m)' = Queued(m) \ {j}
    BY <1>3, TakenJob
  <2>2. attempts' = [attempts EXCEPT ![j] = @ + 1]
    BY <1>3 DEF Take
  <2> HIDE DEF j
  <2>3. attempts'[j] = attempts[j] + 1 /\ \A k : k # j => attempts'[k] = attempts[k]
    BY <2>1, <2>2
  <2>. QED
    BY <2>1, <2>3
<1>4. ASSUME NEW w \in Workers, RejectRow(w) \/ PostRow(w)  PROVE Goal
  BY <1>1, <1>4 DEF RejectRow, PostRow
<1>5. ASSUME NEW w \in Workers, HitFrozen(w)  PROVE Goal
  <2> DEFINE j == inFlight[w]
             l == LaneOf[w]
  <2>1. j \in Jobs /\ l \in Lanes /\ \A m \in Lanes : j \notin Queued(m)
    BY <1>5, HeldJob DEF HitFrozen, Working
  <2>2. /\ attempts' = attempts
        /\ UNCHANGED items \/ (Put(l, j) /\ attempts[j] < MaxAttempts)
    BY <1>5 DEF HitFrozen, Requeue
  <2> HIDE DEF j, l
  <2>3. CASE Put(l, j) /\ attempts[j] < MaxAttempts
    <3>1. \A m \in Lanes : \A k \in Queued(m)' : k \in Queued(m) \/ k = j
      BY <2>1, <2>3, PutPlaces
    <3>2. attempts[j] < MostAttempts
      BY <2>1, <2>3, ConstantsAssumption
    <3>. QED
      BY <2>2, <3>1, <3>2
  <2>. QED
    BY <1>1, <2>2, <2>3
<1>6. CASE Start \/ FailStart
  <2>1. attempts' = attempts /\ \A l \in Lanes : items'[l] = <<>>
    BY <1>6 DEF Start, FailStart, FreshRun
  <2>. QED
    BY <2>1, EmptyQueue DEF Queued
<1>7. ASSUME NEW l \in Lanes,
             DrainIdle(l) \/ DrainTimeout(l) \/ CloseLane(l) \/ ShutQueue(l)
      PROVE  Goal
  BY <1>1, <1>7 DEF DrainIdle, DrainTimeout, CloseLane, ShutQueue
<1>8. CASE Operator \/ EnterServing \/ CloseTheGate \/ StopListening \/ ShutGate
  BY <1>1, <1>8 DEF Operator, Freeze, Unfreeze, EnterServing, CloseTheGate,
     StopListening, ShutGate
<1>9. CASE UNCHANGED vars
  BY <1>1, <1>9, StutterIsIdle DEF Idle
<1>. QED
  BY <1>2, <1>3, <1>4, <1>5, <1>6, <1>7, <1>8, <1>9
     DEF Next, Lifecycle, Shutdown, Consumer

-----------------------------------------------------------------------------
LEMMA InvariantStep == IInv /\ [Next]_vars => IInv'
BY TypeStep, LifecycleStep, ConsumerStep, BookStep, CountStep, PlaceStep, DrainStep,
   AttemptsStep DEF IInv

(* The strengthening behind every result below: it holds in every state of the
   pipeline, whatever the number of consumers, jobs, rows and attempts.       *)
THEOREM InvariantHolds == Spec => []IInv
BY InitInvariant, InvariantStep, PTL DEF Spec

(* A job is never queued twice, never queued and held, never held by two
   consumers of WorkerPool, and "running" in the book says who holds it.      *)
THEOREM OnePlaceHolds == Spec => []OnePlace
<1>1. IInv => OnePlace
  BY DEF IInv
<1>. QED
  BY InvariantHolds, <1>1, PTL

(* A lane that WorkerPool.drain reported as drained stays empty until the next
   start: nothing in it is abandoned or left behind.                          *)
THEOREM DrainHonestHolds == Spec => []DrainHonest
<1>1. IInv => DrainHonest
  BY DEF IInv
<1>. QED
  BY InvariantHolds, <1>1, PTL

(* Retries against a frozen account never exceed max_attempts.                *)
THEOREM AttemptsBoundedHolds == Spec => []AttemptsBounded
<1>1. IInv => AttemptsBounded
  BY DEF IInv
<1>. QED
  BY InvariantHolds, <1>1, PTL

(* JobQueue.left_behind counts what is still queued once the queue is shut, and
   a process that is down holds no job.                                       *)
THEOREM LeftBehindExactHolds == Spec => []LeftBehindExact
<1>1. ASSUME IInv  PROVE LeftBehindExact
  <2>1. \A l \in Lanes : stage[l] = "down" => leftBehind[l] = Len(items[l])
    BY <1>1 DEF IInv, CountShape
  <2>2. phase = "idle" => HeldJobs = {} /\ \A j \in Jobs : state[j] # "running"
    BY <1>1, NobodyBusyWhenDown DEF HeldJobs
  <2>. QED
    BY <2>1, <2>2 DEF LeftBehindExact
<1>. QED
  BY InvariantHolds, <1>1, PTL

-----------------------------------------------------------------------------
LEMMA QueuedJobsMember ==
  \A j : j \in QueuedJobs <=> \E l \in Lanes : j \in Queued(l)
BY DEF QueuedJobs

LEMMA OnlyDrainsStep ==
  IInv /\ [Next]_vars => [~accepting => QueuedJobs' \subseteq QueuedJobs]_vars
<1> SUFFICES ASSUME IInv, Next, ~accepting  PROVE QueuedJobs' \subseteq QueuedJobs
  OBVIOUS
<1> DEFINE Goal == QueuedJobs' \subseteq QueuedJobs
<1> USE DEF intakeVars, queueVars, laneVars, workVars, bookVars, jobVars
<1>1. CASE UNCHANGED items
  BY <1>1 DEF QueuedJobs, Queued
<1>2. \A l \in Lanes : closed[l]
  BY DEF IInv, TypeOK, LifeTypeOK, Phases, LifecycleShape
<1>3. ~Client
  BY DEF Client, Submit
<1>4. ASSUME NEW w \in Workers, Take(w)  PROVE Goal
  <2>1. \A m \in Lanes : Queued(m)' \subseteq Queued(m)
    BY <1>4, TakenJob
  <2>. QED
    BY <2>1 DEF QueuedJobs
<1>5. ASSUME NEW w \in Workers, RejectRow(w) \/ PostRow(w) \/ HitFrozen(w)
      PROVE  Goal
  <2>1. LaneOf[w] \in Lanes
    BY <1>5, HeldJob DEF RejectRow, PostRow, HitFrozen, Working
  <2>2. UNCHANGED items
    BY <1>2, <1>5, <2>1 DEF RejectRow, PostRow, HitFrozen, Requeue, CanPut
  <2>. QED
    BY <1>1, <2>2
<1>6. CASE Start \/ FailStart
  <2>1. \A l \in Lanes : items'[l] = <<>>
    BY <1>6 DEF Start, FailStart, FreshRun
  <2>. QED
    BY <2>1, EmptyQueue DEF QueuedJobs, Queued
<1>7. ASSUME NEW l \in Lanes,
             DrainIdle(l) \/ DrainTimeout(l) \/ CloseLane(l) \/ ShutQueue(l)
      PROVE  Goal
  BY <1>1, <1>7 DEF DrainIdle, DrainTimeout, CloseLane, ShutQueue
<1>8. CASE Operator \/ EnterServing \/ CloseTheGate \/ StopListening \/ ShutGate
  BY <1>1, <1>8 DEF Operator, Freeze, Unfreeze, EnterServing, CloseTheGate,
     StopListening, ShutGate
<1>. QED
  BY <1>3, <1>4, <1>5, <1>6, <1>7, <1>8 DEF Next, Lifecycle, Shutdown, Consumer

(* Once the root's @quiesce hook has closed the gate, no client and no requeue
   puts a job on a queue.                                                     *)
THEOREM OnlyDrainsWhenClosed == Spec => ClosedGateOnlyDrains
BY InvariantHolds, OnlyDrainsStep, PTL DEF Spec, ClosedGateOnlyDrains

-----------------------------------------------------------------------------
SettledStays(j) == /\ state'[j] = state[j] /\ attempts'[j] = attempts[j]
                   /\ postings'[j] = postings[j] /\ posted'[j] = posted[j]

LEMMA VerdictStep ==
  IInv /\ [Next]_vars =>
    [\A j \in Jobs : state[j] \in Terminal => SettledStays(j)]_vars
<1> SUFFICES ASSUME IInv, Next, NEW j \in Jobs, state[j] \in Terminal
             PROVE  SettledStays(j)
  OBVIOUS
<1> USE DEF intakeVars, queueVars, laneVars, workVars, bookVars, jobVars
<1>. /\ state \in [Jobs -> States] /\ attempts \in [Jobs -> Nat]
     /\ posted \in [Jobs -> Nat] /\ postings \in [Jobs -> [RowIndex -> Nat]]
  BY DEF IInv, TypeOK, JobTypeOK, LedgerTypeOK
<1>0. state[j] \notin {"none", "queued", "running"}
  BY DEF Terminal
<1>1. CASE UNCHANGED <<state, attempts, postings, posted>>
  BY <1>1 DEF SettledStays
<1>2. CASE Client
  <2>1. PICK wish \in Lanes \cup {AutoLane}, b \in Batches : Submit(wish, b)
    BY <1>2 DEF Client
  <2>2. state[opened + 1] = "none"
    BY <2>1, NewJob
  <2>. QED
    BY <1>0, <2>1, <2>2 DEF Submit, SettledStays
<1>3. ASSUME NEW w \in Workers, Take(w)  PROVE SettledStays(j)
  <2>1. j # Head(items[LaneOf[w]])
    BY <1>0, <1>3, TakenJob
  <2>. QED
    <3>1. postings' = postings /\ state'[j] = state[j]
      BY <1>3, <2>1 DEF Take
    <3>2. attempts'[j] = attempts[j] /\ posted'[j] = posted[j]
      BY <1>3, <2>1 DEF Take
    <3>. QED
      BY <3>1, <3>2 DEF SettledStays
<1>4. ASSUME NEW w \in Workers, RejectRow(w) \/ PostRow(w) \/ HitFrozen(w)
      PROVE  SettledStays(j)
  <2>1. j # inFlight[w]
    BY <1>0, <1>4, HeldJob DEF RejectRow, PostRow, HitFrozen, Working
  <2>2. state'[j] = state[j]
    BY <1>4, <2>1 DEF RejectRow, PostRow, HitFrozen, NextRow, Requeue
  <2>3. postings'[j] = postings[j] /\ posted'[j] = posted[j] /\ attempts' = attempts
    <3>1. attempts' = attempts /\ posted'[j] = posted[j]
      BY <1>4, <2>1 DEF RejectRow, PostRow, HitFrozen
    <3>2. CASE PostRow(w)
      BY <2>1, <3>2 DEF PostRow
    <3>3. CASE ~PostRow(w)
      BY <1>4, <3>3 DEF RejectRow, HitFrozen
    <3>. QED
      BY <3>1, <3>2, <3>3
  <2>. QED
    BY <2>2, <2>3 DEF SettledStays
<1>5. ASSUME NEW l \in Lanes, CloseLane(l)  PROVE SettledStays(j)
  <2>1. \A w \in InFlight(l) : inFlight[w] # j
    BY <1>0, HeldJob DEF InFlight
  <2>. QED
    BY <1>5, <2>1 DEF CloseLane, SettledStays
<1>6. ASSUME NEW l \in Lanes, DrainIdle(l) \/ DrainTimeout(l) \/ ShutQueue(l)
      PROVE  SettledStays(j)
  BY <1>1, <1>6 DEF DrainIdle, DrainTimeout, ShutQueue
<1>7. CASE \/ Operator \/ Start \/ FailStart \/ EnterServing \/ CloseTheGate
           \/ StopListening \/ ShutGate
  BY <1>1, <1>7 DEF Operator, Freeze, Unfreeze, Start, FailStart, EnterServing,
     CloseTheGate, StopListening, ShutGate
<1>. QED
  BY <1>2, <1>3, <1>4, <1>5, <1>6, <1>7 DEF Next, Lifecycle, Shutdown, Consumer

(* A job with a verdict is never touched again, by retry, stop or restart.    *)
THEOREM VerdictsAreFinal == Spec => VerdictIsFinal
<1>1. IInv /\ [Next]_vars =>
        [\A j \in Jobs : state[j] \in Terminal =>
           /\ state'[j] = state[j] /\ attempts'[j] = attempts[j]
           /\ postings'[j] = postings[j] /\ posted'[j] = posted[j]]_vars
  BY VerdictStep DEF SettledStays
<1>. QED
  BY InvariantHolds, <1>1, PTL DEF Spec, VerdictIsFinal

-----------------------------------------------------------------------------
(* The ledger.  PostedAtLeastOnce speaks of finished batches; LedgerShape says
   how far the batch in a consumer's hand has come.                           *)
Ledger == PostedAtLeastOnce /\ LedgerShape

LEMMA LedgerInit == Init => Ledger
<1> SUFFICES ASSUME Init PROVE Ledger
  OBVIOUS
<1>1. \A j \in Jobs : Len(rows[j]) = 0 /\ state[j] # "done"
  BY EmptySeq DEF Init
<1>2. \A j \in Jobs : \A i \in RowIndex : postings[j][i] = 0 /\ attempts[j] = 0
  BY DEF Init
<1>3. \A w \in Workers : ~Busy(w)
  BY DEF Init, Busy
<1>4. PostedAtLeastOnce
  BY <1>1 DEF PostedAtLeastOnce
<1>. QED
  BY <1>2, <1>3, <1>4 DEF Ledger, LedgerShape

(* Every row of a job has a place in Ledger.postings.                         *)
LEMMA RowsInLedger ==
  ASSUME TypeOK, NEW j \in Jobs
  PROVE  /\ Len(rows[j]) \in Nat /\ 1..Len(rows[j]) \subseteq RowIndex
         /\ attempts[j] \in Nat
         /\ postings[j] \in [RowIndex -> Nat]
<1>1. Len(rows[j]) \in 0..MaxRows
  BY RowsLength DEF TypeOK
<1>. QED
  BY <1>1, ConstantsAssumption DEF RowIndex, TypeOK, JobTypeOK, LedgerTypeOK

(* What posting or refusing one row does to the batch in hand.                *)
LEMMA RowStep ==
  ASSUME IInv, NEW w \in Workers, RejectRow(w) \/ PostRow(w)
  PROVE  LET j == inFlight[w]
             c == cursor[w]
         IN /\ UNCHANGED <<attempts, rows, lane>>
            /\ \A k \in Jobs : k # j => /\ postings'[k] = postings[k]
                                        /\ state'[k] = state[k]
            /\ \A i \in RowIndex : i # c => postings'[j][i] = postings[j][i]
            /\ IF rows[j][c] = BadRow THEN postings'[j][c] = postings[j][c]
                                      ELSE postings'[j][c] = postings[j][c] + 1
            /\ \A v \in Workers : v # w => /\ inFlight'[v] = inFlight[v]
                                           /\ cursor'[v] = cursor[v]
            /\ \/ /\ c < Len(rows[j]) /\ UNCHANGED <<state, inFlight, done>>
                  /\ cursor'[w] = c + 1
               \/ /\ c = Len(rows[j]) /\ state'[j] = "done"
                  /\ inFlight'[w] = NoJob /\ CountDone(w)
<1> USE DEF intakeVars, queueVars, laneVars, workVars, bookVars, jobVars
<1> DEFINE j == inFlight[w]
           c == cursor[w]
<1>. Busy(w)
  BY DEF RejectRow, PostRow, Working
<1>1. j \in Jobs /\ c \in 1..Len(rows[j]) /\ NextRow(w)
  BY HeldJob DEF RejectRow, PostRow
<1>2. /\ Len(rows[j]) \in Nat /\ c \in RowIndex /\ postings[j] \in [RowIndex -> Nat]
  BY <1>1, RowsInLedger DEF IInv
<1>. /\ state \in [Jobs -> States] /\ postings \in [Jobs -> [RowIndex -> Nat]]
     /\ inFlight \in [Workers -> Jobs \cup {NoJob}]
     /\ cursor \in [Workers -> RowIndex \cup {0}]
  BY DEF IInv, TypeOK, JobTypeOK, LedgerTypeOK, WorkTypeOK
<1>3. UNCHANGED <<attempts, rows, lane>>
  BY DEF RejectRow, PostRow
<1>4. CASE RejectRow(w)
  <2>1. postings' = postings /\ rows[j][c] = BadRow
    BY <1>4 DEF RejectRow, Row
  <2>. QED
    <3> HIDE DEF j, c
    <3>1. /\ \A k \in Jobs : k # j => state'[k] = state[k]
          /\ \A v \in Workers : v # w => inFlight'[v] = inFlight[v] /\ cursor'[v] = cursor[v]
      BY <1>1 DEF NextRow, Release, j, c
    <3>2. \/ /\ c < Len(rows[j]) /\ UNCHANGED <<state, inFlight, done>>
             /\ cursor'[w] = c + 1
          \/ /\ c = Len(rows[j]) /\ state'[j] = "done"
             /\ inFlight'[w] = NoJob /\ CountDone(w)
      BY <1>1, <1>2 DEF NextRow, Release, j, c
    <3>. QED
      BY <1>3, <2>1, <3>1, <3>2 DEF j, c
<1>5. CASE PostRow(w)
  <2>1. rows[j][c] # BadRow
    BY <1>5 DEF PostRow, Row
  <2>2. postings' = [postings EXCEPT ![j] = [postings[j] EXCEPT ![c] = @ + 1]]
    BY <1>5 DEF PostRow
  <2> HIDE DEF j, c
  <2>3. /\ \A k \in Jobs : k # j => postings'[k] = postings[k]
        /\ postings'[j] = [postings[j] EXCEPT ![c] = @ + 1]
    BY <1>1, <2>2
  <2>4. /\ \A i \in RowIndex : i # c => postings'[j][i] = postings[j][i]
        /\ postings'[j][c] = postings[j][c] + 1
    BY <1>2, <2>3
  <2>5. /\ \A k \in Jobs : k # j => state'[k] = state[k]
        /\ \A v \in Workers : v # w => inFlight'[v] = inFlight[v] /\ cursor'[v] = cursor[v]
    BY <1>1 DEF NextRow, Release, j, c
  <2>6. \/ /\ c < Len(rows[j]) /\ UNCHANGED <<state, inFlight, done>>
           /\ cursor'[w] = c + 1
        \/ /\ c = Len(rows[j]) /\ state'[j] = "done"
           /\ inFlight'[w] = NoJob /\ CountDone(w)
    BY <1>1, <1>2 DEF NextRow, Release, j, c
  <2>. QED
    BY <1>3, <2>1, <2>3, <2>4, <2>5, <2>6 DEF j, c
<1>. QED
  BY <1>4, <1>5

(* One row at a time: a batch posts what it passes, a row it cannot post is
   passed without, and nothing is posted twice in one attempt.                *)
LEMMA LedgerStep == IInv /\ Ledger /\ [Next]_vars => Ledger'
<1> SUFFICES ASSUME IInv, Ledger, [Next]_vars PROVE Ledger'
  OBVIOUS
<1> USE DEF intakeVars, queueVars, laneVars, workVars, bookVars, jobVars
<1> DEFINE Bounded == \A j \in Jobs : \A i \in RowIndex : postings'[j][i] <= attempts'[j]
           Booked == \A j \in Jobs : \A i \in 1..Len(rows'[j]) :
                       /\ postings'[j][i] <= attempts'[j]
                       /\ rows'[j][i] = BadRow => postings'[j][i] = 0
                       /\ state'[j] = "done" /\ rows'[j][i] # BadRow => postings'[j][i] >= 1
           Hand(v, j) == \A i \in 1..Len(rows'[j]) :
                           /\ i < cursor'[v] => rows'[j][i] = BadRow \/ postings'[j][i] >= 1
                           /\ i >= cursor'[v] => postings'[j][i] < attempts'[j]
           InHand == \A v \in Workers : inFlight'[v] # NoJob => Hand(v, inFlight'[v])
<1>0. ASSUME Bounded, Booked, InHand  PROVE Ledger'
  BY <1>0 DEF Ledger, PostedAtLeastOnce, LedgerShape, Busy
<1>. /\ \A j \in Jobs : \A i \in RowIndex : postings[j][i] <= attempts[j]
     /\ \A j \in Jobs : \A i \in 1..Len(rows[j]) :
          /\ rows[j][i] = BadRow => postings[j][i] = 0
          /\ state[j] = "done" /\ rows[j][i] # BadRow => postings[j][i] >= 1
     /\ \A v \in Workers : inFlight[v] # NoJob =>
          \A i \in 1..Len(rows[inFlight[v]]) :
            /\ i < cursor[v] => \/ rows[inFlight[v]][i] = BadRow
                                \/ postings[inFlight[v]][i] >= 1
            /\ i >= cursor[v] => postings[inFlight[v]][i] < attempts[inFlight[v]]
  BY DEF Ledger, PostedAtLeastOnce, LedgerShape, Busy
<1>. \A j \in Jobs : /\ Len(rows[j]) \in Nat /\ 1..Len(rows[j]) \subseteq RowIndex
                     /\ attempts[j] \in Nat
                     /\ \A i \in RowIndex : postings[j][i] \in Nat
  BY RowsInLedger DEF IInv
<1>. /\ state \in [Jobs -> States] /\ attempts \in [Jobs -> Nat]
     /\ rows \in [Jobs -> Batches \cup {<<>>}]
     /\ inFlight \in [Workers -> Jobs \cup {NoJob}]
     /\ cursor \in [Workers -> RowIndex \cup {0}]
  BY DEF IInv, TypeOK, JobTypeOK, BookTypeOK, WorkTypeOK
<1>1. ASSUME UNCHANGED <<postings, attempts, rows>>,
             \A j \in Jobs : state'[j] = "done" => state[j] = "done",
             \A v \in Workers : inFlight'[v] # NoJob =>
               inFlight'[v] = inFlight[v] /\ cursor'[v] = cursor[v]
      PROVE  Ledger'
  <2>1. Bounded
    BY <1>1
  <2>2. Booked
    BY <1>1
  <2>3. InHand
    BY <1>1
  <2>. QED
    BY <1>0, <2>1, <2>2, <2>3
<1>2. CASE Client
  <2>1. PICK wish \in Lanes \cup {AutoLane}, b \in Batches : Submit(wish, b)
    BY <1>2 DEF Client
  <2> DEFINE j == opened + 1
  <2>2. /\ j \in Jobs /\ attempts[j] = 0 /\ \A w \in Workers : inFlight[w] # j
    BY <2>1, NewJob
  <2>3. /\ UNCHANGED <<postings, attempts, inFlight, cursor>>
        /\ rows' = [rows EXCEPT ![j] = b] /\ state' = [state EXCEPT ![j] = "queued"]
    BY <2>1 DEF Submit
  <2> HIDE DEF j
  <2>4. /\ rows'[j] = b /\ state'[j] = "queued"
        /\ \A k \in Jobs : k # j => rows'[k] = rows[k] /\ state'[k] = state[k]
    BY <2>2, <2>3
  <2>5. 1..Len(b) \subseteq RowIndex
    BY ConstantsAssumption, LenProperties DEF RowIndex
  <2>6. \A i \in RowIndex : postings'[j][i] = 0
    BY <2>2, <2>3
  <2>7. Bounded
    BY <2>3
  <2>8. Booked
    BY <2>2, <2>3, <2>4, <2>5, <2>6
  <2>9. InHand
    <3> SUFFICES ASSUME NEW v \in Workers, inFlight'[v] # NoJob
                 PROVE  Hand(v, inFlight'[v])
      OBVIOUS
    <3>1. inFlight'[v] = inFlight[v] /\ inFlight[v] \in Jobs /\ inFlight[v] # j
      BY <2>2, <2>3
    <3>2. rows'[inFlight[v]] = rows[inFlight[v]]
      BY <2>4, <3>1
    <3>. QED
      BY <2>3, <3>1, <3>2
  <2>. QED
    BY <1>0, <2>7, <2>8, <2>9
<1>3. ASSUME NEW w \in Workers, Take(w)  PROVE Ledger'
  <2> DEFINE j == Head(items[LaneOf[w]])
  <2>1. j \in Jobs /\ \A v \in Workers : inFlight[v] # j
    BY <1>3, TakenJob
  <2>2. /\ UNCHANGED <<postings, rows>> /\ attempts' = [attempts EXCEPT ![j] = @ + 1]
        /\ \A k \in Jobs : k # j => state'[k] = state[k]
        /\ \A v \in Workers : v # w => inFlight'[v] = inFlight[v] /\ cursor'[v] = cursor[v]
        /\ \/ rows[j] = << >> /\ inFlight' = inFlight /\ cursor' = cursor
           \/ state'[j] = "running" /\ inFlight'[w] = j /\ cursor'[w] = 1
    BY <1>3, <2>1 DEF Take
  <2> HIDE DEF j
  <2>3. attempts'[j] = attempts[j] + 1 /\ \A k \in Jobs : k # j => attempts'[k] = attempts[k]
    BY <2>1, <2>2
  <2>4. Bounded
    BY <2>1, <2>2, <2>3
  <2>5. rows[j] = << >> => Len(rows[j]) = 0
    BY EmptySeq
  <2>6. Booked
    <3> SUFFICES ASSUME NEW k \in Jobs, NEW i \in 1..Len(rows'[k])
                 PROVE  /\ postings'[k][i] <= attempts'[k]
                        /\ rows'[k][i] = BadRow => postings'[k][i] = 0
                        /\ state'[k] = "done" /\ rows'[k][i] # BadRow => postings'[k][i] >= 1
      OBVIOUS
    <3>1. i \in RowIndex /\ i \in 1..Len(rows[k])
      BY <2>2
    <3>2. CASE k # j
      BY <2>2, <2>4, <3>1, <3>2
    <3>3. CASE k = j
      <4>1. state'[j] = "running"
        BY <2>2, <2>5, <3>1, <3>3
      <4>. QED
        BY <2>2, <2>4, <3>1, <3>3, <4>1
    <3>. QED
      BY <3>2, <3>3
  <2>7. InHand
    <3> SUFFICES ASSUME NEW v \in Workers, inFlight'[v] # NoJob
                 PROVE  Hand(v, inFlight'[v])
      OBVIOUS
    <3>1. CASE inFlight'[v] = inFlight[v] /\ cursor'[v] = cursor[v]
      <4>1. inFlight[v] \in Jobs /\ inFlight[v] # j
        BY <2>1, <3>1
      <4>. QED
        BY <2>2, <2>3, <3>1, <4>1
    <3>2. CASE inFlight'[v] = j /\ cursor'[v] = 1
      <4>1. ASSUME NEW i \in 1..Len(rows[j])
            PROVE  i >= 1 /\ postings[j][i] < attempts'[j]
        <5>1. i \in RowIndex /\ Len(rows[j]) \in Nat /\ attempts[j] \in Nat
          BY <2>1
        <5>2. postings[j][i] \in Nat /\ postings[j][i] <= attempts[j]
          BY <2>1, <5>1
        <5>. QED
          BY <2>3, <5>1, <5>2
      <4>. QED
        BY <2>2, <3>2, <4>1
    <3>. QED
      BY <2>2, <3>1, <3>2
  <2>. QED
    BY <1>0, <2>4, <2>6, <2>7
<1>4. ASSUME NEW w \in Workers, RejectRow(w) \/ PostRow(w)  PROVE Ledger'
  <2> DEFINE j == inFlight[w]
             c == cursor[w]
  <2>1. /\ j \in Jobs /\ c \in 1..Len(rows[j]) /\ j # NoJob
        /\ \A v \in Workers : inFlight[v] = j => v = w
    BY <1>4, HeldJob DEF RejectRow, PostRow, Working, Busy
  <2>2. /\ UNCHANGED <<attempts, rows>>
        /\ \A k \in Jobs : k # j => postings'[k] = postings[k] /\ state'[k] = state[k]
        /\ \A i \in RowIndex : i # c => postings'[j][i] = postings[j][i]
        /\ IF rows[j][c] = BadRow THEN postings'[j][c] = postings[j][c]
                                  ELSE postings'[j][c] = postings[j][c] + 1
        /\ \A v \in Workers : v # w => inFlight'[v] = inFlight[v] /\ cursor'[v] = cursor[v]
        /\ \/ c < Len(rows[j]) /\ UNCHANGED <<state, inFlight>> /\ cursor'[w] = c + 1
           \/ c = Len(rows[j]) /\ inFlight'[w] = NoJob
    BY <1>4, RowStep
  <2>3. \A i \in 1..Len(rows[j]) :
          /\ i < c => rows[j][i] = BadRow \/ postings[j][i] >= 1
          /\ i >= c => postings[j][i] < attempts[j]
    BY <2>1
  <2>4. c < Len(rows[j]) => state'[j] # "done"
    <3>1. state[j] = "running"
      BY <1>4, HeldJob DEF RejectRow, PostRow, Working
    <3>. QED
      BY <2>2, <3>1
  <2> HIDE DEF j, c
  <2>5. \A i \in RowIndex : postings'[j][i] \in Nat /\ postings'[j][i] <= attempts[j]
    <3>1. c \in RowIndex /\ postings[j][c] \in Nat /\ attempts[j] \in Nat
      BY <2>1
    <3>2. postings[j][c] < attempts[j]
      BY <2>1, <2>3, <3>1
    <3>3. postings'[j][c] \in {postings[j][c], postings[j][c] + 1}
      BY <2>2
    <3>4. postings'[j][c] \in Nat /\ postings'[j][c] <= attempts[j]
      BY <3>1, <3>2, <3>3
    <3>. QED
      BY <2>1, <2>2, <3>4
  <2>6. \A i \in 1..Len(rows[j]) :
          /\ rows[j][i] = BadRow => postings'[j][i] = 0
          /\ i <= c => rows[j][i] = BadRow \/ postings'[j][i] >= 1
          /\ i > c => postings'[j][i] < attempts[j]
    <3> SUFFICES ASSUME NEW i \in 1..Len(rows[j])
                 PROVE  /\ rows[j][i] = BadRow => postings'[j][i] = 0
                        /\ i <= c => rows[j][i] = BadRow \/ postings'[j][i] >= 1
                        /\ i > c => postings'[j][i] < attempts[j]
      OBVIOUS
    <3>. i \in RowIndex /\ c \in Nat /\ postings[j][i] \in Nat
      BY <2>1
    <3>1. CASE i = c
      <4>1. rows[j][c] = BadRow => postings[j][c] = 0
        BY <2>1
      <4>. QED
        BY <2>2, <3>1, <4>1
    <3>2. CASE i # c
      <4>1. postings'[j][i] = postings[j][i]
        BY <2>2, <3>2
      <4>. QED
        BY <2>1, <2>3, <3>2, <4>1
    <3>. QED
      BY <3>1, <3>2
  <2>7. Bounded
    BY <2>2, <2>5
  <2>8. Booked
    <3> SUFFICES ASSUME NEW k \in Jobs, NEW i \in 1..Len(rows'[k])
                 PROVE  /\ postings'[k][i] <= attempts'[k]
                        /\ rows'[k][i] = BadRow => postings'[k][i] = 0
                        /\ state'[k] = "done" /\ rows'[k][i] # BadRow => postings'[k][i] >= 1
      OBVIOUS
    <3>1. i \in RowIndex /\ i \in 1..Len(rows[k])
      BY <2>2
    <3>2. CASE k # j
      BY <2>2, <2>7, <3>1, <3>2
    <3>3. CASE k = j
      <4>1. state'[j] = "done" => i <= c
        BY <2>1, <2>2, <2>4, <3>1, <3>3
      <4>. QED
        BY <2>2, <2>6, <2>7, <3>1, <3>3, <4>1
    <3>. QED
      BY <3>2, <3>3
  <2>9. InHand
    <3> SUFFICES ASSUME NEW v \in Workers, inFlight'[v] # NoJob
                 PROVE  Hand(v, inFlight'[v])
      OBVIOUS
    <3>1. CASE v # w
      <4>1. inFlight'[v] = inFlight[v] /\ cursor'[v] = cursor[v]
        BY <2>2, <3>1
      <4>2. inFlight[v] \in Jobs /\ inFlight[v] # j
        BY <2>1, <3>1, <4>1
      <4>. QED
        BY <2>2, <4>1, <4>2
    <3>2. CASE v = w
      <4>1. c < Len(rows[j]) /\ inFlight'[v] = j /\ cursor'[v] = c + 1
        BY <2>2, <3>2 DEF j
      <4>2. \A i \in 1..Len(rows[j]) : (i < c + 1 <=> i <= c) /\ (i >= c + 1 <=> i > c)
        BY <2>1
      <4>. QED
        BY <2>2, <2>6, <4>1, <4>2
    <3>. QED
      BY <3>1, <3>2
  <2>. QED
    BY <1>0, <2>7, <2>8, <2>9
<1>5. ASSUME NEW w \in Workers, HitFrozen(w)  PROVE Ledger'
  <2>1. inFlight[w] \in Jobs
    BY <1>5, HeldJob DEF HitFrozen, Working
  <2>2. \A j \in Jobs : state'[j] = "done" => state[j] = "done"
    BY <1>5, <2>1 DEF HitFrozen, Requeue
  <2>3. UNCHANGED <<postings, attempts, rows>>
    BY <1>5 DEF HitFrozen
  <2>. QED
    BY <1>1, <1>5, <2>2, <2>3 DEF HitFrozen, Release
<1>6. CASE Start \/ FailStart
  BY <1>1, <1>6 DEF Start, FailStart, FreshRun
<1>7. ASSUME NEW l \in Lanes, CloseLane(l)  PROVE Ledger'
  BY <1>1, <1>7 DEF CloseLane
<1>8. ASSUME NEW l \in Lanes, DrainIdle(l) \/ DrainTimeout(l) \/ ShutQueue(l)
      PROVE  Ledger'
  BY <1>1, <1>8 DEF DrainIdle, DrainTimeout, ShutQueue
<1>9. CASE Operator \/ EnterServing \/ CloseTheGate \/ StopListening \/ ShutGate
  BY <1>1, <1>9 DEF Operator, Freeze, Unfreeze, EnterServing, CloseTheGate,
     StopListening, ShutGate
<1>10. CASE UNCHANGED vars
  BY <1>1, <1>10, StutterIsIdle DEF Idle
<1>. QED
  BY <1>2, <1>3, <1>4, <1>5, <1>6, <1>7, <1>8, <1>9, <1>10
     DEF Next, Lifecycle, Shutdown, Consumer

(* Every row a finished batch could post is in the ledger, at most once per
   attempt, and never a row that cannot be posted.                            *)
THEOREM RowsArePosted == Spec => []PostedAtLeastOnce
<1>1. Spec => []Ledger
  BY InvariantHolds, LedgerInit, LedgerStep, PTL DEF Spec
<1>2. Ledger => PostedAtLeastOnce
  BY DEF Ledger
<1>. QED
  BY <1>1, <1>2, PTL

(* The jobs of a lane that the book shows as done.                            *)
DoneIn(l) == {j \in Jobs : state[j] = "done" /\ lane[j] = l}

LEMMA DoneFinite == \A l : IsFiniteSet(DoneIn(l)) /\ Cardinality(DoneIn(l)) \in Nat
<1>1. IsFiniteSet(Jobs)
  BY FS_Interval, ConstantsAssumption DEF Jobs
<1>. QED
  BY <1>1, FS_Subset, FS_CardinalityType DEF DoneIn

(* A job that becomes done is counted once, in the lane it was booked for.    *)
LEMMA OneMoreDone ==
  ASSUME IInv, DoneAgreesWithBook, NEW w \in Workers, NEW j \in Jobs, CountDone(w),
         lane[j] = LaneOf[w], state[j] # "done", state'[j] = "done",
         \A k \in Jobs : k # j => state'[k] = state[k], UNCHANGED lane
  PROVE  DoneAgreesWithBook'
<1>. done \in [Lanes -> Nat] /\ lane[j] \in Lanes
  BY DEF IInv, TypeOK, WorkTypeOK, BookTypeOK
<1>1. ASSUME NEW l \in Lanes  PROVE done'[l] = Cardinality(DoneIn(l)')
  <2>1. done[l] = Cardinality(DoneIn(l)) /\ IsFiniteSet(DoneIn(l))
    BY DoneFinite DEF DoneAgreesWithBook, DoneIn
  <2>2. CASE l = lane[j]
    <3>1. DoneIn(l)' = DoneIn(l) \cup {j} /\ j \notin DoneIn(l)
      BY <2>2 DEF DoneIn
    <3>2. done'[l] = done[l] + 1
      BY <2>2 DEF CountDone
    <3>. QED
      BY <2>1, <3>1, <3>2, FS_AddElement
  <2>3. CASE l # lane[j]
    <3>1. DoneIn(l)' = DoneIn(l)
      BY <2>3 DEF DoneIn
    <3>2. done'[l] = done[l]
      BY <2>3 DEF CountDone
    <3>. QED
      BY <2>1, <3>1, <3>2
  <2>. QED
    BY <2>2, <2>3
<1>. QED
  BY <1>1 DEF DoneAgreesWithBook, DoneIn

LEMMA SameDone ==
  ASSUME DoneAgreesWithBook, UNCHANGED done,
         \A j \in Jobs : state'[j] = "done" <=> state[j] = "done",
         \A j \in Jobs : state[j] = "done" => lane'[j] = lane[j]
  PROVE  DoneAgreesWithBook'
<1>1. \A l \in Lanes : DoneIn(l)' = DoneIn(l)
  BY DEF DoneIn
<1>. QED
  BY <1>1 DEF DoneAgreesWithBook, DoneIn

LEMMA DoneStep == IInv /\ DoneAgreesWithBook /\ [Next]_vars => DoneAgreesWithBook'
<1> SUFFICES ASSUME IInv, DoneAgreesWithBook, [Next]_vars PROVE DoneAgreesWithBook'
  OBVIOUS
<1> USE DEF intakeVars, queueVars, laneVars, workVars, bookVars, jobVars
<1>. state \in [Jobs -> States] /\ lane \in [Jobs -> Lanes]
  BY DEF IInv, TypeOK, JobTypeOK, BookTypeOK
<1>1. CASE UNCHANGED <<done, state, lane>>
  BY <1>1, SameDone
<1>2. CASE Client
  <2>1. PICK wish \in Lanes \cup {AutoLane}, b \in Batches : Submit(wish, b)
    BY <1>2 DEF Client
  <2>2. opened + 1 \in Jobs /\ state[opened + 1] = "none"
    BY <2>1, NewJob
  <2>3. \A j \in Jobs : /\ j # opened + 1 => state'[j] = state[j] /\ lane'[j] = lane[j]
                        /\ j = opened + 1 => state'[j] = "queued"
    BY <2>1 DEF Submit
  <2>4. UNCHANGED done
    BY <2>1 DEF Submit
  <2>. QED
    BY <2>2, <2>3, <2>4, SameDone
<1>3. ASSUME NEW w \in Workers, Take(w)  PROVE DoneAgreesWithBook'
  <2> DEFINE j == Head(items[LaneOf[w]])
  <2>1. j \in Jobs /\ state[j] = "queued" /\ lane[j] = LaneOf[w]
    BY <1>3, TakenJob
  <2>2. /\ UNCHANGED lane /\ \A k \in Jobs : k # j => state'[k] = state[k]
        /\ \/ state'[j] = "done" /\ CountDone(w)
           \/ state'[j] = "running" /\ UNCHANGED done
    BY <1>3, <2>1 DEF Take
  <2> HIDE DEF j
  <2>3. CASE state'[j] = "done" /\ CountDone(w)
    BY <2>1, <2>2, <2>3, OneMoreDone
  <2>4. CASE state'[j] = "running" /\ UNCHANGED done
    <3>1. \A k \in Jobs : state'[k] = "done" <=> state[k] = "done"
      BY <2>1, <2>2, <2>4
    <3>. QED
      BY <2>2, <2>4, <3>1, SameDone
  <2>. QED
    BY <2>2, <2>3, <2>4
<1>4. ASSUME NEW w \in Workers, RejectRow(w) \/ PostRow(w)  PROVE DoneAgreesWithBook'
  <2> DEFINE j == inFlight[w]
  <2>1. j \in Jobs /\ state[j] = "running" /\ lane[j] = LaneOf[w]
    BY <1>4, HeldJob DEF RejectRow, PostRow, Working
  <2>2. /\ UNCHANGED lane /\ \A k \in Jobs : k # j => state'[k] = state[k]
        /\ \/ UNCHANGED <<state, done>>
           \/ state'[j] = "done" /\ CountDone(w)
    BY <1>4, RowStep
  <2> HIDE DEF j
  <2>. QED
    BY <1>1, <2>1, <2>2, OneMoreDone
<1>5. ASSUME NEW w \in Workers, HitFrozen(w)  PROVE DoneAgreesWithBook'
  <2> DEFINE j == inFlight[w]
  <2>1. j \in Jobs /\ state[j] = "running"
    BY <1>5, HeldJob DEF HitFrozen, Working
  <2>2. /\ UNCHANGED <<done, lane>> /\ \A k \in Jobs : k # j => state'[k] = state[k]
        /\ state'[j] \in {"queued", "failed"}
    BY <1>5, <2>1 DEF HitFrozen, Requeue
  <2>3. \A k \in Jobs : state'[k] = "done" <=> state[k] = "done"
    BY <2>1, <2>2
  <2>. QED
    BY <2>2, <2>3, SameDone
<1>6. ASSUME NEW l \in Lanes, CloseLane(l)  PROVE DoneAgreesWithBook'
  <2>1. \A w \in InFlight(l) : state[inFlight[w]] = "running"
    BY HeldJob DEF InFlight
  <2>2. \A k \in Jobs : state'[k] = "done" <=> state[k] = "done"
    BY <1>6, <2>1 DEF CloseLane
  <2>3. UNCHANGED <<done, lane>>
    BY <1>6 DEF CloseLane
  <2>. QED
    BY <2>2, <2>3, SameDone
<1>7. ASSUME NEW l \in Lanes, DrainIdle(l) \/ DrainTimeout(l) \/ ShutQueue(l)
      PROVE  DoneAgreesWithBook'
  BY <1>1, <1>7 DEF DrainIdle, DrainTimeout, ShutQueue
<1>8. CASE \/ Operator \/ Start \/ FailStart \/ EnterServing \/ CloseTheGate
           \/ StopListening \/ ShutGate
  BY <1>1, <1>8 DEF Operator, Freeze, Unfreeze, Start, FailStart, EnterServing,
     CloseTheGate, StopListening, ShutGate
<1>9. CASE UNCHANGED vars
  BY <1>1, <1>9, StutterIsIdle DEF Idle
<1>. QED
  BY <1>2, <1>3, <1>4, <1>5, <1>6, <1>7, <1>8, <1>9
     DEF Next, Lifecycle, Shutdown, Consumer

(* A lane's "done" counter is the number of its jobs the book shows as done,
   over every restart.                                                        *)
THEOREM DoneCountsTheBook == Spec => []DoneAgreesWithBook
<1>1. ASSUME Init  PROVE DoneAgreesWithBook
  <2>1. \A l \in Lanes : done[l] = 0 /\ DoneIn(l) = {}
    BY <1>1 DEF Init, DoneIn
  <2>. QED
    BY <2>1, FS_EmptySet DEF DoneAgreesWithBook, DoneIn
<1>. QED
  BY InvariantHolds, <1>1, DoneStep, PTL DEF Spec

-----------------------------------------------------------------------------
(* The intake contract.  Every step of the pipeline is one step of
   IntakeContract on the job it is about, or none.                            *)

LEMMA SameStatus ==
  ASSUME NEW j \in Jobs, state'[j] = state[j],
         state[j] = "queued" => /\ j \in accepted' <=> j \in accepted
                                /\ j \in QueuedJobs' <=> j \in QueuedJobs
  PROVE  Status'[j] = Status[j]
BY DEF Status

LEMMA StatusMoves ==
  ASSUME NEW j \in Jobs, \A k \in Jobs : k # j => Status'[k] = Status[k]
  PROVE  Status' = [Status EXCEPT ![j] = Status'[j]]
BY DEF Status

LEMMA StatusStays ==
  ASSUME \A k \in Jobs : Status'[k] = Status[k]
  PROVE  Status' = Status
BY DEF Status

(* What is queued was accepted, and its status says so.                       *)
LEMMA StatusParts ==
  ASSUME IInv, NEW j \in Jobs
  PROVE  /\ state[j] = "none" => Status[j] = "new"
         /\ state[j] \in {"running", "done", "failed", "abandoned"} => Status[j] = state[j]
         /\ j \in QueuedJobs => Status[j] = "queued"
         /\ Status[j] = "queued" <=> j \in QueuedJobs
         /\ Status[j] = "running" <=> state[j] = "running"
<1>1. j \in QueuedJobs => state[j] = "queued" /\ j \in accepted
  BY QueuedJobsMember DEF IInv, OnePlace
<1>2. state[j] \in States
  BY DEF IInv, TypeOK, JobTypeOK
<1>. QED
  BY <1>1, <1>2 DEF Status, States

LEMMA ContractInit == Init => Contract!Init
<1> SUFFICES ASSUME Init PROVE Contract!Init
  OBVIOUS
<1>1. Door = "down" /\ Status = [j \in Jobs |-> "new"]
  BY DEF Init, Door, Status
<1>. QED
  BY <1>1 DEF Init, Contract!Init

(* Who holds or waits for what, apart from the job a step is about.           *)
LEMMA OtherQueues ==
  ASSUME NEW j, \A l \in Lanes : \A k : k # j => (k \in Queued(l)' <=> k \in Queued(l))
  PROVE  \A k : k # j => (k \in QueuedJobs' <=> k \in QueuedJobs)
BY DEF QueuedJobs, Queued

LEMMA PutInQueue ==
  ASSUME IInv, NEW l \in Lanes, NEW j \in Jobs, Put(l, j), j \notin Queued(l)
  PROVE  j \in QueuedJobs'
<1>1. j \in Queued(l)'
  BY PutPlaces
<1>. QED
  BY <1>1 DEF QueuedJobs

LEMMA ContractStep == IInv /\ [Next]_vars => [Contract!Next]_(Contract!vars)
<1> SUFFICES ASSUME IInv, [Next]_vars PROVE Contract!Next \/ UNCHANGED Contract!vars
  OBVIOUS
<1> USE DEF intakeVars, queueVars, laneVars, workVars, bookVars, jobVars
<1> DEFINE Goal == Contract!Next \/ UNCHANGED Contract!vars
<1>. /\ state \in [Jobs -> States] /\ attempts \in [Jobs -> Nat] /\ phase \in Phases
     /\ accepted \subseteq Jobs
  BY DEF IInv, TypeOK, JobTypeOK, LifeTypeOK, BookTypeOK
<1>1. CASE UNCHANGED <<phase, state, accepted, items, attempts>>
  <2>1. Door' = Door /\ QueuedJobs' = QueuedJobs
    BY <1>1 DEF Door, QueuedJobs, Queued
  <2>2. Status' = Status
    BY <1>1, <2>1, SameStatus, StatusStays
  <2>. QED
    BY <1>1, <2>1, <2>2 DEF Contract!vars
<1>2. CASE Client
  <2>1. PICK wish \in Lanes \cup {AutoLane}, b \in Batches : Submit(wish, b)
    BY <1>2 DEF Client
  <2> DEFINE j == opened + 1
             l == ChooseLane(wish, b)
  <2>2. /\ j \in Jobs /\ l \in Lanes /\ state[j] = "none"
        /\ \A m \in Lanes : j \notin Queued(m)
    BY <2>1, NewJob
  <2>3. /\ state' = [state EXCEPT ![j] = "queued"] /\ UNCHANGED <<phase, attempts>>
        /\ accepting
        /\ \/ Put(l, j) /\ accepted' = accepted \cup {j}
           \/ UNCHANGED <<items, accepted>>
    BY <2>1 DEF Submit
  <2>4. j \notin accepted
    BY ConstantsAssumption, <2>2 DEF IInv, BookShape, TypeOK, BookTypeOK
  <2> HIDE DEF j, l
  <2>5. Door = "open" /\ Door' = Door
    BY <2>3 DEF Door, IInv, LifecycleShape
  <2>6. /\ \A k : k # j => (k \in QueuedJobs' <=> k \in QueuedJobs)
        /\ \A k \in Jobs : k # j => (k \in accepted' <=> k \in accepted)
    <3>1. \A m \in Lanes : \A k : k # j => (k \in Queued(m)' <=> k \in Queued(m))
      BY <2>2, <2>3, PutPlaces DEF Queued
    <3>. QED
      BY <2>3, <3>1, OtherQueues
  <2>7. \A k \in Jobs : k # j => Status'[k] = Status[k]
    BY <2>3, <2>6, SameStatus
  <2>8. Status[j] = "new" /\ Status'[j] \in {"queued", "refused"}
    <3>1. Status[j] = "new"
      BY <2>2, StatusParts
    <3>2. CASE Put(l, j) /\ accepted' = accepted \cup {j}
      <4>1. j \in QueuedJobs'
        BY <2>2, <3>2, PutInQueue
      <4>. QED
        BY <2>2, <2>3, <3>1, <3>2, <4>1 DEF Status
    <3>3. CASE UNCHANGED <<items, accepted>>
      BY <2>2, <2>3, <2>4, <3>1, <3>3 DEF Status
    <3>. QED
      BY <2>3, <3>2, <3>3
  <2>9. Contract!Answer(j)
    BY <2>2, <2>3, <2>5, <2>7, <2>8, StatusMoves DEF Contract!Answer, Contract!Move
  <2>. QED
    BY <2>2, <2>9 DEF Contract!Next
<1>3. ASSUME NEW w \in Workers, Take(w)  PROVE Goal
  <2> DEFINE j == Head(items[LaneOf[w]])
  <2>1. /\ j \in Jobs /\ state[j] = "queued" /\ j \in accepted /\ LaneOf[w] \in Lanes
        /\ j \in Queued(LaneOf[w])
        /\ \A m \in Lanes : Queued(m)' = Queued(m) \ {j}
    <3>1. items[LaneOf[w]] \in Seq(Jobs) /\ items[LaneOf[w]] # <<>> /\ LaneOf[w] \in Lanes
      BY <1>3, ConstantsAssumption DEF Take, IInv, TypeOK, QueueTypeOK
    <3>2. j \in Queued(LaneOf[w])
      BY <3>1, TailToSet DEF IInv, OnePlace, Queued
    <3>. QED
      BY <1>3, <3>1, <3>2, TakenJob
  <2>2. /\ attempts' = [attempts EXCEPT ![j] = @ + 1] /\ UNCHANGED <<phase, accepted>>
        /\ \A k \in Jobs : k # j => state'[k] = state[k]
        /\ state'[j] \in {"running", "done"} /\ stage[LaneOf[w]] \in Live
    BY <1>3, <2>1 DEF Take
  <2> HIDE DEF j
  <2>3. Door # "down" /\ Door' = Door
    BY <2>1, <2>2 DEF Door, Live, IInv, LifecycleShape
  <2>4. Status[j] = "queued" /\ Status'[j] \in {"running", "done"}
    <3>1. j \in QueuedJobs
      BY <2>1, QueuedJobsMember
    <3>2. Status'[j] = state'[j]
      BY <2>1, <2>2 DEF Status
    <3>. QED
      BY <2>1, <2>2, <3>1, <3>2, StatusParts
  <2>5. \A k \in Jobs : k # j => Status'[k] = Status[k]
    <3>1. \A k : k # j => (k \in QueuedJobs' <=> k \in QueuedJobs)
      BY <2>1, OtherQueues
    <3>. QED
      BY <2>2, <3>1, SameStatus
  <2>6. Contract!Begin(j)
    BY <2>1, <2>2, <2>3, <2>4, <2>5, StatusMoves DEF Contract!Begin, Contract!Move
  <2>. QED
    BY <2>1, <2>6 DEF Contract!Next
<1>4. ASSUME NEW w \in Workers, RejectRow(w) \/ PostRow(w)  PROVE Goal
  <2> DEFINE j == inFlight[w]
  <2>1. /\ j \in Jobs /\ state[j] = "running" /\ stage[LaneOf[w]] \in Live
        /\ LaneOf[w] \in Lanes
    BY <1>4, HeldJob DEF RejectRow, PostRow, Working
  <2>2. UNCHANGED <<phase, accepted, items, attempts>>
    BY <1>4 DEF RejectRow, PostRow
  <2>3. /\ \A k \in Jobs : k # j => state'[k] = state[k]
        /\ UNCHANGED state \/ state'[j] = "done"
    BY <1>4, RowStep
  <2> HIDE DEF j
  <2>4. CASE state'[j] = "done"
    <3>1. Door # "down" /\ Door' = Door
      BY <2>1, <2>2 DEF Door, Live, IInv, LifecycleShape
    <3>2. QueuedJobs' = QueuedJobs
      BY <2>2 DEF QueuedJobs, Queued
    <3>3. \A k \in Jobs : k # j => Status'[k] = Status[k]
      BY <2>2, <2>3, <3>2, SameStatus
    <3>4. Status[j] = "running" /\ Status'[j] = "done"
      BY <2>1, <2>4, StatusParts DEF Status
    <3>5. Contract!Settle(j)
      BY <2>1, <2>2, <3>1, <3>3, <3>4, StatusMoves DEF Contract!Settle, Contract!Move
    <3>. QED
      BY <2>1, <3>5 DEF Contract!Next
  <2>. QED
    BY <1>1, <2>2, <2>3, <2>4
<1>5. ASSUME NEW w \in Workers, HitFrozen(w)  PROVE Goal
  <2> DEFINE j == inFlight[w]
             l == LaneOf[w]
  <2>1. /\ j \in Jobs /\ state[j] = "running" /\ stage[l] \in Live /\ j \in accepted
        /\ l \in Lanes /\ \A m \in Lanes : j \notin Queued(m)
    BY <1>5, HeldJob DEF HitFrozen, Working
  <2>2. /\ UNCHANGED <<phase, accepted, attempts>>
        /\ \/ /\ attempts[j] < MaxAttempts /\ CanPut(l) /\ Put(l, j)
              /\ state' = [state EXCEPT ![j] = "queued"]
           \/ state' = [state EXCEPT ![j] = "failed"] /\ UNCHANGED items
    BY <1>5 DEF HitFrozen, Requeue
  <2> HIDE DEF j, l
  <2>3. Door # "down" /\ Door' = Door
    BY <2>1, <2>2 DEF Door, Live, IInv, LifecycleShape
  <2>4. \A k : k # j => (k \in QueuedJobs' <=> k \in QueuedJobs)
    <3>1. \A m \in Lanes : \A k : k # j => (k \in Queued(m)' <=> k \in Queued(m))
      BY <2>1, <2>2, PutPlaces DEF Queued
    <3>. QED
      BY <3>1, OtherQueues
  <2>5. \A k \in Jobs : k # j => Status'[k] = Status[k]
    BY <2>2, <2>4, SameStatus
  <2>6. Status[j] = "running"
    BY <2>1, StatusParts
  <2>7. CASE /\ attempts[j] < MaxAttempts /\ CanPut(l) /\ Put(l, j)
             /\ state' = [state EXCEPT ![j] = "queued"]
    <3>1. Door = "open"
      BY <2>1, <2>7 DEF CanPut, Door, IInv, LifecycleShape, Phases
    <3>2. j \in QueuedJobs'
      BY <2>1, <2>7, PutInQueue
    <3>3. Status'[j] = "queued"
      BY <2>1, <2>2, <2>7, <3>2 DEF Status
    <3>4. Contract!Retry(j)
      BY <2>1, <2>2, <2>3, <2>5, <2>6, <2>7, <3>1, <3>3, StatusMoves
         DEF Contract!Retry, Contract!Move
    <3>. QED
      BY <2>1, <3>4 DEF Contract!Next
  <2>8. CASE state' = [state EXCEPT ![j] = "failed"] /\ UNCHANGED items
    <3>1. Status'[j] = "failed"
      BY <2>1, <2>8 DEF Status
    <3>2. Contract!Settle(j)
      BY <2>1, <2>2, <2>3, <2>5, <2>6, <3>1, StatusMoves DEF Contract!Settle, Contract!Move
    <3>. QED
      BY <2>1, <3>2 DEF Contract!Next
  <2>. QED
    BY <2>2, <2>7, <2>8
<1>6. CASE Start \/ FailStart
  <2>1. /\ UNCHANGED <<state, accepted, attempts>> /\ phase = "idle"
        /\ phase' \in {"started", "idle"} /\ \A l \in Lanes : items'[l] = <<>>
    BY <1>6 DEF Start, FailStart, FreshRun
  <2>2. Door = "down" /\ Door' \in {"open", "down"}
    BY <2>1 DEF Door
  <2>3. QueuedJobs' = {}
    BY <2>1, EmptyQueue DEF QueuedJobs, Queued
  <2>4. ASSUME NEW j \in Jobs
        PROVE  Status'[j] = IF Status[j] = "queued" THEN "dropped" ELSE Status[j]
    <3>1. CASE Status[j] = "queued"
      <4>1. state[j] = "queued" /\ j \in accepted
        BY <3>1, StatusParts, QueuedJobsMember DEF IInv, OnePlace
      <4>. QED
        BY <2>1, <2>3, <3>1, <4>1 DEF Status
    <3>2. CASE Status[j] # "queued"
      <4>1. j \notin QueuedJobs
        BY <3>2, StatusParts
      <4>. QED
        BY <2>1, <2>3, <3>2, <4>1, SameStatus
    <3>. QED
      BY <3>1, <3>2
  <2>5. Status' = [j \in Jobs |-> IF Status[j] = "queued" THEN "dropped" ELSE Status[j]]
    BY <2>4 DEF Status
  <2>6. Contract!Reopen
    BY <2>1, <2>2, <2>5 DEF Contract!Reopen
  <2>. QED
    BY <2>6 DEF Contract!Next
<1>7. CASE CloseTheGate
  <2>1. Door = "open" /\ Door' = "closed"
    BY <1>7 DEF CloseTheGate, Door
  <2>2. UNCHANGED <<state, accepted, items, attempts>>
    BY <1>7 DEF CloseTheGate
  <2>3. Status' = Status
    <3>1. QueuedJobs' = QueuedJobs
      BY <2>2 DEF QueuedJobs, Queued
    <3>. QED
      BY <2>2, <3>1, SameStatus, StatusStays
  <2>4. Contract!Close
    BY <2>1, <2>2, <2>3 DEF Contract!Close
  <2>. QED
    BY <2>4 DEF Contract!Next
<1>8. CASE ShutGate
  <2>1. Door = "closed" /\ Door' = "down"
    BY <1>8 DEF ShutGate, Door
  <2>2. UNCHANGED <<state, accepted, items, attempts>>
    BY <1>8 DEF ShutGate
  <2>3. Status' = Status
    <3>1. QueuedJobs' = QueuedJobs
      BY <2>2 DEF QueuedJobs, Queued
    <3>. QED
      BY <2>2, <3>1, SameStatus, StatusStays
  <2>4. \A j \in Jobs : Status[j] # "running"
    <3>1. \A w \in Workers : ~Busy(w)
      BY <1>8, ConstantsAssumption DEF ShutGate, IInv, ConsumerShape, Live
    <3>2. \A j \in Jobs : state[j] # "running"
      BY <3>1 DEF IInv, OnePlace, HeldJobs, Busy
    <3>. QED
      BY <3>2, StatusParts
  <2>5. Contract!Halt
    BY <2>1, <2>2, <2>3, <2>4 DEF Contract!Halt
  <2>. QED
    BY <2>5 DEF Contract!Next
<1>9. ASSUME NEW l \in Lanes, CloseLane(l)  PROVE Goal
  <2> DEFINE given == {j \in Jobs : \E w \in InFlight(l) : inFlight[w] = j}
  <2>1. \A j \in given : state[j] = "running"
    BY HeldJob DEF InFlight
  <2>2. /\ UNCHANGED <<phase, accepted, items, attempts>> /\ phase = "stopping"
        /\ \A j \in Jobs : state'[j] = IF j \in given THEN "abandoned" ELSE state[j]
    BY <1>9 DEF CloseLane
  <2>3. given \in SUBSET Jobs
    OBVIOUS
  <2> HIDE DEF given
  <2>4. Door = "closed" /\ Door' = Door
    BY <2>2 DEF Door
  <2>5. QueuedJobs' = QueuedJobs
    BY <2>2 DEF QueuedJobs, Queued
  <2>6. \A j \in Jobs : Status'[j] = IF j \in given THEN "abandoned" ELSE Status[j]
    <3> SUFFICES ASSUME NEW j \in Jobs
                 PROVE  Status'[j] = IF j \in given THEN "abandoned" ELSE Status[j]
      OBVIOUS
    <3>1. CASE j \in given
      BY <2>2, <3>1 DEF Status
    <3>2. CASE j \notin given
      BY <2>2, <2>5, <3>2, SameStatus
    <3>. QED
      BY <3>1, <3>2
  <2>7. Status' = [j \in Jobs |-> IF j \in given THEN "abandoned" ELSE Status[j]]
    BY <2>6 DEF Status
  <2>8. \A j \in given : Status[j] = "running"
    BY <2>1, <2>3, StatusParts
  <2>9. Contract!Abandon(given)
    BY <2>2, <2>4, <2>7, <2>8 DEF Contract!Abandon
  <2>. QED
    BY <2>3, <2>9 DEF Contract!Next
<1>10. ASSUME NEW l \in Lanes, DrainIdle(l) \/ DrainTimeout(l) \/ ShutQueue(l)
       PROVE  Goal
  BY <1>1, <1>10 DEF DrainIdle, DrainTimeout, ShutQueue
<1>11. CASE Operator
  BY <1>1, <1>11 DEF Operator, Freeze, Unfreeze
<1>12. CASE EnterServing \/ StopListening
  <2>1. UNCHANGED <<state, accepted, items, attempts>> /\ Door' = Door
    BY <1>12 DEF EnterServing, StopListening, Door
  <2>2. QueuedJobs' = QueuedJobs
    BY <2>1 DEF QueuedJobs, Queued
  <2>3. Status' = Status
    BY <2>1, <2>2, SameStatus, StatusStays
  <2>. QED
    BY <2>1, <2>3 DEF Contract!vars
<1>13. CASE UNCHANGED vars
  BY <1>1, <1>13, StutterIsIdle DEF Idle
<1>. QED
  BY <1>2, <1>3, <1>4, <1>5, <1>6, <1>7, <1>8, <1>9, <1>10, <1>11, <1>12, <1>13
     DEF Next, Lifecycle, Shutdown, Consumer

(* The pipeline implements the intake contract: an accepted batch is tried,
   retried only while the door is open, and ends in one verdict; only a stop
   abandons it and only a start drops it.                                     *)
THEOREM ContractIsKept == Spec => KeepsContract
<1>. QED
  BY InvariantHolds, ContractInit, ContractStep, PTL DEF Spec, KeepsContract, Contract!Spec

=============================================================================
