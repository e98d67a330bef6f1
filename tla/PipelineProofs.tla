--------------------------- MODULE PipelineProofs ---------------------------
EXTENDS Pipeline, SequenceTheorems, TLAPS

LEMMA TailToSet ==
  ASSUME NEW S, NEW s \in Seq(S), s # <<>>, IsInjective(s)
  PROVE  /\ Tail(s) \in Seq(S) /\ Head(s) \in S
         /\ Len(Tail(s)) <= Len(s)
         /\ IsInjective(Tail(s))
         /\ ToSet(Tail(s)) = ToSet(s) \ {Head(s)}
         /\ Head(s) \in ToSet(s)
<1>1. /\ Tail(s) \in Seq(S) /\ Head(s) \in S
      /\ Len(Tail(s)) = Len(s) - 1
      /\ \A i \in 1..Len(Tail(s)) : Tail(s)[i] = s[i+1]
  BY HeadTailProperties
<1>2. Len(s) \in Nat /\ Len(s) >= 1 /\ Head(s) = s[1] /\ DOMAIN s = 1..Len(s)
      /\ DOMAIN Tail(s) = 1..Len(Tail(s))
  BY <1>1, EmptySeq, LenProperties
<1>3. IsInjective(Tail(s))
  BY <1>1, <1>2 DEF IsInjective
<1>4. ToSet(Tail(s)) \subseteq ToSet(s) \ {Head(s)}
  BY <1>1, <1>2 DEF IsInjective, ToSet
<1>5. ASSUME NEW x \in ToSet(s) \ {Head(s)}  PROVE x \in ToSet(Tail(s))
  <2>1. PICK i \in 1..Len(s) : x = s[i]
    BY <1>2 DEF ToSet
  <2>2. i # 1
    BY <1>2, <2>1
  <2>3. i - 1 \in 1..Len(Tail(s)) /\ Tail(s)[i-1] = s[i]
    BY <1>1, <1>2, <2>2
  <2>. QED
    BY <1>2, <2>1, <2>3 DEF ToSet
<1>6. Head(s) \in ToSet(s)
  BY <1>2 DEF ToSet
<1>7. ToSet(Tail(s)) = ToSet(s) \ {Head(s)}
  BY <1>4, <1>5
<1>. QED
  BY <1>1, <1>2, <1>3, <1>6, <1>7

LEMMA AppendToSet ==
  ASSUME NEW S, NEW s \in Seq(S), NEW e \in S
  PROVE  /\ Append(s, e) \in Seq(S)
         /\ Len(Append(s, e)) = Len(s) + 1
         /\ ToSet(Append(s, e)) = ToSet(s) \cup {e}
         /\ IsInjective(s) /\ e \notin ToSet(s) => IsInjective(Append(s, e))
<1> DEFINE t == Append(s, e)
<1>1. /\ t \in Seq(S) /\ Len(t) = Len(s) + 1
      /\ \A i \in 1..Len(s) : t[i] = s[i]
      /\ t[Len(s) + 1] = e
  BY AppendProperties
<1>2. Len(s) \in Nat /\ DOMAIN s = 1..Len(s) /\ DOMAIN t = 1..Len(t)
  BY <1>1, LenProperties
<1>3. ToSet(t) = ToSet(s) \cup {e}
  <2>1. ToSet(t) \subseteq ToSet(s) \cup {e}
    BY <1>1, <1>2 DEF ToSet
  <2>2. ToSet(s) \cup {e} \subseteq ToSet(t)
    BY <1>1, <1>2 DEF ToSet
  <2>. QED
    BY <2>1, <2>2
<1>4. ASSUME IsInjective(s), e \notin ToSet(s)  PROVE IsInjective(t)
  BY <1>1, <1>2, <1>4 DEF IsInjective, ToSet
<1>. QED
  BY <1>1, <1>3, <1>4

-----------------------------------------------------------------------------
(* Types.                                                                     *)

LEMMA InitTypes == Init => TypeOK
<1> SUFFICES ASSUME Init PROVE TypeOK
  OBVIOUS
<1> USE DEF Init
<1>1. LifeTypeOK
  BY DEF LifeTypeOK, Phases, Stages, Live
<1>2. QueueTypeOK
  BY EmptySeq, ConstantsAssumption DEF QueueTypeOK
<1>3. WorkTypeOK
  BY DEF WorkTypeOK
<1>4. BookTypeOK
  BY ConstantsAssumption DEF BookTypeOK, Lanes
<1>5. JobTypeOK /\ LedgerTypeOK
  BY DEF JobTypeOK, States, LedgerTypeOK
<1>. QED
  BY <1>1, <1>2, <1>3, <1>4, <1>5 DEF TypeOK

LEMMA RowsLength ==
  ASSUME BookTypeOK, NEW j \in Jobs
  PROVE  Len(rows[j]) \in 0..MaxRows /\ (rows[j] # <<>> => 1 \in RowIndex)
<1>1. CASE rows[j] = <<>>
  BY <1>1, ConstantsAssumption, EmptySeq
<1>2. CASE rows[j] \in Batches
  BY <1>2, ConstantsAssumption, LenProperties, EmptySeq DEF RowIndex
<1>. QED
  BY <1>1, <1>2 DEF BookTypeOK

LEMMA BusyTypes ==
  ASSUME WorkTypeOK, NEW w \in Workers, Busy(w)
  PROVE  inFlight[w] \in Jobs /\ LaneOf[w] \in Lanes
BY ConstantsAssumption DEF WorkTypeOK, Busy

LEMMA PutTypes ==
  ASSUME QueueTypeOK, NEW l \in Lanes, NEW j \in Jobs, CanPut(l), Put(l, j),
         UNCHANGED leftBehind
  PROVE  QueueTypeOK'
<1>1. items[l] \in Seq(Jobs) /\ Append(items[l], j) \in Seq(Jobs)
      /\ Len(Append(items[l], j)) = Len(items[l]) + 1 /\ Len(items[l]) \in Nat
  BY AppendToSet, LenProperties DEF QueueTypeOK
<1>. QED
  BY <1>1, ConstantsAssumption DEF CanPut, Full, Put, QueueTypeOK

LEMMA NextRowTypes ==
  ASSUME TypeOK, NEW w \in Workers, Busy(w), NextRow(w)
  PROVE  WorkTypeOK' /\ state' \in [Jobs -> States]
<1>1. inFlight[w] \in Jobs /\ LaneOf[w] \in Lanes
  BY BusyTypes DEF TypeOK
<1>2. Len(rows[inFlight[w]]) \in 0..MaxRows
  BY <1>1, RowsLength DEF TypeOK
<1>3. state \in [Jobs -> States] /\ "done" \in States
  BY DEF TypeOK, JobTypeOK, States
<1>4. CASE cursor[w] < Len(rows[inFlight[w]])
  <2>1. cursor[w] + 1 \in RowIndex
    BY <1>2, <1>4, ConstantsAssumption DEF TypeOK, WorkTypeOK, RowIndex
  <2>. QED
    BY <1>1, <1>3, <1>4, <2>1 DEF TypeOK, WorkTypeOK, NextRow
<1>5. CASE ~(cursor[w] < Len(rows[inFlight[w]]))
  <2>1. done' \in [Lanes -> Nat]
    BY <1>1, <1>5 DEF TypeOK, WorkTypeOK, NextRow, CountDone
  <2>2. inFlight' \in [Workers -> Jobs \cup {NoJob}]
    BY <1>5 DEF TypeOK, WorkTypeOK, NextRow, Release
  <2>3. cursor' \in [Workers -> RowIndex \cup {0}]
    BY <1>5 DEF TypeOK, WorkTypeOK, NextRow, Release
  <2>4. state' \in [Jobs -> States]
    BY <1>1, <1>3, <1>5 DEF NextRow
  <2>. QED
    BY <2>1, <2>2, <2>3, <2>4 DEF WorkTypeOK
<1>. QED
  BY <1>4, <1>5

LEMMA TypeStep == TypeOK /\ [Next]_vars => TypeOK'
<1> SUFFICES ASSUME TypeOK, [Next]_vars PROVE TypeOK'
  OBVIOUS
<1> USE DEF intakeVars, queueVars, laneVars, workVars, bookVars, jobVars
<1> USE DEF TypeOK
<1>1. CASE Client
  <2>1. PICK wish \in Lanes \cup {AutoLane}, b \in Batches : Submit(wish, b)
    BY <1>1 DEF Client
  <2> DEFINE l == ChooseLane(wish, b)
  <2>2. opened + 1 \in Jobs /\ l \in Lanes
    BY <2>1, ConstantsAssumption DEF Submit, Jobs, ChooseLane, Lanes, BookTypeOK
  <2> HIDE DEF l
  <2>3. QueueTypeOK'
    <3>1. CASE CanPut(l)
      BY <2>1, <2>2, <3>1, PutTypes DEF Submit, l
    <3>2. CASE ~CanPut(l)
      BY <2>1, <3>2 DEF Submit, QueueTypeOK, l
    <3>. QED
      BY <3>1, <3>2
  <2>4. BookTypeOK'
    <3>1. opened' \in 0..MaxJobs
      BY <2>1, <2>2, ConstantsAssumption DEF Submit, Jobs
    <3>2. accepted' \subseteq Jobs
      BY <2>1, <2>2 DEF Submit, BookTypeOK
    <3>3. lane' \in [Jobs -> Lanes]
      BY <2>1, <2>2 DEF Submit, BookTypeOK, l
    <3>4. rows' \in [Jobs -> Batches \cup {<<>>}]
      BY <2>1, <2>2 DEF Submit, BookTypeOK
    <3>. QED
      BY <3>1, <3>2, <3>3, <3>4 DEF BookTypeOK
  <2>5. JobTypeOK'
    BY <2>1, <2>2 DEF Submit, JobTypeOK, States
  <2>6. LifeTypeOK' /\ WorkTypeOK' /\ LedgerTypeOK'
    BY <2>1 DEF Submit, LifeTypeOK, WorkTypeOK, LedgerTypeOK
  <2>. QED
    BY <2>3, <2>4, <2>5, <2>6
<1>2. CASE Operator
  BY <1>2 DEF Operator, Freeze, Unfreeze, LifeTypeOK, QueueTypeOK, WorkTypeOK,
     BookTypeOK, JobTypeOK, LedgerTypeOK
<1>3. ASSUME NEW w \in Workers, Take(w) PROVE TypeOK'
  <2> DEFINE l == LaneOf[w]
             j == Head(items[l])
  <2>1. items[l] \in Seq(Jobs) /\ items[l] # <<>> /\ l \in Lanes
    BY <1>3, ConstantsAssumption DEF Take, QueueTypeOK
  <2>2. /\ j \in Jobs /\ Tail(items[l]) \in Seq(Jobs)
        /\ Len(Tail(items[l])) = Len(items[l]) - 1 /\ Len(items[l]) \in Nat
    BY <2>1, HeadTailProperties, LenProperties
  <2>3. rows[j] # <<>> => 1 \in RowIndex
    BY <2>2, RowsLength
  <2>4. QueueTypeOK'
    BY <1>3, <2>1, <2>2, ConstantsAssumption DEF Take, QueueTypeOK
  <2>5. WorkTypeOK'
    BY <1>3, <2>1, <2>2, <2>3 DEF Take, WorkTypeOK, CountDone
  <2>6. JobTypeOK'
    <3>1. state' \in [Jobs -> States]
      BY <1>3, <2>2 DEF Take, JobTypeOK, States
    <3>2. attempts' \in [Jobs -> Nat]
      BY <1>3, <2>2 DEF Take, JobTypeOK
    <3>3. posted' \in [Jobs -> Nat] /\ rejected' \in [Jobs -> Nat]
      BY <1>3, <2>2 DEF Take, JobTypeOK
    <3>. QED
      BY <3>1, <3>2, <3>3 DEF JobTypeOK
  <2>7. LifeTypeOK' /\ BookTypeOK' /\ LedgerTypeOK'
    BY <1>3 DEF Take, LifeTypeOK, BookTypeOK, LedgerTypeOK
  <2>. QED
    BY <2>4, <2>5, <2>6, <2>7
<1>4. ASSUME NEW w \in Workers, RejectRow(w) PROVE TypeOK'
  <2>1. WorkTypeOK' /\ state' \in [Jobs -> States]
    BY <1>4, NextRowTypes DEF RejectRow, Working
  <2>2. JobTypeOK'
    <3>1. rejected' \in [Jobs -> Nat]
      BY <1>4, BusyTypes DEF RejectRow, Working, JobTypeOK
    <3>. QED
      BY <1>4, <2>1, <3>1 DEF RejectRow, JobTypeOK
  <2>3. LifeTypeOK' /\ QueueTypeOK' /\ BookTypeOK' /\ LedgerTypeOK'
    BY <1>4 DEF RejectRow, LifeTypeOK, QueueTypeOK, BookTypeOK, LedgerTypeOK
  <2>. QED
    BY <2>1, <2>2, <2>3
<1>5. ASSUME NEW w \in Workers, PostRow(w) PROVE TypeOK'
  <2>1. WorkTypeOK' /\ state' \in [Jobs -> States]
    BY <1>5, NextRowTypes DEF PostRow, Working
  <2>2. JobTypeOK'
    <3>1. posted' \in [Jobs -> Nat]
      BY <1>5, BusyTypes DEF PostRow, Working, JobTypeOK
    <3>. QED
      BY <1>5, <2>1, <3>1 DEF PostRow, JobTypeOK
  <2>3. LedgerTypeOK'
    <3> DEFINE j == inFlight[w]
               i == cursor[w]
    <3>1. j \in Jobs
      BY <1>5, BusyTypes DEF PostRow, Working
    <3>2. ASSUME NEW f \in [RowIndex -> Nat], NEW k
          PROVE  [f EXCEPT ![k] = @ + 1] \in [RowIndex -> Nat]
      <4>1. CASE k \in RowIndex
        <5>1. f[k] + 1 \in Nat
          BY <4>1
        <5>. QED
          BY <5>1
      <4>2. CASE k \notin RowIndex
        BY <4>2
      <4>. QED
        BY <4>1, <4>2
    <3>3. postings' = [postings EXCEPT ![j] = [postings[j] EXCEPT ![i] = @ + 1]]
      BY <1>5 DEF PostRow
    <3>4. [postings[j] EXCEPT ![i] = @ + 1] \in [RowIndex -> Nat]
      BY <3>1, <3>2 DEF LedgerTypeOK
    <3>. HIDE DEF j, i
    <3>. QED
      BY <1>5, <3>1, <3>3, <3>4 DEF PostRow, LedgerTypeOK
  <2>4. LifeTypeOK' /\ QueueTypeOK' /\ BookTypeOK'
    BY <1>5 DEF PostRow, LifeTypeOK, QueueTypeOK, BookTypeOK
  <2>. QED
    BY <2>1, <2>2, <2>3, <2>4
<1>6. ASSUME NEW w \in Workers, HitFrozen(w) PROVE TypeOK'
  <2> DEFINE j == inFlight[w]
             l == LaneOf[w]
  <2>1. j \in Jobs /\ l \in Lanes
    BY <1>6, BusyTypes DEF HitFrozen, Working
  <2>2. QueueTypeOK'
    <3>1. CASE attempts[j] < MaxAttempts /\ CanPut(l)
      BY <1>6, <2>1, <3>1, PutTypes DEF HitFrozen, Requeue
    <3>2. CASE ~(attempts[j] < MaxAttempts /\ CanPut(l))
      BY <1>6, <3>2 DEF HitFrozen, Requeue, QueueTypeOK
    <3>. QED
      BY <3>1, <3>2
  <2>3. WorkTypeOK'
    BY <1>6 DEF HitFrozen, Release, WorkTypeOK
  <2>4. JobTypeOK'
    BY <1>6, <2>1 DEF HitFrozen, Requeue, JobTypeOK, States
  <2>5. LifeTypeOK' /\ BookTypeOK' /\ LedgerTypeOK'
    BY <1>6 DEF HitFrozen, LifeTypeOK, BookTypeOK, LedgerTypeOK
  <2>. QED
    BY <2>2, <2>3, <2>4, <2>5
<1>7. CASE Start \/ FailStart
  <2>1. LifeTypeOK' /\ WorkTypeOK'
    BY <1>7 DEF Start, FailStart, FreshRun, LifeTypeOK, WorkTypeOK, Phases, Stages, Live
  <2>2. QueueTypeOK'
    <3>1. items' = [l \in Lanes |-> <<>>] /\ leftBehind' = [l \in Lanes |-> 0]
      BY <1>7 DEF Start, FailStart, FreshRun
    <3>2. << >> \in Seq(Jobs) /\ Len(<< >>) = 0
      BY EmptySeq
    <3>3. items' \in [Lanes -> Seq(Jobs)] /\ \A l \in Lanes : Len(items'[l]) = 0
      BY <3>1, <3>2
    <3>4. leftBehind' \in [Lanes -> Nat]
      BY <3>1
    <3>. QED
      BY <3>3, <3>4, ConstantsAssumption DEF QueueTypeOK
  <2>3. BookTypeOK' /\ JobTypeOK' /\ LedgerTypeOK'
    BY <1>7 DEF Start, FailStart, BookTypeOK, JobTypeOK, LedgerTypeOK
  <2>. QED
    BY <2>1, <2>2, <2>3
<1>8. CASE EnterServing \/ CloseTheGate \/ StopListening \/ ShutGate
  BY <1>8 DEF EnterServing, CloseTheGate, StopListening, ShutGate, LifeTypeOK,
     QueueTypeOK, WorkTypeOK, BookTypeOK, JobTypeOK, LedgerTypeOK, Phases, Stages, Live
<1>9. ASSUME NEW l \in Lanes, DrainIdle(l) \/ DrainTimeout(l) PROVE TypeOK'
  <2>1. LifeTypeOK'
    BY <1>9 DEF DrainIdle, DrainTimeout, LifeTypeOK, Stages, Live
  <2>2. QueueTypeOK' /\ WorkTypeOK' /\ BookTypeOK' /\ JobTypeOK' /\ LedgerTypeOK'
    BY <1>9 DEF DrainIdle, DrainTimeout, QueueTypeOK, WorkTypeOK, BookTypeOK,
       JobTypeOK, LedgerTypeOK
  <2>. QED
    BY <2>1, <2>2
<1>10. ASSUME NEW l \in Lanes, CloseLane(l) PROVE TypeOK'
  <2>1. LifeTypeOK' /\ JobTypeOK'
    BY <1>10 DEF CloseLane, LifeTypeOK, JobTypeOK, Stages, States
  <2>2. QueueTypeOK' /\ WorkTypeOK' /\ BookTypeOK' /\ LedgerTypeOK'
    BY <1>10 DEF CloseLane, QueueTypeOK, WorkTypeOK, BookTypeOK, LedgerTypeOK
  <2>. QED
    BY <2>1, <2>2
<1>11. ASSUME NEW l \in Lanes, ShutQueue(l) PROVE TypeOK'
  <2>1. QueueTypeOK'
    BY <1>11, LenProperties DEF ShutQueue, QueueTypeOK
  <2>2. LifeTypeOK'
    BY <1>11 DEF ShutQueue, LifeTypeOK, Stages
  <2>3. WorkTypeOK' /\ BookTypeOK' /\ JobTypeOK' /\ LedgerTypeOK'
    BY <1>11 DEF ShutQueue, WorkTypeOK, BookTypeOK, JobTypeOK, LedgerTypeOK
  <2>. QED
    BY <2>1, <2>2, <2>3
<1>12. CASE UNCHANGED vars
  BY <1>12 DEF vars, LifeTypeOK, QueueTypeOK, WorkTypeOK, BookTypeOK, JobTypeOK,
     LedgerTypeOK
<1>. QED
  BY <1>1, <1>2, <1>3, <1>4, <1>5, <1>6, <1>7, <1>8, <1>9, <1>10, <1>11, <1>12
     DEF Next, Lifecycle, Shutdown, Consumer

(* Every state of the pipeline is well typed and no queue exceeds queue_size. *)
THEOREM TypeCorrect == Spec => []TypeOK
BY InitTypes, TypeStep, PTL DEF Spec

=============================================================================
