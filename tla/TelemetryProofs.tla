-------------------------- MODULE TelemetryProofs ----------------------------
(***************************************************************************)
(* Theorems about Telemetry, for any devices, metrics, rules, intervals,   *)
(* cooldown and backends.                                                  *)
(***************************************************************************)
EXTENDS Telemetry, RowLemmas

Key(i) == <<i.device, i.metric, i.kind, i.severity>>

(* What the latest evaluation raised has reached the sink recently enough.   *)
Reached(a) ==
  /\ heard[Identity(a)] # Never
  /\ heard[Identity(a)] = a.at \/ a.at - heard[Identity(a)] < Cooldown

RaisedShape ==
  /\ clock \in 0..Horizon
  /\ evaluate \in Jobs
  /\ raised \subseteq RaisedAlerts
  /\ \A a, b \in raised : a.at = b.at
  /\ todo \subseteq raised
  /\ todo # {} => evaluate.stage = "waiting"
  /\ phase = "down" => raised = {} /\ evaluate.stage = "none"

BooksShape ==
  /\ heard \in [Identities -> Nat \cup {Never}]
  /\ lastSent \in [Fingerprints -> Nat \cup {Never}]
  /\ \A i \in Identities : heard[i] = lastSent[Key(i)]

(* Who is still to be sent is due, who is not has been heard.                *)
DispatchShape ==
  /\ \A a \in todo : ~Suppressed(a)
  /\ evaluate.stage # "none" => \A a \in raised \ todo : Reached(a)

CooldownInv == RaisedShape /\ BooksShape /\ DispatchShape

(* The alerts of one evaluation: same instant, known kinds.                  *)
Batch(S, t) == S \subseteq RaisedAlerts /\ \A a \in S : a.at = t

-----------------------------------------------------------------------------
LEMMA NamesAgree ==
  ASSUME NEW a \in RaisedAlerts
  PROVE  /\ Identity(a) \in Identities
         /\ Fingerprint(a) \in Fingerprints
         /\ Key(Identity(a)) = Fingerprint(a)
  BY DEF RaisedAlerts, Identity, Identities, Fingerprint, Fingerprints, Key

LEMMA KeyInjective ==
  ASSUME NEW i \in Identities, NEW j \in Identities, Key(i) = Key(j)
  PROVE  i = j
  BY DEF Identities, Key

LEMMA SameInstant ==
  ASSUME NEW a \in RaisedAlerts, NEW b \in RaisedAlerts,
         a.at = b.at, Identity(a) = Identity(b)
  PROVE  a = b
  BY DEF RaisedAlerts, Identity

LEMMA JudgedBatch ==
  ASSUME clock \in 0..Horizon
  PROVE  Batch(Judged, clock)
  <1>1. \A d \in Devices : Alert(d, "*", "offline", "critical") \in RaisedAlerts
    BY DEF Alert, RaisedAlerts
  <1>2. \A s \in Series : s[1] \in Devices /\ s[2] \in Metrics
    BY DEF Series
  <1>3. \A s \in Series : Alert(s[1], s[2], "rate", "warning") \in RaisedAlerts
    BY <1>2 DEF Alert, RaisedAlerts
  <1>4. \A s \in Series, v \in {"warning", "critical"} :
           Alert(s[1], s[2], "threshold", v) \in RaisedAlerts
    BY <1>2 DEF Alert, RaisedAlerts
  <1>5. \A d, m, k, v : Alert(d, m, k, v).at = clock
    BY DEF Alert
  <1>6. \A a \in OfflineAlerts : a \in RaisedAlerts /\ a.at = clock
    BY <1>1, <1>5 DEF OfflineAlerts
  <1>7. \A s \in Series : \A a \in RateAlerts(s) : a \in RaisedAlerts /\ a.at = clock
    BY <1>3, <1>5 DEF RateAlerts
  <1>8. \A s \in Series : \A a \in ThresholdAlerts(s) : a \in RaisedAlerts /\ a.at = clock
    <2>1. \A st : SeverityFor(st) \subseteq {"warning", "critical"}
      BY DEF SeverityFor
    <2> QED
      BY <1>4, <1>5, <2>1 DEF ThresholdAlerts
  <1>9. Live \subseteq Series
    BY DEF Live
  <1> QED
    BY <1>6, <1>7, <1>8, <1>9 DEF Judged, Batch

(* What Mark writes in the two books.                                        *)
LEMMA MarkEffect ==
  ASSUME NEW S, NEW t \in Nat, Batch(S, t), Mark(S), BooksShape
  PROVE  /\ BooksShape'
         /\ \A i \in Identities :
              heard'[i] = IF \E a \in S : Identity(a) = i THEN t ELSE heard[i]
  <1>1. \A i \in Identities :
          heard'[i] = IF \E a \in S : Identity(a) = i THEN t ELSE heard[i]
    BY DEF Mark, Batch
  <1>2. \A f \in Fingerprints :
          lastSent'[f] = IF \E a \in S : Fingerprint(a) = f THEN t ELSE lastSent[f]
    BY DEF Mark, Batch
  <1>3. heard' \in [Identities -> Nat \cup {Never}]
    <2>1. heard' = [i \in Identities |-> heard'[i]]
      BY DEF Mark
    <2> QED
      BY <1>1, <2>1 DEF BooksShape
  <1>4. lastSent' \in [Fingerprints -> Nat \cup {Never}]
    <2>1. lastSent' = [f \in Fingerprints |-> lastSent'[f]]
      BY DEF Mark
    <2> QED
      BY <1>2, <2>1 DEF BooksShape
  <1>5. ASSUME NEW i \in Identities
        PROVE  heard'[i] = lastSent'[Key(i)]
    <2>1. Key(i) \in Fingerprints
      BY DEF Key, Identities, Fingerprints
    <2>2. \A a \in S : (Identity(a) = i) <=> (Fingerprint(a) = Key(i))
      BY NamesAgree, KeyInjective DEF Batch
    <2> QED
      BY <1>1, <1>2, <2>1, <2>2 DEF BooksShape
  <1> QED
    BY <1>1, <1>3, <1>4, <1>5 DEF BooksShape

-----------------------------------------------------------------------------
(* The heart: sending from a batch R the alerts of S keeps the books, the
   cooldown, and what is said about the rest.                                 *)
LEMMA DispatchKeeps ==
  ASSUME NEW R, NEW S, NEW t \in Nat, Batch(R, t), S \subseteq R,
         BooksShape, DispatchOn(S), raised' = R, evaluate \in Jobs,
         \A a \in S : ~Suppressed(a),
         \A a \in R \ S : Reached(a)
  PROVE  /\ BooksShape' /\ DispatchShape'
         /\ todo' \subseteq R
         /\ evaluate' \in Jobs
         /\ todo' # {} => evaluate'.stage = "waiting"
         /\ \A i \in Identities :
              heard'[i] # heard[i] => heard[i] = Never \/ heard'[i] - heard[i] >= Cooldown
  <1>1. PICK T \in SUBSET S : /\ Mark(T)
                              /\ todo' = S \ T
                              /\ evaluate' \in Jobs
                              /\ todo' # {} => evaluate'.stage = "waiting"
    <2>1. CASE /\ \E a \in S : Mark({a}) /\ todo' = S \ {a}
               /\ evaluate' = [evaluate EXCEPT !.stage = "waiting"]
      BY <2>1 DEF Jobs
    <2>2. CASE /\ Mark(S) /\ todo' = {}
               /\ evaluate' = Again(evaluate, EvaluateInterval)
      BY <2>2, TelemetryAssumption DEF Jobs, Again, Job
    <2> QED
      BY <2>1, <2>2 DEF DispatchOn
  <1>2. Batch(T, t) /\ T \subseteq R
    BY <1>1 DEF Batch
  <1>3. /\ BooksShape'
        /\ \A i \in Identities :
             heard'[i] = IF \E a \in T : Identity(a) = i THEN t ELSE heard[i]
    BY <1>1, <1>2, MarkEffect
  <1>4. \A a \in R : \A b \in T : Identity(a) = Identity(b) => a = b
    BY <1>2, SameInstant DEF Batch
  <1>5. \A a \in R : /\ a \in RaisedAlerts /\ a.at = t
                     /\ Identity(a) \in Identities
                     /\ Fingerprint(a) \in Fingerprints
                     /\ heard[Identity(a)] = lastSent[Fingerprint(a)]
                     /\ heard'[Identity(a)] = lastSent'[Fingerprint(a)]
    BY <1>3, NamesAgree DEF Batch, BooksShape
  <1>6. \A a \in R : heard'[Identity(a)] = IF a \in T THEN t ELSE heard[Identity(a)]
    BY <1>3, <1>4, <1>5
  <1>7. \A a \in todo' : ~Suppressed(a)'
    BY <1>1, <1>5, <1>6 DEF Suppressed
  <1>8. \A a \in R \ todo' : Reached(a)'
    <2> SUFFICES ASSUME NEW a \in R, a \notin todo'
                 PROVE  Reached(a)'
      OBVIOUS
    <2>1. CASE a \in T
      BY <2>1, <1>5, <1>6 DEF Reached, Never
    <2>2. CASE a \notin T
      BY <2>2, <1>1, <1>6 DEF Reached
    <2> QED
      BY <2>1, <2>2
  <1>9. ASSUME NEW i \in Identities, heard'[i] # heard[i]
        PROVE  heard[i] = Never \/ heard'[i] - heard[i] >= Cooldown
    <2>1. PICK a \in T : Identity(a) = i
      BY <1>3, <1>9
    <2>2. heard'[i] = a.at /\ ~Suppressed(a) /\ heard[i] = lastSent[Fingerprint(a)]
      BY <1>1, <1>2, <1>5, <1>6, <2>1
    <2>3. a.at \in Int /\ (heard[i] = Never \/ heard[i] \in Int) /\ Cooldown \in Int
      BY <1>2, <1>5, <2>1, TelemetryAssumption DEF BooksShape, Batch
    <2> QED
      BY <2>2, <2>3 DEF Suppressed
  <1> QED
    BY <1>1, <1>3, <1>7, <1>8, <1>9 DEF DispatchShape

-----------------------------------------------------------------------------
LEMMA CooldownInvInit == Init => CooldownInv
  BY TelemetryAssumption, NamesAgree
     DEF Init, RulesInit, CooldownInv, RaisedShape, BooksShape, DispatchShape, Job, Jobs,
         Identities, Fingerprints, Key

(* What the dispatcher's invariant is about, when nobody dispatches.         *)
LEMMA DispatchUntouched ==
  ASSUME CooldownInv,
         UNCHANGED <<raised, heard, lastSent, todo>>,
         clock' \in 0..Horizon,
         evaluate' \in Jobs,
         evaluate'.stage = evaluate.stage \/ raised = {},
         phase' = "down" => phase = "down" /\ evaluate' = evaluate
  PROVE  CooldownInv'
  <1>1. RaisedShape'
    BY DEF CooldownInv, RaisedShape
  <1>2. BooksShape'
    BY DEF CooldownInv, BooksShape
  <1>3. DispatchShape'
    BY DEF CooldownInv, RaisedShape, DispatchShape, Suppressed, Reached
  <1> QED
    BY <1>1, <1>2, <1>3 DEF CooldownInv

LEMMA EvaluateKeeps ==
  ASSUME CooldownInv, Evaluate
  PROVE  /\ CooldownInv'
         /\ \A i \in Identities :
              heard'[i] # heard[i] => heard[i] = Never \/ heard'[i] - heard[i] >= Cooldown
  <1> DEFINE S == {a \in Judged : ~Suppressed(a)}
  <1>1. Batch(Judged, clock) /\ clock \in Nat
    BY JudgedBatch, TelemetryAssumption DEF CooldownInv, RaisedShape
  <1>2. DispatchOn(S) /\ raised' = Judged
    BY DEF Evaluate
  <1>3. \A a \in Judged \ S : Reached(a)
    <2> SUFFICES ASSUME NEW a \in Judged, Suppressed(a)
                 PROVE  Reached(a)
      OBVIOUS
    <2>1. heard[Identity(a)] = lastSent[Fingerprint(a)]
      BY <1>1, NamesAgree DEF Batch, CooldownInv, BooksShape
    <2> QED
      BY <2>1 DEF Suppressed, Reached
  <1>4. BooksShape /\ evaluate \in Jobs
    BY DEF CooldownInv, RaisedShape
  <1>5. S \subseteq Judged /\ \A a \in S : ~Suppressed(a)
    OBVIOUS
  <1> HIDE DEF S
  <1>6. /\ BooksShape' /\ DispatchShape'
        /\ todo' \subseteq Judged
        /\ evaluate' \in Jobs
        /\ todo' # {} => evaluate'.stage = "waiting"
        /\ \A i \in Identities :
             heard'[i] # heard[i] => heard[i] = Never \/ heard'[i] - heard[i] >= Cooldown
    BY <1>1, <1>2, <1>3, <1>4, <1>5, DispatchKeeps
  <1>7. RaisedShape'
    <2>1. clock' = clock /\ phase' = phase /\ phase # "down"
      BY DEF Evaluate, Due, CooldownInv, RaisedShape
    <2> QED
      BY <1>1, <1>2, <1>6, <2>1 DEF RaisedShape, CooldownInv, Batch
  <1> QED
    BY <1>6, <1>7 DEF CooldownInv

LEMMA PostReturnsKeeps ==
  ASSUME CooldownInv, PostReturns
  PROVE  /\ CooldownInv'
         /\ \A i \in Identities :
              heard'[i] # heard[i] => heard[i] = Never \/ heard'[i] - heard[i] >= Cooldown
  <1>1. PICK t \in Nat : Batch(raised, t)
    <2>1. CASE raised = {}
      BY <2>1 DEF Batch
    <2>2. CASE raised # {}
      <3>1. PICK b \in raised : TRUE
        BY <2>2
      <3>2. b.at \in Nat /\ \A a \in raised : a.at = b.at
        BY <3>1 DEF CooldownInv, RaisedShape, RaisedAlerts
      <3> QED
        BY <3>2 DEF CooldownInv, RaisedShape, Batch
    <2> QED
      BY <2>1, <2>2
  <1>2. DispatchOn(todo) /\ raised' = raised
    BY DEF PostReturns
  <1>3. /\ todo \subseteq raised /\ BooksShape /\ evaluate \in Jobs
        /\ \A a \in todo : ~Suppressed(a)
        /\ \A a \in raised \ todo : Reached(a)
    BY DEF PostReturns, CooldownInv, RaisedShape, DispatchShape
  <1>4. /\ BooksShape' /\ DispatchShape'
        /\ todo' \subseteq raised
        /\ evaluate' \in Jobs
        /\ todo' # {} => evaluate'.stage = "waiting"
        /\ \A i \in Identities :
             heard'[i] # heard[i] => heard[i] = Never \/ heard'[i] - heard[i] >= Cooldown
    BY <1>1, <1>2, <1>3, DispatchKeeps
  <1>5. RaisedShape'
    <2>1. clock' = clock /\ phase' = phase /\ phase # "down"
      BY DEF PostReturns, CooldownInv, RaisedShape
    <2> QED
      BY <1>2, <1>4, <2>1 DEF RaisedShape, CooldownInv
  <1> QED
    BY <1>4, <1>5 DEF CooldownInv

(* Every step keeps the invariant, and none repeats an alert too soon.       *)
LEMMA CooldownStep ==
  ASSUME CooldownInv, [Next]_vars
  PROVE  /\ CooldownInv'
         /\ \A i \in Identities :
              heard'[i] # heard[i] => heard[i] = Never \/ heard'[i] - heard[i] >= Cooldown
  <1> USE DEF CooldownInv, RaisedShape
  <1>1. CASE Start
    <2>1. evaluate' \in Jobs
      BY <1>1, TelemetryAssumption DEF Start, Job, Jobs
    <2> QED
      BY <1>1, <2>1, DispatchUntouched DEF Start
  <1>2. CASE Tick
    BY <1>2, DispatchUntouched, TelemetryAssumption DEF Tick
  <1>3. CASE CollectLocally \/ AskSource \/ SourceAnswers \/ CollectFails
    BY <1>3, DispatchUntouched DEF CollectLocally, AskSource, SourceAnswers, CollectFails
  <1>4. CASE Evaluate
    BY <1>4, EvaluateKeeps
  <1>5. CASE PostReturns
    BY <1>5, PostReturnsKeeps
  <1>6. CASE StopBegins \/ CloseSource \/ CloseSink \/ Stopped
    BY <1>6, DispatchUntouched DEF StopBegins, CloseSource, CloseSink, Stopped
  <1>7. CASE Shutdown
    <2>1. /\ UNCHANGED <<clock, phase, raised, heard, lastSent>>
          /\ todo' = {} /\ phase # "down"
          /\ evaluate' = [evaluate EXCEPT !.stage = "none"]
      BY <1>7 DEF Shutdown, NextHook
    <2>2. evaluate' \in Jobs /\ evaluate'.stage = "none"
      BY <2>1 DEF Jobs
    <2>3. BooksShape'
      BY <2>1 DEF BooksShape
    <2> QED
      BY <2>1, <2>2, <2>3 DEF DispatchShape
  <1>8. CASE UNCHANGED vars
    BY <1>8, DispatchUntouched DEF vars
  <1> QED
    BY <1>1, <1>2, <1>3, <1>4, <1>5, <1>6, <1>7, <1>8 DEF Next

-----------------------------------------------------------------------------
LEMMA CooldownInvHolds == Spec => []CooldownInv
  BY CooldownInvInit, CooldownStep, PTL DEF Spec

(* Suppression loses no alert: when an evaluation is over, everything it raised
   has reached the sink, then or less than a cooldown before.                 *)
THEOREM NothingForgottenHolds == Spec => []NothingForgotten
  <1>1. CooldownInv => NothingForgotten
    BY DEF CooldownInv, RaisedShape, DispatchShape, Reached, NothingForgotten
  <1> QED
    BY <1>1, CooldownInvHolds, PTL

(* No alert reaches the sink twice within its cooldown.                      *)
THEOREM NoRepeatInCooldownHolds == Spec => NoRepeatInCooldown
  <1>1. CooldownInv /\ [Next]_vars =>
          [\A i \in Identities :
             heard'[i] # heard[i] => heard[i] = Never \/ heard'[i] - heard[i] >= Cooldown]_vars
    BY CooldownStep
  <1> QED
    BY <1>1, CooldownInvHolds, PTL DEF Spec, NoRepeatInCooldown

-----------------------------------------------------------------------------
(* The readings.                                                             *)

(* The sum over a window is a number, however many samples are kept.  It is
   defined by recursion: were it not for some lengths, there would be a least
   one among them.                                                           *)
LEMMA TotalIsNat ==
  ASSUME Values \subseteq Nat, NEW q \in Seq(Samples), NEW places
  PROVE  Total(q, places) \in Nat
<1> DEFINE n == Len(q)
           a(k) == IF k \in places THEN q[k].value ELSE 0
           upto[k \in 0..n] == IF k = 0 THEN 0 ELSE upto[k - 1] + a(k)
           Sums(g, m) == /\ g \in [0..m -> Nat] /\ g[0] = 0
                         /\ \A k \in 1..m : g[k] = g[k - 1] + a(k)
<1>1. n \in Nat /\ \A k \in 1..n : a(k) \in Nat
  <2>1. n \in Nat /\ \A k \in 1..n : q[k] \in Samples
    BY LenProperties, ElementOfSeq
  <2>. QED
    BY <2>1 DEF Samples
<1>. Total(q, places) = upto[n]
  BY DEF Total
<1>. HIDE DEF n, a, Sums
<1>2. \E g : Sums(g, n)
  <2> DEFINE T == {m \in 0..n : ~\E g : Sums(g, m)}
  <2>1. SUFFICES ASSUME n \in T  PROVE FALSE
    BY <1>1
  <2>. T \in SUBSET Nat
    BY <1>1
  <2>. HIDE DEF T
  <2>2. PICK m \in T : \A l \in T : m <= l
    BY <2>1, LeastPlace
  <2>3. m \in 0..n /\ ~\E g : Sums(g, m)
    BY <2>2 DEF T
  <2>4. CASE m = 0
    <3>1. Sums([k \in 0..0 |-> 0], m)
      BY <2>4 DEF Sums
    <3>. QED
      BY <2>3, <3>1
  <2>5. CASE m # 0
    <3>1. m \in 1..n /\ m - 1 \in 0..n /\ ~(m <= m - 1)
      BY <1>1, <2>3, <2>5
    <3>2. m - 1 \notin T
      BY <2>2, <3>1
    <3>3. PICK g : Sums(g, m - 1)
      BY <3>1, <3>2 DEF T
    <3> DEFINE h == [k \in 0..m |-> IF k = m THEN g[m - 1] + a(m) ELSE g[k]]
    <3>4. g \in [0..m - 1 -> Nat] /\ g[0] = 0 /\ \A k \in 1..m - 1 : g[k] = g[k - 1] + a(k)
      BY <3>3 DEF Sums
    <3>5. h \in [0..m -> Nat] /\ h[0] = 0
      BY <1>1, <3>1, <3>4
    <3>6. ASSUME NEW k \in 1..m  PROVE h[k] = h[k - 1] + a(k)
      <4>1. k - 1 \in 0..m - 1 /\ k - 1 # m /\ h[k - 1] = g[k - 1]
        BY <3>1
      <4>2. CASE k = m
        BY <3>1, <4>1, <4>2
      <4>3. CASE k # m
        <5>1. k \in 1..m - 1 /\ k \in 0..m
          BY <3>1, <4>3
        <5>. QED
          BY <3>4, <4>1, <4>3, <5>1
      <4>. QED
        BY <4>2, <4>3
    <3>. QED
      BY <2>3, <3>5, <3>6 DEF Sums
  <2>. QED
    BY <2>4, <2>5
<1>3. PICK g : Sums(g, n)
  BY <1>2
<1>4. g = [k \in 0..n |-> IF k = 0 THEN 0 ELSE g[k - 1] + a(k)]
  BY <1>1, <1>3 DEF Sums
<1>5. upto = [k \in 0..n |-> IF k = 0 THEN 0 ELSE upto[k - 1] + a(k)]
  BY <1>4
<1>. HIDE DEF upto
<1>6. \A k \in 0..n : upto[k] = IF k = 0 THEN 0 ELSE upto[k - 1] + a(k)
  BY <1>5
<1> DEFINE T == {m \in 0..n : upto[m] \notin Nat}
<1>7. SUFFICES ASSUME n \in T  PROVE FALSE
  BY <1>1
<1>. T \in SUBSET Nat
  BY <1>1
<1>. HIDE DEF T
<1>8. PICK m \in T : \A l \in T : m <= l
  BY <1>7, LeastPlace
<1>9. m \in 0..n /\ upto[m] \notin Nat
  BY <1>8 DEF T
<1>10. m \in 1..n /\ upto[m] = upto[m - 1] + a(m)
  BY <1>1, <1>6, <1>9
<1>11. m - 1 \in 0..n /\ upto[m - 1] \in Nat
  BY <1>1, <1>8, <1>10 DEF T
<1>. QED
  BY <1>1, <1>9, <1>10, <1>11

LEMMA StatTypes ==
  ASSUME series \in [Series -> Seq(Samples)], NEW s \in Series
  PROVE  Stat(s) \in Stats
<1> DEFINE window == {i \in DOMAIN series[s] : InWindow(series[s][i])}
<1>1. series[s] \in Seq(Samples) /\ window \subseteq DOMAIN series[s]
  OBVIOUS
<1>2. Stat(s) = [sum |-> Total(series[s], window), count |-> Cardinality(window)]
  BY DEF Stat
<1>. HIDE DEF window
<1>3. Total(series[s], window) \in Nat
  BY <1>1, TotalIsNat, RulesAssumption
<1>4. Cardinality(window) \in Nat
  BY <1>1, Counting
<1>. QED
  BY <1>2, <1>3, <1>4 DEF Stats

(* No sample comes from the future: a device is silent or it is not.         *)
NotFromTheFuture == \A s \in Series : \A i \in DOMAIN series[s] : series[s][i].at <= clock

(* A ring buffer that takes one more sample.                                 *)
LEMMA BufferTakes ==
  ASSUME NEW q \in Seq(Samples), Len(q) <= Capacity, NEW x \in Samples, NEW now \in Nat,
         x.at <= now, \A i \in DOMAIN q : q[i].at <= now,
         NEW p, p = IF Len(Append(q, x)) > Capacity THEN Tail(Append(q, x)) ELSE Append(q, x)
  PROVE  p \in Seq(Samples) /\ Len(p) <= Capacity /\ \A i \in DOMAIN p : p[i].at <= now
<1> DEFINE all == Append(q, x)
<1>1. /\ Len(q) \in Nat /\ Capacity \in Nat /\ DOMAIN q = 1..Len(q)
      /\ all \in Seq(Samples) /\ Len(all) = Len(q) + 1 /\ DOMAIN all = 1..Len(q) + 1
      /\ \A i \in 1..Len(q) + 1 : all[i] = IF i = Len(q) + 1 THEN x ELSE q[i]
  BY LenProperties, AppendProperties, RulesAssumption
<1>. HIDE DEF all
<1>2. \A i \in DOMAIN all : all[i].at <= now
  BY <1>1
<1>3. CASE Len(all) > Capacity
  <2>1. all # << >>
    BY <1>1
  <2>2. /\ Tail(all) \in Seq(Samples) /\ Len(Tail(all)) = Len(q)
        /\ DOMAIN Tail(all) = 1..Len(q)
        /\ \A i \in 1..Len(q) : Tail(all)[i] = all[i + 1]
    BY <1>1, <2>1, HeadTailProperties, LenProperties
  <2>3. ASSUME NEW i \in 1..Len(q)  PROVE Tail(all)[i].at <= now
    <3> DEFINE j == i + 1
    <3>1. j \in DOMAIN all
      BY <1>1
    <3>2. Tail(all)[i] = all[j]
      BY <2>2
    <3>. QED
      BY <1>2, <3>1, <3>2
  <2>. QED
    BY <1>3, <2>2, <2>3 DEF all
<1>4. CASE ~(Len(all) > Capacity)
  BY <1>1, <1>2, <1>4 DEF all
<1>. QED
  BY <1>3, <1>4

LEMMA RecordedTypes ==
  ASSUME TypeOK, NotFromTheFuture, NEW S \in SUBSET Series,
         NEW rows \in [S -> [value : Values, at : 0..clock]],
         series' = Recorded(rows), clock' = clock
  PROVE  /\ series' \in [Series -> Seq(Samples)]
         /\ \A s \in Series : Len(series'[s]) <= Capacity
         /\ NotFromTheFuture'
<1>1. clock \in Nat
  BY TelemetryAssumption DEF TypeOK
<1>2. ASSUME NEW s \in Series
      PROVE  /\ series'[s] \in Seq(Samples) /\ Len(series'[s]) <= Capacity
             /\ \A i \in DOMAIN series'[s] : series'[s][i].at <= clock
  <2>1. /\ series[s] \in Seq(Samples) /\ Len(series[s]) <= Capacity
        /\ \A i \in DOMAIN series[s] : series[s][i].at <= clock
    BY DEF TypeOK, NotFromTheFuture
  <2>2. CASE s \notin S
    BY <2>1, <2>2 DEF Recorded
  <2>3. CASE s \in S
    <3>1. rows[s] \in Samples /\ rows[s].at <= clock
      BY <1>1, <2>3 DEF Samples
    <3>2. series'[s] = IF Len(Append(series[s], rows[s])) > Capacity
                         THEN Tail(Append(series[s], rows[s])) ELSE Append(series[s], rows[s])
      BY <2>3 DEF Recorded
    <3>. QED
      BY <1>1, <2>1, <3>1, <3>2, BufferTakes
  <2>. QED
    BY <2>2, <2>3
<1>3. series' = [s \in Series |-> series'[s]]
  BY DEF Recorded
<1>. QED
  BY <1>2, <1>3 DEF NotFromTheFuture

(* The readings, the clock and what the rules remember.                      *)
ReadingsShape ==
  /\ clock \in 0..Horizon
  /\ series \in [Series -> Seq(Samples)]
  /\ \A s \in Series : Len(series[s]) <= Capacity
  /\ previous \in [Series -> Stats]
  /\ NotFromTheFuture

LEMMA ReadingsStep ==
  ASSUME TypeOK, NotFromTheFuture, [Next]_vars
  PROVE  ReadingsShape'
<1>. TypeOK /\ NotFromTheFuture /\ Horizon \in Nat
  BY TelemetryAssumption
<1>1. ASSUME UNCHANGED <<clock, series, previous>>  PROVE ReadingsShape'
  BY <1>1 DEF TypeOK, ReadingsShape, NotFromTheFuture
<1>2. CASE Tick
  <2>1. /\ clock' = clock + 1 /\ clock' \in 0..Horizon
        /\ series' = series /\ previous' = previous
    BY <1>2 DEF Tick, TypeOK
  <2>2. ASSUME NEW s \in Series, NEW i \in DOMAIN series[s]  PROVE series[s][i].at <= clock + 1
    <3>1. series[s][i] \in Samples
      BY ElementOfSeq, LenProperties DEF TypeOK
    <3>. QED
      BY <3>1 DEF TypeOK, NotFromTheFuture, Samples
  <2>. QED
    BY <2>1, <2>2 DEF TypeOK, ReadingsShape, NotFromTheFuture
<1>3. CASE CollectLocally
  <2>1. PICK reading \in [Series -> Values] :
          series' = Recorded([s \in Series |-> [value |-> reading[s], at |-> clock]])
    BY <1>3 DEF CollectLocally
  <2> DEFINE rows == [s \in Series |-> [value |-> reading[s], at |-> clock]]
  <2>2. rows \in [Series -> [value : Values, at : 0..clock]] /\ Series \in SUBSET Series
    BY DEF TypeOK
  <2>3. series' = Recorded(rows) /\ clock' = clock /\ previous' = previous
    BY <1>3, <2>1 DEF CollectLocally
  <2>. HIDE DEF rows
  <2>. QED
    BY <2>2, <2>3, RecordedTypes DEF TypeOK, ReadingsShape
<1>4. CASE SourceAnswers
  <2>1. PICK S \in SUBSET Series :
          \E rows \in [S -> [value : Values, at : {t \in 0..clock : clock - t <= MaxLag}]] :
            series' = Recorded(rows)
    BY <1>4 DEF SourceAnswers
  <2>2. PICK rows \in [S -> [value : Values, at : {t \in 0..clock : clock - t <= MaxLag}]] :
          series' = Recorded(rows)
    BY <2>1
  <2>3. rows \in [S -> [value : Values, at : 0..clock]]
    OBVIOUS
  <2>4. clock' = clock /\ previous' = previous
    BY <1>4 DEF SourceAnswers
  <2>. QED
    BY <2>2, <2>3, <2>4, RecordedTypes DEF TypeOK, ReadingsShape
<1>5. CASE Evaluate
  <2>1. /\ clock' = clock /\ series' = series
        /\ previous' = [s \in Series |-> IF s \in Live THEN Stat(s) ELSE previous[s]]
    BY <1>5 DEF Evaluate, Remembered
  <2>2. previous' \in [Series -> Stats]
    BY <2>1, StatTypes DEF TypeOK
  <2>. QED
    BY <2>1, <2>2 DEF TypeOK, ReadingsShape, NotFromTheFuture
<1>. QED
  BY <1>1, <1>2, <1>3, <1>4, <1>5
     DEF Next, Start, AskSource, CollectFails, PostReturns, StopBegins, CloseSource, CloseSink,
         Shutdown, Stopped, vars

(* The jobs, the backends and the two books.                                 *)
BooksTypes ==
  /\ lastSent \in [Fingerprints -> 0..Horizon \cup {Never}]
  /\ heard \in [Identities -> 0..Horizon \cup {Never}]

LEMMA MarkTypes ==
  ASSUME TypeOK, NEW S, S \subseteq RaisedAlerts, Mark(S)
  PROVE  BooksTypes'
<1>1. \A f \in Fingerprints : lastSent'[f] \in 0..Horizon \cup {Never}
  BY DEF Mark, TypeOK, RaisedAlerts
<1>2. \A i \in Identities : heard'[i] \in 0..Horizon \cup {Never}
  BY DEF Mark, TypeOK, RaisedAlerts
<1>3. /\ lastSent' = [f \in Fingerprints |-> lastSent'[f]]
      /\ heard' = [i \in Identities |-> heard'[i]]
  BY DEF Mark
<1>. QED
  BY <1>1, <1>2, <1>3 DEF BooksTypes

LEMMA BooksTypesStep ==
  ASSUME TypeOK, [Next]_vars
  PROVE  BooksTypes'
<1>. TypeOK
  OBVIOUS
<1>1. ASSUME UNCHANGED <<lastSent, heard>>  PROVE BooksTypes'
  BY <1>1 DEF TypeOK, BooksTypes
<1>2. ASSUME NEW S, S \subseteq RaisedAlerts, DispatchOn(S)  PROVE BooksTypes'
  BY <1>2, MarkTypes DEF DispatchOn
<1>3. CASE Evaluate
  <2>1. Judged \subseteq RaisedAlerts
    BY JudgedBatch DEF TypeOK, Batch
  <2>. QED
    BY <1>2, <1>3, <2>1 DEF Evaluate
<1>4. CASE PostReturns
  BY <1>2, <1>4 DEF PostReturns, TypeOK
<1>. QED
  BY <1>1, <1>3, <1>4
     DEF Next, Start, Tick, CollectLocally, AskSource, SourceAnswers, CollectFails, StopBegins,
         CloseSource, CloseSink, Shutdown, Stopped, vars

LEMMA StagesStep ==
  ASSUME TypeOK, [Next]_vars
  PROVE  /\ phase' \in {"down", "running", "stopping", "stopped"}
         /\ source' \in {"remote", "closing", "local"}
         /\ sink' \in {"remote", "closing", "local"}
         /\ collect' \in Jobs
<1>1. phase' \in {"down", "running", "stopping", "stopped"}
  BY DEF TypeOK, Next, Start, Tick, CollectLocally, AskSource, SourceAnswers, CollectFails,
         Evaluate, PostReturns, StopBegins, CloseSource, CloseSink, Shutdown, Stopped, vars
<1>2. source' \in {"remote", "closing", "local"} /\ sink' \in {"remote", "closing", "local"}
  BY DEF TypeOK, Next, Start, Tick, CollectLocally, AskSource, SourceAnswers, CollectFails,
         Evaluate, PostReturns, StopBegins, CloseSource, CloseSink, Shutdown, Stopped, vars
<1>3. collect' \in Jobs
  <2>1. /\ clock \in Nat /\ CollectInterval \in Nat /\ collect \in Jobs
    BY TelemetryAssumption DEF TypeOK
  <2>2. Again(collect, CollectInterval) \in Jobs /\ Job("asleep", clock + CollectInterval) \in Jobs
    BY <2>1 DEF Again, Job, Jobs
  <2>3. [collect EXCEPT !.stage = "waiting"] \in Jobs /\ [collect EXCEPT !.stage = "none"] \in Jobs
    BY <2>1 DEF Jobs
  <2>. QED
    BY <2>1, <2>2, <2>3
       DEF Next, Start, Tick, CollectLocally, AskSource, SourceAnswers, CollectFails,
         Evaluate, PostReturns, StopBegins, CloseSource, CloseSink, Shutdown, Stopped, vars
<1>. QED
  BY <1>1, <1>2, <1>3

TelemetryInv == TypeOK /\ NotFromTheFuture /\ CooldownInv

LEMMA TelemetryInit == Init => TelemetryInv
<1> SUFFICES ASSUME Init PROVE TypeOK /\ NotFromTheFuture
  BY CooldownInvInit DEF TelemetryInv
<1>1. /\ << >> \in Seq(Samples) /\ Len(<< >>) = 0 /\ DOMAIN << >> = {}
      /\ [sum |-> 0, count |-> 0] \in Stats /\ Job("none", 0) \in Jobs
  BY EmptySeq DEF Stats, Job, Jobs
<1>2. /\ series = [s \in Series |-> << >>]
      /\ previous = [s \in Series |-> [sum |-> 0, count |-> 0]]
      /\ clock = 0 /\ Horizon \in Nat /\ Capacity \in Nat
  BY TelemetryAssumption, RulesAssumption DEF Init, RulesInit
<1>3. /\ series \in [Series -> Seq(Samples)] /\ previous \in [Series -> Stats]
      /\ \A s \in Series : Len(series[s]) <= Capacity
  BY <1>1, <1>2
<1>4. NotFromTheFuture
  BY <1>1, <1>2 DEF NotFromTheFuture
<1>. QED
  BY <1>1, <1>2, <1>3, <1>4 DEF Init, TypeOK

LEMMA TelemetryStep == TelemetryInv /\ [Next]_vars => TelemetryInv'
<1> SUFFICES ASSUME TelemetryInv, [Next]_vars PROVE TelemetryInv'
  OBVIOUS
<1>1. TypeOK /\ NotFromTheFuture /\ CooldownInv
  BY DEF TelemetryInv
<1>2. ReadingsShape' /\ BooksTypes' /\ CooldownInv'
  BY <1>1, ReadingsStep, BooksTypesStep, CooldownStep
<1>3. /\ phase' \in {"down", "running", "stopping", "stopped"}
      /\ source' \in {"remote", "closing", "local"}
      /\ sink' \in {"remote", "closing", "local"}
      /\ collect' \in Jobs
  BY <1>1, StagesStep
<1>. QED
  BY <1>2, <1>3 DEF TelemetryInv, TypeOK, ReadingsShape, BooksTypes, CooldownInv, RaisedShape

(* Types; a ring buffer never holds more than series_capacity samples, and what
   is in flight was raised by the latest evaluation.                         *)
THEOREM TelemetryTypeCorrect == Spec => []TypeOK
<1>1. TelemetryInv => TypeOK
  BY DEF TelemetryInv
<1>. QED
  BY TelemetryInit, TelemetryStep, <1>1, PTL DEF Spec

-----------------------------------------------------------------------------
(* What is judged.                                                           *)

(* Some sample of a set of instants up to the present is the latest.         *)
LEMMA LatestInstant ==
  ASSUME NEW T \in SUBSET (0..clock), NEW t \in T, clock \in Nat
  PROVE  Max(T) \in T
<1> DEFINE U == {clock - x : x \in T}
<1>1. U \in SUBSET Nat /\ clock - t \in U
  OBVIOUS
<1>2. PICK u \in U : \A v \in U : u <= v
  <2>. HIDE DEF U
  <2>. QED
    BY <1>1, LeastPlace
<1>3. PICK x \in T : u = clock - x
  BY <1>2
<1>4. ASSUME NEW y \in T  PROVE x >= y
  <2>1. clock - x <= clock - y /\ x \in Int /\ y \in Int
    BY <1>2, <1>3
  <2>. QED
    BY <2>1
<1>. QED
  BY <1>3, <1>4 DEF Max

(* A series that the threshold and the rate rule look at belongs to a device
   one of whose samples is recent enough.                                    *)
LEMMA LiveIsFresh ==
  ASSUME TypeOK, NotFromTheFuture, NEW s \in Live
  PROVE  \E r \in Series : /\ r[1] = s[1]
                           /\ \E i \in DOMAIN series[r] :
                                clock - series[r][i].at <= OfflineAfter
<1> DEFINE window == {i \in DOMAIN series[s] : InWindow(series[s][i])}
<1>1. s \in Series /\ Stat(s).count > 0 /\ ~Offline(s[1])
  BY DEF Live
<1>2. Stat(s).count = Cardinality(window)
  BY DEF Stat
<1>3. series[s] # << >>
  <2>1. window # {}
    <3>. HIDE DEF window
    <3>. QED
      BY <1>1, <1>2, FS_EmptySet
  <2>. QED
    BY <2>1
<1>4. clock \in Nat /\ OfflineAfter \in Nat
  BY TelemetryAssumption, RulesAssumption DEF TypeOK
<1>5. ASSUME NEW r \in Series, series[r] # << >>
      PROVE  /\ Len(series[r]) \in DOMAIN series[r]
             /\ Last(series[r]) = series[r][Len(series[r])]
             /\ Last(series[r]).at \in 0..clock
  <2>1. /\ series[r] \in Seq(Samples) /\ Len(series[r]) \in 1..Len(series[r])
        /\ DOMAIN series[r] = 1..Len(series[r])
    BY <1>5, EmptySeq, LenProperties DEF TypeOK
  <2>2. series[r][Len(series[r])] \in Samples
    BY <2>1, ElementOfSeq
  <2>3. Last(series[r]) = series[r][Len(series[r])]
    BY DEF Last
  <2>. QED
    BY <1>4, <2>1, <2>2, <2>3 DEF NotFromTheFuture, Samples
<1>6. Seen(s[1]) \in SUBSET (0..clock) /\ Last(series[s]).at \in Seen(s[1])
  BY <1>1, <1>3, <1>5 DEF Seen
<1>7. Max(Seen(s[1])) \in Seen(s[1])
  BY <1>4, <1>6, LatestInstant
<1>8. PICK r \in Series : r[1] = s[1] /\ series[r] # << >> /\ Max(Seen(s[1])) = Last(series[r]).at
  BY <1>7 DEF Seen
<1>9. clock - Last(series[r]).at <= OfflineAfter
  <2>1. ~(clock - Max(Seen(s[1])) > OfflineAfter)
    BY <1>1, <1>6 DEF Offline
  <2>. QED
    BY <1>4, <1>5, <1>8, <2>1
<1>. QED
  BY <1>5, <1>8, <1>9

LEMMA JudgedFresh ==
  ASSUME TypeOK, NotFromTheFuture, NEW a \in Judged, a.kind # "offline"
  PROVE  \E r \in Series : /\ r[1] = a.device
                           /\ \E i \in DOMAIN series[r] :
                                clock - series[r][i].at <= OfflineAfter
<1>1. a \notin OfflineAlerts
  BY DEF OfflineAlerts, Alert
<1>2. PICK s \in Live : a \in ThresholdAlerts(s) \cup RateAlerts(s)
  BY <1>1 DEF Judged
<1>3. a.device = s[1]
  BY <1>2 DEF ThresholdAlerts, RateAlerts, Alert
<1>. QED
  BY <1>3, LiveIsFresh

(* No verdict is reached about the readings of a device that has gone silent:
   whatever the rules raise about them, something the device sent is recent. *)
THEOREM JudgedOnFreshDataHolds == Spec => JudgedOnFreshData
<1> DEFINE Fresh ==
      \A a \in raised' \ raised :
        a.kind # "offline" =>
          \E s \in Series : /\ s[1] = a.device
                            /\ \E i \in DOMAIN series[s] :
                                 clock - series[s][i].at <= OfflineAfter
<1>1. TelemetryInv /\ [Next]_vars => [Fresh]_vars
  <2> SUFFICES ASSUME TelemetryInv, Next  PROVE Fresh
    OBVIOUS
  <2>1. CASE Evaluate
    BY <2>1, JudgedFresh DEF Evaluate, TelemetryInv
  <2>2. CASE ~Evaluate
    <3>1. raised' = raised
      BY <2>2 DEF Next, Start, Tick, CollectLocally, AskSource, SourceAnswers, CollectFails,
                  PostReturns, StopBegins, CloseSource, CloseSink, Shutdown, Stopped
    <3>. QED
      BY <3>1
  <2>. QED
    BY <2>1, <2>2
<1>. QED
  BY TelemetryInit, TelemetryStep, <1>1, PTL DEF Spec, JudgedOnFreshData

=============================================================================
