----------------------------- MODULE AlertRules ------------------------------
(***************************************************************************)
(* telemetry: the ring buffers (store/metric_store.py), the window over    *)
(* them (pipeline/aggregator.py) and the three rules (pipeline/rules.py).  *)
(* Values are whole numbers and an average is kept as sum and count, so    *)
(* that comparisons are exact; the code's floats round.                    *)
(***************************************************************************)
EXTENDS Integers, SequencesExt, FiniteSetsExt

CONSTANTS
  Devices,       \* enabled devices of the registry
  Metrics,       \* what each of them reports
  Guarded,       \* the series that have a threshold
  Values,        \* readings
  Warning, Critical,
  RatePercent,   \* rate_change_ratio, in percent
  WindowSize,    \* window_seconds
  OfflineAfter,  \* offline_after_seconds
  Capacity       \* series_capacity

Series == Devices \X Metrics

ASSUME RulesAssumption ==
  /\ Guarded \subseteq Series
  /\ Values \subseteq Nat
  /\ {Warning, Critical, RatePercent, WindowSize, OfflineAfter, Capacity} \subseteq Nat

VARIABLES
  clock,     \* Clock.now()
  series,    \* per series, the samples kept, oldest record first
  previous   \* RuleEngine._previous; a sum of 0 stands for None as for 0

Samples == [value : Values, at : Nat]
Stats == [sum : Nat, count : Nat]

RulesInit ==
  /\ clock = 0
  /\ series = [s \in Series |-> <<>>]
  /\ previous = [s \in Series |-> [sum |-> 0, count |-> 0]]

(* Mutant: nothing falls off.                                                *)
Recorded_Unbounded(rows) ==
  [s \in Series |-> IF s \in DOMAIN rows THEN Append(series[s], rows[s]) ELSE series[s]]

(* record_many: deque(maxlen) lets the oldest record fall off.               *)
Recorded(rows) ==
  [s \in Series |->
     IF s \notin DOMAIN rows THEN series[s]
     ELSE LET q == Append(series[s], rows[s])
          IN  IF Len(q) > Capacity THEN Tail(q) ELSE q]

(* What last_seen takes the greatest of: the last record of each series.     *)
Seen(d) == {Last(series[s]).at : s \in {r \in Series : r[1] = d /\ series[r] # <<>>}}

Offline(d) == Seen(d) # {} /\ clock - Max(Seen(d)) > OfflineAfter

InWindow(x) == clock - WindowSize <= x.at /\ x.at <= clock

Total(q, places) ==
  LET upto[k \in 0..Len(q)] ==
        IF k = 0 THEN 0 ELSE upto[k - 1] + (IF k \in places THEN q[k].value ELSE 0)
  IN  upto[Len(q)]

Stat(s) ==
  LET window == {i \in DOMAIN series[s] : InWindow(series[s][i])}
  IN  [sum |-> Total(series[s], window), count |-> Cardinality(window)]

(* Mutant: silent devices are judged too.                                    *)
Live_EvenOffline == {s \in Series : Stat(s).count > 0}

(* The series the second and third rule look at.                             *)
Live == {s \in Series : Stat(s).count > 0 /\ ~Offline(s[1])}

Alert(d, m, kind, severity) ==
  [device |-> d, metric |-> m, kind |-> kind, severity |-> severity, at |-> clock]

OfflineAlerts == {Alert(d, "*", "offline", "critical") : d \in {e \in Devices : Offline(e)}}

SeverityFor(stat) ==
  IF stat.sum >= Critical * stat.count THEN {"critical"}
  ELSE IF stat.sum >= Warning * stat.count THEN {"warning"} ELSE {}

ThresholdAlerts(s) ==
  {Alert(s[1], s[2], "threshold", sev) :
     sev \in IF s \in Guarded THEN SeverityFor(Stat(s)) ELSE {}}

Distance(i, j) == IF i > j THEN i - j ELSE j - i

(* |avg - previous| / |previous| >= ratio, multiplied out.                   *)
Jumped(s) ==
  LET now == Stat(s)
      old == previous[s]
  IN  /\ old.sum # 0
      /\ 100 * Distance(now.sum * old.count, old.sum * now.count)
           >= RatePercent * old.sum * now.count

RateAlerts(s) == IF Jumped(s) THEN {Alert(s[1], s[2], "rate", "warning")} ELSE {}

(* RuleEngine.evaluate: the alerts, and what it remembers for the next time. *)
Judged == OfflineAlerts \cup UNION {ThresholdAlerts(s) \cup RateAlerts(s) : s \in Live}

Remembered == [s \in Series |-> IF s \in Live THEN Stat(s) ELSE previous[s]]

=============================================================================
