------------------------------ MODULE Telemetry ------------------------------
(***************************************************************************)
(* telemetry: the daemon.  Two jobs run for ever on one event loop: collect*)
(* reads the source into the store, evaluate judges the store and          *)
(* dispatches alerts.  A job is a coroutine; each action below is what runs*)
(* between two of its awaits.  stop() closes the backends and cancels the  *)
(* jobs, in an order the units' dependencies leave open.                   *)
(***************************************************************************)
EXTENDS AlertRules

CONSTANTS
  CollectInterval, EvaluateInterval,
  Cooldown,        \* alert_cooldown_seconds
  UseHttpSource, UseWebhookSink,
  MaxLag,          \* bound: how old a row of the HTTP source may be
  MaxLate,         \* bound: how long a job that is due may be kept waiting
  Horizon          \* bound: the last instant of the clock

ASSUME TelemetryAssumption ==
  /\ {CollectInterval, EvaluateInterval, Cooldown, MaxLag, MaxLate, Horizon} \subseteq Nat
  /\ {UseHttpSource, UseWebhookSink} \subseteq BOOLEAN

VARIABLES
  phase,      \* where the daemon's lifecycle stands
  source,     \* SampleSource._remote: open, being closed, or None
  sink,       \* LoggingAlertSink._remote, likewise
  collect,    \* the job "collect": where it stands and its next_at
  evaluate,   \* the job "evaluate", likewise
  todo,       \* alerts of the running dispatch that are still to be sent
  lastSent,   \* AlertDispatcher._last_sent; Never stands for no entry
  raised,     \* history: the alerts of the latest evaluation
  heard       \* history: when each alert last reached the sink

vars == <<clock, series, previous, phase, source, sink, collect, evaluate, todo,
          lastSent, raised, heard>>

Never == -1
Identities ==
  [device : Devices, metric : Metrics \cup {"*"},
   kind : {"offline", "threshold", "rate"}, severity : {"warning", "critical"}]

Identity(a) ==
  [device |-> a.device, metric |-> a.metric, kind |-> a.kind, severity |-> a.severity]

(* Mutant: one cooldown for both severities.                                 *)
Fingerprint_NoSeverity(a) == <<a.device, a.metric, a.kind, "critical">>

(* Alert.fingerprint                                                         *)
Fingerprint(a) == <<a.device, a.metric, a.kind, a.severity>>
Fingerprints ==
  Devices \X (Metrics \cup {"*"}) \X {"offline", "threshold", "rate"}
          \X {"warning", "critical"}

Job(stage, next) == [stage |-> stage, next |-> next]

Init ==
  /\ RulesInit
  /\ phase = "down"
  /\ source = "local" /\ sink = "local"
  /\ collect = Job("none", 0) /\ evaluate = Job("none", 0)
  /\ todo = {} /\ raised = {}
  /\ lastSent = [f \in Fingerprints |-> Never]
  /\ heard = [i \in Identities |-> Never]

(* start(): every @start opens its backend, then @launch spawns the jobs.    *)
Start ==
  /\ phase = "down"
  /\ phase' = "running"
  /\ source' = IF UseHttpSource THEN "remote" ELSE "local"
  /\ sink' = IF UseWebhookSink THEN "remote" ELSE "local"
  /\ collect' = Job("asleep", clock + CollectInterval)
  /\ evaluate' = Job("asleep", clock + EvaluateInterval)
  /\ UNCHANGED <<clock, series, previous, todo, lastSent, raised, heard>>

Tick ==
  /\ phase \in {"running", "stopping"}
  /\ clock < Horizon
  /\ \A job \in {collect, evaluate} : job.stage = "asleep" => clock < job.next + MaxLate
  /\ clock' = clock + 1
  /\ UNCHANGED <<series, previous, phase, source, sink, collect, evaluate, todo,
                 lastSent, raised, heard>>

-----------------------------------------------------------------------------
(* Scheduler._run: sleep until next_at, run, move next_at on.  A job that is
   late runs at once and catches up.                                          *)
Due(job) == job.stage = "asleep" /\ job.next <= clock
Again(job, interval) == Job("asleep", job.next + interval)

(* collect_once with the synthetic source: no await.                         *)
CollectLocally ==
  /\ Due(collect) /\ source = "local"
  /\ \E reading \in [Series -> Values] :
       series' = Recorded([s \in Series |-> [value |-> reading[s], at |-> clock]])
  /\ collect' = Again(collect, CollectInterval)
  /\ UNCHANGED <<clock, previous, phase, source, sink, evaluate, todo, lastSent,
                 raised, heard>>

(* The HTTP source: the request is awaited.                                  *)
AskSource ==
  /\ Due(collect) /\ source = "remote"
  /\ collect' = [collect EXCEPT !.stage = "waiting"]
  /\ UNCHANGED <<clock, series, previous, phase, source, sink, evaluate, todo,
                 lastSent, raised, heard>>

(* The endpoint answers with rows of any devices, recent or a little old.    *)
SourceAnswers ==
  /\ collect.stage = "waiting"
  /\ \E S \in SUBSET Series :
       \E rows \in [S -> [value : Values, at : {t \in 0..clock : clock - t <= MaxLag}]] :
         series' = Recorded(rows)
  /\ collect' = Again(collect, CollectInterval)
  /\ UNCHANGED <<clock, previous, phase, source, sink, evaluate, todo, lastSent,
                 raised, heard>>

(* The read raises: no connection, a timeout, a bad answer, or the client is
   being closed.  The tick counts as failed and the loop goes on.             *)
CollectFails ==
  /\ \/ collect.stage = "waiting"
     \/ Due(collect) /\ source = "closing"
  /\ collect' = Again(collect, CollectInterval)
  /\ UNCHANGED <<clock, series, previous, phase, source, sink, evaluate, todo,
                 lastSent, raised, heard>>

-----------------------------------------------------------------------------
(* Mutant: silent as long as the alarm stands, instead of for a cooldown.    *)
Suppressed_WhileStanding(a) == \E b \in raised : Identity(b) = Identity(a)

Suppressed(a) ==
  /\ lastSent[Fingerprint(a)] # Never
  /\ a.at - lastSent[Fingerprint(a)] < Cooldown

(* The bookkeeping of an alert is done before its delivery is awaited.       *)
Mark(sent) ==
  /\ lastSent' = [f \in Fingerprints |->
                    IF \E a \in sent : Fingerprint(a) = f
                    THEN (CHOOSE a \in sent : Fingerprint(a) = f).at ELSE lastSent[f]]
  /\ heard' = [i \in Identities |->
                 IF \E a \in sent : Identity(a) = i
                 THEN (CHOOSE a \in sent : Identity(a) = i).at ELSE heard[i]]

(* dispatch(), up to its next await or to its end.  Only an open webhook is
   awaited; writing to the log, and a post on a client that is being closed,
   return at once.  The order of the alerts of one evaluation is left open.   *)
DispatchOn(alerts) ==
  \/ /\ sink = "remote"
     /\ \E a \in alerts :
          /\ Mark({a})
          /\ todo' = alerts \ {a}
     /\ evaluate' = [evaluate EXCEPT !.stage = "waiting"]
  \/ /\ sink # "remote" \/ alerts = {}
     /\ Mark(alerts)
     /\ todo' = {}
     /\ evaluate' = Again(evaluate, EvaluateInterval)

(* evaluate_once.  The fingerprints of one evaluation differ, so what is
   suppressed is known before the first alert is sent.                        *)
Evaluate ==
  /\ Due(evaluate)
  /\ raised' = Judged
  /\ previous' = Remembered
  /\ DispatchOn({a \in Judged : ~Suppressed(a)})
  /\ UNCHANGED <<clock, series, phase, source, sink, collect>>

(* The webhook answered, failed or timed out: deliver() swallows the error.  *)
PostReturns ==
  /\ evaluate.stage = "waiting"
  /\ DispatchOn(todo)
  /\ UNCHANGED <<clock, series, previous, phase, source, sink, collect, raised>>

-----------------------------------------------------------------------------
(* stop(): the framework runs the @stop hooks one after another.             *)
StopBegins ==
  /\ phase = "running"
  /\ phase' = "stopping"
  /\ UNCHANGED <<clock, series, previous, source, sink, collect, evaluate, todo,
                 lastSent, raised, heard>>

NextHook == phase = "stopping" /\ source # "closing" /\ sink # "closing"

CloseSource ==
  /\ \/ NextHook /\ source = "remote" /\ source' = "closing"
     \/ source = "closing" /\ source' = "local"
  /\ UNCHANGED <<clock, series, previous, phase, sink, collect, evaluate, todo,
                 lastSent, raised, heard>>

CloseSink ==
  /\ \/ NextHook /\ sink = "remote" /\ sink' = "closing"
     \/ sink = "closing" /\ sink' = "local"
  /\ UNCHANGED <<clock, series, previous, phase, source, collect, evaluate, todo,
                 lastSent, raised, heard>>

(* Mutant: forgets one of the jobs.                                          *)
Shutdown_CollectOnly ==
  /\ NextHook
  /\ collect.stage # "none"
  /\ collect' = [collect EXCEPT !.stage = "none"]
  /\ UNCHANGED <<clock, series, previous, phase, source, sink, evaluate, todo,
                 lastSent, raised, heard>>

(* SupervisedTasks.shutdown: cancel every job and wait for it.               *)
Shutdown ==
  /\ NextHook
  /\ collect.stage # "none"
  /\ collect' = [collect EXCEPT !.stage = "none"]
  /\ evaluate' = [evaluate EXCEPT !.stage = "none"]
  /\ todo' = {}
  /\ UNCHANGED <<clock, series, previous, phase, source, sink, lastSent, raised, heard>>

Stopped ==
  /\ phase = "stopping"
  /\ source = "local" /\ sink = "local" /\ collect.stage = "none"
  /\ phase' = "stopped"
  /\ UNCHANGED <<clock, series, previous, source, sink, collect, evaluate, todo,
                 lastSent, raised, heard>>

Next ==
  \/ Start \/ Tick
  \/ CollectLocally \/ AskSource \/ SourceAnswers \/ CollectFails
  \/ Evaluate \/ PostReturns
  \/ StopBegins \/ CloseSource \/ CloseSink \/ Shutdown \/ Stopped

Spec == Init /\ [][Next]_vars

(* The webhook client has a timeout, and so has the source's; the event loop
   resumes who is due, and a stop that has begun goes on.                     *)
Fairness ==
  /\ WF_vars(PostReturns)
  /\ WF_vars(SourceAnswers \/ CollectFails)
  /\ WF_vars(CollectLocally \/ AskSource)
  /\ WF_vars(Evaluate)
  /\ WF_vars(CloseSource \/ CloseSink \/ Shutdown \/ Stopped)

FairSpec == Spec /\ Fairness

-----------------------------------------------------------------------------
Jobs == [stage : {"none", "asleep", "waiting"}, next : Nat]
RaisedAlerts ==
  [device : Devices, metric : Metrics \cup {"*"},
   kind : {"offline", "threshold", "rate"}, severity : {"warning", "critical"},
   at : 0..Horizon]

(* Types, the bound of the ring buffers, and what is in flight.              *)
TypeOK ==
  /\ clock \in 0..Horizon
  /\ series \in [Series -> Seq(Samples)]
  /\ \A s \in Series : Len(series[s]) <= Capacity
  /\ previous \in [Series -> Stats]
  /\ phase \in {"down", "running", "stopping", "stopped"}
  /\ source \in {"remote", "closing", "local"}
  /\ sink \in {"remote", "closing", "local"}
  /\ collect \in Jobs /\ evaluate \in Jobs
  /\ todo \subseteq raised /\ raised \subseteq RaisedAlerts
  /\ todo # {} => evaluate.stage = "waiting"
  /\ lastSent \in [Fingerprints -> 0..Horizon \cup {Never}]
  /\ heard \in [Identities -> 0..Horizon \cup {Never}]

(* Every alert of an evaluation that has ended reached the sink: then, or less
   than a cooldown before.  Suppression delays a standing alarm, it loses none
   (dispatcher.py:63-67), whatever else was raised, sent or closed meanwhile. *)
NothingForgotten ==
  evaluate.stage = "asleep" =>
    \A a \in raised :
      LET last == heard[Identity(a)]
      IN  last # Never /\ (last = a.at \/ a.at - last < Cooldown)

(* The same alert never reaches the sink twice within its cooldown
   (README: "冷却期内抑制"), over late ticks, bursts and slow posts.          *)
NoRepeatInCooldown ==
  [][\A i \in Identities :
       heard'[i] # heard[i] => heard[i] = Never \/ heard'[i] - heard[i] >= Cooldown]_vars

(* No verdict about the readings of a device that has gone silent
   (rules.py:5-6, README:82-83): something it sent is recent enough.          *)
JudgedOnFreshData ==
  [][\A a \in raised' \ raised :
       a.kind # "offline" =>
         \E s \in Series : /\ s[1] = a.device
                           /\ \E i \in DOMAIN series[s] :
                                clock - series[s][i].at <= OfflineAfter]_vars

(* stop() comes to an end whatever the jobs, the source and the webhook are
   doing, and leaves no job behind (tasks.py:50, tests/test_lifecycle.py:120).*)
StopEnds ==
  phase = "stopping" ~>
    phase = "stopped" /\ collect.stage = "none" /\ evaluate.stage = "none"

=============================================================================
