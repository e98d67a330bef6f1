------------------------------ MODULE Pipeline ------------------------------
(***************************************************************************)
(* The statement-import pipeline of src/pipeline: an HTTP intake that puts *)
(* batches on two bounded queues, the consumers of each queue that post    *)
(* the rows of a batch into the ledger, and the process lifecycle: start,  *)
(* serving, quiesce (close the gate, drain the lanes), stop, restart.      *)
(*                                                                         *)
(* One asyncio event loop runs everything, so the code between two awaits  *)
(* is one action.  The only await while a batch is processed is the sleep  *)
(* before each row: a worker step is "post one row and go to the next      *)
(* sleep".  With row_seconds = 0 there is no such await and a whole        *)
(* attempt runs as one block of these steps.                               *)
(***************************************************************************)
EXTENDS Naturals, FiniteSets, SequencesExt

CONSTANTS Fast, Bulk,     (* the two lanes: FastLane and BulkLane              *)
          Workers,        (* consumer tasks of both lanes                      *)
          LaneOf,         (* the lane a consumer serves                        *)
          Accounts,       (* ledger accounts                                   *)
          BadRow,         (* a row with no account or a zero amount            *)
          Batches,        (* the row sequences a client may submit             *)
          MaxRows,        (* bound: rows of the longest batch                  *)
          MaxJobs,        (* bound: jobs submitted over all runs               *)
          BulkThreshold,  (* config.bulk_threshold                             *)
          QueueSize,      (* config.queue_size; 0 means unbounded in asyncio   *)
          MaxAttempts     (* config.max_attempts                               *)

Lanes == {Fast, Bulk}
Jobs == 1..MaxJobs
NoJob == 0
RowIndex == 1..MaxRows

ASSUME ConstantsAssumption ==
       /\ Fast # Bulk
       /\ LaneOf \in [Workers -> Lanes]
       /\ BadRow \notin Accounts
       /\ MaxRows \in Nat /\ MaxJobs \in Nat
       /\ BulkThreshold \in Nat /\ QueueSize \in Nat /\ MaxAttempts \in Nat
       /\ Batches \subseteq Seq(Accounts \cup {BadRow})
       /\ \A b \in Batches : Len(b) <= MaxRows

VARIABLES
  phase,      (* how far the root unit is in its lifecycle                     *)
  accepting,  (* Gate.accepting                                                *)
  closed,     (* JobQueue.closed, per lane                                     *)
  items,      (* JobQueue.items, per lane                                      *)
  leftBehind, (* JobQueue.left_behind, per lane                                *)
  stage,      (* how far a lane's hooks have run: its consumers live while it
                 is "up", "draining" or "settled"                              *)
  drained,    (* WorkerPool.drained, per lane                                  *)
  done,       (* WorkerPool.done, per lane                                     *)
  inFlight,   (* the job each consumer holds                                   *)
  cursor,     (* the row each consumer is about to post                        *)
  opened,     (* how many jobs the JobBook has opened; ids are 1..opened       *)
  accepted,   (* the jobs a client was answered 202 for                        *)
  state, lane, rows, attempts, posted, rejected,  (* the fields of Job         *)
  postings,   (* how often row i of job j stands in Ledger.postings            *)
  frozen      (* Ledger.frozen                                                 *)

intakeVars == <<accepting, closed>>
queueVars  == <<items, leftBehind>>
laneVars   == <<stage, drained>>
workVars   == <<done, inFlight, cursor>>
bookVars   == <<opened, accepted, lane, rows>>
jobVars    == <<state, attempts, posted, rejected>>
vars == <<phase, intakeVars, queueVars, laneVars, workVars, bookVars, jobVars,
          postings, frozen>>

States == {"none", "queued", "running", "done", "failed", "abandoned"}
Terminal == {"done", "failed", "abandoned"}
Phases == {"idle", "started", "serving", "quiescing", "stopping"}
Live == {"up", "draining", "settled"}
Stages == Live \cup {"closed", "down"}

LifeTypeOK ==
  /\ phase \in Phases
  /\ accepting \in BOOLEAN
  /\ closed \in [Lanes -> BOOLEAN]
  /\ stage \in [Lanes -> Stages]
  /\ drained \in [Lanes -> BOOLEAN]
QueueTypeOK ==
  /\ items \in [Lanes -> Seq(Jobs)]
  /\ QueueSize > 0 => \A l \in Lanes : Len(items[l]) <= QueueSize
  /\ leftBehind \in [Lanes -> Nat]
WorkTypeOK ==
  /\ done \in [Lanes -> Nat]
  /\ inFlight \in [Workers -> Jobs \cup {NoJob}]
  /\ cursor \in [Workers -> RowIndex \cup {0}]
BookTypeOK ==
  /\ opened \in 0..MaxJobs
  /\ accepted \subseteq Jobs
  /\ lane \in [Jobs -> Lanes]
  /\ rows \in [Jobs -> Batches \cup {<<>>}]
JobTypeOK ==
  /\ state \in [Jobs -> States]
  /\ attempts \in [Jobs -> Nat]
  /\ posted \in [Jobs -> Nat]
  /\ rejected \in [Jobs -> Nat]
LedgerTypeOK ==
  /\ postings \in [Jobs -> [RowIndex -> Nat]]
  /\ frozen \subseteq Accounts

(* The types of the variables, and the bound of asyncio.Queue(maxsize).       *)
TypeOK == /\ LifeTypeOK /\ QueueTypeOK /\ WorkTypeOK
          /\ BookTypeOK /\ JobTypeOK /\ LedgerTypeOK

(* The unit constructors: nothing has started, the book and the ledger are
   empty.                                                                     *)
Init ==
  /\ phase = "idle"
  /\ accepting = FALSE
  /\ closed = [l \in Lanes |-> TRUE]
  /\ items = [l \in Lanes |-> <<>>]
  /\ leftBehind = [l \in Lanes |-> 0]
  /\ stage = [l \in Lanes |-> "down"]
  /\ drained = [l \in Lanes |-> FALSE]
  /\ done = [l \in Lanes |-> 0]
  /\ inFlight = [w \in Workers |-> NoJob]
  /\ cursor = [w \in Workers |-> 0]
  /\ opened = 0
  /\ accepted = {}
  /\ state = [j \in Jobs |-> "none"]
  /\ lane = [j \in Jobs |-> Fast]
  /\ rows = [j \in Jobs |-> <<>>]
  /\ attempts = [j \in Jobs |-> 0]
  /\ posted = [j \in Jobs |-> 0]
  /\ rejected = [j \in Jobs |-> 0]
  /\ postings = [j \in Jobs |-> [i \in RowIndex |-> 0]]
  /\ frozen = {}

Listening == phase \in {"started", "serving", "quiescing"}

-----------------------------------------------------------------------------
(* Queues.                                                                    *)

(* asyncio.Queue.full(): a maxsize of zero is never reached.                  *)
Full(l) == QueueSize > 0 /\ Len(items[l]) >= QueueSize

(* JobQueue.submit succeeds: neither QueueClosed nor QueueFull.               *)
CanPut_WhenClosed(l) == ~Full(l)
CanPut_Unbounded(l) == ~closed[l]
CanPut(l) == ~closed[l] /\ ~Full(l)

Put(l, j) == items' = [items EXCEPT ![l] = Append(@, j)]

-----------------------------------------------------------------------------
(* The intake.                                                                *)

AutoLane == "auto"

(* A lane named in the request wins; otherwise a long batch goes to Bulk.     *)
ChooseLane(wish, batch) ==
  IF wish \in Lanes THEN wish
  ELSE IF Len(batch) > BulkThreshold THEN Bulk ELSE Fast

(* POST /batches, in one step: no await between the gate and the answer.  The
   book opens the job before the queue has taken it, so a job refused with 429
   stays in the book in state "queued".  With the gate closed the request is
   answered 503 and changes nothing.                                          *)
Submit(wish, batch) ==
  LET j == opened + 1
      l == ChooseLane(wish, batch)
  IN /\ Listening /\ accepting
     /\ opened < MaxJobs
     /\ opened' = j
     /\ lane' = [lane EXCEPT ![j] = l]
     /\ rows' = [rows EXCEPT ![j] = batch]
     /\ state' = [state EXCEPT ![j] = "queued"]
     /\ IF CanPut(l)
          THEN Put(l, j) /\ accepted' = accepted \cup {j}
          ELSE UNCHANGED <<items, accepted>>
     /\ UNCHANGED <<phase, intakeVars, leftBehind, laneVars, workVars,
                    attempts, posted, rejected, postings, frozen>>

-----------------------------------------------------------------------------
(* The consumers.                                                             *)

Busy(w) == inFlight[w] # NoJob
Release(w) ==
  /\ inFlight' = [inFlight EXCEPT ![w] = NoJob]
  /\ cursor' = [cursor EXCEPT ![w] = 0]

CountDone_Forgets(w) == UNCHANGED done
CountDone(w) == done' = [done EXCEPT ![LaneOf[w]] = @ + 1]

(* queue.take() up to the first sleep of processor.run; a batch without rows
   has none and is done at once.                                              *)
Take(w) ==
  LET l == LaneOf[w]
      j == Head(items[l])
  IN /\ stage[l] \in Live /\ ~Busy(w)
     /\ items[l] # <<>>
     /\ items' = [items EXCEPT ![l] = Tail(@)]
     /\ attempts' = [attempts EXCEPT ![j] = @ + 1]
     /\ posted' = [posted EXCEPT ![j] = 0]
     /\ rejected' = [rejected EXCEPT ![j] = 0]
     /\ IF rows[j] = <<>>
          THEN /\ state' = [state EXCEPT ![j] = "done"]
               /\ CountDone(w)
               /\ UNCHANGED <<inFlight, cursor>>
          ELSE /\ state' = [state EXCEPT ![j] = "running"]
               /\ inFlight' = [inFlight EXCEPT ![w] = j]
               /\ cursor' = [cursor EXCEPT ![w] = 1]
               /\ UNCHANGED done
     /\ UNCHANGED <<phase, intakeVars, leftBehind, laneVars, bookVars,
                    postings, frozen>>

Row(w) == rows[inFlight[w]][cursor[w]]

(* The loop of processor.run after one row: the next row's sleep, or DONE.    *)
NextRow(w) ==
  LET j == inFlight[w]
  IN IF cursor[w] < Len(rows[j])
       THEN /\ cursor' = [cursor EXCEPT ![w] = @ + 1]
            /\ UNCHANGED <<state, inFlight, done>>
       ELSE /\ state' = [state EXCEPT ![j] = "done"]
            /\ CountDone(w)
            /\ Release(w)

Working(w) == stage[LaneOf[w]] \in Live /\ Busy(w)

(* ledger.post refuses the row for good; the batch goes on.                   *)
RejectRow(w) ==
  /\ Working(w) /\ Row(w) = BadRow
  /\ rejected' = [rejected EXCEPT ![inFlight[w]] = @ + 1]
  /\ NextRow(w)
  /\ UNCHANGED <<phase, intakeVars, queueVars, laneVars, bookVars, attempts,
                 posted, postings, frozen>>

(* ledger.post writes the row.                                                *)
PostRow(w) ==
  /\ Working(w) /\ Row(w) # BadRow /\ Row(w) \notin frozen
  /\ posted' = [posted EXCEPT ![inFlight[w]] = @ + 1]
  /\ postings' = [postings EXCEPT ![inFlight[w]][cursor[w]] = @ + 1]
  /\ NextRow(w)
  /\ UNCHANGED <<phase, intakeVars, queueVars, laneVars, bookVars, attempts,
                 rejected, frozen>>

(* WorkerPool._requeue: back to the tail of the queue, or "failed" when the
   attempts are used up or the queue no longer takes it.                      *)
Requeue_AlsoWhenExhausted(j, l) ==
  IF CanPut(l)
    THEN Put(l, j) /\ state' = [state EXCEPT ![j] =
                         IF attempts[j] < MaxAttempts THEN "queued" ELSE "failed"]
    ELSE state' = [state EXCEPT ![j] = "failed"] /\ UNCHANGED items
Requeue_OnceTooOften(j, l) ==
  IF attempts[j] <= MaxAttempts /\ CanPut(l)
    THEN Put(l, j) /\ state' = [state EXCEPT ![j] = "queued"]
    ELSE state' = [state EXCEPT ![j] = "failed"] /\ UNCHANGED items
Requeue_AfterClose(j, l) ==
  IF attempts[j] < MaxAttempts /\ CanPut_WhenClosed(l)
    THEN Put(l, j) /\ state' = [state EXCEPT ![j] = "queued"]
    ELSE state' = [state EXCEPT ![j] = "failed"] /\ UNCHANGED items
Requeue_SwallowsFull(j, l) ==
  /\ state' = [state EXCEPT ![j] =
                  IF attempts[j] < MaxAttempts THEN "queued" ELSE "failed"]
  /\ IF attempts[j] < MaxAttempts /\ CanPut(l) THEN Put(l, j) ELSE UNCHANGED items
Requeue(j, l) ==
  IF attempts[j] < MaxAttempts /\ CanPut(l)
    THEN Put(l, j) /\ state' = [state EXCEPT ![j] = "queued"]
    ELSE state' = [state EXCEPT ![j] = "failed"] /\ UNCHANGED items

(* The row's account is frozen: the attempt ends here, with the rows before it
   already in the ledger.                                                     *)
HitFrozen_SkipsTheRow(w) ==
  /\ Working(w) /\ Row(w) \in frozen
  /\ NextRow(w)
  /\ UNCHANGED <<phase, intakeVars, queueVars, laneVars, bookVars, attempts,
                 posted, rejected, postings, frozen>>
HitFrozen(w) ==
  /\ Working(w) /\ Row(w) \in frozen
  /\ Requeue(inFlight[w], LaneOf[w])
  /\ Release(w)
  /\ UNCHANGED <<phase, intakeVars, leftBehind, laneVars, done, bookVars,
                 attempts, posted, rejected, postings, frozen>>

Freeze(a) ==
  /\ frozen' = frozen \cup {a}
  /\ UNCHANGED <<phase, intakeVars, queueVars, laneVars, workVars, bookVars,
                 jobVars, postings>>
Unfreeze(a) ==
  /\ frozen' = frozen \ {a}
  /\ UNCHANGED <<phase, intakeVars, queueVars, laneVars, workVars, bookVars,
                 jobVars, postings>>

-----------------------------------------------------------------------------
(* The lifecycle.  The framework runs @start dependencies first and @quiesce
   and @stop dependents first; stage and phase keep that order.               *)

(* What every @start assigns: queues are new and open, left_behind is reset,
   drained is reset, in_flight is empty.  The book and the ledger are kept.   *)
FreshRun ==
  /\ items' = [l \in Lanes |-> <<>>]
  /\ leftBehind' = [l \in Lanes |-> 0]
  /\ drained' = [l \in Lanes |-> FALSE]
  /\ inFlight' = [w \in Workers |-> NoJob]
  /\ cursor' = [w \in Workers |-> 0]

(* super().start(): gate, queues, consumers, and last the port.  Nothing can
   reach the queues before the port listens, so the hooks are one step.       *)
Start ==
  /\ phase = "idle"
  /\ phase' = "started"
  /\ FreshRun
  /\ accepting' = TRUE
  /\ closed' = [l \in Lanes |-> FALSE]
  /\ stage' = [l \in Lanes |-> "up"]
  /\ UNCHANGED <<done, bookVars, jobVars, postings, frozen>>

(* The port cannot be bound: the units that had started are stopped again and
   the extra phases are never entered.                                        *)
FailStart ==
  /\ phase = "idle"
  /\ FreshRun
  /\ accepting' = FALSE
  /\ closed' = [l \in Lanes |-> TRUE]
  /\ UNCHANGED <<phase, stage, done, bookVars, jobVars, postings, frozen>>

(* enter(self, serving): the hooks only write the journal.                    *)
EnterServing ==
  /\ phase = "started"
  /\ phase' = "serving"
  /\ UNCHANGED <<intakeVars, queueVars, laneVars, workVars, bookVars, jobVars,
                 postings, frozen>>

(* Pipeline.stop, first hook of leave(self, serving): the gate and both queues
   close in one step; then every lane starts to wait_idle.                    *)
CloseTheGate_QueuesOpen ==
  /\ phase = "serving"
  /\ phase' = "quiescing"
  /\ accepting' = FALSE
  /\ stage' = [l \in Lanes |-> "draining"]
  /\ UNCHANGED <<closed, queueVars, drained, workVars, bookVars, jobVars,
                 postings, frozen>>
CloseTheGate ==
  /\ phase = "serving"
  /\ phase' = "quiescing"
  /\ accepting' = FALSE
  /\ closed' = [l \in Lanes |-> TRUE]
  /\ stage' = [l \in Lanes |-> "draining"]
  /\ UNCHANGED <<queueVars, drained, workVars, bookVars, jobVars, postings,
                 frozen>>

InFlight(l) == {w \in Workers : LaneOf[w] = l /\ Busy(w)}
LaneIdle_QueueOnly(l) == items[l] = <<>>
LaneIdle(l) == items[l] = <<>> /\ InFlight(l) = {}

(* WorkerPool.drain returns: wait_idle saw an idle lane, or the budget ran out
   while it was not idle.                                                     *)
DrainIdle(l) ==
  /\ stage[l] = "draining" /\ LaneIdle(l)
  /\ stage' = [stage EXCEPT ![l] = "settled"]
  /\ drained' = [drained EXCEPT ![l] = TRUE]
  /\ UNCHANGED <<phase, intakeVars, queueVars, workVars, bookVars, jobVars,
                 postings, frozen>>
DrainTimeout_Never(l) ==
  /\ FALSE
  /\ UNCHANGED vars
DrainTimeout(l) ==
  /\ stage[l] = "draining" /\ ~LaneIdle(l)
  /\ stage' = [stage EXCEPT ![l] = "settled"]
  /\ drained' = [drained EXCEPT ![l] = FALSE]
  /\ UNCHANGED <<phase, intakeVars, queueVars, workVars, bookVars, jobVars,
                 postings, frozen>>

(* super().stop(), dependents first: the server, which depends on everything
   below, closes the port once every @quiesce has returned.                   *)
StopListening ==
  /\ phase = "quiescing"
  /\ \A l \in Lanes : stage[l] = "settled"
  /\ phase' = "stopping"
  /\ UNCHANGED <<intakeVars, queueVars, laneVars, workVars, bookVars, jobVars,
                 postings, frozen>>

(* WorkerPool.close: the consumers are cancelled where they sleep, and a job
   in hand is abandoned.  A job still in the queue stays there.               *)
CloseLane_BackToQueued(l) ==
  /\ phase = "stopping" /\ stage[l] = "settled"
  /\ stage' = [stage EXCEPT ![l] = "closed"]
  /\ state' = [j \in Jobs |->
                IF \E w \in InFlight(l) : inFlight[w] = j THEN "queued" ELSE state[j]]
  /\ inFlight' = [w \in Workers |-> IF w \in InFlight(l) THEN NoJob ELSE inFlight[w]]
  /\ cursor' = [w \in Workers |-> IF w \in InFlight(l) THEN 0 ELSE cursor[w]]
  /\ UNCHANGED <<phase, intakeVars, queueVars, drained, done, bookVars, attempts,
                 posted, rejected, postings, frozen>>
CloseLane_NoVerdict(l) ==
  /\ phase = "stopping" /\ stage[l] = "settled"
  /\ stage' = [stage EXCEPT ![l] = "closed"]
  /\ inFlight' = [w \in Workers |-> IF w \in InFlight(l) THEN NoJob ELSE inFlight[w]]
  /\ cursor' = [w \in Workers |-> IF w \in InFlight(l) THEN 0 ELSE cursor[w]]
  /\ UNCHANGED <<phase, intakeVars, queueVars, drained, done, bookVars, jobVars,
                 postings, frozen>>
CloseLane(l) ==
  /\ phase = "stopping" /\ stage[l] = "settled"
  /\ stage' = [stage EXCEPT ![l] = "closed"]
  /\ state' = [j \in Jobs |->
                IF \E w \in InFlight(l) : inFlight[w] = j THEN "abandoned" ELSE state[j]]
  /\ inFlight' = [w \in Workers |-> IF w \in InFlight(l) THEN NoJob ELSE inFlight[w]]
  /\ cursor' = [w \in Workers |-> IF w \in InFlight(l) THEN 0 ELSE cursor[w]]
  /\ UNCHANGED <<phase, intakeVars, queueVars, drained, done, bookVars, attempts,
                 posted, rejected, postings, frozen>>

(* JobQueue.shut, after the consumers that depend on the queue are gone: count
   what nobody took.                                                          *)
ShutQueue_NoCount(l) ==
  /\ stage[l] = "closed"
  /\ stage' = [stage EXCEPT ![l] = "down"]
  /\ closed' = [closed EXCEPT ![l] = TRUE]
  /\ UNCHANGED <<phase, accepting, queueVars, drained, workVars, bookVars,
                 jobVars, postings, frozen>>
ShutQueue(l) ==
  /\ stage[l] = "closed"
  /\ stage' = [stage EXCEPT ![l] = "down"]
  /\ leftBehind' = [leftBehind EXCEPT ![l] = Len(items[l])]
  /\ closed' = [closed EXCEPT ![l] = TRUE]
  /\ UNCHANGED <<phase, accepting, items, drained, workVars, bookVars, jobVars,
                 postings, frozen>>

(* Gate.shut, the last state a @stop hook changes: the process is down.       *)
ShutGate ==
  /\ phase = "stopping"
  /\ \A l \in Lanes : stage[l] = "down"
  /\ phase' = "idle"
  /\ accepting' = FALSE
  /\ UNCHANGED <<closed, queueVars, laneVars, workVars, bookVars, jobVars,
                 postings, frozen>>

-----------------------------------------------------------------------------
Client == \E wish \in Lanes \cup {AutoLane}, b \in Batches : Submit(wish, b)
Consumer(w) == Take(w) \/ RejectRow(w) \/ PostRow(w) \/ HitFrozen(w)
Operator == \E a \in Accounts : Freeze(a) \/ Unfreeze(a)
Shutdown ==
  \/ StopListening \/ ShutGate
  \/ \E l \in Lanes : DrainIdle(l) \/ DrainTimeout(l) \/ CloseLane(l) \/ ShutQueue(l)
Lifecycle == Start \/ FailStart \/ EnterServing \/ CloseTheGate \/ Shutdown

Next == Client \/ Operator \/ Lifecycle \/ \E w \in Workers : Consumer(w)

Spec == Init /\ [][Next]_vars

(* The event loop resumes every task whose sleep, future or deadline is due:
   consumers and the coroutine of stop() are weakly fair.  Clients, operators
   and the decision to start or stop owe nothing.                             *)
FairSpec ==
  /\ Spec
  /\ WF_vars(Shutdown)
  /\ \A w \in Workers : WF_vars(Consumer(w))

-----------------------------------------------------------------------------
(* Properties.                                                                *)

Queued(l) == ToSet(items[l])
QueuedJobs == UNION {Queued(l) : l \in Lanes}
HeldJobs == {inFlight[w] : w \in Workers} \ {NoJob}

(* A job is worked on by at most one consumer and waits in at most one place:
   it is never twice in a queue, never in a queue while a consumer holds it,
   only in the lane it was booked for, and the book says "running" exactly
   while some consumer holds it and "queued" while it waits.                  *)
OnePlace ==
  /\ \A l \in Lanes : IsInjective(items[l])
  /\ \A l \in Lanes : \A j \in Queued(l) :
       lane[j] = l /\ state[j] = "queued" /\ j \in accepted
  /\ \A w, v \in Workers : Busy(w) /\ inFlight[w] = inFlight[v] => w = v
  /\ \A w \in Workers : Busy(w) => lane[inFlight[w]] = LaneOf[w]
  /\ \A j \in Jobs : state[j] = "running" <=> j \in HeldJobs

(* "drained" is the truth until the next start: once wait_idle reported a lane
   idle, no job enters it or is held in it again, whatever the other lane, the
   clients and the requeues still do, so nothing in it is abandoned or left
   behind.                                                                    *)
DrainHonest ==
  \A l \in Lanes : drained[l] =>
    /\ items[l] = <<>> /\ leftBehind[l] = 0
    /\ \A w \in Workers : LaneOf[w] = l => ~Busy(w)

(* What is reported as left behind is exactly what still stands in the queue,
   and a process that is down has no consumer holding a job and no job of its
   book in state "running".                                                   *)
LeftBehindExact ==
  /\ \A l \in Lanes : stage[l] = "down" => leftBehind[l] = Len(items[l])
  /\ phase = "idle" => HeldJobs = {} /\ \A j \in Jobs : state[j] # "running"

(* Every row a finished batch could post is in the ledger: retries may repeat
   a row, at most once per attempt, but never lose one; a row that can never
   be posted is not.                                                          *)
PostedAtLeastOnce ==
  \A j \in Jobs : \A i \in 1..Len(rows[j]) :
    /\ postings[j][i] <= attempts[j]
    /\ rows[j][i] = BadRow => postings[j][i] = 0
    /\ state[j] = "done" /\ rows[j][i] # BadRow => postings[j][i] >= 1

(* A job is tried at most max_attempts times, and at least once even when the
   configured maximum is zero; what still waits has an attempt left.          *)
MostAttempts == IF MaxAttempts > 1 THEN MaxAttempts ELSE 1
AttemptsBounded ==
  /\ \A j \in Jobs : attempts[j] <= MostAttempts
  /\ \A j \in QueuedJobs : attempts[j] < MostAttempts

(* The status page adds up: a lane's "done" counter, which survives restarts,
   is the number of its jobs the book shows as done.                          *)
DoneAgreesWithBook ==
  \A l \in Lanes :
    done[l] = Cardinality({j \in Jobs : state[j] = "done" /\ lane[j] = l})

(* While the gate is closed the backlog only shrinks: neither a client nor a
   consumer giving a job back after a frozen account puts anything on a queue
   (queue.py: "no new work; what is queued is still done").                   *)
ClosedGateOnlyDrains == [][~accepting => QueuedJobs' \subseteq QueuedJobs]_vars

(* A verdict is final: no consumer, retry, stop or restart touches a job that
   is done, failed or abandoned, and it posts nothing more to the ledger.     *)
VerdictIsFinal ==
  [][\A j \in Jobs : state[j] \in Terminal =>
       /\ state'[j] = state[j] /\ attempts'[j] = attempts[j]
       /\ postings'[j] = postings[j] /\ posted'[j] = posted[j]]_vars

(* A stop that has closed the gate ends with the process down, even when a
   lane has work that nobody will ever finish: that is what the budget is for. *)
StopCompletes == phase = "quiescing" ~> phase = "idle"

(* A job waiting in a lane that has consumers gets its verdict, unless the
   process is stopped first: retries against a frozen account run out, and no
   stream of later batches overtakes it for ever.                             *)
WaitingSettles ==
  \A j \in Jobs :
    j \in QueuedJobs /\ (\E w \in Workers : LaneOf[w] = lane[j])
      ~> state[j] \in Terminal \/ phase = "idle"

-----------------------------------------------------------------------------
(* The inductive invariant: what ties the lifecycle, the consumers, the book
   and the counts together, and makes the properties above inductive.         *)

LifecycleShape ==
  /\ phase = "idle" => \A l \in Lanes : stage[l] = "down"
  /\ phase \in {"started", "serving"} => \A l \in Lanes : stage[l] = "up"
  /\ phase = "quiescing" => \A l \in Lanes : stage[l] \in {"draining", "settled"}
  /\ phase = "stopping" => \A l \in Lanes : stage[l] \in {"settled", "closed", "down"}
  /\ accepting <=> phase \in {"started", "serving"}
  /\ \A l \in Lanes : closed[l] <=> stage[l] # "up"

ConsumerShape ==
  \A w \in Workers : Busy(w) => /\ stage[LaneOf[w]] \in Live
                                /\ inFlight[w] \in accepted
                                /\ cursor[w] \in 1..Len(rows[inFlight[w]])

BookShape ==
  /\ \A j \in Jobs : state[j] = "none" <=> j > opened
  /\ \A j \in Jobs : j > opened => attempts[j] = 0 /\ j \notin accepted

CountShape ==
  \A l \in Lanes :
    /\ leftBehind[l] = IF stage[l] = "down" THEN Len(items[l]) ELSE 0
    /\ drained[l] => stage[l] \in {"settled", "closed", "down"}

(* The ledger while a batch is under way: the rows before the cursor are in it,
   and this attempt has not posted the others yet.                            *)
LedgerShape ==
  /\ \A j \in Jobs : \A i \in RowIndex : postings[j][i] <= attempts[j]
  /\ \A w \in Workers : Busy(w) =>
       LET j == inFlight[w]
       IN \A i \in 1..Len(rows[j]) :
            /\ i < cursor[w] => rows[j][i] = BadRow \/ postings[j][i] >= 1
            /\ i >= cursor[w] => postings[j][i] < attempts[j]

IInv == /\ TypeOK /\ LifecycleShape /\ ConsumerShape /\ BookShape /\ CountShape
        /\ OnePlace /\ DrainHonest /\ AttemptsBounded

-----------------------------------------------------------------------------
(* The intake contract this process implements.                               *)

Door == IF phase = "idle" THEN "down"
        ELSE IF phase \in {"started", "serving"} THEN "open" ELSE "closed"

Status == [j \in Jobs |->
  IF state[j] = "none" THEN "new"
  ELSE IF state[j] = "queued" /\ j \notin accepted THEN "refused"
  ELSE IF state[j] = "queued" /\ j \notin QueuedJobs THEN "dropped"
  ELSE state[j]]

Contract == INSTANCE IntakeContract
              WITH door <- Door, status <- Status, tries <- attempts

(* The pipeline implements the contract.                                      *)
KeepsContract == Contract!Spec

=============================================================================
