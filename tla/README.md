# Canary-Framework-Example: specifications and proofs

TLA+ modules for the example programs of this repository, the TLC runs that
check them on small instances, and TLAPS proofs for every value of the
constants where a proof exists.  `PROJECT.json` lists the parts of the system,
the runs, a mutant of the code for every property, the source lines each
definition models, the hazards, the findings and the theorems.

    tlc -config Pipeline_safety.cfg MCPipeline
    tlapm PipelineInvariant.tla

## 1. The system

Five independent programs built on the (external) canary_framework: units with
`@start`/`@stop` hooks, started dependencies first and stopped dependents first.
Every program is one asyncio event loop; what happens between two awaits is
atomic, and nothing in memory survives a crash.

| Part | State | Operations | Interacts with | Hard parts |
|---|---|---|---|---|
| **pipeline** intake (`gate`, `queue`, `lanes`, `http`) | gate open, two bounded queues, `left_behind` | `POST /batches`, open, close, shut | book, consumers | a full queue, a closed gate, a job booked and then refused |
| pipeline consumers (`workers`, `processor`) | `in_flight`, `drained`, `done`, attempts | take, post a row, requeue, drain, cancel | queues, ledger, book | retry against close, cancellation with a job in hand, drain check between queue and hand |
| pipeline book and ledger (`jobs`, `ledger`) | jobs and states, postings, frozen accounts | open, post, freeze | consumers | rows posted twice, final verdicts |
| pipeline lifecycle (`app`, `phases`) | phase, order of hooks | start, serving, quiesce, stop, restart | all of the above | two-step shutdown, restart with old book and ledger |
| **library** circulation (`loan`) | loans, reservations | borrow, return, renew, reserve, cancel | copies, readers | hold queue, copy kept for a reader, fines |
| library catalogue (`catalog`) | titles, copies | create, delete, add, update copy | loans, holds | cascades, staff setting a status by hand |
| library readers (`reader`) | readers, balances | create, update, delete, pay | loans | deletion with loans, balance at zero |
| library unit of work (`infra/db`) | sessions | begin, read | all services | interleaved sessions, shared in-memory connection |
| library documents (`rag`) | documents, chunks | index, reindex, delete, retrieve | embedding service, catalogue | chunks rebuilt while others delete them, a service that fails in mid-unit |
| library assistant (`chat`) | conversations, messages | create, delete, ask | retrieval, chat service | three units of work and two calls in one question |
| **relay** fleet and reaper (`fleet`, `reaper`) | devices, last heartbeat, quarantine | heartbeat, event, quarantine, sweep | listeners | heartbeat against sweep |
| relay feed (`events`) | subscribers, queues, filters, two tasks per connection | connect, read, pump, close | fleet, server | drop-oldest, gap after hello, failed send, stop with a full backlog |
| relay process (`server`) | two ports | start, stop | feed, reaper | order of shutdown |
| **telemetry** scheduler and tasks (`scheduler`, `tasks`, `daemon`) | jobs, `next_at` | tick, cancel, start, stop | all units of the daemon | late ticks and catch-up, stop against a tick, order of hooks |
| telemetry source, store, rules (`source`, `store`, `aggregator`, `rules`) | ring buffers, previous averages | read, record, judge | collect and evaluate jobs | late and unordered rows, silent devices, backend closed while read |
| telemetry dispatch (`dispatcher`, `sink`) | last sent, batch in progress | dispatch, deliver | webhook | cooldown against a slow or failing post, cancellation in mid-batch |
| **shop** inventory (`catalog`, `inventory`, `warehouse`) | stock per product and label | load, unload, move | orders | conservation of stock, any quantity, sites with one code |
| shop orders and stages (`legacy`, `server`, `graph`) | orders, counter, stage | order, start, stop | catalogue | state that outlives the graph |
| shop pricing (`pricing`, `settings`) | none | quote | catalogue | three roundings after one another |

What makes each part correct, in short.  Pipeline: no accepted batch is lost,
worked on twice at once or judged twice, a closed gate only drains, a stop ends.
Library: a copy has one keeper, holds are served in order, nothing outlives its
title, a unit of work is kept as a whole or not at all, an indexed document is
found by every part of its text.  Relay: what a client pieces together from the feed is the fleet as it
is, only silent devices are offline, a stop ends.  Telemetry: every alert that
persists is delivered, at most once per cooldown.  Shop: stock is
conserved, orders stand.

## 2. Modules

| Module | Models |
|---|---|
| `IntakeContract` | what the pipeline promises about a batch; abstract |
| `Pipeline` | intake, consumers, book, ledger and lifecycle of `src/pipeline` |
| `MCPipeline` | small instances, claims of the repository that fail |
| `PipelineProofs`, `PipelineInvariant` | theorems about `Pipeline` |
| `HoldQueue` | what the hold queue of a title promises; abstract |
| `Rows` | rows in the order they were written, and queries over them; used by `HoldQueue`, `Circulation`, `EventStream` |
| `RowLemmas` | what appending, overwriting and deleting rows does to a query |
| `Circulation` | copies, readers, loans and holds of `src/library` |
| `MCCirculation` | small instances, two claims that fail |
| `CirculationProofs` | theorems about `Circulation`, among them that it implements `HoldQueue` |
| `UnitOfWork` | `infra/db.py` over SQLAlchemy: sessions with identity map, autoflush, commit and rollback; PostgreSQL with row locks, stale rows and deadlock victims, or the one shared connection in memory |
| `Lending` | borrow, return, reserve, cancel, pay of `src/library`, statement by statement; extends `UnitOfWork` |
| `Chunker` | `rag/chunker.py`: how a text is cut into passages, a pure algorithm |
| `Corpus` | `rag/service.py` and `delete_book`, statement by statement; extends `Lending` and `Chunker` |
| `Assistant` | `chat/service.py`, statement by statement; extends `Corpus` |
| `Requests` | concurrent requests: composes the three over one database; the properties |
| `MCRequests` | small instances |
| `RequestsProofs` | theorems about `Requests` on PostgreSQL |
| `Fleet` | `fleet.py` and `reaper.py` of `src/relay` as operators on the register |
| `EventStream` | `events.py`: subscribers, reading tasks and pumps |
| `Relay` | composes the two: `Fleet.publish` runs inside the operation, so each request is one step of both; start and stop |
| `MCRelay` | small instances, one claim that fails |
| `RelayProofs` | theorems about `Relay`: the register of devices and the live feed |
| `AlertRules` | telemetry's ring buffers, window average and rules, as operators |
| `Telemetry` | both jobs, source, dispatcher, webhook, start and stop of `src/telemetry` |
| `MCTelemetry` | small instances, one claim that fails |
| `TelemetryProofs` | theorems about `Telemetry` |
| `Pricing` | `pricing.py` of `src/shop` with the rates of `settings.py` |
| `Shop` | catalogue, moves, orders and the two stages of `src/shop`; extends `Pricing` |
| `MCShop`, `ShopProofs` | a small instance; theorems about `Shop` and `Pricing` |

A definition named `X_Something` just before `X` is a faulty variant of `X`,
used to show that a property notices the fault; no specification uses it.

### Pipeline

One action per stretch of code between two awaits.  `Submit` is the whole
handler of `POST /batches` (there is no await in it): gate, lane, book, queue.
`Take` is `queue.take()` with everything up to the first sleep of
`Processor.run`; `RejectRow`, `PostRow`, `HitFrozen` are one turn of the row
loop, including what follows the last row (`NextRow`: DONE, `done += 1`,
`in_flight.pop`).  With `row_seconds = 0` nothing sleeps and an attempt is one
block; those behaviours are among the modelled ones.  `Requeue` is `_requeue`.
`CloseTheGate` is the root's `@quiesce`, which closes gate and queues without an
await; then both lanes drain, in any order.  `DrainTimeout` may happen at any
moment the lane is not idle: the budget is time the model does not count.
`StopListening`, `CloseLane`, `ShutQueue`, `ShutGate` are the `@stop` hooks in
dependency order.  `FailStart` is a start whose port cannot be bound: what had
started is stopped again.  `lane_workers` may be 0, and `queue_size = 0` is
unbounded, as in asyncio.  A request that meets a closed gate changes nothing
and is no action.  Book and ledger are kept over a restart, the queues are not.
Rows are accounts or one unpostable row: amounts decide nothing else.
`accepted` (answered 202) is a history of answers.

### Circulation

Every operation is one action, because it is one unit of work that commits or
rolls back; an operation that raises is no step.  Units of work that interleave
are the subject of `Requests`.  "aside" stands for lost, repairing and withdrawn.
Returned loans and closed reservations are dropped, since nothing reads them
again except listings.  A title borrowed "by title" takes any available copy
(the code takes the lowest barcode, and barcodes are random).  `expires_at` is
left out: nothing reads it.  A copy, title or reader that is gone and comes
back would have a new id; `Readers` never come back, and no row that names a
deleted title or copy is left to notice its return (`OneOpenHold` checks that).
`pulled` is a history: copies that staff took out of "reserved" by hand.

### UnitOfWork, Lending, Corpus, Assistant, Requests

`Circulation` asks what the rules do when operations come one after the other;
`Requests` asks what is left of them when requests overlap.  Every request runs
one service method.  A step is one statement of it with the code up to the next
await: `pc` is the statement that comes next, `note` what a local variable keeps
until then.  `unit` is the session of the request: `base` is each row as it was
loaded (the identity map: a row that is there is not read again), `obj` as the
method left it, `sent` what its transaction has written.  Before each statement
the session sends what changed, and only the columns that changed
(`expire_on_commit=False`, autoflush on): that is why a status set back to what
was once loaded is no UPDATE.  The database is a function from keys to rows
(`Upon` overwrites the columns of a row and puts rows among rows); migration and
models declare no foreign key and no unique loan or hold, so nothing in it refuses a
second one.

On PostgreSQL (`SharedConnection = FALSE`) a statement sees what is committed
and its own writes (READ COMMITTED), waits for rows another open unit has
written (`Blocked`), fails when a row it updates is gone (`FlushFails`,
StaleDataError), and one unit of a circle of waiting ones is rolled back
(`Victim`).  In memory (the default of `config.py:27`) all sessions share one
connection and one transaction; a COMMIT keeps and a ROLLBACK drops whatever any
of them wrote, and the pool also rolls back whenever a session gives the
connection back (`Close`).

What is coarser than the code: the three queries of `_assert_borrowable` are one
statement, as are the documents and titles `retrieve` reads last; the rows of one
flush are written together; a loan is late or not, and costs `FineOf` either
way; readers are active; the times of holds only order them, and two holds that
are made in one run tie.  `renew`, `update_book` and the staff's operations
on copies and readers are in `Circulation` alone or nowhere.  An `ask` without a
conversation, listings and searches change nothing: `Read` stands for them,
since giving the connection back matters in memory.  Vectors and similarity are
any; a hit is any passage.  `met` is a history: who was served at one time.

A text in `Chunker` is the lengths of its sentences by paragraph; a passage is
an interval of characters.  An assumption of `MCRequests` checks `Split`, for
every text of up to two paragraphs of up to two sentences of up to four
characters and a window of three, against what passages are for (`Passages`).

### Pricing, Shop

No handler of the shop awaits, so each is one step; a refused request changes
nothing.  `Start` loads the seed and may come in either stage with any codes of
the two sites, also one code for both or one that labels no shelf yet.  Orders
and their counter are module-level state and survive `Stop`.  `Depth` bounds how
far below zero negative moves take a shelf, `MaxOrders` the orders.  Rates are
parts of a hundred (ten thousand for the channel's fee) instead of floats;
`HalfEven` is Python's `round`.  `reversed` is a history: products of which
a negative quantity was moved.

### Fleet, EventStream, Relay

`Fleet` operators come in pairs, the change of the register and the events
published on the way; `Relay` joins them with `Fanout`.  A device's `age` is the
time since its last heartbeat, counted up to one past the timeout.  A connection
is `stage` (where `__call__` stands) and `pump` (the second task).  `present`
is the server's view of the peer: once it is gone, a send raises (the ASGI
server, external).  `Stop` is the server closing its connections; `Release`,
the `@stop` of `EventStream`, runs when all of them have ended.  `lossy` is
"something was dropped".  `picture` is a history: what a client knows from hello
and the messages sent to it.  hello itself only carries counts; the model gives
the client the state those counts are taken from.  The counters, the bounded
history of events per device and the metrics are left out.

### AlertRules, Telemetry

A job is a coroutine: `stage` says whether it sleeps or waits for an answer, and
`next` is `next_at`.  Collecting from synthetic waveforms (any readings) has no
await; an HTTP read has one, so an evaluation may run in the middle of it.  An
HTTP answer carries at most one row per series, at most `MaxLag` old and in no
order; `last_seen` is taken from the last record, so the model, like the code, may call a
device offline that has sent something newer.  `Evaluate` is `evaluate_once` up
to the first awaited post, `PostReturns` what follows each post.  What is
suppressed is decided for the whole batch at its start: its fingerprints differ
and only this job writes `lastSent`.  Writing to the log does not suspend, nor
does a post on a client that is being closed.  The `@stop` hooks of the source,
the sink and the tasks do not depend on each other: they run in any order, one
at a time.  Averages are exact fractions, the code's are floats.  The clock only
goes forward, the code's is the wall clock.  `raised` and `heard` are histories.
A daemon is started once: `Scheduler` refuses a second start.

## 3. Runs

| Run | Shows | Bounds |
|---|---|---|
| `pipeline_safety` | types and bounds, `OnePlace`, `DrainHonest`, `LeftBehindExact`, `PostedAtLeastOnce`, `AttemptsBounded`, `DoneAgreesWithBook`, `ClosedGateOnlyDrains`, `VerdictIsFinal`, the inductive invariant, and that `Pipeline` implements `IntakeContract` | 2 fast and 1 bulk consumer, 2 jobs over all restarts, batches of 0, 1, 3 rows, queues of 1, 2 attempts, 2 accounts; 0.74 million states |
| `pipeline_liveness` | `StopCompletes`, `WaitingSettles` | 1 fast consumer and none for bulk, 3 jobs of 2 rows, queues of 2, 2 attempts |
| `pipeline_double_post` | refutes `PostedAgreesWithLedger` | 1 job of 2 rows |
| `circulation_safety` | `OneKeeper`, `OnLoanIsBacked`, `OneOpenHold`, and that holds implement `HoldQueue` | 1 title, 2 copies, 2 readers, 3 ticks of half a day, loans of 1 tick, 1 loan each, 1 renewal; symmetric in copies and in readers; 0.16 million states |
| `relay_safety` | types and the backlog bound, `OfflineMeansSilent`, `NoGap`, `BacklogIsCurrent` | 2 devices, 1 client, backlog of 2, timeout 1; symmetric in devices; 0.36 million states |
| `relay_liveness` | `StopFinishes`, `SilenceNoticed` | 1 device, 1 client, backlog of 2, timeout 1, one filter |
| `telemetry_safety` | types and the ring's bound, `NothingForgotten`, `NoRepeatInCooldown`, `JudgedOnFreshData`, `StopEnds` | 1 device with 1 series, 2 readings (their mean is a warning), 4 ticks, both jobs every tick, buffers and windows of 2, cooldown of 2, offline after 1, rows up to 1 old, no idle lateness; 0.56 million states |
| `telemetry_escalation` | refutes `EscalationGetsThrough` | local source and log sink, 6 ticks, cooldown of 5 |
| `requests_units` | `TypeOK`, `AllOrNothing`, `DeskRacesStayLocal`, `FilingRacesStayLocal`, `TalkRacesStayLocal`, `IndexedIsFindable`, `DeletedStaysSilent`, `EveryRequestEnds` on PostgreSQL | 2 requests, 1 title with 1 copy in 4 situations, 3 readers of whom 1 owes, 2 holds, 1 card of 2 passages, 1 conversation, texts with no and with 1 passage; 37 thousand states |
| `requests_stranded` | refutes `NoStrandedCopy` on PostgreSQL | 2 requests of circulation, otherwise as above |
| `requests_lost` | refutes `AcceptedIsKept` in memory | as above |
| `shop_orders` | `ShelvesAddUp`, `OrdersWithinSeed`, `OrdersStand` | 2 products, 3 labels, quantities -1 to 3, 2 orders, depth 2; 14 thousand states |

Why the bounds are enough.  Two consumers on one queue and one on the other give
every race of two takers, of a taker with a requeue and of a lane with the
other; a queue of one is full after one job; two attempts give one retry and one
exhaustion; the batch with a bad row before two good ones can be cut at every
kind of row.  Two jobs are the smallest number for a requeue to find the queue
taken by a later job; the liveness run has three, so that one waits behind two.
One title is enough because no operation touches two; two copies let one be on
the shelf while the other is kept, two readers are a queue.  A backlog of two
overflows on the third message and on the end mark; connections share nothing
but the fleet, so one client suffices, and two devices let an overflow lose the
one and keep the other.

A race needs two requests; a third on the same rows repeats one of them, except
for circles of three waiting units, which `Victim` would break the same way.
Requests of circulation, of documents and of conversations share no rows except
through `delete_book`, which is in the first two mixes, and `reindex`, which
runs beside the questions; so the mixes are explored one at a time.  The four
shelves are a copy that is there, out, out with a queue, and kept with a queue.
In the shop a product with a piece on either shelf and one with a piece on one
are enough for a move to empty, overdraw and cross shelves; the third sku is one
nobody sells.

In telemetry a series with two readings gives no alert, a warning and a critical
one, and jumps between them; its three rules make batches of up to two alerts,
so that one is posted while another waits.  Four ticks hold two cooldowns, a
device that goes silent and returns, and ticks missed behind a slow read or post
and caught up; `MaxLate = 0` only says that an idle loop is punctual.  Devices
meet in nothing but the batch.  `last_seen` over several series of one device
is not exercised.

`CHECK_DEADLOCK` is off for telemetry, whose daemon stops for good and whose clock
ends at `Horizon`, and for the requests, which all end (`EveryRequestEnds` says
so); a process of the other models that is down can always start.

**Fairness.**  Consumers, the coroutine of `stop()`, connections and pumps are
weakly fair: the event loop resumes every task whose sleep, future or deadline is
due, and none of them can be enabled for ever and not be resumed.  The sweep is
weakly fair because its loop survives exceptions.  Telemetry's reads and posts
are weakly fair because both clients have a timeout.  A request is weakly fair as
a whole: a statement ends, the services of the assistant have a timeout
(`llm_timeout_seconds`), and a lock is given up by the unit that holds it.  Clients, operators, the
decision to start or stop and the passing of time are not fair.

### Properties worth knowing

* `OnePlace`, `DrainHonest`: jobs move between queue and hand in steps that
  other tasks interleave with; "drained" is computed from both.
* `ClosedGateOnlyDrains`: a retry must respect the closed gate too.
* `KeepsContract`: an accepted batch never reaches a status the contract does
  not allow; in particular only a start drops a waiting batch.
* `OneKeeper`: a copy on loan has one loan and a reserved copy one notified
  reader, over every interleaving of desk and staff; copies in `pulled` are
  excepted: `OneLoanPerCopy` is false of them.
* `FirstComeFirstServed`: reservations of a title behave as `HoldQueue`.
* `NothingForgotten`, `NoRepeatInCooldown`: suppression delays an alarm, loses
  none and lets none through early, while posts hang, ticks are late and the
  backends close.  Both speak of deliveries attempted: a failed post is logged
  and counts as sent.
* `JudgedOnFreshData`: old readings still in the window convict nobody.
* `NoGap`, `BacklogIsCurrent`: what a client pieces together from hello and the
  feed is the fleet; with losses, whatever the backlog still mentions is right.

* `AllOrNothing`: over lock waits, victims, stale rows and failing services, no
  row of a request is durable before it commits, a borrow that was accepted has
  its loan, and a turn has both its messages.
* `DeskRacesStayLocal`: what `Circulation` shows of single operations survives any
  other traffic: copies, loans, holds and balances agree unless two requests of
  circulation overlapped.  `FilingRacesStayLocal` and `TalkRacesStayLocal` say
  the like of documents with their chunks and of conversations with their
  messages.  They also bound the damage: each race listed below is of its own kind.
* `IndexedIsFindable`: not even a race of reindexing, deleting and indexing leaves
  an "indexed" document with a part of its text in no passage.
* `DeletedStaysSilent`: an answer that was under way when its conversation was
  deleted is not written, because the turn updates the conversation's row and so
  fails or waits; `RecordTurn_LeavesTheChat` shows that this write is what matters.
* `EveryRequestEnds`: row locks are taken in different orders (a cancellation
  writes the hold and then its copy, a borrow the copy and then the hold), so the
  circle does form; the database ends one of the two.
* `ShelvesAddUp`: also when both sites have one code, where the two assignments
  of a move hit one shelf.

### Findings

1. **A retry posts rows twice** (`pipeline_double_post`).  The rows before the
   frozen one stay in the ledger and are posted again, while `posted` starts
   again from zero.
2. **A second escalation is suppressed** (`telemetry_escalation`).  Each severity
   has a cooldown from its own last delivery, so critical, warning, critical
   within one cooldown is heard once.
3. **A copy is stranded on loan** (`requests_stranded`).  A return that loaded the
   copy as available finds the loan of a borrow that has come in between, closes
   it, and sets the copy to "available", which is what it had loaded: no UPDATE.
   The copy is on loan with no loan, which the docstring of `loan/service.py`
   promises cannot be.
4. **A rollback takes another request's writes** (`requests_lost`).  In memory, the
   default, a refused request rolls back what a borrow has flushed; the borrow
   commits nothing and is answered as accepted.

### Observations

Claims of the repository that the code also refutes.  Their definitions are in
the MC modules; naming one as an INVARIANT of the component's cfg shows the trace.

* `QueuedJobsWait` (`MCPipeline`): a batch refused with 429 stays "queued" in the
  book, which opens the job before the queue takes it.
* `OneLoanPerCopy` (`MCCirculation`): staff may shelve a copy that is kept for a
  reader; borrowing by title does not look at the kept copy's status.
* `BorrowersExist` (`MCCirculation`): a reader named by card number is deleted with
  loans, since the loans are counted under the string the caller gave.
* `AllForgottenAtStop` (`MCRelay`): after a failed send, `await pump` raises past the
  clean-up of the subscriber.

Races that these three properties excuse and that do happen on PostgreSQL, found
by dropping their premises: two borrows of one copy make two loans; two returns charge
the fine twice and notify two readers; a fine and a payment at one time lose one
of the two; two holds of one reader are opened; two reindexings of one document
double its chunks, two `index_book` make two cards; a document deleted while it
is rebuilt leaves chunks behind; a conversation deleted between the listing
of its messages and the commit leaves the messages of a turn that committed
meanwhile.  No text of the repository promises otherwise, apart from finding 3.

In the shop, a negative quantity reverses a move past its check, so that a shelf
goes below zero (`reversed`); orders never take stock, so that two of them may
be for the same pieces; and while the graph is down `/v1` answers 500 where `/v2`
answers 503.

## 4. Proofs

Every theorem is `Spec => ...` for arbitrary constants within the `ASSUME`s of the
modules, which TLC evaluates in the runs: any number of consumers, requests, clients,
devices, titles and rows, any bounds.  The method is the same everywhere: an
inductive invariant that TLC first checked on the instance of the run, one lemma per
action, under it one step per conjunct that the action can disturb.

**`Pipeline`** (`PipelineProofs`, `PipelineInvariant`).  `TypeCorrect` contains the
bound of the queues: every `Append` is guarded by `CanPut`.  `IInv` gives
`OnePlaceHolds`, `DrainHonestHolds`, `AttemptsBoundedHolds`, `LeftBehindExactHolds`
and, from its steps, `OnlyDrainsWhenClosed` and `VerdictsAreFinal`.  `OnePlace` alone
is not inductive: that a job taken from a queue is in nobody's hand needs the book
(`state = "running"` exactly for held jobs); that a lane's cancelled jobs leave no
job running needs that consumers are busy only in a live lane (`ConsumerShape`),
which needs the order of the hooks (`LifecycleShape`); that a new job is in no queue
needs that its id is above everything booked (`BookShape`).  `DrainHonest` needs that
a settled lane's queue is closed, so that neither a client nor a retry refills it.

* `RowsArePosted`: every good row of a finished batch is in the ledger.  The
  strengthening `LedgerShape` says how far each held job has come: the rows before
  the cursor are in the ledger or were rejected, no row more than once per attempt.
* `DoneCountsTheBook`: `done` is a cardinality of a set of jobs that grows;
  `OneMoreDone` is the one place where it does.
* `ContractIsKept`: `Pipeline` implements `IntakeContract`.  Every action maps to a
  step of the contract or to a stutter (`ContractStep`), with one case for what
  each may do to the status of a job; only a start drops batches that wait.

**`Circulation`** (`RowLemmas`, `CirculationProofs`).  Loans and holds are rows that
are written, overwritten and deleted; the four properties are counts of rows, in the
invariant "at most one row of this kind".  `LentOnce` and `KeptOnce` (a copy has at
most one loan, and is kept for at most one reader) need one another, because a return
passes the copy on; that deleting a title leaves no row behind needs that holds and
their copies are of one title (`WellPlaced`).

* `CirculationTypeCorrect`, `CopiesHaveOneKeeper`, `NoCopyIsStranded`,
  `OneOpenHoldPerReader`.
* `HoldsAreFirstComeFirstServed`: Circulation implements `HoldQueue`.  The mapping
  turns the rows of a title into the sequence of its readers (`TheQueue`);
  `QueueStep` maps each action to one step of the abstract queue or to none.

**`Relay`** (`RelayProofs`).

* `OfflineMeansSilentHolds`: inductive with the types of `status` and `age`.
* `RelayTypeCorrect`: a client's backlog never outgrows its bound, although the end
  mark is put into a full one.
* `FeedHasNoGap`, `SlowClientsAreCurrent`.  Neither is inductive: both speak of
  what the backlog will tell.  `FeedShape` says it for every place a connection can
  be at: who has followed since hello is told, by its picture or by the last mention
  in the message in hand and the backlog, the status of each device, and all about
  it as long as nothing was dropped.  Dropping the oldest message keeps the first
  part because it never drops the last mention of what remains.

**`Telemetry`** (`TelemetryProofs`).

* `NothingForgottenHolds`, `NoRepeatInCooldownHolds`, from `CooldownInv`: the alerts
  of an evaluation share their instant and differ in fingerprint, the dispatcher's
  book and the deliveries agree, whoever is still to be sent is not suppressed and
  whoever is not has been heard.  `DispatchKeeps` is its core.
* `TelemetryTypeCorrect`: with the bound of the ring buffers.  That averages are
  fractions of naturals is an induction over windows, done as a least counterexample.
* `JudgedOnFreshDataHolds`: needs that no reading is from the future, and that the
  rules skip devices whose last instant is too old.

**`Requests`** (`RequestsProofs`), on PostgreSQL (`~SharedConnection`; in memory the
properties are false, see finding 4), for any requests and mixes, stores and texts.
`RequestsAssumption` says of the stores only what the schema says and of the jobs
only that they name rows of the right tables.  `UnitsInv` has three parts.

* `Sessions`: what a session holds is made of whole rows, its own new rows carry its
  id, it never writes a title, only a question writes messages, and deletions take
  loans only with their title and messages only in turns (`Fit`); and at each place
  of each method, which rows are still to be sent or have been (`Placed`).
* `Locked`: no two open units have written the same row.  This is what a commit
  needs: the UPDATEs another unit has already sent still find their rows.
* `Kept`: what is committed consists of whole rows, and `AllOrNothing`.

A statement is one lemma (`StatementStep`): it flushes what is unsent, so that it
suffices to show that the session the method goes on with fits the next place;
`AddFits`, `AssignFits`, `TouchFits`, `DropsFit` are what methods do to sessions.
`CommitStep` is the only step that changes what is durable (`OnlyCommitsWrite`).

* `UnitsTypeCorrect`: also that no balance is negative, over racing payments.
* `UnitsAllOrNothing`: nothing before the commit, the loan of an accepted borrow
  while its title is there, both messages of a turn or neither.
* `UnitsStaySilent`: a commit with new messages also writes the conversation's row,
  which therefore is there.
* `UnitsKeepFindable`: over any race, an indexed document is findable.  A row once
  written never changes its text, its document or its piece (`UnitsHold`), so a
  document can lose passages only to a deletion; `Strikes` shows that chunks are
  deleted only with their document or in a unit that files it anew; and a unit that
  commits a document as "indexed" has sent a chunk for every piece of its text
  (`Filling`).  Hypothesis `FoundFiled`: the pieces that `Split` makes hold the whole
  text (`SplitCovers`), and the documents found at the start are findable.  The first
  is a recursion over texts; TLC checks both on the instance (`FiledAssumption`,
  and `ChunkerAssumption` for the splitting itself).
* `UnitsKeepTalk` (`TalkRacesStayLocal`).  `MetLive`: two requests that are under way
  have met, so the premise may be used of any other open unit.  `Hushed`: a
  `delete_session` about to commit has deleted every message the conversation has,
  which no commit of another request can undo unless it is a question in the same
  conversation.  Hypothesis `FoundSpoken`: so it was in the database found.
* `UnitsKeepOrder` (`FilingRacesStayLocal`).  Inside a unit the documents are not in
  order: a reindex has deleted the chunks of a document that still says how many it
  had.  `FilingInv` therefore says of every request that files or deletes what its
  rows are at each place of its method (`Standing`: in order but for the count of the
  document in hand, whose chunks are none or exactly the new ones; the cards, or the
  documents, still to be deleted are those `note` holds).  Its own steps keep that
  (one `...Proceeds` lemma for each; `SentRows`: sending what is pending leaves the
  rows it sees as they are), other requests' commits do not touch the shelf
  (`CommitAway`, `StandsStill`), and a second one of its kind it would have met.
  Hypothesis `FoundInOrder`: the documents found at the start are in order, and a
  text is split into a sequence of pieces (`OrderAssumption`).

**`Shop`** (`ShopProofs`): `ShelvesAddUpHolds`, `OrdersWithinSeedHolds`,
`OrdersStandHolds`, for any products, seed, codes and quantities, and `VipPaysNoMore`,
for any rates.  `ShopInv` says of the loaded shelves what `ShelvesAddUp` says, with
their types, and that order ids lie below the counter, without which a new order
might replace an old one.  `Moved`: a move through one or two labels keeps the sum.
That no VIP pays more is not obvious, because tax and fee are rounded after the
discount; it follows from `HalfEvenMonotone`.

Only model-checked: the liveness properties (liveness under fairness and ENABLED are
beyond the prover); `DeskRacesStayLocal`, whose fines are sums over sets, that is
folds; the requests in memory; and the algorithm of `Chunker`, a recursion.

## 5. Not modelled

Listings, views, metrics, the journal, settings and secrets, HTTP dispatch and
the token guard: no state that others decide on.  Both HTTP stacks of a program
have the same handlers; the model does not tell them apart.  Book metadata,
contact data, search.  Vectors, the offline stand-ins of the AI services and the
opening and closing of their clients.  Creating the schema.  The framework
itself is external; its order of hooks is assumed, and so are SQLAlchemy and
PostgreSQL (READ COMMITTED), of which `UnitOfWork` models what the services
rely on.  A database file of SQLite is between the two modelled cases: sessions
have connections of their own, and a writer locks everything.

## 6. Plan

1. Pipeline with its contract.  *Modelled, checked; all safety and the refinement proved.*
2. Circulation with `HoldQueue`.  *Modelled, checked; all safety and the refinement proved.*
3. Fleet, EventStream, Relay.  *Modelled, checked; all safety proved.*
4. Telemetry.  *Modelled, checked; all safety proved.*
5. Units of work, documents, assistant, concurrent requests.  *Modelled, checked;
   all safety but `DeskRacesStayLocal` proved on PostgreSQL.*
6. Shop.  *Modelled, checked and proved.*
