----------------------------- MODULE UnitOfWork -----------------------------
(***************************************************************************)
(* The units of work of src/library (infra/db.py): the sessions a request  *)
(* opens, what they read, and how their writes reach the database.         *)
(*                                                                         *)
(* The database is a partial function from row keys to rows.  A session    *)
(* keeps every row as it was first loaded (the identity map); before every *)
(* query and at the end it sends what changed: the columns that differ,    *)
(* the new rows, the deletions (autoflush).  An UPDATE of a row that is    *)
(* gone fails the unit; a DELETE of one does not.                          *)
(*                                                                         *)
(* PostgreSQL: every session has its connection.  A query sees what is     *)
(* committed plus the session's own writes; a row one unit has written is  *)
(* locked until that unit ends, and one unit of a circle of waiting ones   *)
(* is rolled back.                                                         *)
(*                                                                         *)
(* In memory (SharedConnection): all sessions write through the one        *)
(* connection of the static pool, in the one open transaction.  COMMIT     *)
(* keeps everybody's writes; ROLLBACK, which the pool also sends whenever  *)
(* a session gives the connection back, drops everybody's.                 *)
(***************************************************************************)
EXTENDS Integers, FiniteSets, SequencesExt, Relation

CONSTANTS Requests,
          SharedConnection   (* storage = sqlite in memory: _is_memory          *)

ASSUME SharedConnectionAssumption == SharedConnection \in BOOLEAN

VARIABLES
  durable,   (* the committed rows                                              *)
  working,   (* in memory: the rows as the one connection sees them             *)
  unit,      (* per request, its session                                        *)
  job,       (* per request, the service method it calls and the arguments      *)
  pc,        (* per request, the next statement it sends                        *)
  note,      (* per request, what a local variable of the method remembers      *)
  met        (* history: the pairs of requests that were served at one time     *)

vars == <<durable, working, unit, job, pc, note, met>>

Nothing == [put |-> <<>>, del |-> {}]
Closed == [base |-> <<>>, obj |-> <<>>, touched |-> {}, gone |-> {}, sent |-> Nothing]
Over == {"ok", "refused"}
Calls == {"embed", "embed_query", "complete"}   (* awaits that are no statement  *)

(* The rows of a table; the key of a row starts with its table.  The schema ties
   rows by nothing else: no foreign key, no unique loan, hold or card.        *)
Table(db, t) == {k \in DOMAIN db : k[1] = t}
(* The columns f set on the row g, or the rows f put among the rows g.        *)
Upon(f, g) ==
  [x \in DOMAIN f \cup DOMAIN g |-> IF x \in DOMAIN f THEN f[x] ELSE g[x]]

-----------------------------------------------------------------------------
(* A session: base is each row as loaded or last sent, obj as it is now.      *)

Load(u, db, ks) ==
  LET rows == [k \in ks |-> db[k]]
  IN [u EXCEPT !.base = Upon(@, rows), !.obj = Upon(@, rows)]
Add(u, k, row) == [u EXCEPT !.obj = Upon([x \in {k} |-> row], @)]
Assign(u, k, columns) == [u EXCEPT !.obj[k] = Upon(columns, @)]
(* Setting updated_at: the row is written even if no other column changed.    *)
Touch(u, k) == [u EXCEPT !.touched = @ \cup {k}]
Delete(u, ks) == [u EXCEPT !.gone = @ \cup ks]

Unsent(u) ==
  {k \in DOMAIN u.obj \ u.gone :
     k \notin DOMAIN u.base \/ k \in u.touched \/ u.obj[k] # u.base[k]}
Difference(u, k) ==
  IF k \notin DOMAIN u.base THEN u.obj[k]
  ELSE [f \in {g \in DOMAIN u.obj[k] : u.obj[k][g] # u.base[k][g]} |-> u.obj[k][f]]

Pending(u) == [put |-> [k \in Unsent(u) |-> Difference(u, k)], del |-> u.gone]
Clean(u) == Pending(u) = Nothing

(* The rows db after the changes d: columns overwritten, rows new, rows gone.  *)
Apply(db, d) ==
  [k \in DOMAIN d.put \cup (DOMAIN db \ d.del) |->
     IF k \notin DOMAIN d.put THEN db[k]
     ELSE IF k \in DOMAIN db THEN Upon(d.put[k], db[k]) ELSE d.put[k]]
Followed(d, e) == [put |-> Apply(d.put, e), del |-> d.del \cup e.del]

-----------------------------------------------------------------------------
(* What a request reads and writes.                                           *)

View(q) == IF SharedConnection THEN working ELSE Apply(durable, unit[q].sent)
Rows(q) == Apply(View(q), Pending(unit[q]))

Sent(q) ==
  LET u == unit[q]
      kept == [k \in DOMAIN u.obj \ u.gone |-> u.obj[k]]
  IN [base |-> kept, obj |-> kept, touched |-> {}, gone |-> {},
      sent |-> IF SharedConnection THEN Nothing ELSE Followed(u.sent, Pending(u))]

Found(q, ks) == Load(Sent(q), Rows(q), ks)

Written(d) == DOMAIN d.put \cup d.del
WaitsFor(q, p) ==
  /\ ~SharedConnection /\ p # q /\ pc[q] \notin Calls
  /\ Written(Pending(unit[q])) \cap Written(unit[p].sent) # {}
Blocked(q) == \E p \in Requests : WaitsFor(q, p)
Stale(q) == \E k \in Unsent(unit[q]) \cap DOMAIN unit[q].base : k \notin DOMAIN View(q)

Live(q) == pc[q] \notin Over \cup {"start"}
Meet(q) ==
  met' = IF pc[q] = "start" THEN met \cup {{q, p} : p \in {x \in Requests : Live(x)}} ELSE met

Rollback_KeepsWhatWasSent(q) ==
  /\ unit' = [unit EXCEPT ![q] = Closed]
  /\ durable' = IF SharedConnection THEN working ELSE Apply(durable, unit[q].sent)
  /\ UNCHANGED working
Rollback_KeepsTheLocks(q) ==
  /\ unit' = [unit EXCEPT ![q] = [Closed EXCEPT !.sent = unit[q].sent]]
  /\ UNCHANGED <<durable, working>>
Rollback(q) ==
  /\ unit' = [unit EXCEPT ![q] = Closed]
  /\ working' = IF SharedConnection THEN durable ELSE working
  /\ UNCHANGED durable
Refuse(q) ==
  /\ Rollback(q)
  /\ pc' = [pc EXCEPT ![q] = "refused"]
  /\ note' = [note EXCEPT ![q] = {}]

(* One statement, with the code that runs until the next: what is unsent goes
   first; then the method goes on with its rows, u, or it raises.             *)
StatementNoting(q, at, accepts, u, next, remembered) ==
  /\ pc[q] = at /\ ~Blocked(q) /\ ~Stale(q)
  /\ Meet(q)
  /\ IF accepts
       THEN /\ unit' = [unit EXCEPT ![q] = u]
            /\ working' = IF SharedConnection THEN Rows(q) ELSE working
            /\ pc' = [pc EXCEPT ![q] = next]
            /\ note' = [note EXCEPT ![q] = remembered]
            /\ UNCHANGED durable
       ELSE Refuse(q)
  /\ UNCHANGED job
Statement(q, at, accepts, u, next) == StatementNoting(q, at, accepts, u, next, note[q])

(* begin: the last flush, then COMMIT.                                        *)
Flush(q) ==
  /\ pc[q] = "commit" /\ ~Clean(unit[q])
  /\ Statement(q, "commit", TRUE, Sent(q), "commit")
Commit(q) ==
  /\ pc[q] = "commit" /\ Clean(unit[q])
  /\ durable' = IF SharedConnection THEN working ELSE Apply(durable, unit[q].sent)
  /\ unit' = [unit EXCEPT ![q] = Closed]
  /\ pc' = [pc EXCEPT ![q] = IF SharedConnection THEN "close" ELSE "ok"]
  /\ note' = [note EXCEPT ![q] = {}]
  /\ UNCHANGED <<working, job, met>>

(* A session that has nothing to commit gives its connection back.            *)
Close(q, at, next) ==
  /\ pc[q] = at
  /\ Rollback(q)
  /\ pc' = [pc EXCEPT ![q] = next]
  /\ UNCHANGED <<job, note, met>>

(* A call that is no statement raises: the embedding or the chat service.     *)
Raise(q, at) ==
  /\ pc[q] = at
  /\ Refuse(q)
  /\ UNCHANGED <<job, met>>

(* The flush finds that a row it updates is gone.                             *)
FlushFails(q) ==
  /\ Live(q) /\ ~Blocked(q) /\ Stale(q)
  /\ Refuse(q)
  /\ UNCHANGED <<job, met>>

(* A circle of units that wait for each other's rows, q in it.                *)
InACircle(q) ==
  LET Waits == [e \in Requests \X Requests |-> WaitsFor(e[1], e[2])]
  IN TransitiveClosure(Waits, Requests)[q, q]

(* The database ends such a circle.                                           *)
Victim(q) ==
  /\ Live(q) /\ Blocked(q) /\ InACircle(q)
  /\ Refuse(q)
  /\ UNCHANGED <<job, met>>

Finish(q) == Flush(q) \/ Commit(q) \/ Close(q, "close", "ok") \/ FlushFails(q) \/ Victim(q)

=============================================================================
