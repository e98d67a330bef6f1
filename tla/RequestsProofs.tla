--------------------------- MODULE RequestsProofs ---------------------------
(***************************************************************************)
(* Theorems about Requests on PostgreSQL, for any number of requests, any  *)
(* jobs, any rows in the database and any texts: what a unit of work       *)
(* writes is kept as a whole or not at all.                                *)
(***************************************************************************)
EXTENDS Requests, FiniteSetTheorems, TLAPS

-----------------------------------------------------------------------------
(* Texts.  db0 is the database as the requests find it.  The text of a document
   and the document and the piece of a chunk never change: those of a row that
   was there are those of db0, those of a row that request k[2] inserts follow
   from its job.                                                              *)
Files(q) == job[q].op \in {"index_text", "index_book", "reindex"}
Drawn(k) == Len(k) > 1 /\ k[2] \in Requests
Given(q) == IF job[q].op = "index_text" THEN job[q].text ELSE CardText
TextOf(db0, d) == IF Drawn(d) THEN Given(d[2]) ELSE db0[d].text
HomeOf(db0, k) == IF Drawn(k) THEN Target(k[2]) ELSE db0[k].doc
PieceOf(db0, k) ==
  IF Drawn(k) THEN PiecesOf[TextOf(db0, Target(k[2]))][k[3]] ELSE db0[k].piece

(* The chunks that request q has to store.                                    *)
Filling(db0, q) == {MyChunk(q, i) : i \in DOMAIN PiecesOf[TextOf(db0, Target(q))]}

-----------------------------------------------------------------------------
(* Rows.  What column f of row k may hold, in the tables the theorems are
   about; a part of a row, as an UPDATE sends it, and a row with the columns
   its table needs.                                                           *)
Turn(q) == {Said(q, "user"), Said(q, "assistant")}
Sound(db0, k, f, v) ==
  /\ k[1] = "reader" /\ f = "balance" => v \in Nat
  /\ k[1] = "loan" /\ f = "fine" => v \in Nat
  /\ k[1] = "loan" /\ f = "reader" => v[1] = "reader"
  /\ k[1] = "hold" /\ f = "copy" => v[1] \in {"copy", "no_copy"}
  /\ k[1] = "message" /\ f = "chat" =>
       v[1] = "chat" /\ \A q \in Requests : k \in Turn(q) => v = ChatOf(q)
  /\ k[1] = "doc" /\ f = "text" => v = TextOf(db0, k) /\ v \in DOMAIN PiecesOf
  /\ k[1] = "chunk" /\ f = "doc" => v = HomeOf(db0, k)
  /\ k[1] = "chunk" /\ f = "piece" => v = PieceOf(db0, k)
Columns(k) ==
  IF k[1] = "reader" THEN {"balance"}
  ELSE IF k[1] = "loan" THEN {"reader", "fine"}
  ELSE IF k[1] = "hold" THEN {"copy"}
  ELSE IF k[1] = "message" THEN {"chat"}
  ELSE IF k[1] = "doc" THEN {"text", "chunks", "source"}
  ELSE IF k[1] = "chunk" THEN {"doc", "piece"}
  ELSE {}
Part(db0, k, row) == \A f \in DOMAIN row : Sound(db0, k, f, row[f])
Whole(db0, k, row) == Part(db0, k, row) /\ Columns(k) \subseteq DOMAIN row

Mine(k, q) == Len(k) > 1 /\ k[2] = q

-----------------------------------------------------------------------------
(* The tables of which the documents are.                                     *)
Shelf == {"book", "doc", "chunk"}

(* A session of request q.  It changes no title and no message, only a question
   inserts messages, and only the document that is being filed is written.    *)
Writes(q, k) ==
  /\ k[1] # "book"
  /\ k[1] = "message" => k \in Turn(q) /\ job[q].op = "ask"
  /\ k[1] = "doc" => k = Target(q) /\ Files(q)
  /\ k[1] = "chunk" => Files(q)
Session(db0, q, u) ==
  /\ u = [base |-> u.base, obj |-> u.obj, touched |-> u.touched, gone |-> u.gone,
          sent |-> u.sent]
  /\ DOMAIN u.base \subseteq DOMAIN u.obj
  /\ u.touched \cup u.gone \subseteq DOMAIN u.obj
  /\ \A k \in DOMAIN u.obj : Whole(db0, k, u.obj[k]) /\ (k \in DOMAIN u.base \/ Mine(k, q))
  /\ \A k \in Unsent(u) : Writes(q, k)

(* What it has sent: changes of rows that are there, and new rows of its own. *)
Transaction(db0, q, s) ==
  /\ s = [put |-> s.put, del |-> s.del]
  /\ \A k \in DOMAIN s.put :
       /\ Writes(q, k)
       /\ Part(db0, k, s.put[k])
       /\ k \in DOMAIN durable \/ (Mine(k, q) /\ Whole(db0, k, s.put[k]))

(* What it deletes: loans only with the title, messages only with their
   conversation and never one half of a turn; nothing of what it files, and a
   chunk only with its document or to file that document again.               *)
Strikes(db0, q, ks) ==
  /\ \A k \in ks :
       /\ k[1] = "loan" => job[q].op = "delete_book"
       /\ k[1] \in {"message", "chat"} => job[q].op = "delete_session"
       /\ k[1] = "chat" => k = ChatOf(q)
       /\ k[1] \in Shelf => job[q].op \in Filing
  /\ \A x \in Requests : Said(x, "user") \in ks <=> Said(x, "assistant") \in ks
  /\ Files(q) => \A k \in ks : k # Target(q) /\ ~(k[1] = "chunk" /\ Mine(k, q))
  /\ \A k \in ks :
       k[1] = "chunk" =>
         \/ HomeOf(db0, k) \in ks \/ job[q].op = "delete_book"
         \/ (job[q].op = "reindex" /\ HomeOf(db0, k) = DocOf(q))

Fit(db0, q, u) ==
  /\ Session(db0, q, u)
  /\ Transaction(db0, q, u.sent)
  /\ Strikes(db0, q, u.gone \cup u.sent.del)

(* The objects a session still has, and what its transaction writes or will.  *)
Held(u) == DOMAIN u.obj \ u.gone
Due(u) == Unsent(u) \cup DOMAIN u.sent.put

(* It has not read or written a chunk of its own.                             *)
Unfiled(q, u) ==
  \A k \in DOMAIN u.obj \cup DOMAIN u.sent.put : ~(k[1] = "chunk" /\ Mine(k, q))

-----------------------------------------------------------------------------
(* What a session holds at a place of its method, in the order of the methods. *)
Phase(db0, q, u, at, memo) ==
  /\ at \in Over \cup {"start"} => u = Closed
  /\ at \in {"limits", "copy", "kept", "title"} => MyLoan(q) \notin DOMAIN u.obj
  /\ at \in {"kept", "title", "insert"} => CopyOf(q) \in Held(u)
  /\ at \in {"insert", "honour"} => MyLoan(q) \in Due(u)
  /\ at \in {"loan", "charge", "release"} => CopyOf(q) \in Held(u)
  /\ at = "charge" => \A k \in memo : k \in DOMAIN u.obj /\ k[1] = "loan"
  /\ at \in {"keeper", "pass_on"} =>
       job[q].hold \in Held(u) /\ job[q].hold[1] = "hold"
  /\ at = "pass_on" => u.obj[job[q].hold].copy \in Held(u)
  /\ at = "cards" => MyDoc(q) \notin Due(u)
  /\ at = "clear" => MyDoc(q) \notin memo
  /\ at \in {"clear", "doc_chunks"} => memo \subseteq Held(u) /\ \A d \in memo : d[1] = "doc"
  /\ at = "file" => MyDoc(q) \in Held(u)
  /\ at \in {"embed", "store"} => Target(q) \in Held(u) /\ Target(q)[1] = "doc"
  /\ at = "listed" => DocOf(q) \in Held(u) /\ DocOf(q)[1] = "doc"
  /\ at \in {"cards", "clear", "file", "listed", "embed"} => Unfiled(q, u)
  /\ at = "store" => Filling(db0, q) \subseteq Due(u)
  /\ at \in {"out", "docs", "doc_chunks", "chunks", "holds", "loans", "copies"} =>
       Book \in Held(u)
  /\ at = "messages" => ChatOf(q) \in Held(u)
  /\ at \in {"complete", "turn"} => DOMAIN u.obj = {}
  /\ at \in {"user", "assistant"} => ChatOf(q) \in Held(u) /\ Said(q, "user") \in Due(u)
  /\ at = "user" => Said(q, "assistant") \notin DOMAIN u.obj
  /\ at = "assistant" => Said(q, "assistant") \in Due(u)
  /\ at = "close" => Unsent(u) = {} /\ u.gone = {}

(* And at its end: the loan, the title with everything, the whole turn, every
   piece of the text.                                                         *)
Ready(db0, q, u, at) ==
  at = "commit" =>
    /\ job[q].op = "borrow" => MyLoan(q) \in Due(u)
    /\ job[q].op = "delete_book" => Book \in u.gone \cup u.sent.del
    /\ job[q].op = "ask" => Turn(q) \cup {ChatOf(q)} \subseteq Due(u)
    /\ Files(q) => Filling(db0, q) \subseteq Due(u)

(* The places that methods share.                                             *)
Path(q, at) ==
  /\ at = "close" => job[q].op = "read"
  /\ at \in {"cards", "clear"} => job[q].op = "index_book"
  /\ at = "file" => job[q].op \in {"index_text", "index_book"}
  /\ at = "listed" => job[q].op \in {"reindex", "delete_doc"}
  /\ at \in {"embed", "store"} => Files(q)

Placed(db0, q, u, at, memo) == Phase(db0, q, u, at, memo) /\ Ready(db0, q, u, at) /\ Path(q, at)

-----------------------------------------------------------------------------
(* The inductive invariant.                                                   *)
Sessions(db0) ==
  /\ unit = [q \in Requests |-> unit[q]]
  /\ pc = [q \in Requests |-> pc[q]] /\ note = [q \in Requests |-> note[q]]
  /\ \A q \in Requests :
       Asked(job[q]) /\ Fit(db0, q, unit[q]) /\ Placed(db0, q, unit[q], pc[q], note[q])
Locked ==
  \A q, p \in Requests :
    q # p => Written(unit[q].sent) \cap Written(unit[p].sent) = {}
Kept(db0) ==
  /\ \A k \in DOMAIN durable : Whole(db0, k, durable[k])
  /\ \A pair \in met : Cardinality(pair) = 2
  /\ AllOrNothing
UnitsInv(db0) == Sessions(db0) /\ Locked /\ Kept(db0)
UnitsHold == \E db0 \in Stores : UnitsInv(db0)

-----------------------------------------------------------------------------
(* Rows, and what changes of rows make of them.                               *)
LEMMA UponIs ==
  ASSUME NEW f, NEW g
  PROVE  /\ DOMAIN Upon(f, g) = DOMAIN f \cup DOMAIN g
         /\ \A x \in DOMAIN f : Upon(f, g)[x] = f[x]
         /\ \A x \in DOMAIN g : x \notin DOMAIN f => Upon(f, g)[x] = g[x]
BY DEF Upon

LEMMA UponWhole ==
  ASSUME NEW db0, NEW k, NEW part, NEW row, Part(db0, k, part)
  PROVE  /\ Part(db0, k, row) => Part(db0, k, Upon(part, row))
         /\ Whole(db0, k, row) => Whole(db0, k, Upon(part, row))
<1> DEFINE all == Upon(part, row)
<1>1. /\ DOMAIN all = DOMAIN part \cup DOMAIN row
      /\ \A f \in DOMAIN part : all[f] = part[f]
      /\ \A f \in DOMAIN row : f \notin DOMAIN part => all[f] = row[f]
  BY UponIs
<1> HIDE DEF all
<1>2. Part(db0, k, row) => Part(db0, k, all)
  <2> SUFFICES ASSUME Part(db0, k, row), NEW f \in DOMAIN all
               PROVE  Sound(db0, k, f, all[f])
    BY DEF Part
  <2>1. CASE f \in DOMAIN part
    BY <1>1, <2>1 DEF Part
  <2>2. CASE f \notin DOMAIN part
    BY <1>1, <2>2 DEF Part
  <2>. QED
    BY <2>1, <2>2
<1>3. Whole(db0, k, row) => Whole(db0, k, all)
  BY <1>1, <1>2 DEF Whole
<1>. QED
  BY <1>2, <1>3 DEF all

LEMMA ApplyIs ==
  ASSUME NEW db, NEW d
  PROVE  /\ DOMAIN Apply(db, d) = DOMAIN d.put \cup (DOMAIN db \ d.del)
         /\ \A k \in DOMAIN db \ d.del :
              k \notin DOMAIN d.put => Apply(db, d)[k] = db[k]
         /\ \A k \in DOMAIN d.put :
              Apply(db, d)[k] = IF k \in DOMAIN db THEN Upon(d.put[k], db[k]) ELSE d.put[k]
BY DEF Apply

LEMMA ApplyWhole ==
  ASSUME NEW db0, NEW db, NEW d,
         \A k \in DOMAIN db : Whole(db0, k, db[k]),
         \A k \in DOMAIN d.put :
           Part(db0, k, d.put[k]) /\ (k \in DOMAIN db \/ Whole(db0, k, d.put[k]))
  PROVE  \A k \in DOMAIN Apply(db, d) : Whole(db0, k, Apply(db, d)[k])
<1> SUFFICES ASSUME NEW k \in DOMAIN Apply(db, d)
             PROVE  Whole(db0, k, Apply(db, d)[k])
  OBVIOUS
<1> DEFINE rows == Apply(db, d)
<1>1. /\ DOMAIN rows = DOMAIN d.put \cup (DOMAIN db \ d.del)
      /\ k \in DOMAIN db \ d.del /\ k \notin DOMAIN d.put => rows[k] = db[k]
      /\ k \in DOMAIN d.put =>
           rows[k] = IF k \in DOMAIN db THEN Upon(d.put[k], db[k]) ELSE d.put[k]
  BY DEF Apply
<1>2. k \in DOMAIN rows
  OBVIOUS
<1> HIDE DEF rows
<1>3. CASE k \notin DOMAIN d.put
  <2>1. k \in DOMAIN db \ d.del /\ rows[k] = db[k]
    BY <1>3, <1>1, <1>2
  <2>. QED
    BY <2>1 DEF rows
<1>4. CASE k \in DOMAIN d.put /\ k \in DOMAIN db
  <2>1. Whole(db0, k, Upon(d.put[k], db[k]))
    BY <1>4, UponWhole
  <2>2. rows[k] = Upon(d.put[k], db[k])
    BY <1>4, <1>1
  <2>. QED
    BY <2>1, <2>2 DEF rows
<1>5. CASE k \in DOMAIN d.put /\ k \notin DOMAIN db
  <2>1. rows[k] = d.put[k]
    BY <1>5, <1>1
  <2>. QED
    BY <1>5, <2>1 DEF rows
<1>. QED
  BY <1>3, <1>4, <1>5

-----------------------------------------------------------------------------
(* A flush.                                                                   *)
LEMMA PendingIs ==
  ASSUME NEW u
  PROVE  /\ DOMAIN Pending(u).put = Unsent(u) /\ Pending(u).del = u.gone
         /\ \A k \in Unsent(u) : Pending(u).put[k] = Difference(u, k)
BY DEF Pending

LEMMA PendingParts ==
  ASSUME NEW db0, NEW q, NEW u, Session(db0, q, u)
  PROVE  \A k \in Unsent(u) :
           /\ Writes(q, k) /\ Part(db0, k, Difference(u, k))
           /\ k \notin DOMAIN u.base => Mine(k, q) /\ Whole(db0, k, Difference(u, k))
<1> SUFFICES ASSUME NEW k \in Unsent(u)
             PROVE  /\ Writes(q, k) /\ Part(db0, k, Difference(u, k))
                    /\ k \notin DOMAIN u.base => Mine(k, q) /\ Whole(db0, k, Difference(u, k))
  OBVIOUS
<1>1. k \in DOMAIN u.obj
  BY DEF Unsent
<1>2. Whole(db0, k, u.obj[k]) /\ (k \in DOMAIN u.base \/ Mine(k, q)) /\ Writes(q, k)
  BY <1>1 DEF Session
<1>3. \A f \in DOMAIN Difference(u, k) :
        f \in DOMAIN u.obj[k] /\ Difference(u, k)[f] = u.obj[k][f]
  BY DEF Difference
<1>4. Part(db0, k, Difference(u, k))
  BY <1>2, <1>3 DEF Part, Whole
<1>5. k \notin DOMAIN u.base => Difference(u, k) = u.obj[k]
  BY DEF Difference
<1>. QED
  BY <1>2, <1>4, <1>5

(* What a request sees is what is committed, with its own writes.             *)
LEMMA ViewIs ==
  ASSUME ~SharedConnection, NEW q
  PROVE  View(q) = Apply(durable, unit[q].sent)
BY DEF View

LEMMA RowsWhole ==
  ASSUME NEW db0, ~SharedConnection, UnitsInv(db0), NEW q \in Requests, ~Stale(q)
  PROVE  \A k \in DOMAIN Rows(q) : Whole(db0, k, Rows(q)[k])
<1>1. Session(db0, q, unit[q]) /\ Transaction(db0, q, unit[q].sent)
  BY DEF UnitsInv, Sessions, Fit
<1>2. \A k \in DOMAIN durable : Whole(db0, k, durable[k])
  BY DEF UnitsInv, Kept
<1>3. \A k \in DOMAIN View(q) : Whole(db0, k, View(q)[k])
  BY <1>1, <1>2, ApplyWhole, ViewIs DEF Transaction
<1>4. \A k \in Unsent(unit[q]) :
        /\ Part(db0, k, Pending(unit[q]).put[k])
        /\ k \in DOMAIN View(q) \/ Whole(db0, k, Pending(unit[q]).put[k])
  BY <1>1, PendingIs, PendingParts DEF Stale
<1>. QED
  BY <1>3, <1>4, ApplyWhole, PendingIs DEF Rows

(* The rows a request sees that it has not written itself are committed.      *)
LEMMA RowsAre ==
  ASSUME ~SharedConnection, NEW q \in Requests
  PROVE  DOMAIN Rows(q) =
           Unsent(unit[q]) \cup
           ((DOMAIN unit[q].sent.put \cup (DOMAIN durable \ unit[q].sent.del)) \ unit[q].gone)
<1>1. DOMAIN Rows(q) =
        DOMAIN Pending(unit[q]).put \cup (DOMAIN View(q) \ Pending(unit[q]).del)
  BY ApplyIs DEF Rows
<1>2. DOMAIN View(q) = DOMAIN unit[q].sent.put \cup (DOMAIN durable \ unit[q].sent.del)
  <2>1. View(q) = Apply(durable, unit[q].sent)
    BY ViewIs
  <2>. QED
    BY <2>1 DEF Apply
<1>3. DOMAIN Pending(unit[q]).put = Unsent(unit[q]) /\ Pending(unit[q]).del = unit[q].gone
  BY PendingIs
<1>. QED
  BY <1>1, <1>2, <1>3

-----------------------------------------------------------------------------
(* A session after a flush and a query that returned the rows ks.             *)
Fresh(db0, q, u, ks) ==
  /\ Fit(db0, q, u)
  /\ u.sent = Sent(q).sent
  /\ u.gone = {} /\ Unsent(u) = {}
  /\ DOMAIN u.obj = Held(unit[q]) \cup ks /\ DOMAIN u.base = DOMAIN u.obj
  /\ \A k \in Held(unit[q]) : u.obj[k] = unit[q].obj[k]

(* What its transaction has written then.                                     *)
LEMMA SentIs ==
  ASSUME ~SharedConnection, NEW q
  PROVE  /\ DOMAIN Sent(q).sent.put = Due(unit[q]) \ (unit[q].gone \ Unsent(unit[q]))
         /\ Sent(q).sent.del = unit[q].sent.del \cup unit[q].gone
         /\ DOMAIN Sent(q).base = Held(unit[q]) /\ DOMAIN Sent(q).obj = Held(unit[q])
         /\ \A k \in Held(unit[q]) :
              Sent(q).base[k] = unit[q].obj[k] /\ Sent(q).obj[k] = unit[q].obj[k]
         /\ Sent(q).touched = {} /\ Sent(q).gone = {}
<1>1. Sent(q).sent = Followed(unit[q].sent, Pending(unit[q]))
  BY DEF Sent
<1>2. DOMAIN Followed(unit[q].sent, Pending(unit[q])).put
        = Unsent(unit[q]) \cup (DOMAIN unit[q].sent.put \ unit[q].gone)
  BY PendingIs DEF Followed, Apply
<1>3. Followed(unit[q].sent, Pending(unit[q])).del = unit[q].sent.del \cup unit[q].gone
  BY PendingIs DEF Followed
<1>. QED
  BY <1>1, <1>2, <1>3 DEF Sent, Held, Due

LEMMA TransactionSent ==
  ASSUME NEW db0, ~SharedConnection, UnitsInv(db0), NEW q \in Requests, ~Stale(q)
  PROVE  Transaction(db0, q, Sent(q).sent)
<1> DEFINE s == unit[q].sent
           e == Pending(unit[q])
           t == Followed(s, e)
<1>1. Session(db0, q, unit[q]) /\ Transaction(db0, q, s)
  BY DEF UnitsInv, Sessions, Fit
<1>2. Sent(q).sent = t
  BY DEF Sent
<1>3. t.put = Apply(s.put, e) /\ t = [put |-> t.put, del |-> t.del]
  BY DEF Followed
<1>4. \A k \in DOMAIN e.put :
        /\ Writes(q, k) /\ Part(db0, k, e.put[k])
        /\ k \in DOMAIN durable \/ k \in DOMAIN s.put \/ (Mine(k, q) /\ Whole(db0, k, e.put[k]))
  <2> SUFFICES ASSUME NEW k \in DOMAIN e.put
               PROVE  /\ Writes(q, k) /\ Part(db0, k, e.put[k])
                      /\ \/ k \in DOMAIN durable \/ k \in DOMAIN s.put
                         \/ Mine(k, q) /\ Whole(db0, k, e.put[k])
    OBVIOUS
  <2>1. k \in Unsent(unit[q]) /\ e.put[k] = Difference(unit[q], k)
    BY PendingIs
  <2>2. k \in DOMAIN unit[q].base => k \in DOMAIN View(q)
    BY <2>1 DEF Stale
  <2>3. DOMAIN View(q) \subseteq DOMAIN s.put \cup DOMAIN durable
    BY DEF View, Apply
  <2>. QED
    BY <1>1, <2>1, <2>2, <2>3, PendingParts
<1>5. DOMAIN t.put = DOMAIN e.put \cup (DOMAIN s.put \ e.del)
  BY <1>3 DEF Apply
<1>6. \A k \in DOMAIN t.put :
        t.put[k] = IF k \notin DOMAIN e.put THEN s.put[k]
                   ELSE IF k \in DOMAIN s.put THEN Upon(e.put[k], s.put[k])
                   ELSE e.put[k]
  BY <1>3 DEF Apply
<1> HIDE DEF s, e, t
<1>7. ASSUME NEW k \in DOMAIN t.put
      PROVE  /\ Writes(q, k) /\ Part(db0, k, t.put[k])
             /\ k \in DOMAIN durable \/ (Mine(k, q) /\ Whole(db0, k, t.put[k]))
  <2>1. CASE k \notin DOMAIN e.put
    <3>1. k \in DOMAIN s.put /\ t.put[k] = s.put[k]
      BY <1>5, <1>6, <2>1
    <3>. QED
      BY <1>1, <3>1 DEF Transaction
  <2>2. CASE k \in DOMAIN e.put /\ k \in DOMAIN s.put
    <3>1. t.put[k] = Upon(e.put[k], s.put[k])
      BY <1>6, <2>2
    <3>2. /\ Part(db0, k, e.put[k]) /\ Part(db0, k, s.put[k]) /\ Writes(q, k)
          /\ k \in DOMAIN durable \/ (Mine(k, q) /\ Whole(db0, k, s.put[k]))
      BY <1>1, <1>4, <2>2 DEF Transaction
    <3>. QED
      BY <3>1, <3>2, UponWhole
  <2>3. CASE k \in DOMAIN e.put /\ k \notin DOMAIN s.put
    <3>1. t.put[k] = e.put[k]
      BY <1>6, <2>3
    <3>. QED
      BY <1>4, <2>3, <3>1
  <2>. QED
    BY <2>1, <2>2, <2>3
<1>. QED
  BY <1>2, <1>3, <1>7 DEF Transaction

LEMMA SentFresh ==
  ASSUME NEW db0, ~SharedConnection, UnitsInv(db0), NEW q \in Requests, ~Stale(q)
  PROVE  Fresh(db0, q, Sent(q), {})
<1> DEFINE u == unit[q]
           v == Sent(q)
<1>1. Session(db0, q, u) /\ Strikes(db0, q, u.gone \cup u.sent.del)
  BY DEF UnitsInv, Sessions, Fit
<1>2. /\ v.sent.del = u.sent.del \cup u.gone
      /\ DOMAIN v.base = Held(u) /\ DOMAIN v.obj = Held(u)
      /\ \A k \in Held(u) : v.base[k] = u.obj[k] /\ v.obj[k] = u.obj[k]
      /\ v.touched = {} /\ v.gone = {}
  BY SentIs
<1>3. Transaction(db0, q, v.sent)
  BY TransactionSent
<1>4. v = [base |-> v.base, obj |-> v.obj, touched |-> v.touched, gone |-> v.gone,
           sent |-> v.sent]
  BY DEF Sent
<1> HIDE DEF u, v
<1>5. Unsent(v) = {}
  BY <1>2 DEF Unsent
<1>6. \A k \in Held(u) : Whole(db0, k, u.obj[k])
  BY <1>1 DEF Session, Held
<1>7. Session(db0, q, v)
  BY <1>2, <1>4, <1>5, <1>6 DEF Session
<1>8. v.gone \cup v.sent.del = u.gone \cup u.sent.del
  BY <1>2
<1>. QED
  BY <1>1, <1>2, <1>3, <1>5, <1>7, <1>8 DEF Fresh, Fit, u, v

LEMMA FoundFresh ==
  ASSUME NEW db0, ~SharedConnection, UnitsInv(db0), NEW q \in Requests, ~Stale(q),
         NEW ks \in SUBSET DOMAIN Rows(q)
  PROVE  Fresh(db0, q, Found(q, ks), ks)
<1> DEFINE s == Sent(q)
           rows == [k \in ks |-> Rows(q)[k]]
           v == Found(q, ks)
<1>1. Fresh(db0, q, s, {})
  BY SentFresh
<1>2. /\ s = [base |-> s.base, obj |-> s.obj, touched |-> s.touched, gone |-> s.gone,
              sent |-> s.sent]
      /\ DOMAIN s.base = DOMAIN s.obj /\ s.gone = {} /\ Unsent(s) = {}
      /\ \A k \in DOMAIN s.obj : Whole(db0, k, s.obj[k]) /\ s.obj[k] = s.base[k]
      /\ s.touched = {}
  <2>1. Session(db0, q, s) /\ DOMAIN s.base = DOMAIN s.obj /\ s.gone = {} /\ Unsent(s) = {}
    BY <1>1 DEF Fresh, Fit
  <2>2. s.touched = {}
    BY SentIs
  <2>. QED
    BY <2>1, <2>2 DEF Session, Unsent
<1>3. \A k \in ks : Whole(db0, k, rows[k])
  BY RowsWhole
<1>4. DOMAIN rows = ks
  OBVIOUS
<1>5. v = [s EXCEPT !.base = Upon(@, rows), !.obj = Upon(@, rows)]
  BY DEF Found, Load
<1> HIDE DEF rows, v
<1>6. s.sent = Sent(q).sent
  OBVIOUS
<1> HIDE DEF s
<1>7. /\ v = [base |-> v.base, obj |-> v.obj, touched |-> v.touched, gone |-> v.gone,
              sent |-> v.sent]
      /\ v.base = Upon(s.base, rows) /\ v.obj = Upon(s.obj, rows)
      /\ v.touched = {} /\ v.gone = {} /\ v.sent = s.sent
  BY <1>2, <1>5
<1>8. /\ DOMAIN v.base = DOMAIN s.base \cup ks
      /\ \A k \in DOMAIN s.base : v.base[k] = s.base[k]
      /\ \A k \in ks : k \notin DOMAIN s.base => v.base[k] = rows[k]
  BY <1>4, <1>7 DEF Upon
<1>9. /\ DOMAIN v.obj = DOMAIN s.obj \cup ks
      /\ \A k \in DOMAIN s.obj : v.obj[k] = s.obj[k]
      /\ \A k \in ks : k \notin DOMAIN s.obj => v.obj[k] = rows[k]
  BY <1>4, <1>7 DEF Upon
<1>10. \A k \in DOMAIN v.obj : v.obj[k] = v.base[k] /\ Whole(db0, k, v.obj[k])
  BY <1>2, <1>3, <1>8, <1>9
<1>11. DOMAIN v.base = DOMAIN v.obj
  BY <1>2, <1>8, <1>9
<1>12. Unsent(v) = {}
  BY <1>7, <1>10, <1>11 DEF Unsent
<1>13. Session(db0, q, v)
  BY <1>7, <1>10, <1>12, <1>11 DEF Session
<1>14. Fit(db0, q, v)
  BY <1>1, <1>2, <1>7, <1>13 DEF Fresh, Fit
<1>15. DOMAIN s.obj = Held(unit[q]) /\ \A k \in Held(unit[q]) : s.obj[k] = unit[q].obj[k]
  BY <1>1 DEF Fresh
<1>. QED
  BY <1>6, <1>7, <1>9, <1>12, <1>11, <1>14, <1>15 DEF Fresh, v

-----------------------------------------------------------------------------
(* What a method does to its session.                                         *)

LEMMA AddFits ==
  ASSUME NEW q \in Requests, NEW u, NEW db0, Fit(db0, q, u), NEW k, NEW row,
         Mine(k, q), Writes(q, k), Whole(db0, k, row)
  PROVE  /\ Fit(db0, q, Add(u, k, row)) /\ Add(u, k, row).sent = u.sent
         /\ DOMAIN Add(u, k, row).obj = DOMAIN u.obj \cup {k}
         /\ Add(u, k, row).gone = u.gone
         /\ Unsent(u) \subseteq Unsent(Add(u, k, row)) \cup {k}
         /\ k \notin DOMAIN u.base \cup u.gone => k \in Unsent(Add(u, k, row))
<1> DEFINE v == Add(u, k, row)
           rows == [x \in {k} |-> row]
<1>1. Session(db0, q, u)
  BY DEF Fit
<1>2. v = [u EXCEPT !.obj = Upon(rows, @)]
  BY DEF Add
<1>3. DOMAIN rows = {k} /\ rows[k] = row
  OBVIOUS
<1> HIDE DEF v, rows
<1>4. /\ v = [base |-> v.base, obj |-> v.obj, touched |-> v.touched, gone |-> v.gone,
              sent |-> v.sent]
      /\ v.obj = Upon(rows, u.obj)
      /\ v.base = u.base /\ v.touched = u.touched /\ v.gone = u.gone /\ v.sent = u.sent
  BY <1>1, <1>2 DEF Session
<1>5. /\ DOMAIN v.obj = DOMAIN u.obj \cup {k} /\ v.obj[k] = row
      /\ \A x \in DOMAIN u.obj : x # k => v.obj[x] = u.obj[x]
  BY <1>3, <1>4 DEF Upon
<1>6. Unsent(v) \subseteq Unsent(u) \cup {k}
  BY <1>4, <1>5 DEF Unsent
<1>7. Unsent(u) \subseteq Unsent(v) \cup {k}
  BY <1>4, <1>5 DEF Unsent
<1>8. \A x \in DOMAIN v.obj : Whole(db0, x, v.obj[x]) /\ (x \in DOMAIN v.base \/ Mine(x, q))
  BY <1>1, <1>4, <1>5 DEF Session
<1>9. Session(db0, q, v)
  BY <1>1, <1>4, <1>5, <1>6, <1>8 DEF Session
<1>10. Fit(db0, q, v)
  BY <1>4, <1>9 DEF Fit
<1>11. k \notin DOMAIN u.base \cup u.gone => k \in Unsent(v)
  BY <1>4, <1>5 DEF Unsent
<1>. QED
  BY <1>4, <1>5, <1>7, <1>10, <1>11 DEF v

LEMMA AssignFits ==
  ASSUME NEW q \in Requests, NEW u, NEW db0, Fit(db0, q, u), NEW k \in DOMAIN u.obj, NEW columns,
         Writes(q, k), Part(db0, k, columns)
  PROVE  /\ Fit(db0, q, Assign(u, k, columns)) /\ Assign(u, k, columns).sent = u.sent
         /\ DOMAIN Assign(u, k, columns).obj = DOMAIN u.obj
         /\ \A x \in DOMAIN u.obj : x # k => Assign(u, k, columns).obj[x] = u.obj[x]
         /\ Assign(u, k, columns).gone = u.gone
         /\ Unsent(u) \subseteq Unsent(Assign(u, k, columns)) \cup {k}
<1> DEFINE v == Assign(u, k, columns)
<1>1. Session(db0, q, u)
  BY DEF Fit
<1>2. v = [u EXCEPT !.obj[k] = Upon(columns, @)]
  BY DEF Assign
<1> HIDE DEF v
<1>3. /\ v = [base |-> v.base, obj |-> v.obj, touched |-> v.touched, gone |-> v.gone,
              sent |-> v.sent]
      /\ v.obj = [u.obj EXCEPT ![k] = Upon(columns, @)]
      /\ v.base = u.base /\ v.touched = u.touched /\ v.gone = u.gone /\ v.sent = u.sent
  BY <1>1, <1>2 DEF Session
<1>4. /\ DOMAIN v.obj = DOMAIN u.obj /\ v.obj[k] = Upon(columns, u.obj[k])
      /\ \A x \in DOMAIN u.obj : x # k => v.obj[x] = u.obj[x]
  BY <1>3
<1>5. Whole(db0, k, v.obj[k])
  BY <1>1, <1>4, UponWhole DEF Session
<1>6. Unsent(v) \subseteq Unsent(u) \cup {k} /\ Unsent(u) \subseteq Unsent(v) \cup {k}
  BY <1>3, <1>4 DEF Unsent
<1>7. \A x \in DOMAIN v.obj : Whole(db0, x, v.obj[x]) /\ (x \in DOMAIN v.base \/ Mine(x, q))
  BY <1>1, <1>3, <1>4, <1>5 DEF Session
<1>8. \A x \in Unsent(v) : Writes(q, x)
  BY <1>1, <1>6 DEF Session
<1>9. Session(db0, q, v)
  BY <1>1, <1>3, <1>4, <1>7, <1>8 DEF Session
<1>10. Fit(db0, q, v)
  BY <1>3, <1>9 DEF Fit
<1>. QED
  BY <1>3, <1>4, <1>6, <1>10 DEF v

LEMMA TouchFits ==
  ASSUME NEW q \in Requests, NEW u, NEW db0, Fit(db0, q, u), NEW k \in DOMAIN u.obj,
         Writes(q, k)
  PROVE  /\ Fit(db0, q, Touch(u, k)) /\ Touch(u, k).sent = u.sent
         /\ Touch(u, k).obj = u.obj /\ Touch(u, k).gone = u.gone
         /\ Unsent(u) \subseteq Unsent(Touch(u, k))
         /\ k \notin u.gone => k \in Unsent(Touch(u, k))
<1> DEFINE v == Touch(u, k)
<1>1. Session(db0, q, u)
  BY DEF Fit
<1>2. v = [u EXCEPT !.touched = @ \cup {k}]
  BY DEF Touch
<1> HIDE DEF v
<1>3. /\ v = [base |-> v.base, obj |-> v.obj, touched |-> v.touched, gone |-> v.gone,
              sent |-> v.sent]
      /\ v.touched = u.touched \cup {k}
      /\ v.base = u.base /\ v.obj = u.obj /\ v.gone = u.gone /\ v.sent = u.sent
  BY <1>1, <1>2 DEF Session
<1>4. /\ Unsent(v) \subseteq Unsent(u) \cup {k}
      /\ Unsent(u) \subseteq Unsent(v)
      /\ k \notin u.gone => k \in Unsent(v)
  BY <1>3 DEF Unsent
<1>5. \A x \in Unsent(v) : Writes(q, x)
  BY <1>1, <1>4 DEF Session
<1>6. Session(db0, q, v)
  BY <1>1, <1>3, <1>5 DEF Session
<1>7. Fit(db0, q, v)
  BY <1>3, <1>6 DEF Fit
<1>. QED
  BY <1>3, <1>4, <1>7 DEF v

LEMMA DeleteFits ==
  ASSUME NEW q \in Requests, NEW u, NEW db0, Fit(db0, q, u), NEW ks, ks \subseteq DOMAIN u.obj,
         Strikes(db0, q, ks)
  PROVE  /\ Fit(db0, q, Delete(u, ks)) /\ Delete(u, ks).sent = u.sent
         /\ Delete(u, ks).obj = u.obj /\ Delete(u, ks).gone = u.gone \cup ks
         /\ Delete(u, ks).base = u.base
<1> DEFINE v == Delete(u, ks)
<1>1. Session(db0, q, u)
  BY DEF Fit
<1>2. v = [u EXCEPT !.gone = @ \cup ks]
  BY DEF Delete
<1> HIDE DEF v
<1>3. /\ v = [base |-> v.base, obj |-> v.obj, touched |-> v.touched, gone |-> v.gone,
              sent |-> v.sent]
      /\ v.gone = u.gone \cup ks
      /\ v.base = u.base /\ v.obj = u.obj /\ v.touched = u.touched /\ v.sent = u.sent
  BY <1>1, <1>2 DEF Session
<1>4. Unsent(v) \subseteq Unsent(u)
  BY <1>3 DEF Unsent
<1>5. Session(db0, q, v)
  BY <1>1, <1>3, <1>4 DEF Session
<1>6. Strikes(db0, q, v.gone \cup v.sent.del)
  <2>1. v.gone \cup v.sent.del = (u.gone \cup u.sent.del) \cup ks
    BY <1>3
  <2>2. Strikes(db0, q, u.gone \cup u.sent.del)
    BY DEF Fit
  <2>. QED
    BY <2>1, <2>2 DEF Strikes
<1>7. Fit(db0, q, v)
  BY <1>3, <1>5, <1>6 DEF Fit
<1>. QED
  BY <1>3, <1>7 DEF v

(* The deletion of documents with their chunks, or of the chunks of the document
   that is filed again.                                                       *)
LEMMA StrikesFiled ==
  ASSUME NEW db0, NEW q, job[q].op \in Filing, NEW ks, NEW docs,
         \A k \in ks : k[1] = "chunk" /\ (Files(q) => ~Mine(k, q)),
         \A k \in ks :
           \/ HomeOf(db0, k) \in docs \/ job[q].op = "delete_book"
           \/ (job[q].op = "reindex" /\ HomeOf(db0, k) = DocOf(q)),
         \A d \in docs : d[1] = "doc" /\ (Files(q) => d # Target(q)),
         Files(q) => Target(q)[1] = "doc"
  PROVE  Strikes(db0, q, ks \cup docs)
<1>1. \A x, role : Said(x, role) \notin ks \cup docs
  BY DEF Said
<1>2. Files(q) => \A k \in ks \cup docs : k # Target(q) /\ ~(k[1] = "chunk" /\ Mine(k, q))
  OBVIOUS
<1>. QED
  BY <1>1, <1>2 DEF Strikes

-----------------------------------------------------------------------------
(* Steps.  What is said of a session does not change while the jobs and the
   committed rows do not.                                                     *)
LEMMA SoundStays ==
  ASSUME job' = job, NEW db0, NEW k, NEW f, NEW v, Sound(db0, k, f, v)
  PROVE  Sound(db0, k, f, v)'
BY DEF Sound, Turn, Said, ChatOf, TextOf, HomeOf, PieceOf, Drawn, Given, Target, DocOf, MyDoc

LEMMA RowsStay ==
  ASSUME job' = job, NEW db0, NEW k
  PROVE  /\ \A row : Part(db0, k, row) => Part(db0, k, row)'
         /\ \A row : Whole(db0, k, row) => Whole(db0, k, row)'
         /\ \A q : Writes(q, k) => Writes(q, k)'
<1>1. \A row : Part(db0, k, row) => Part(db0, k, row)'
  BY SoundStays DEF Part
<1>2. \A row : Whole(db0, k, row) => Whole(db0, k, row)'
  BY <1>1 DEF Whole, Columns
<1>3. \A q : Writes(q, k) => Writes(q, k)'
  BY DEF Writes, Turn, Said, Target, DocOf, MyDoc, Files
<1>. QED
  BY <1>1, <1>2, <1>3

LEMMA StrikesStay ==
  ASSUME job' = job, NEW db0, NEW q, NEW ks, Strikes(db0, q, ks)
  PROVE  Strikes(db0, q, ks)'
BY DEF Strikes, Said, Mine, HomeOf, Drawn, Target, DocOf, MyDoc, Files, ChatOf

LEMMA Carried ==
  ASSUME NEW db0, job' = job, durable' = durable, NEW q \in Requests,
         Fit(db0, q, unit'[q]), Placed(db0, q, unit'[q], pc'[q], note'[q])
  PROVE  (Fit(db0, q, unit[q]) /\ Placed(db0, q, unit[q], pc[q], note[q]))'
<1>1. (Session(db0, q, unit[q]))'
  BY RowsStay DEF Fit, Session, Mine, Unsent
<1>2. (Transaction(db0, q, unit[q].sent))'
  BY RowsStay DEF Fit, Transaction, Mine
<1>3. (Strikes(db0, q, unit[q].gone \cup unit[q].sent.del))'
  BY StrikesStay DEF Fit
<1>4. (Phase(db0, q, unit[q], pc[q], note[q]))'
  BY DEF Placed, Phase, Over, Closed, Nothing, MyLoan, Held, Due, Unsent, CopyOf, MyDoc, Target,
         DocOf, Book, ChatOf, Said, Unfiled, Mine, Filling, MyChunk, TextOf, Drawn, Given
<1>5. (Ready(db0, q, unit[q], pc[q]) /\ Path(q, pc[q]))'
  BY DEF Placed, Ready, Path, MyLoan, Due, Unsent, Book, ChatOf, Turn, Said, Files, Filling,
         MyChunk, TextOf, Drawn, Given, Target, DocOf, MyDoc
<1>. QED
  BY <1>1, <1>2, <1>3, <1>4, <1>5 DEF Fit, Placed

LEMMA UnitStep ==
  ASSUME NEW db0, UnitsInv(db0), NEW q \in Requests, NEW u, NEW next, NEW memo,
         unit' = [unit EXCEPT ![q] = u], pc' = [pc EXCEPT ![q] = next],
         note' = [note EXCEPT ![q] = memo], job' = job, durable' = durable,
         Fit(db0, q, u), Placed(db0, q, u, next, memo),
         \A p \in Requests : p # q => Written(u.sent) \cap Written(unit[p].sent) = {},
         next \notin {"ok", "close"} => Own(durable, q) = {},
         next = "ok" => job[q].op # "borrow",
         \A pair \in met' : Cardinality(pair) = 2
  PROVE  UnitsInv(db0)'
<1>1. DOMAIN unit = Requests /\ DOMAIN pc = Requests /\ DOMAIN note = Requests
  BY DEF UnitsInv, Sessions
<1>2. /\ unit'[q] = u /\ pc'[q] = next /\ note'[q] = memo
      /\ \A p \in Requests :
           p # q => unit'[p] = unit[p] /\ pc'[p] = pc[p] /\ note'[p] = note[p]
  BY <1>1
<1>3. ASSUME NEW p \in Requests
      PROVE  Fit(db0, p, unit'[p]) /\ Placed(db0, p, unit'[p], pc'[p], note'[p])
  <2>1. CASE p = q
    BY <1>2, <2>1
  <2>2. CASE p # q
    <3>1. Fit(db0, p, unit[p]) /\ Placed(db0, p, unit[p], pc[p], note[p])
      BY DEF UnitsInv, Sessions
    <3>. QED
      BY <1>2, <2>2, <3>1
  <2>. QED
    BY <2>1, <2>2
<1>4. Sessions(db0)'
  <2>1. /\ unit' = [p \in Requests |-> unit'[p]]
        /\ pc' = [p \in Requests |-> pc'[p]] /\ note' = [p \in Requests |-> note'[p]]
    BY <1>1
  <2>2. ASSUME NEW p \in Requests
        PROVE  (Asked(job[p]) /\ Fit(db0, p, unit[p]) /\ Placed(db0, p, unit[p], pc[p], note[p]))'
    <3>1. Asked(job[p])'
      BY DEF UnitsInv, Sessions, Asked
    <3>. QED
      BY <1>3, <3>1, Carried
  <2>. QED
    BY <2>1, <2>2 DEF Sessions
<1>5. Locked'
  BY <1>2 DEF UnitsInv, Locked, Written
<1>6. Kept(db0)'
  <2>1. (\A k \in DOMAIN durable : Whole(db0, k, durable[k]))'
    BY RowsStay DEF UnitsInv, Kept
  <2>2. AcceptedIsKept'
    BY <1>2 DEF UnitsInv, Kept, AllOrNothing, AcceptedIsKept, MyLoan, Book
  <2>3. ASSUME NEW p \in Requests
        PROVE  /\ pc'[p] \notin {"ok", "close"} => Own(durable', p) = {}
               /\ Said(p, "user") \in DOMAIN durable' <=> Said(p, "assistant") \in DOMAIN durable'
    BY <1>2 DEF UnitsInv, Kept, AllOrNothing
  <2>4. AllOrNothing'
    BY <2>2, <2>3 DEF AllOrNothing, Own, Said
  <2>. QED
    BY <2>1, <2>4 DEF Kept
<1>. QED
  BY <1>4, <1>5, <1>6 DEF UnitsInv

LEMMA ClosedFits ==
  ASSUME NEW db0, NEW q
  PROVE  /\ Fit(db0, q, Closed) /\ Written(Closed.sent) = {}
         /\ DOMAIN Closed.obj = {} /\ Due(Closed) = {}
<1>1. /\ Closed = [base |-> Closed.base, obj |-> Closed.obj, touched |-> Closed.touched,
                   gone |-> Closed.gone, sent |-> Closed.sent]
      /\ DOMAIN Closed.base = {} /\ DOMAIN Closed.obj = {}
      /\ Closed.touched = {} /\ Closed.gone = {}
      /\ Closed.sent = [put |-> Closed.sent.put, del |-> Closed.sent.del]
      /\ DOMAIN Closed.sent.put = {} /\ Closed.sent.del = {}
  BY DEF Closed, Nothing
<1> HIDE DEF Closed
<1>2. Unsent(Closed) = {}
  BY <1>1 DEF Unsent
<1>3. Session(db0, q, Closed) /\ Transaction(db0, q, Closed.sent) /\ Strikes(db0, q, {})
  BY <1>1, <1>2 DEF Session, Transaction, Strikes
<1>. QED
  BY <1>1, <1>2, <1>3 DEF Fit, Written, Due

LEMMA ClosedPlaced ==
  ASSUME NEW db0, NEW q, NEW at \in {"start", "refused", "ok", "embed_query", "complete", "turn"},
         NEW memo
  PROVE  Placed(db0, q, Closed, at, memo)
BY ClosedFits DEF Placed, Phase, Ready, Path, Over

(* A unit that ends without a commit leaves the database as it is.            *)
LEMMA ClosedStep ==
  ASSUME NEW db0, ~SharedConnection, UnitsInv(db0), NEW q \in Requests, Rollback(q),
         NEW next \in {"refused", "ok", "embed_query", "complete", "turn"}, NEW memo,
         pc' = [pc EXCEPT ![q] = next], note' = [note EXCEPT ![q] = memo], job' = job,
         pc[q] \in {"ok", "close"} => next = "ok",
         next = "ok" => job[q].op # "borrow",
         \A pair \in met' : Cardinality(pair) = 2
  PROVE  UnitsInv(db0)'
<1>1. unit' = [unit EXCEPT ![q] = Closed] /\ durable' = durable
  BY DEF Rollback
<1>2. Fit(db0, q, Closed) /\ Placed(db0, q, Closed, next, memo)
  BY ClosedFits, ClosedPlaced
<1>3. \A p \in Requests : p # q => Written(Closed.sent) \cap Written(unit[p].sent) = {}
  BY ClosedFits
<1>4. next \notin {"ok", "close"} => Own(durable, q) = {}
  BY DEF UnitsInv, Kept, AllOrNothing
<1>. QED
  BY <1>1, <1>2, <1>3, <1>4, UnitStep

LEMMA RefuseStep ==
  ASSUME NEW db0, ~SharedConnection, UnitsInv(db0), NEW q \in Requests, Refuse(q), job' = job,
         pc[q] \notin {"ok", "close"} \/ Own(durable, q) = {},
         \A pair \in met' : Cardinality(pair) = 2
  PROVE  UnitsInv(db0)'
<1>1. unit' = [unit EXCEPT ![q] = Closed] /\ durable' = durable
  BY DEF Refuse, Rollback
<1>2. pc' = [pc EXCEPT ![q] = "refused"] /\ note' = [note EXCEPT ![q] = {}]
  BY DEF Refuse
<1>3. Fit(db0, q, Closed) /\ Placed(db0, q, Closed, "refused", {})
  BY ClosedFits, ClosedPlaced
<1>4. \A p \in Requests : p # q => Written(Closed.sent) \cap Written(unit[p].sent) = {}
  BY ClosedFits
<1>5. Own(durable, q) = {}
  BY DEF UnitsInv, Kept, AllOrNothing
<1>. QED
  BY <1>1, <1>2, <1>3, <1>4, <1>5, UnitStep

(* Requests meet in pairs.                                                    *)
LEMMA MeetPairs ==
  ASSUME NEW db0, UnitsInv(db0), NEW q \in Requests, Meet(q)
  PROVE  \A pair \in met' : Cardinality(pair) = 2
<1> SUFFICES ASSUME NEW pair \in met'  PROVE Cardinality(pair) = 2
  OBVIOUS
<1>1. pair \in met => Cardinality(pair) = 2
  BY DEF UnitsInv, Kept
<1>2. ASSUME pair \notin met
      PROVE  Cardinality(pair) = 2
  <2>1. PICK p \in Requests : Live(p) /\ pair = {q, p} /\ pc[q] = "start"
    BY <1>2 DEF Meet
  <2>2. p # q
    BY <2>1 DEF Live
  <2>3. Cardinality({q}) = 1 /\ IsFiniteSet({q})
    BY FS_Singleton
  <2>4. p \notin {q}
    BY <2>2
  <2>5. Cardinality({q} \cup {p}) = Cardinality({q}) + 1
    <3>. DEFINE S == {q}
    <3>1. IsFiniteSet(S) /\ p \notin S
      BY <2>3, <2>4
    <3>. HIDE DEF S
    <3>2. Cardinality(S \cup {p}) = Cardinality(S) + 1
      BY <3>1, FS_AddElement
    <3>. QED
      BY <3>2 DEF S
  <2>6. {q} \cup {p} = {q, p}
    OBVIOUS
  <2>. QED
    BY <2>1, <2>3, <2>5, <2>6
<1>. QED
  BY <1>1, <1>2

(* A statement: what it sends is locked for no other unit, and what it makes of
   the session has to fit where the method goes on.                           *)
LEMMA StatementStep ==
  ASSUME NEW db0, ~SharedConnection, UnitsInv(db0), NEW q \in Requests, NEW at, NEW accepts, NEW u,
         NEW next, NEW memo, StatementNoting(q, at, accepts, u, next, memo),
         at \notin Calls \cup {"ok", "close"}, next # "ok",
         accepts => Fit(db0, q, u) /\ u.sent = Sent(q).sent /\ Placed(db0, q, u, next, memo)
  PROVE  UnitsInv(db0)'
<1>1. pc[q] = at /\ ~Blocked(q) /\ ~Stale(q) /\ Meet(q) /\ job' = job
  BY DEF StatementNoting
<1>2. \A pair \in met' : Cardinality(pair) = 2
  BY <1>1, MeetPairs
<1>3. CASE ~accepts
  <2>1. Refuse(q)
    BY <1>3 DEF StatementNoting
  <2>. QED
    BY <1>1, <1>2, <2>1, RefuseStep
<1>4. CASE accepts
  <2>1. /\ unit' = [unit EXCEPT ![q] = u] /\ pc' = [pc EXCEPT ![q] = next]
        /\ note' = [note EXCEPT ![q] = memo] /\ durable' = durable
    BY <1>4 DEF StatementNoting
  <2>2. ASSUME NEW p \in Requests, p # q
        PROVE  Written(u.sent) \cap Written(unit[p].sent) = {}
    <3>1. ~WaitsFor(q, p)
      BY <1>1 DEF Blocked
    <3>2. Written(Pending(unit[q])) \cap Written(unit[p].sent) = {}
      BY <1>1, <2>2, <3>1 DEF WaitsFor
    <3>3. Written(unit[q].sent) \cap Written(unit[p].sent) = {}
      BY <2>2 DEF UnitsInv, Locked
    <3>4. Written(Pending(unit[q])) = Unsent(unit[q]) \cup unit[q].gone
      BY PendingIs DEF Written
    <3>5. Written(u.sent) \subseteq Written(Pending(unit[q])) \cup Written(unit[q].sent)
      BY <1>4, <3>4, SentIs DEF Written, Due
    <3>. QED
      BY <3>2, <3>3, <3>5
  <2>3. Own(durable, q) = {}
    BY <1>1 DEF UnitsInv, Kept, AllOrNothing
  <2>. QED
    BY <1>1, <1>2, <1>4, <2>1, <2>2, <2>3, UnitStep
<1>. QED
  BY <1>3, <1>4

-----------------------------------------------------------------------------
(* A commit: everything has been sent, and all of it becomes durable.         *)
Committed(db0, q) ==
  /\ durable' = Apply(durable, unit[q].sent)
  /\ DOMAIN durable' = DOMAIN unit[q].sent.put \cup (DOMAIN durable \ unit[q].sent.del)
  /\ Transaction(db0, q, unit[q].sent) /\ Strikes(db0, q, unit[q].sent.del)
  /\ job[q].op = "borrow" => MyLoan(q) \in DOMAIN unit[q].sent.put
  /\ job[q].op = "delete_book" => Book \in unit[q].sent.del
  /\ job[q].op = "ask" => Turn(q) \cup {ChatOf(q)} \subseteq DOMAIN unit[q].sent.put
  /\ Files(q) => Filling(db0, q) \subseteq DOMAIN unit[q].sent.put

LEMMA CommitIs ==
  ASSUME NEW db0, ~SharedConnection, UnitsInv(db0), NEW q \in Requests, Commit(q)
  PROVE  Committed(db0, q)
<1>1. Unsent(unit[q]) = {} /\ unit[q].gone = {}
  <2>1. Pending(unit[q]) = Nothing
    BY DEF Commit, Clean
  <2>2. DOMAIN Nothing.put = {} /\ Nothing.del = {}
    BY DEF Nothing
  <2>. QED
    BY <2>1, <2>2, PendingIs
<1>2. durable' = Apply(durable, unit[q].sent)
  BY DEF Commit
<1>3. DOMAIN durable' = DOMAIN unit[q].sent.put \cup (DOMAIN durable \ unit[q].sent.del)
  BY <1>2 DEF Apply
<1>4. pc[q] = "commit" /\ Fit(db0, q, unit[q]) /\ Placed(db0, q, unit[q], pc[q], note[q])
  BY DEF Commit, UnitsInv, Sessions
<1>5. unit[q].gone \cup unit[q].sent.del = unit[q].sent.del
  BY <1>1
<1>. QED
  BY <1>1, <1>2, <1>3, <1>4, <1>5 DEF Committed, Fit, Placed, Ready, Due

(* Both messages of a turn are there, or neither.                             *)
LEMMA CommitKeepsTurns ==
  ASSUME NEW db0, UnitsInv(db0), NEW q \in Requests, Committed(db0, q), NEW x \in Requests
  PROVE  Said(x, "user") \in DOMAIN durable' <=> Said(x, "assistant") \in DOMAIN durable'
<1> DEFINE s == unit[q].sent
<1>1. Said(x, "user") \in DOMAIN durable <=> Said(x, "assistant") \in DOMAIN durable
  BY DEF UnitsInv, Kept, AllOrNothing
<1>2. DOMAIN durable' = DOMAIN s.put \cup (DOMAIN durable \ s.del)
  BY DEF Committed
<1>3. \A role \in {"user", "assistant"} :
        /\ Said(x, role)[1] = "message"
        /\ Said(x, role) \in Turn(q) => x = q
  BY DEF Said, Turn
<1>4. \A role \in {"user", "assistant"} :
        Said(x, role) \in DOMAIN s.put => job[q].op = "ask" /\ x = q
  BY <1>3 DEF Committed, Transaction, Writes
<1>5. Said(x, "user") \in s.del <=> Said(x, "assistant") \in s.del
  BY DEF Committed, Strikes
<1>6. CASE job[q].op = "ask" /\ x = q
  BY <1>2, <1>6 DEF Committed, Turn
<1>7. CASE ~(job[q].op = "ask" /\ x = q)
  BY <1>1, <1>2, <1>4, <1>5, <1>7
<1>. QED
  BY <1>6, <1>7

(* An accepted borrow keeps its loan while the title is there.                *)
LEMMA CommitKeepsLoans ==
  ASSUME NEW db0, UnitsInv(db0), NEW q \in Requests, Committed(db0, q), NEW x \in Requests,
         job[x].op = "borrow", x = q \/ pc[x] = "ok", Book \in DOMAIN durable'
  PROVE  MyLoan(x) \in DOMAIN durable'
<1> DEFINE s == unit[q].sent
<1>1. DOMAIN durable' = DOMAIN s.put \cup (DOMAIN durable \ s.del)
  BY DEF Committed
<1>2. Book \notin DOMAIN s.put
  BY DEF Committed, Transaction, Writes, Book
<1>3. CASE x = q
  BY <1>1, <1>3 DEF Committed
<1>4. CASE x # q
  <2>1. MyLoan(x) \in DOMAIN durable
    BY <1>1, <1>2, <1>4 DEF UnitsInv, Kept, AllOrNothing, AcceptedIsKept
  <2>2. MyLoan(x) \notin s.del
    <3>1. MyLoan(x)[1] = "loan"
      BY DEF MyLoan
    <3>2. MyLoan(x) \in s.del => job[q].op = "delete_book"
      BY <3>1 DEF Committed, Strikes
    <3>. QED
      BY <1>1, <1>2, <3>2 DEF Committed
  <2>. QED
    BY <1>1, <2>1, <2>2
<1>. QED
  BY <1>3, <1>4

(* The changes the others have sent still have their rows.                    *)
LEMMA CommitSparesTheOthers ==
  ASSUME NEW db0, UnitsInv(db0), NEW q \in Requests, Committed(db0, q), NEW p \in Requests, p # q
  PROVE  \A k \in DOMAIN unit[p].sent.put : k \in DOMAIN durable => k \in DOMAIN durable'
<1>1. Written(unit[q].sent) \cap Written(unit[p].sent) = {}
  BY DEF UnitsInv, Locked
<1>. QED
  BY <1>1 DEF Committed, Written

LEMMA CommitStep ==
  ASSUME NEW db0, ~SharedConnection, UnitsInv(db0), NEW q \in Requests, Commit(q)
  PROVE  UnitsInv(db0)'
<1>1. Committed(db0, q)
  BY CommitIs
<1>2. /\ unit' = [unit EXCEPT ![q] = Closed] /\ pc' = [pc EXCEPT ![q] = "ok"]
      /\ note' = [note EXCEPT ![q] = {}] /\ job' = job /\ met' = met
  BY DEF Commit
<1>3. DOMAIN unit = Requests /\ DOMAIN pc = Requests /\ DOMAIN note = Requests
  BY DEF UnitsInv, Sessions
<1>4. /\ unit'[q] = Closed /\ pc'[q] = "ok" /\ note'[q] = {}
      /\ \A p \in Requests :
           p # q => unit'[p] = unit[p] /\ pc'[p] = pc[p] /\ note'[p] = note[p]
  BY <1>2, <1>3
<1>5. ASSUME NEW p \in Requests
      PROVE  (Asked(job[p]) /\ Fit(db0, p, unit[p]) /\ Placed(db0, p, unit[p], pc[p], note[p]))'
  <2>1. Asked(job[p])'
    BY <1>2 DEF UnitsInv, Sessions, Asked
  <2>2. Fit(db0, p, unit'[p]) /\ Placed(db0, p, unit'[p], pc'[p], note'[p])
    <3>1. CASE p = q
      BY <1>4, <3>1, ClosedFits, ClosedPlaced
    <3>2. CASE p # q
      BY <1>4, <3>2 DEF UnitsInv, Sessions
    <3>. QED
      BY <3>1, <3>2
  <2>3. (Session(db0, p, unit[p]))'
    BY <1>2, <2>2, RowsStay DEF Fit, Session, Mine, Unsent
  <2>4. (Strikes(db0, p, unit[p].gone \cup unit[p].sent.del))'
    BY <1>2, <2>2, StrikesStay DEF Fit
  <2>5. \A k \in DOMAIN unit'[p].sent.put : k \in DOMAIN durable => k \in DOMAIN durable'
    <3>1. CASE p = q
      BY <1>4, <3>1, ClosedFits DEF Written
    <3>2. CASE p # q
      BY <1>1, <1>4, <3>2, CommitSparesTheOthers
    <3>. QED
      BY <3>1, <3>2
  <2>6. (Transaction(db0, p, unit[p].sent))'
    <3> DEFINE t == unit'[p].sent
    <3>1. /\ t = [put |-> t.put, del |-> t.del]
          /\ \A k \in DOMAIN t.put :
               /\ Writes(p, k) /\ Part(db0, k, t.put[k])
               /\ k \in DOMAIN durable' \/ (Mine(k, p) /\ Whole(db0, k, t.put[k]))
      BY <2>2, <2>5 DEF Fit, Transaction
    <3>2. ASSUME NEW k \in DOMAIN t.put
          PROVE  (Writes(p, k) /\ Part(db0, k, unit[p].sent.put[k]))'
      BY <1>2, <3>1, RowsStay
    <3>3. ASSUME NEW k \in DOMAIN t.put
          PROVE  (k \in DOMAIN durable \/ (Mine(k, p) /\ Whole(db0, k, unit[p].sent.put[k])))'
      BY <3>1, <3>2 DEF Whole, Columns, Mine
    <3>. QED
      BY <3>1, <3>2, <3>3 DEF Transaction
  <2>7. (Phase(db0, p, unit[p], pc[p], note[p]))'
    BY <1>2, <2>2 DEF Placed, Phase, Over, Closed, Nothing, MyLoan, Held, Due, Unsent, CopyOf,
       MyDoc, Target, DocOf, Book, ChatOf, Said, Unfiled, Mine, Filling, MyChunk, TextOf, Drawn,
       Given
  <2>8. (Ready(db0, p, unit[p], pc[p]) /\ Path(p, pc[p]))'
    BY <1>2, <2>2 DEF Placed, Ready, Path, MyLoan, Due, Unsent, Book, ChatOf, Turn, Said, Files,
       Filling, MyChunk, TextOf, Drawn, Given, Target, DocOf, MyDoc
  <2>. QED
    BY <2>1, <2>3, <2>4, <2>6, <2>7, <2>8 DEF Fit, Placed
<1>6. Sessions(db0)'
  <2>1. /\ unit' = [p \in Requests |-> unit'[p]]
        /\ pc' = [p \in Requests |-> pc'[p]] /\ note' = [p \in Requests |-> note'[p]]
    BY <1>2, <1>3
  <2>. QED
    BY <1>5, <2>1 DEF Sessions
<1>7. Locked'
  BY <1>4, ClosedFits DEF UnitsInv, Locked, Written
<1>8. Kept(db0)'
  <2>1. \A k \in DOMAIN durable' : Whole(db0, k, durable'[k])
    <3>1. \A k \in DOMAIN durable : Whole(db0, k, durable[k])
      BY DEF UnitsInv, Kept
    <3>. QED
      BY <1>1, <3>1, ApplyWhole DEF Committed, Transaction
  <2>2. (\A k \in DOMAIN durable : Whole(db0, k, durable[k]))'
    BY <1>2, <2>1, RowsStay
  <2>3. (\A pair \in met : Cardinality(pair) = 2)'
    BY <1>2 DEF UnitsInv, Kept
  <2>4. AcceptedIsKept'
    <3>1. ASSUME NEW x \in Requests, pc'[x] = "ok", job[x].op = "borrow", Book \in DOMAIN durable'
          PROVE  MyLoan(x) \in DOMAIN durable'
      BY <1>1, <1>4, <3>1, CommitKeepsLoans
    <3>. QED
      BY <1>2, <3>1 DEF AcceptedIsKept, MyLoan, Book
  <2>5. ASSUME NEW x \in Requests, pc'[x] \notin {"ok", "close"}
        PROVE  Own(durable', x) = {}
    <3>1. x # q /\ Own(durable, x) = {}
      BY <1>4, <2>5 DEF UnitsInv, Kept, AllOrNothing
    <3>2. \A k \in DOMAIN unit[q].sent.put : k \in DOMAIN durable \/ Mine(k, q)
      BY <1>1 DEF Committed, Transaction
    <3>. QED
      BY <1>1, <3>1, <3>2 DEF Committed, Own, Mine
  <2>6. \A x \in Requests :
          Said(x, "user") \in DOMAIN durable' <=> Said(x, "assistant") \in DOMAIN durable'
    BY <1>1, CommitKeepsTurns
  <2>7. AllOrNothing'
    BY <2>4, <2>5, <2>6 DEF AllOrNothing, Own, Said
  <2>. QED
    BY <2>2, <2>3, <2>7 DEF Kept
<1>. QED
  BY <1>6, <1>7, <1>8 DEF UnitsInv

(* And its new messages are those of a conversation that is there.            *)
LEMMA CommitStaysSilent ==
  ASSUME NEW db0, UnitsInv(db0), NEW q \in Requests, Committed(db0, q),
         NEW k \in DOMAIN durable', k[1] = "message", k \notin DOMAIN durable
  PROVE  durable'[k].chat \in DOMAIN durable'
<1> DEFINE s == unit[q].sent
<1>1. k \in DOMAIN s.put /\ durable' = Apply(durable, s)
  BY DEF Committed
<1>2. durable'[k] = s.put[k]
  BY <1>1 DEF Apply
<1>3. Whole(db0, k, s.put[k]) /\ k \in Turn(q) /\ job[q].op = "ask"
  BY <1>1 DEF Committed, Transaction, Writes
<1>4. s.put[k].chat = ChatOf(q)
  BY <1>3 DEF Whole, Part, Sound, Columns
<1>. QED
  BY <1>2, <1>3, <1>4 DEF Committed

(* What a row says of a document or a chunk, it always said.                  *)
LEMMA RowIs ==
  ASSUME NEW db0, NEW k, NEW row, Whole(db0, k, row)
  PROVE  /\ k[1] = "doc" => row.text = TextOf(db0, k) /\ row.text \in DOMAIN PiecesOf
         /\ k[1] = "chunk" => row.doc = HomeOf(db0, k) /\ row.piece = PieceOf(db0, k)
BY DEF Whole, Part, Sound, Columns

(* A document that is indexed keeps its chunks: the commit of a request that
   files it writes all of them, that of another deletes none without it.      *)
LEMMA CommitKeepsFindable ==
  ASSUME NEW db0, UnitsInv(db0), NEW q \in Requests, Committed(db0, q), SplitCovers,
         Findable(durable)
  PROVE  Findable(durable')
<1> DEFINE s == unit[q].sent
<1> SUFFICES ASSUME NEW d \in DOMAIN durable', d[1] = "doc", durable'[d].status = "indexed",
                    Book \in DOMAIN durable', NEW n \in InkOf[durable'[d].text]
             PROVE  \E k \in ChunksOf(durable', d) : Holds(durable'[k].piece, n)
  BY DEF Findable, Table
<1>1. /\ durable' = Apply(durable, s)
      /\ DOMAIN durable' = DOMAIN s.put \cup (DOMAIN durable \ s.del)
      /\ \A k \in DOMAIN s.put : Writes(q, k)
  BY DEF Committed, Transaction
<1>2. \A k \in DOMAIN durable : Whole(db0, k, durable[k])
  BY DEF UnitsInv, Kept
<1>3. \A k \in DOMAIN durable' : Whole(db0, k, durable'[k])
  BY <1>2, ApplyWhole DEF Committed, Transaction
<1>4. durable'[d].text = TextOf(db0, d) /\ TextOf(db0, d) \in DOMAIN PiecesOf
  BY <1>3, RowIs
<1>5. ASSUME NEW k \in DOMAIN durable', k[1] = "chunk", HomeOf(db0, k) = d,
             Holds(PieceOf(db0, k), n)
      PROVE  \E x \in ChunksOf(durable', d) : Holds(durable'[x].piece, n)
  <2>1. durable'[k].doc = d /\ durable'[k].piece = PieceOf(db0, k)
    BY <1>3, <1>5, RowIs
  <2>. QED
    BY <1>5, <2>1 DEF ChunksOf, Table
<1>6. CASE Files(q) /\ d = Target(q)
  <2>1. PICK i \in DOMAIN PiecesOf[TextOf(db0, d)] : Holds(PiecesOf[TextOf(db0, d)][i], n)
    BY <1>4 DEF SplitCovers
  <2> DEFINE k == MyChunk(q, i)
  <2>2. k[1] = "chunk" /\ Drawn(k) /\ k[2] = q /\ k[3] = i
    BY DEF MyChunk, Drawn
  <2>3. k \in DOMAIN s.put
    BY <1>6 DEF Committed, Filling
  <2> HIDE DEF k
  <2>4. HomeOf(db0, k) = d /\ PieceOf(db0, k) = PiecesOf[TextOf(db0, d)][i]
    BY <1>6, <2>2 DEF HomeOf, PieceOf
  <2>. QED
    BY <1>1, <1>5, <2>1, <2>2, <2>3, <2>4
<1>7. CASE ~(Files(q) /\ d = Target(q))
  <2>1. d \notin DOMAIN s.put /\ Book \notin DOMAIN s.put
    BY <1>1, <1>7 DEF Writes, Book
  <2>2. d \in DOMAIN durable \ s.del /\ Book \in DOMAIN durable \ s.del
    BY <1>1, <2>1
  <2>3. durable'[d] = durable[d]
    <3>1. Apply(durable, s)[d] = durable[d]
      BY <2>1, <2>2 DEF Apply
    <3>. QED
      BY <1>1, <3>1
  <2>4. PICK k \in ChunksOf(durable, d) : Holds(durable[k].piece, n)
    BY <2>2, <2>3 DEF Findable, Table
  <2>5. k \in DOMAIN durable /\ k[1] = "chunk" /\ durable[k].doc = d
    BY DEF ChunksOf, Table
  <2>6. HomeOf(db0, k) = d /\ PieceOf(db0, k) = durable[k].piece
    BY <1>2, <2>5, RowIs
  <2>7. k \notin s.del
    <3> SUFFICES ASSUME k \in s.del
                 PROVE  FALSE
      OBVIOUS
    <3>1. \/ d \in s.del \/ job[q].op = "delete_book"
          \/ job[q].op = "reindex" /\ d = DocOf(q)
      BY <2>5, <2>6 DEF Committed, Strikes
    <3>2. job[q].op # "delete_book"
      BY <2>2 DEF Committed
    <3>. QED
      BY <1>7, <2>2, <3>1, <3>2 DEF Files, Target
  <2>. QED
    BY <1>1, <1>5, <2>4, <2>5, <2>6, <2>7
<1>. QED
  BY <1>6, <1>7

-----------------------------------------------------------------------------
(* What a statement finds.                                                    *)
LEMMA Here ==
  ASSUME NEW db0, UnitsInv(db0), NEW q \in Requests
  PROVE  /\ Asked(job[q]) /\ Fit(db0, q, unit[q])
         /\ Phase(db0, q, unit[q], pc[q], note[q]) /\ Ready(db0, q, unit[q], pc[q]) /\ Path(q, pc[q])
BY DEF UnitsInv, Sessions, Placed

LEMMA Statements ==
  ASSUME NEW q, NEW at, NEW accepts, NEW u, NEW next, NEW memo,
         StatementNoting(q, at, accepts, u, next, memo)
  PROVE  pc[q] = at /\ ~Stale(q)
BY DEF StatementNoting

(* What is due is sent, unless the method deleted it.                         *)
LEMMA DueIsSent ==
  ASSUME NEW db0, ~SharedConnection, UnitsInv(db0), NEW q \in Requests
  PROVE  /\ DOMAIN Sent(q).sent.put \subseteq Due(unit[q])
         /\ \A k \in Due(unit[q]) :
              \/ k[1] = "loan" /\ job[q].op # "delete_book"
              \/ k[1] \in {"message", "chat"} /\ job[q].op # "delete_session"
              => k \in DOMAIN Sent(q).sent.put
         /\ Files(q) /\ Filling(db0, q) \subseteq Due(unit[q])
              => Filling(db0, q) \subseteq DOMAIN Sent(q).sent.put
<1>1. DOMAIN Sent(q).sent.put = Due(unit[q]) \ (unit[q].gone \ Unsent(unit[q]))
  BY SentIs
<1>2. Strikes(db0, q, unit[q].gone \cup unit[q].sent.del)
  BY Here DEF Fit
<1>3. \A k \in Due(unit[q]) :
        \/ k[1] = "loan" /\ job[q].op # "delete_book"
        \/ k[1] \in {"message", "chat"} /\ job[q].op # "delete_session"
        => k \in DOMAIN Sent(q).sent.put
  BY <1>1, <1>2 DEF Strikes
<1>4. \A k \in Filling(db0, q) : k[1] = "chunk" /\ Mine(k, q)
  BY DEF Filling, MyChunk, Mine
<1>5. Files(q) => \A k \in Filling(db0, q) : k \notin unit[q].gone
  BY <1>2, <1>4 DEF Strikes
<1>. QED
  BY <1>1, <1>3, <1>5

LEMMA FreshIs ==
  ASSUME NEW db0, NEW q, NEW u, NEW ks, Fresh(db0, q, u, ks)
  PROVE  /\ Fit(db0, q, u) /\ u.sent = Sent(q).sent /\ u.gone = {}
         /\ DOMAIN u.obj = Held(unit[q]) \cup ks /\ DOMAIN u.base = DOMAIN u.obj
         /\ Held(u) = Held(unit[q]) \cup ks
         /\ Due(u) = DOMAIN Sent(q).sent.put
         /\ \A k \in Held(unit[q]) : u.obj[k] = unit[q].obj[k]
         /\ \A k \in DOMAIN u.obj : Whole(db0, k, u.obj[k])
BY DEF Fresh, Held, Due, Fit, Session

(* At the start of a method nothing is read yet.                              *)
LEMMA AtStart ==
  ASSUME NEW db0, UnitsInv(db0), NEW q \in Requests, pc[q] = "start"
  PROVE  Held(unit[q]) = {} /\ Due(unit[q]) = {} /\ Unfiled(q, unit[q])
<1>1. unit[q] = Closed
  BY Here DEF Phase
<1>2. DOMAIN Closed.obj = {} /\ Due(Closed) = {}
  BY ClosedFits
<1>. QED
  BY <1>1, <1>2 DEF Held, Due, Unfiled

(* A request that has not filed yet finds no chunk of its own.                *)
LEMMA StillUnfiled ==
  ASSUME NEW db0, ~SharedConnection, UnitsInv(db0), NEW q \in Requests,
         pc[q] \notin {"ok", "close"}, Unfiled(q, unit[q])
  PROVE  /\ \A k \in DOMAIN Rows(q) : ~(k[1] = "chunk" /\ Mine(k, q))
         /\ \A u : /\ u.sent = Sent(q).sent
                  /\ DOMAIN u.obj \subseteq Held(unit[q]) \cup DOMAIN Rows(q) \cup {MyDoc(q)}
                  => Unfiled(q, u)
<1>1. \A k \in Due(unit[q]) \cup Held(unit[q]) : ~(k[1] = "chunk" /\ Mine(k, q))
  BY DEF Unfiled, Due, Unsent, Held
<1>2. \A k \in DOMAIN durable : ~Mine(k, q)
  BY DEF UnitsInv, Kept, AllOrNothing, Own, Mine
<1>3. \A k \in DOMAIN Rows(q) : ~(k[1] = "chunk" /\ Mine(k, q))
  BY <1>1, <1>2, RowsAre DEF Due
<1>4. DOMAIN Sent(q).sent.put \subseteq Due(unit[q])
  BY DueIsSent
<1>5. MyDoc(q)[1] # "chunk"
  BY DEF MyDoc
<1>. QED
  BY <1>1, <1>3, <1>4, <1>5 DEF Unfiled

-----------------------------------------------------------------------------
(* Lending.                                                                   *)
LEMMA RequireReaderStep ==
  ASSUME NEW db0, ~SharedConnection, UnitsInv(db0), NEW q \in Requests, NEW next \in {"limits", "book"},
         RequireReader(q, next)
  PROVE  UnitsInv(db0)'
<1> DEFINE u == Found(q, {ReaderOf(q)})
<1>1. StatementNoting(q, "start", ReaderOf(q) \in DOMAIN Rows(q), u, next, note[q])
  BY DEF RequireReader, Statement
<1>2. pc[q] = "start" /\ ~Stale(q)
  BY <1>1, Statements
<1>3. ASSUME ReaderOf(q) \in DOMAIN Rows(q)
      PROVE  Fit(db0, q, u) /\ u.sent = Sent(q).sent /\ Placed(db0, q, u, next, note[q])
  <2>1. Fresh(db0, q, u, {ReaderOf(q)})
    BY <1>2, <1>3, FoundFresh
  <2> HIDE DEF u
  <2>2. Fit(db0, q, u) /\ u.sent = Sent(q).sent /\ DOMAIN u.obj = {ReaderOf(q)}
    BY <1>2, <2>1, FreshIs, AtStart
  <2>3. MyLoan(q) # ReaderOf(q)
    BY DEF MyLoan, ReaderOf
  <2>. QED
    BY <2>2, <2>3 DEF Placed, Phase, Ready, Path, Over
<1> HIDE DEF u
<1>. QED
  BY <1>1, <1>3, StatementStep DEF Calls

LEMMA BorrowLimitsStep ==
  ASSUME NEW db0, ~SharedConnection, UnitsInv(db0), NEW q \in Requests, BorrowLimits(q)
  PROVE  UnitsInv(db0)'
<1> DEFINE u == Sent(q)
<1>1. PICK ok : StatementNoting(q, "limits", ok, u, "copy", note[q])
  BY DEF BorrowLimits, Statement
<1>2. pc[q] = "limits" /\ ~Stale(q)
  BY <1>1, Statements
<1>3. Fresh(db0, q, u, {})
  BY <1>2, SentFresh
<1>4. u.sent = Sent(q).sent
  OBVIOUS
<1> HIDE DEF u
<1>5. Fit(db0, q, u) /\ DOMAIN u.obj \subseteq DOMAIN unit[q].obj
  BY <1>3, FreshIs DEF Held
<1>6. MyLoan(q) \notin DOMAIN unit[q].obj
  BY <1>2, Here DEF Phase
<1>7. Placed(db0, q, u, "copy", note[q])
  BY <1>5, <1>6 DEF Placed, Phase, Ready, Path, Over
<1>. QED
  BY <1>1, <1>4, <1>5, <1>7, StatementStep DEF Calls

(* Statements that only read.                                                 *)
LEMMA SendStep ==
  ASSUME NEW db0, ~SharedConnection, UnitsInv(db0), NEW q \in Requests, NEW at, NEW accepts, NEW next, NEW memo,
         StatementNoting(q, at, accepts, Sent(q), next, memo),
         at \notin Calls \cup {"ok", "close"}, next # "ok",
         \A u : accepts /\ Fresh(db0, q, u, {}) => Placed(db0, q, u, next, memo)
  PROVE  UnitsInv(db0)'
<1> DEFINE u == Sent(q)
<1>1. Fresh(db0, q, u, {})
  BY Statements, SentFresh
<1>2. u.sent = Sent(q).sent
  OBVIOUS
<1>3. StatementNoting(q, at, accepts, u, next, memo)
  OBVIOUS
<1> HIDE DEF u
<1>4. Fit(db0, q, u) /\ (accepts => Placed(db0, q, u, next, memo))
  BY <1>1, FreshIs
<1>. QED
  BY <1>2, <1>3, <1>4, StatementStep

LEMMA QueryStep ==
  ASSUME NEW db0, ~SharedConnection, UnitsInv(db0), NEW q \in Requests, NEW at, NEW accepts, NEW ks,
         NEW next, NEW memo, StatementNoting(q, at, accepts, Found(q, ks), next, memo),
         at \notin Calls \cup {"ok", "close"}, next # "ok",
         accepts => ks \subseteq DOMAIN Rows(q),
         \A u : accepts /\ Fresh(db0, q, u, ks) => Placed(db0, q, u, next, memo)
  PROVE  UnitsInv(db0)'
<1> DEFINE u == Found(q, ks)
<1>1. accepts => Fresh(db0, q, u, ks)
  BY Statements, FoundFresh
<1>2. StatementNoting(q, at, accepts, u, next, memo)
  OBVIOUS
<1> HIDE DEF u
<1>3. accepts => Fit(db0, q, u) /\ u.sent = Sent(q).sent /\ Placed(db0, q, u, next, memo)
  BY <1>1, FreshIs
<1>. QED
  BY <1>2, <1>3, StatementStep

LEMMA BorrowCopyStep ==
  ASSUME NEW db0, ~SharedConnection, UnitsInv(db0), NEW q \in Requests, BorrowCopy(q)
  PROVE  UnitsInv(db0)'
<1> DEFINE ok == /\ CopyOf(q) \in DOMAIN Rows(q)
                 /\ Object(q, CopyOf(q)).status \in {"available", "reserved"}
           next == IF Object(q, CopyOf(q)).status = "reserved" THEN "kept" ELSE "title"
<1>1. /\ StatementNoting(q, "copy", ok, Found(q, {CopyOf(q)}), next, note[q])
      /\ ok => CopyOf(q) \in DOMAIN Rows(q)
      /\ next \in {"kept", "title"}
  BY DEF BorrowCopy, Statement
<1> HIDE DEF ok, next
<1>2. pc[q] = "copy"
  BY <1>1, Statements
<1>3. MyLoan(q) \notin Held(unit[q]) /\ MyLoan(q) # CopyOf(q)
  BY <1>2, Here DEF Phase, Held, MyLoan, CopyOf
<1>4. ASSUME NEW u, Fresh(db0, q, u, {CopyOf(q)})
      PROVE  Placed(db0, q, u, next, note[q])
  <2>1. MyLoan(q) \notin DOMAIN u.obj /\ CopyOf(q) \in Held(u)
    BY <1>3, <1>4, FreshIs
  <2>. QED
    BY <1>1, <2>1 DEF Placed, Phase, Ready, Path, Over
<1>. QED
  BY <1>1, <1>4, QueryStep DEF Calls

LEMMA BorrowKeptStep ==
  ASSUME NEW db0, ~SharedConnection, UnitsInv(db0), NEW q \in Requests, BorrowKept(q)
  PROVE  UnitsInv(db0)'
<1>1. CASE StatementNoting(q, "kept", FALSE, unit[q], "refused", note[q])
  BY <1>1, StatementStep DEF Calls
<1>2. ASSUME NEW k \in FindOpen(Rows(q), ReaderOf(q)),
             StatementNoting(q, "kept", KeptFor(q, k), Found(q, {k}), "title", note[q])
      PROVE  UnitsInv(db0)'
  <2>1. pc[q] = "kept"
    BY <1>2, Statements
  <2>2. k \in DOMAIN Rows(q) /\ k # MyLoan(q)
    BY <1>2 DEF FindOpen, Open, Table, MyLoan
  <2>3. MyLoan(q) \notin Held(unit[q]) /\ CopyOf(q) \in Held(unit[q])
    BY <2>1, Here DEF Phase, Held
  <2>4. ASSUME NEW u, Fresh(db0, q, u, {k})
        PROVE  Placed(db0, q, u, "title", note[q])
    <3>1. MyLoan(q) \notin DOMAIN u.obj /\ CopyOf(q) \in Held(u)
      BY <2>2, <2>3, <2>4, FreshIs
    <3>. QED
      BY <3>1 DEF Placed, Phase, Ready, Path, Over
  <2>. QED
    BY <1>2, <2>2, <2>4, QueryStep DEF Calls
<1>. QED
  BY <1>1, <1>2 DEF BorrowKept, Statement

LEMMA BorrowTitleStep ==
  ASSUME NEW db0, ~SharedConnection, UnitsInv(db0), NEW q \in Requests, BorrowTitle(q)
  PROVE  UnitsInv(db0)'
<1> DEFINE ok == Book \in DOMAIN Rows(q)
           u == Found(q, {Book})
           row == [copy |-> CopyOf(q), reader |-> ReaderOf(q), status |-> "active",
                   late |-> FALSE, fine |-> 0]
           v == WithLoan(u, q)
<1>1. StatementNoting(q, "title", ok, v, "insert", note[q])
  BY DEF BorrowTitle, Statement
<1>2. pc[q] = "title" /\ ~Stale(q)
  BY <1>1, Statements
<1>3. v = Add(u, MyLoan(q), row)
  BY DEF WithLoan
<1>4. MyLoan(q) \notin Held(unit[q]) /\ MyLoan(q) # Book /\ CopyOf(q) \in Held(unit[q])
  BY <1>2, Here DEF Phase, Held, MyLoan, Book
<1>5. Mine(MyLoan(q), q) /\ Writes(q, MyLoan(q)) /\ Whole(db0, MyLoan(q), row)
  BY DEF Mine, Writes, Whole, Part, Sound, Columns, MyLoan, ReaderOf
<1>6. ok => Fresh(db0, q, u, {Book})
  BY <1>2, FoundFresh
<1> HIDE DEF u, v, ok, row
<1>7. ASSUME ok
      PROVE  Fit(db0, q, v) /\ v.sent = Sent(q).sent /\ Placed(db0, q, v, "insert", note[q])
  <2>1. /\ Fit(db0, q, u) /\ u.sent = Sent(q).sent /\ u.gone = {}
        /\ DOMAIN u.base = Held(unit[q]) \cup {Book} /\ DOMAIN u.obj = DOMAIN u.base
    BY <1>6, <1>7, FreshIs
  <2>2. /\ Fit(db0, q, v) /\ v.sent = u.sent /\ DOMAIN v.obj = DOMAIN u.obj \cup {MyLoan(q)}
        /\ v.gone = u.gone
        /\ MyLoan(q) \notin DOMAIN u.base \cup u.gone => MyLoan(q) \in Unsent(v)
    <3>1. Fit(db0, q, u)
      BY <2>1
    <3>. QED
      BY <1>3, <1>5, <3>1, AddFits
  <2>3. MyLoan(q) \in Due(v) /\ CopyOf(q) \in Held(v)
    BY <1>4, <2>1, <2>2 DEF Due, Held
  <2>. QED
    BY <2>1, <2>2, <2>3 DEF Placed, Phase, Ready, Path, Over
<1>. QED
  BY <1>1, <1>7, StatementStep DEF Calls

LEMMA BorrowInsertStep ==
  ASSUME NEW db0, ~SharedConnection, UnitsInv(db0), NEW q \in Requests, job[q].op = "borrow", BorrowInsert(q)
  PROVE  UnitsInv(db0)'
<1> DEFINE u == Sent(q)
           c == CopyOf(q)
           v == Assign(u, c, [status |-> "on_loan"])
           w == Touch(v, c)
<1>1. StatementNoting(q, "insert", TRUE, w, "honour", note[q])
  BY DEF BorrowInsert, Statement
<1>2. pc[q] = "insert" /\ ~Stale(q)
  BY <1>1, Statements
<1>3. Fresh(db0, q, u, {})
  BY <1>2, SentFresh
<1>4. c \in Held(unit[q]) /\ MyLoan(q) \in Due(unit[q])
  BY <1>2, Here DEF Phase
<1>5. MyLoan(q) \in DOMAIN Sent(q).sent.put
  BY <1>4, DueIsSent DEF MyLoan
<1>6. Writes(q, c) /\ Part(db0, c, [status |-> "on_loan"])
  BY DEF CopyOf, Writes, Part, Sound
<1> HIDE DEF u, c
<1>7. Fit(db0, q, u) /\ u.sent = Sent(q).sent /\ c \in DOMAIN u.obj
  BY <1>3, <1>4, FreshIs
<1>8. Fit(db0, q, v) /\ v.sent = u.sent /\ DOMAIN v.obj = DOMAIN u.obj
  BY <1>6, <1>7, AssignFits
<1> HIDE DEF v
<1>9. Fit(db0, q, w) /\ w.sent = v.sent
  BY <1>6, <1>7, <1>8, TouchFits
<1> HIDE DEF w
<1>10. Placed(db0, q, w, "honour", note[q])
  BY <1>5, <1>7, <1>8, <1>9 DEF Placed, Phase, Ready, Path, Over, Due
<1>. QED
  BY <1>1, <1>7, <1>8, <1>9, <1>10, StatementStep DEF Calls

LEMMA BorrowHonourStep ==
  ASSUME NEW db0, ~SharedConnection, UnitsInv(db0), NEW q \in Requests, job[q].op = "borrow", BorrowHonour(q)
  PROVE  UnitsInv(db0)'
<1>1. ASSUME NEW v, pc[q] = "honour", Fit(db0, q, v), v.sent = Sent(q).sent
      PROVE  Placed(db0, q, v, "commit", note[q])
  <2>1. MyLoan(q) \in Due(unit[q])
    BY <1>1, Here DEF Phase
  <2>2. MyLoan(q) \in Due(v)
    BY <1>1, <2>1, DueIsSent DEF Due, MyLoan
  <2>. QED
    BY <2>2 DEF Placed, Phase, Ready, Path, Over, Files
<1>2. CASE StatementNoting(q, "honour", TRUE, Sent(q), "commit", note[q])
  <2>1. \A u : Fresh(db0, q, u, {}) => Placed(db0, q, u, "commit", note[q])
    <3>1. pc[q] = "honour"
      BY <1>2, Statements
    <3> SUFFICES ASSUME NEW u, Fresh(db0, q, u, {})
                 PROVE  Placed(db0, q, u, "commit", note[q])
      OBVIOUS
    <3>2. Fit(db0, q, u) /\ u.sent = Sent(q).sent
      BY FreshIs
    <3>. QED
      BY <1>1, <3>1, <3>2
  <2>. QED
    BY <1>2, <2>1, SendStep DEF Calls
<1>3. ASSUME NEW k \in FindOpen(Rows(q), ReaderOf(q)), NEW v,
             \/ v = Found(q, {k})
             \/ v = Assign(Found(q, {k}), k, [status |-> "fulfilled"]),
             StatementNoting(q, "honour", TRUE, v, "commit", note[q])
      PROVE  UnitsInv(db0)'
  <2> DEFINE u == Found(q, {k})
  <2>1. pc[q] = "honour" /\ ~Stale(q)
    BY <1>3, Statements
  <2>2. k \in DOMAIN Rows(q) /\ k[1] = "hold"
    BY <1>3 DEF FindOpen, Open, Table
  <2>3. Fresh(db0, q, u, {k})
    BY <2>1, <2>2, FoundFresh
  <2>4. v = u \/ v = Assign(u, k, [status |-> "fulfilled"])
    BY <1>3
  <2> HIDE DEF u
  <2>5. Fit(db0, q, u) /\ u.sent = Sent(q).sent /\ k \in DOMAIN u.obj
    BY <2>3, FreshIs
  <2>6. Writes(q, k) /\ Part(db0, k, [status |-> "fulfilled"])
    BY <2>2 DEF Writes, Part, Sound
  <2>7. Fit(db0, q, v) /\ v.sent = u.sent
    BY <2>4, <2>5, <2>6, AssignFits
  <2>. QED
    BY <1>1, <1>3, <2>1, <2>5, <2>7, StatementStep DEF Calls
<1>4. PICK v : /\ StatementNoting(q, "honour", TRUE, v, "commit", note[q])
               /\ \/ v = Sent(q)
                  \/ \E k \in FindOpen(Rows(q), ReaderOf(q)) :
                       \/ v = Found(q, {k})
                       \/ v = Assign(Found(q, {k}), k, [status |-> "fulfilled"])
  <2>1. CASE FindOpen(Rows(q), ReaderOf(q)) = {}
    BY <2>1 DEF BorrowHonour, Statement
  <2>2. CASE FindOpen(Rows(q), ReaderOf(q)) # {}
    <3>1. PICK k \in FindOpen(Rows(q), ReaderOf(q)) :
            StatementNoting(q, "honour", TRUE,
              IF KeptFor(q, k) THEN Assign(Found(q, {k}), k, [status |-> "fulfilled"])
              ELSE Found(q, {k}), "commit", note[q])
      BY <2>2 DEF BorrowHonour, Statement
    <3>. QED
      BY <3>1
  <2>. QED
    BY <2>1, <2>2
<1>. QED
  BY <1>2, <1>3, <1>4

LEMMA BorrowStep ==
  ASSUME NEW db0, ~SharedConnection, UnitsInv(db0), NEW q \in Requests, Borrow(q)
  PROVE  UnitsInv(db0)'
BY RequireReaderStep, BorrowLimitsStep, BorrowCopyStep, BorrowKeptStep, BorrowTitleStep,
   BorrowInsertStep, BorrowHonourStep DEF Borrow, Asks

(* The end of the methods of which the theorems ask nothing there.            *)
LEMMA CommitPlaced ==
  ASSUME NEW q, NEW u, NEW memo, NEW db0,
         job[q].op \in {"return", "cancel", "pay", "delete_doc", "create_session",
                        "delete_session"}
  PROVE  Placed(db0, q, u, "commit", memo)
BY DEF Placed, Phase, Ready, Path, Over, Files

(* A row that is read and then set.                                           *)
LEMMA WriteStep ==
  ASSUME NEW db0, ~SharedConnection, UnitsInv(db0), NEW q \in Requests, NEW at, NEW accepts, NEW ks, NEW k,
         NEW columns, NEW next, NEW memo,
         StatementNoting(q, at, accepts, Assign(Found(q, ks), k, columns), next, memo),
         at \notin Calls \cup {"ok", "close"}, next # "ok",
         accepts => /\ ks \subseteq DOMAIN Rows(q) /\ k \in ks \cup Held(unit[q])
                    /\ Writes(q, k) /\ Part(db0, k, columns),
         \A u, v : accepts /\ Fresh(db0, q, u, ks) /\ Fit(db0, q, v) /\ v.sent = u.sent /\ v.gone = {}
                   /\ DOMAIN v.obj = DOMAIN u.obj
                   /\ (\A x \in DOMAIN u.obj : x # k => v.obj[x] = u.obj[x])
                   => Placed(db0, q, v, next, memo)
  PROVE  UnitsInv(db0)'
<1> DEFINE u == Found(q, ks)
           v == Assign(u, k, columns)
<1>1. accepts => Fresh(db0, q, u, ks)
  BY Statements, FoundFresh
<1>2. StatementNoting(q, at, accepts, v, next, memo)
  OBVIOUS
<1> HIDE DEF u
<1>3. ASSUME accepts
      PROVE  Fit(db0, q, v) /\ v.sent = Sent(q).sent /\ Placed(db0, q, v, next, memo)
  <2>1. /\ Fit(db0, q, u) /\ u.sent = Sent(q).sent /\ u.gone = {} /\ k \in DOMAIN u.obj
    BY <1>1, <1>3, FreshIs
  <2>2. /\ Fit(db0, q, v) /\ v.sent = u.sent /\ DOMAIN v.obj = DOMAIN u.obj /\ v.gone = u.gone
        /\ \A x \in DOMAIN u.obj : x # k => v.obj[x] = u.obj[x]
    BY <1>3, <2>1, AssignFits
  <2>3. Placed(db0, q, v, next, memo)
    BY <1>1, <1>3, <2>1, <2>2
  <2>. QED
    BY <2>1, <2>2, <2>3
<1> HIDE DEF v
<1>. QED
  BY <1>2, <1>3, StatementStep

(* The same with updated_at.                                                  *)
LEMMA TouchStep ==
  ASSUME NEW db0, ~SharedConnection, UnitsInv(db0), NEW q \in Requests, NEW at, NEW accepts, NEW u, NEW k,
         NEW columns, NEW next, NEW memo,
         StatementNoting(q, at, accepts, Touch(Assign(u, k, columns), k), next, memo),
         at \notin Calls \cup {"ok", "close"}, next # "ok",
         accepts => /\ Fit(db0, q, u) /\ u.sent = Sent(q).sent /\ k \in DOMAIN u.obj
                    /\ Writes(q, k) /\ Part(db0, k, columns),
         \A v : accepts /\ Fit(db0, q, v) /\ v.sent = u.sent /\ v.gone = u.gone
                /\ DOMAIN v.obj = DOMAIN u.obj
                => Placed(db0, q, v, next, memo)
  PROVE  UnitsInv(db0)'
<1> DEFINE v == Assign(u, k, columns)
           w == Touch(v, k)
<1>1. StatementNoting(q, at, accepts, w, next, memo)
  OBVIOUS
<1> HIDE DEF v
<1>2. ASSUME accepts
      PROVE  Fit(db0, q, w) /\ w.sent = Sent(q).sent /\ Placed(db0, q, w, next, memo)
  <2>1. Fit(db0, q, v) /\ v.sent = u.sent /\ DOMAIN v.obj = DOMAIN u.obj /\ v.gone = u.gone
    BY <1>2, AssignFits DEF v
  <2>2. Fit(db0, q, w) /\ w.sent = v.sent /\ w.obj = v.obj /\ w.gone = v.gone
    BY <1>2, <2>1, TouchFits
  <2> HIDE DEF w
  <2>3. Placed(db0, q, w, next, memo)
    BY <1>2, <2>1, <2>2
  <2>. QED
    BY <1>2, <2>1, <2>2, <2>3
<1> HIDE DEF w
<1>. QED
  BY <1>1, <1>2, StatementStep

LEMMA ReturnCopyStep ==
  ASSUME NEW db0, ~SharedConnection, UnitsInv(db0), NEW q \in Requests, ReturnCopy(q)
  PROVE  UnitsInv(db0)'
<1> DEFINE ok == CopyOf(q) \in DOMAIN Rows(q)
<1>1. StatementNoting(q, "start", ok, Found(q, {CopyOf(q)}), "loan", note[q])
  BY DEF ReturnCopy, Statement
<1>2. ASSUME NEW u, Fresh(db0, q, u, {CopyOf(q)})
      PROVE  Placed(db0, q, u, "loan", note[q])
  <2>1. CopyOf(q) \in Held(u)
    BY <1>2, FreshIs
  <2>. QED
    BY <2>1 DEF Placed, Phase, Ready, Path, Over
<1>3. ok => {CopyOf(q)} \subseteq DOMAIN Rows(q)
  OBVIOUS
<1> HIDE DEF ok
<1>. QED
  BY <1>1, <1>2, <1>3, QueryStep DEF Calls

LEMMA ReturnLoanStep ==
  ASSUME NEW db0, ~SharedConnection, UnitsInv(db0), NEW q \in Requests, ReturnLoan(q)
  PROVE  UnitsInv(db0)'
<1>1. CASE StatementNoting(q, "loan", FALSE, unit[q], "refused", note[q])
  BY <1>1, StatementStep DEF Calls
<1>2. ASSUME NEW k \in ActiveForCopy(Rows(q), CopyOf(q)),
             StatementNoting(q, "loan", TRUE,
               Assign(Found(q, {k}), k,
                      [status |-> "returned", fine |-> FineOf(Object(q, k))]),
               "charge", {k})
      PROVE  UnitsInv(db0)'
  <2> DEFINE columns == [status |-> "returned", fine |-> FineOf(Object(q, k))]
  <2>1. pc[q] = "loan"
    BY <1>2, Statements
  <2>2. k \in DOMAIN Rows(q) /\ k[1] = "loan"
    BY <1>2 DEF ActiveForCopy, Table
  <2>3. Part(db0, k, columns)
    <3>1. FineOf(Object(q, k)) \in Nat
      BY RequestsAssumption DEF FineOf
    <3>. QED
      BY <2>2, <3>1 DEF Part, Sound
  <2>4. CopyOf(q) \in Held(unit[q])
    BY <2>1, Here DEF Phase
  <2> HIDE DEF columns
  <2>5. ASSUME NEW u, NEW v, Fresh(db0, q, u, {k}), v.gone = {}, DOMAIN v.obj = DOMAIN u.obj
        PROVE  Placed(db0, q, v, "charge", {k})
    <3>1. k \in DOMAIN v.obj /\ CopyOf(q) \in Held(v)
      BY <2>4, <2>5, FreshIs DEF Held
    <3>. QED
      BY <2>2, <3>1 DEF Placed, Phase, Ready, Path, Over
  <2>6. StatementNoting(q, "loan", TRUE, Assign(Found(q, {k}), k, columns), "charge", {k})
    BY <1>2 DEF columns
  <2>7. {k} \subseteq DOMAIN Rows(q) /\ Writes(q, k)
    BY <2>2 DEF Writes
  <2>8. "loan" \notin Calls \cup {"ok", "close"}
    BY DEF Calls
  <2>. QED
    BY <2>3, <2>5, <2>6, <2>7, <2>8, WriteStep
<1>. QED
  BY <1>1, <1>2 DEF ReturnLoan, Statement

LEMMA ReturnChargeStep ==
  ASSUME NEW db0, ~SharedConnection, UnitsInv(db0), NEW q \in Requests, ReturnCharge(q)
  PROVE  UnitsInv(db0)'
<1> PICK k \in note[q] :
      LET r == unit[q].obj[k].reader
          fine == unit[q].obj[k].fine
      IN Statement(q, "charge", TRUE,
           IF r \notin DOMAIN Rows(q) THEN Sent(q)
           ELSE IF fine = 0 THEN Found(q, {r})
           ELSE Touch(Assign(Found(q, {r}), r, [balance |-> Object(q, r).balance + fine]), r),
           "release")
  BY DEF ReturnCharge
<1> DEFINE r == unit[q].obj[k].reader
           fine == unit[q].obj[k].fine
           columns == [balance |-> Object(q, r).balance + fine]
           w == IF r \notin DOMAIN Rows(q) THEN Sent(q)
                ELSE IF fine = 0 THEN Found(q, {r})
                ELSE Touch(Assign(Found(q, {r}), r, columns), r)
<1>1. StatementNoting(q, "charge", TRUE, w, "release", note[q])
  BY DEF Statement
<1>2. pc[q] = "charge" /\ ~Stale(q)
  BY <1>1, Statements
<1>3. CopyOf(q) \in Held(unit[q]) /\ k \in DOMAIN unit[q].obj /\ k[1] = "loan"
  BY <1>2, Here DEF Phase
<1>4. r[1] = "reader" /\ fine \in Nat
  <2>1. Whole(db0, k, unit[q].obj[k])
    BY <1>3, Here DEF Fit, Session
  <2>. QED
    BY <1>3, <2>1 DEF Whole, Part, Sound, Columns
<1> HIDE DEF r, fine
<1>5. ASSUME NEW u, CopyOf(q) \in Held(u)
      PROVE  Placed(db0, q, u, "release", note[q])
  BY <1>5 DEF Placed, Phase, Ready, Path, Over
<1>6. CASE r \notin DOMAIN Rows(q)
  <2>1. w = Sent(q)
    BY <1>6
  <2>2. StatementNoting(q, "charge", TRUE, Sent(q), "release", note[q])
    BY <1>1, <2>1
  <2>3. ASSUME NEW u, Fresh(db0, q, u, {})
        PROVE  Placed(db0, q, u, "release", note[q])
    BY <1>3, <1>5, <2>3, FreshIs
  <2>. QED
    BY <2>2, <2>3, SendStep DEF Calls
<1>7. CASE r \in DOMAIN Rows(q) /\ fine = 0
  <2>1. w = Found(q, {r})
    BY <1>7
  <2>2. StatementNoting(q, "charge", TRUE, Found(q, {r}), "release", note[q])
    BY <1>1, <2>1
  <2>3. ASSUME NEW u, Fresh(db0, q, u, {r})
        PROVE  Placed(db0, q, u, "release", note[q])
    BY <1>3, <1>5, <2>3, FreshIs
  <2>. QED
    BY <1>7, <2>2, <2>3, QueryStep DEF Calls
<1>8. CASE r \in DOMAIN Rows(q) /\ fine # 0
  <2> DEFINE u == Found(q, {r})
  <2>1. w = Touch(Assign(u, r, columns), r)
    BY <1>8
  <2>2. Fresh(db0, q, u, {r})
    BY <1>2, <1>8, FoundFresh
  <2>3. Part(db0, r, columns)
    <3>1. Object(q, r) = u.obj[r]
      BY DEF Object
    <3>2. Whole(db0, r, u.obj[r])
      BY <2>2, FreshIs
    <3>3. Object(q, r).balance \in Nat
      BY <1>4, <3>1, <3>2 DEF Whole, Part, Sound, Columns
    <3>4. Object(q, r).balance + fine \in Nat
      BY <1>4, <3>3
    <3>. QED
      BY <1>4, <3>4 DEF Part, Sound
  <2>4. StatementNoting(q, "charge", TRUE, Touch(Assign(u, r, columns), r), "release", note[q])
    BY <1>1, <2>1
  <2> HIDE DEF u, columns
  <2>5. Fit(db0, q, u) /\ u.sent = Sent(q).sent /\ r \in DOMAIN u.obj
    BY <2>2, FreshIs
  <2>6. CopyOf(q) \in Held(u)
    BY <1>3, <2>2, FreshIs
  <2>7. \A v : v.gone = u.gone /\ DOMAIN v.obj = DOMAIN u.obj
                 => Placed(db0, q, v, "release", note[q])
    BY <1>5, <2>6 DEF Held
  <2>8. Writes(q, r)
    BY <1>4 DEF Writes
  <2>9. "charge" \notin Calls \cup {"ok", "close"} /\ "release" # "ok"
    BY DEF Calls
  <2> HIDE DEF w
  <2>. QED
    BY <2>3, <2>4, <2>5, <2>7, <2>8, <2>9, TouchStep
<1>. QED
  BY <1>6, <1>7, <1>8

(* The copy goes to the shelf, or to the head of the queue.                   *)
LEMMA ReleaseOrHoldStep ==
  ASSUME NEW db0, ~SharedConnection, UnitsInv(db0), NEW q \in Requests, NEW at, NEW c \in Held(unit[q]),
         c[1] \in {"copy", "no_copy"}, at \notin Calls \cup {"ok", "close"},
         job[q].op \in {"return", "cancel"},
         ReleaseOrHold(q, at, c, "commit")
  PROVE  UnitsInv(db0)'
<1>1. \A u : Placed(db0, q, u, "commit", note[q])
  BY CommitPlaced
<1>2. CASE NextWaiting(Rows(q)) = {}
  <2> DEFINE u == Sent(q)
             columns == [status |-> "available"]
  <2>1. StatementNoting(q, at, TRUE, Touch(Assign(u, c, columns), c), "commit", note[q])
    BY <1>2 DEF ReleaseOrHold, Statement
  <2>2. Fresh(db0, q, u, {})
    BY <2>1, Statements, SentFresh
  <2>3. Part(db0, c, columns) /\ Writes(q, c)
    BY DEF Part, Sound, Writes
  <2> HIDE DEF u, columns
  <2>4. Fit(db0, q, u) /\ u.sent = Sent(q).sent /\ c \in DOMAIN u.obj
    BY <2>2, FreshIs
  <2>. QED
    BY <1>1, <2>1, <2>3, <2>4, TouchStep
<1>3. ASSUME NEW k \in NextWaiting(Rows(q)),
             StatementNoting(q, at, TRUE,
               Touch(Assign(Assign(Found(q, {k}), k, [status |-> "ready", copy |-> c]),
                            c, [status |-> "reserved"]), c), "commit", note[q])
      PROVE  UnitsInv(db0)'
  <2> DEFINE found == Found(q, {k})
             first == [status |-> "ready", copy |-> c]
             u == Assign(found, k, first)
             columns == [status |-> "reserved"]
  <2>1. StatementNoting(q, at, TRUE, Touch(Assign(u, c, columns), c), "commit", note[q])
    BY <1>3
  <2>2. k \in DOMAIN Rows(q) /\ k[1] = "hold"
    BY DEF NextWaiting, Open, Table
  <2>3. Fresh(db0, q, found, {k})
    <3>1. ~Stale(q) /\ {k} \subseteq DOMAIN Rows(q)
      BY <2>1, <2>2, Statements
    <3>. QED
      BY <3>1, FoundFresh
  <2>4. Part(db0, c, columns) /\ Part(db0, k, first) /\ Writes(q, c) /\ Writes(q, k)
    BY <2>2 DEF Part, Sound, Writes
  <2> HIDE DEF found, first, columns
  <2>5. Fit(db0, q, found) /\ found.sent = Sent(q).sent /\ {k, c} \subseteq DOMAIN found.obj
    BY <2>3, FreshIs
  <2>6. Fit(db0, q, u) /\ u.sent = Sent(q).sent /\ c \in DOMAIN u.obj
    BY <2>4, <2>5, AssignFits
  <2> HIDE DEF u
  <2>. QED
    BY <1>1, <2>1, <2>4, <2>6, TouchStep
<1>. QED
  BY <1>2, <1>3 DEF ReleaseOrHold, Statement

LEMMA ReturnStep ==
  ASSUME NEW db0, ~SharedConnection, UnitsInv(db0), NEW q \in Requests, Return(q)
  PROVE  UnitsInv(db0)'
<1>1. job[q].op = "return"
  BY DEF Return, Asks
<1>2. CASE pc[q] = "release" /\ ReleaseOrHold(q, "release", CopyOf(q), "commit")
  <2>1. CopyOf(q) \in Held(unit[q]) /\ CopyOf(q)[1] = "copy"
    BY <1>2, Here DEF Phase, CopyOf
  <2>. QED
    BY <1>1, <1>2, <2>1, ReleaseOrHoldStep DEF Calls
<1>. QED
  BY <1>2, ReturnCopyStep, ReturnLoanStep, ReturnChargeStep DEF Return

LEMMA ReserveStep ==
  ASSUME NEW db0, ~SharedConnection, UnitsInv(db0), NEW q \in Requests, Reserve(q)
  PROVE  UnitsInv(db0)'
<1>1. job[q].op = "reserve"
  BY DEF Reserve, Asks
<1>2. \A u, memo, at : at \in {"open", "counts", "position", "commit"} => Placed(db0, q, u, at, memo)
  BY <1>1 DEF Placed, Phase, Ready, Path, Over, Files
<1>3. CASE ReserveBook(q)
  <2> DEFINE ok == Book \in DOMAIN Rows(q)
  <2>1. StatementNoting(q, "book", ok, Found(q, {Book}), "open", note[q])
    BY <1>3 DEF ReserveBook, Statement
  <2>2. ok => {Book} \subseteq DOMAIN Rows(q)
    OBVIOUS
  <2> HIDE DEF ok
  <2>. QED
    BY <1>2, <2>1, <2>2, QueryStep DEF Calls
<1>4. CASE ReserveOpen(q)
  <2> DEFINE ok == FindOpen(Rows(q), ReaderOf(q)) = {}
  <2>1. StatementNoting(q, "open", ok, Sent(q), "counts", note[q])
    BY <1>4 DEF ReserveOpen, Statement
  <2> HIDE DEF ok
  <2>. QED
    BY <1>2, <2>1, SendStep DEF Calls
<1>5. CASE ReserveCounts(q)
  <2> DEFINE ok == WithStatus(Rows(q), "available") = {} /\ Table(Rows(q), "copy") # {}
             u == Sent(q)
             row == [reader |-> ReaderOf(q), status |-> "waiting", copy |-> NoCopy, at |-> 3]
             v == Add(u, MyHold(q), row)
  <2>1. StatementNoting(q, "counts", ok, v, "position", note[q])
    BY <1>5 DEF ReserveCounts, Statement
  <2>2. Fresh(db0, q, u, {})
    BY <2>1, Statements, SentFresh
  <2>3. Mine(MyHold(q), q) /\ Writes(q, MyHold(q)) /\ Whole(db0, MyHold(q), row)
    BY DEF Mine, Writes, Whole, Part, Sound, Columns, MyHold, NoCopy
  <2> HIDE DEF ok, u, row
  <2>4. Fit(db0, q, u) /\ u.sent = Sent(q).sent
    BY <2>2, FreshIs
  <2>5. Fit(db0, q, v) /\ v.sent = Sent(q).sent
    BY <2>3, <2>4, AddFits
  <2> HIDE DEF v
  <2>. QED
    BY <1>2, <2>1, <2>5, StatementStep DEF Calls
<1>6. CASE ReservePosition(q)
  <2>1. StatementNoting(q, "position", TRUE, Sent(q), "commit", note[q])
    BY <1>6 DEF ReservePosition, Statement
  <2>. QED
    BY <1>2, <2>1, SendStep DEF Calls
<1>. QED
  BY <1>3, <1>4, <1>5, <1>6, RequireReaderStep DEF Reserve

LEMMA CancelHoldStep ==
  ASSUME NEW db0, ~SharedConnection, UnitsInv(db0), NEW q \in Requests, job[q].op = "cancel", CancelHold(q)
  PROVE  UnitsInv(db0)'
<1> DEFINE k == job[q].hold
           ok == k \in Open(Rows(q))
           columns == [status |-> "cancelled"]
           next == IF Rows(q)[k].status = "ready" THEN "keeper" ELSE "commit"
<1>1. StatementNoting(q, "start", ok, Assign(Found(q, {k}), k, columns), next, note[q])
  BY DEF CancelHold, Statement
<1>2. ok => {k} \subseteq DOMAIN Rows(q) /\ k[1] = "hold"
  BY DEF Open, Table
<1>3. Part(db0, k, columns)
  BY DEF Part, Sound
<1>4. next \in {"keeper", "commit"}
  OBVIOUS
<1> HIDE DEF columns, ok, next
<1>5. ASSUME NEW u, NEW v, ok, Fresh(db0, q, u, {k}), v.gone = {}, DOMAIN v.obj = DOMAIN u.obj
      PROVE  Placed(db0, q, v, next, note[q])
  <2>1. k \in Held(v)
    BY <1>5, FreshIs DEF Held
  <2>2. k[1] = "hold"
    BY <1>2, <1>5
  <2>. QED
    BY <1>4, <2>1, <2>2 DEF Placed, Phase, Ready, Path, Over, Files
<1>6. "start" \notin Calls \cup {"ok", "close"} /\ next # "ok"
  BY <1>4 DEF Calls
<1> HIDE DEF k
<1>7. ok => {k} \subseteq DOMAIN Rows(q) /\ k \in {k} \cup Held(unit[q])
            /\ Writes(q, k)
  BY <1>2 DEF Writes
<1>. QED
  BY <1>1, <1>3, <1>5, <1>6, <1>7, WriteStep

LEMMA CancelCopyStep ==
  ASSUME NEW db0, ~SharedConnection, UnitsInv(db0), NEW q \in Requests, job[q].op = "cancel",
         pc[q] = "keeper", CancelCopy(q)
  PROVE  UnitsInv(db0)'
<1> DEFINE k == job[q].hold
           c == unit[q].obj[k].copy
           next == IF Object(q, c).status = "reserved" THEN "pass_on" ELSE "commit"
<1>1. k \in Held(unit[q]) /\ k[1] = "hold"
  BY Here DEF Phase
<1>2. CASE c \notin DOMAIN Rows(q)
  <2>1. StatementNoting(q, "keeper", TRUE, Sent(q), "commit", note[q])
    BY <1>2 DEF CancelCopy, Statement
  <2>2. \A u : Placed(db0, q, u, "commit", note[q])
    BY CommitPlaced
  <2>. QED
    BY <2>1, <2>2, SendStep DEF Calls
<1>3. CASE c \in DOMAIN Rows(q)
  <2> DEFINE ks == {c}
  <2>1. StatementNoting(q, "keeper", TRUE, Found(q, ks), next, note[q])
    BY <1>3 DEF CancelCopy, Statement
  <2>2. next \in {"pass_on", "commit"} /\ ks \subseteq DOMAIN Rows(q)
    BY <1>3
  <2> HIDE DEF next
  <2>3. ASSUME NEW u, Fresh(db0, q, u, ks)
        PROVE  Placed(db0, q, u, next, note[q])
    <3>1. k \in Held(u) /\ c \in Held(u) /\ u.obj[k].copy = c
      BY <1>1, <2>3, FreshIs
    <3>. QED
      BY <1>1, <2>2, <3>1 DEF Placed, Phase, Ready, Path, Over, Files
  <2> HIDE DEF ks
  <2>. QED
    BY <2>1, <2>2, <2>3, QueryStep DEF Calls
<1>. QED
  BY <1>2, <1>3

LEMMA CancelStep ==
  ASSUME NEW db0, ~SharedConnection, UnitsInv(db0), NEW q \in Requests, CancelReservation(q)
  PROVE  UnitsInv(db0)'
<1> DEFINE k == job[q].hold
           c == unit[q].obj[k].copy
<1>1. job[q].op = "cancel"
  BY DEF CancelReservation, Asks
<1>2. CASE pc[q] = "pass_on" /\ ReleaseOrHold(q, "pass_on", c, "commit")
  <2>1. k \in Held(unit[q]) /\ k[1] = "hold" /\ c \in Held(unit[q])
    BY <1>2, Here DEF Phase
  <2>2. Whole(db0, k, unit[q].obj[k])
    BY <2>1, Here DEF Held, Fit, Session
  <2>3. c[1] \in {"copy", "no_copy"}
    BY <2>1, <2>2 DEF Whole, Part, Sound, Columns
  <2>. QED
    BY <1>1, <1>2, <2>1, <2>3, ReleaseOrHoldStep DEF Calls
<1>. QED
  BY <1>1, <1>2, CancelHoldStep, CancelCopyStep DEF CancelReservation

LEMMA PayStep ==
  ASSUME NEW db0, ~SharedConnection, UnitsInv(db0), NEW q \in Requests, PayFine(q)
  PROVE  UnitsInv(db0)'
<1> DEFINE r == ReaderOf(q)
           ok == r \in DOMAIN Rows(q) /\ job[q].amount <= Rows(q)[r].balance
           u == Found(q, {r})
           columns == [balance |-> Rows(q)[r].balance - job[q].amount]
<1>1. StatementNoting(q, "start", ok, Touch(Assign(u, r, columns), r), "commit", note[q])
  BY DEF PayFine, PayReader, Statement
<1>2. job[q].op = "pay" /\ job[q].amount \in Int
  BY Here DEF PayFine, Asks, Asked
<1>3. ~Stale(q)
  BY <1>1, Statements
<1>4. r[1] = "reader"
  BY DEF ReaderOf
<1>5. ASSUME ok
      PROVE  Fresh(db0, q, u, {r}) /\ Part(db0, r, columns)
  <2>1. Fresh(db0, q, u, {r})
    BY <1>3, <1>5, FoundFresh
  <2>2. Whole(db0, r, Rows(q)[r])
    BY <1>3, <1>5, RowsWhole
  <2>3. Rows(q)[r].balance \in Nat
    BY <1>4, <2>2 DEF Whole, Part, Sound, Columns
  <2>4. Rows(q)[r].balance - job[q].amount \in Nat
    BY <1>2, <1>5, <2>3
  <2>5. Part(db0, r, columns)
    BY <2>4 DEF Part, Sound
  <2>. QED
    BY <2>1, <2>5
<1> HIDE DEF ok, u, columns
<1>6. ok => Fit(db0, q, u) /\ u.sent = Sent(q).sent /\ r \in DOMAIN u.obj
  BY <1>5, FreshIs
<1>7. Writes(q, r)
  BY <1>4 DEF Writes
<1> HIDE DEF r
<1>. QED
  BY <1>1, <1>2, <1>5, <1>6, <1>7, TouchStep, CommitPlaced DEF Calls

LEMMA ReadStep ==
  ASSUME NEW db0, ~SharedConnection, UnitsInv(db0), NEW q \in Requests, Read(q)
  PROVE  UnitsInv(db0)'
<1>1. job[q].op = "read" /\ StatementNoting(q, "start", TRUE, Sent(q), "close", note[q])
  BY DEF Read, Asks, ReadQuery, Statement
<1>2. \A u : Fresh(db0, q, u, {}) => Placed(db0, q, u, "close", note[q])
  BY <1>1 DEF Fresh, Placed, Phase, Ready, Path, Over
<1>. QED
  BY <1>1, <1>2, SendStep DEF Calls

LEMMA LendStep ==
  ASSUME NEW db0, ~SharedConnection, UnitsInv(db0), NEW q \in Requests, Lend(q)
  PROVE  UnitsInv(db0)'
BY BorrowStep, ReturnStep, ReserveStep, CancelStep, PayStep, ReadStep DEF Lend

-----------------------------------------------------------------------------
(* Filing.                                                                    *)
LEMMA NewDocIs ==
  ASSUME NEW q \in Requests, job[q].op \in {"index_text", "index_book"}, Asked(job[q]), NEW db0
  PROVE  /\ Mine(MyDoc(q), q) /\ Writes(q, MyDoc(q)) /\ MyDoc(q)[1] = "doc"
         /\ Target(q) = MyDoc(q) /\ Files(q)
         /\ \A source :
              Whole(db0, MyDoc(q), [source |-> source, text |-> Given(q), status |-> "pending",
                                    chunks |-> 0])
<1>1. Mine(MyDoc(q), q) /\ MyDoc(q)[1] = "doc" /\ Target(q) = MyDoc(q) /\ Files(q)
  BY DEF Mine, MyDoc, Target, Files
<1>2. Given(q) \in DOMAIN PiecesOf
  BY DEF Given, Asked, PiecesOf
<1>3. TextOf(db0, MyDoc(q)) = Given(q)
  BY DEF TextOf, Drawn, MyDoc
<1>. QED
  BY <1>1, <1>2, <1>3 DEF Writes, Whole, Part, Sound, Columns

LEMMA IndexTextStep ==
  ASSUME NEW db0, ~SharedConnection, UnitsInv(db0), NEW q \in Requests, IndexText(q)
  PROVE  UnitsInv(db0)'
<1> DEFINE ok == Book \in DOMAIN Rows(q)
           u == Found(q, {Book})
           row == [source |-> "upload", text |-> job[q].text, status |-> "pending", chunks |-> 0]
           v == Add(u, MyDoc(q), row)
<1>1. StatementNoting(q, "start", ok, v, "file", note[q]) /\ job[q].op = "index_text"
  BY DEF IndexText, WithDoc, Statement, Asks
<1>2. ok => Fresh(db0, q, u, {Book})
  BY <1>1, Statements, FoundFresh
<1>3. /\ Mine(MyDoc(q), q) /\ Writes(q, MyDoc(q)) /\ Whole(db0, MyDoc(q), row)
      /\ job[q].op \in {"index_text", "index_book"}
  BY <1>1, Here, NewDocIs DEF Given
<1>4. pc[q] = "start"
  BY <1>1, Statements
<1>5. ok => {Book} \subseteq DOMAIN Rows(q)
  OBVIOUS
<1> HIDE DEF ok, u, row
<1>6. ASSUME ok
      PROVE  Fit(db0, q, v) /\ v.sent = Sent(q).sent /\ Placed(db0, q, v, "file", note[q])
  <2>1. /\ Fit(db0, q, u) /\ u.sent = Sent(q).sent /\ u.gone = {}
        /\ DOMAIN u.obj = Held(unit[q]) \cup {Book}
    BY <1>2, <1>6, FreshIs
  <2>2. /\ Fit(db0, q, v) /\ v.sent = u.sent /\ v.gone = u.gone
        /\ DOMAIN v.obj = DOMAIN u.obj \cup {MyDoc(q)}
    <3>1. Fit(db0, q, u)
      BY <2>1
    <3>. QED
      BY <1>3, <3>1, AddFits
  <2>3. MyDoc(q) \in Held(v)
    BY <2>1, <2>2 DEF Held
  <2>4. Unfiled(q, v)
    <3>1. Unfiled(q, unit[q])
      BY <1>4, AtStart
    <3>2. DOMAIN v.obj \subseteq Held(unit[q]) \cup DOMAIN Rows(q) \cup {MyDoc(q)}
      BY <1>5, <1>6, <2>1, <2>2
    <3>3. v.sent = Sent(q).sent
      BY <2>1, <2>2
    <3> HIDE DEF v
    <3>. QED
      BY <1>4, <3>1, <3>2, <3>3, StillUnfiled
  <2>. QED
    BY <1>3, <2>1, <2>2, <2>3, <2>4 DEF Placed, Phase, Ready, Path, Over
<1> HIDE DEF v
<1>. QED
  BY <1>1, <1>6, StatementStep DEF Calls

LEMMA IndexBookStep ==
  ASSUME NEW db0, ~SharedConnection, UnitsInv(db0), NEW q \in Requests, IndexBook(q)
  PROVE  UnitsInv(db0)'
<1> DEFINE ok == Book \in DOMAIN Rows(q)
           ks == {Book}
<1>1. StatementNoting(q, "start", ok, Found(q, ks), "cards", note[q]) /\ job[q].op = "index_book"
  BY DEF IndexBook, Statement, Asks
<1>2. pc[q] = "start"
  BY <1>1, Statements
<1>3. ok => ks \subseteq DOMAIN Rows(q)
  OBVIOUS
<1> HIDE DEF ok, ks
<1>4. ASSUME NEW u, ok, Fresh(db0, q, u, ks)
      PROVE  Placed(db0, q, u, "cards", note[q])
  <2>1. MyDoc(q) \notin Due(u)
    BY <1>2, <1>4, FreshIs, AtStart, DueIsSent
  <2>2. Unfiled(q, u)
    <3>1. Unfiled(q, unit[q])
      BY <1>2, AtStart
    <3>2. u.sent = Sent(q).sent /\ DOMAIN u.obj = Held(unit[q]) \cup ks
      BY <1>4, FreshIs
    <3>. QED
      BY <1>2, <1>3, <1>4, <3>1, <3>2, StillUnfiled
  <2>. QED
    BY <1>1, <2>1, <2>2 DEF Placed, Phase, Ready, Path, Over
<1>. QED
  BY <1>1, <1>3, <1>4, QueryStep DEF Calls

(* A document of its own is not among the rows before the request adds it.    *)
LEMMA NoDocYet ==
  ASSUME NEW db0, ~SharedConnection, UnitsInv(db0), NEW q \in Requests, pc[q] = "cards"
  PROVE  MyDoc(q) \notin DOMAIN Rows(q)
<1>1. MyDoc(q) \notin Due(unit[q])
  BY Here DEF Phase
<1>2. Own(durable, q) = {}
  BY DEF UnitsInv, Kept, AllOrNothing
<1>3. MyDoc(q) \notin DOMAIN durable
  BY <1>2 DEF Own, MyDoc
<1>. QED
  BY <1>1, <1>3, RowsAre DEF Due

LEMMA IndexCardsStep ==
  ASSUME NEW db0, ~SharedConnection, UnitsInv(db0), NEW q \in Requests, IndexCards(q)
  PROVE  UnitsInv(db0)'
<1> DEFINE ks == Table(Rows(q), "doc")
           old == {k \in ks : Rows(q)[k].source = "catalog"}
           u == Found(q, ks)
           row == [source |-> "catalog", text |-> CardText, status |-> "pending", chunks |-> 0]
           v == IF old = {} THEN Add(u, MyDoc(q), row) ELSE u
           next == IF old = {} THEN "file" ELSE "clear"
<1>1. StatementNoting(q, "cards", TRUE, v, next, old)
  BY DEF IndexCards, WithDoc
<1>2. pc[q] = "cards" /\ ~Stale(q)
  BY <1>1, Statements
<1>3. ks \subseteq DOMAIN Rows(q) /\ \A k \in ks : k[1] = "doc"
  BY DEF Table
<1>4. Fresh(db0, q, u, ks)
  BY <1>2, <1>3, FoundFresh
<1>5. job[q].op = "index_book" /\ MyDoc(q) \notin ks
  BY <1>2, <1>3, NoDocYet, Here DEF Path
<1>6. Mine(MyDoc(q), q) /\ Writes(q, MyDoc(q)) /\ Whole(db0, MyDoc(q), row)
  BY <1>5, Here, NewDocIs DEF Given
<1> HIDE DEF ks, u, row
<1>7. /\ Fit(db0, q, u) /\ u.sent = Sent(q).sent /\ u.gone = {} /\ ks \subseteq DOMAIN u.obj
      /\ DOMAIN u.obj = Held(unit[q]) \cup ks
  BY <1>4, FreshIs
<1>8. \A w : w.sent = Sent(q).sent /\ DOMAIN w.obj \subseteq DOMAIN u.obj \cup {MyDoc(q)}
               => Unfiled(q, w)
  <2>1. Unfiled(q, unit[q])
    BY <1>2, Here DEF Phase
  <2>. QED
    BY <1>2, <1>3, <1>7, <2>1, StillUnfiled
<1>9. CASE old = {}
  <2>1. v = Add(u, MyDoc(q), row) /\ next = "file"
    BY <1>9
  <2> HIDE DEF v, next
  <2>2. /\ Fit(db0, q, v) /\ v.sent = u.sent /\ v.gone = u.gone
        /\ DOMAIN v.obj = DOMAIN u.obj \cup {MyDoc(q)}
    <3>1. Fit(db0, q, u)
      BY <1>7
    <3>. QED
      BY <1>6, <2>1, <3>1, AddFits
  <2>3. MyDoc(q) \in Held(v) /\ Unfiled(q, v)
    BY <1>7, <1>8, <2>2 DEF Held
  <2>4. Placed(db0, q, v, next, old)
    BY <1>5, <2>1, <2>3 DEF Placed, Phase, Ready, Path, Over
  <2> HIDE DEF old
  <2>. QED
    BY <1>1, <1>7, <2>1, <2>2, <2>4, StatementStep DEF Calls
<1>10. CASE old # {}
  <2>1. v = u /\ next = "clear"
    BY <1>10
  <2>2. old \subseteq Held(u) /\ MyDoc(q) \notin old /\ \A d \in old : d[1] = "doc"
    BY <1>3, <1>5, <1>7 DEF Held
  <2>4. Unfiled(q, u)
    BY <1>7, <1>8
  <2> HIDE DEF v, next, old
  <2>3. Placed(db0, q, v, next, old)
    BY <1>5, <2>1, <2>2, <2>4 DEF Placed, Phase, Ready, Path, Over
  <2>. QED
    BY <1>1, <1>7, <2>1, <2>3, StatementStep DEF Calls
<1>. QED
  BY <1>9, <1>10

(* Rows that are read and deleted, with more the session had.                 *)
Dropped(db0, q, v, ks, more) ==
  /\ Fit(db0, q, v) /\ v.sent = Sent(q).sent
  /\ v.gone = ks \cup more
  /\ DOMAIN v.obj = Held(unit[q]) \cup ks /\ DOMAIN v.base = DOMAIN v.obj
  /\ \A k \in Held(unit[q]) : v.obj[k] = unit[q].obj[k]

LEMMA DropsFit ==
  ASSUME NEW db0, ~SharedConnection, UnitsInv(db0), NEW q \in Requests, ~Stale(q),
         NEW ks \in SUBSET DOMAIN Rows(q), NEW more \in SUBSET Held(unit[q]),
         Strikes(db0, q, ks \cup more)
  PROVE  Dropped(db0, q, Delete(Found(q, ks), ks \cup more), ks, more)
<1> DEFINE u == Found(q, ks)
           all == ks \cup more
           v == Delete(u, all)
<1>1. Fresh(db0, q, u, ks)
  BY FoundFresh
<1> HIDE DEF u
<1>2. /\ Fit(db0, q, u) /\ u.sent = Sent(q).sent /\ u.gone = {}
      /\ DOMAIN u.obj = Held(unit[q]) \cup ks /\ DOMAIN u.base = DOMAIN u.obj
      /\ \A k \in Held(unit[q]) : u.obj[k] = unit[q].obj[k]
  BY <1>1, FreshIs
<1>3. all \in SUBSET DOMAIN u.obj
  BY <1>2
<1>4. Strikes(db0, q, all)
  OBVIOUS
<1>5. all = ks \cup more
  OBVIOUS
<1> HIDE DEF all
<1>6. /\ Fit(db0, q, v) /\ v.sent = u.sent
      /\ v.obj = u.obj /\ v.gone = u.gone \cup all /\ v.base = u.base
  <2>1. /\ Fit(db0, q, Delete(u, all)) /\ Delete(u, all).sent = u.sent
        /\ Delete(u, all).obj = u.obj /\ Delete(u, all).gone = u.gone \cup all
        /\ Delete(u, all).base = u.base
    <3>1. Fit(db0, q, u)
      BY <1>2
    <3>. QED
      BY <1>3, <1>4, <3>1, DeleteFits
  <2>. QED
    BY <2>1
<1> HIDE DEF v
<1>7. Dropped(db0, q, v, ks, more)
  BY <1>2, <1>6, <1>5 DEF Dropped
<1>. QED
  BY <1>7 DEF v, u, all

LEMMA ChunksAre ==
  ASSUME NEW db0, ~SharedConnection, UnitsInv(db0), NEW q \in Requests, ~Stale(q), NEW d
  PROVE  /\ ChunksOf(Rows(q), d) \subseteq DOMAIN Rows(q)
         /\ \A k \in ChunksOf(Rows(q), d) : k[1] = "chunk" /\ HomeOf(db0, k) = d
BY RowsWhole DEF ChunksOf, Table, Whole, Part, Sound, Columns

LEMMA IndexClearStep ==
  ASSUME NEW db0, ~SharedConnection, UnitsInv(db0), NEW q \in Requests, IndexClear(q)
  PROVE  UnitsInv(db0)'
<1> PICK d \in note[q] :
      LET u == Delete(Found(q, ChunksOf(Rows(q), d)), ChunksOf(Rows(q), d) \cup {d})
      IN StatementNoting(q, "clear", TRUE,
           IF note[q] = {d} THEN WithDoc(u, q, "catalog", CardText) ELSE u,
           IF note[q] = {d} THEN "file" ELSE "clear", note[q] \ {d})
  BY DEF IndexClear
<1> DEFINE ks == ChunksOf(Rows(q), d)
           u == Delete(Found(q, ks), ks \cup {d})
           row == [source |-> "catalog", text |-> CardText, status |-> "pending", chunks |-> 0]
           v == IF note[q] = {d} THEN Add(u, MyDoc(q), row) ELSE u
           next == IF note[q] = {d} THEN "file" ELSE "clear"
           memo == note[q] \ {d}
<1>1. StatementNoting(q, "clear", TRUE, v, next, memo)
  BY DEF WithDoc
<1>2. pc[q] = "clear" /\ ~Stale(q)
  BY <1>1, Statements
<1>3. /\ note[q] \subseteq Held(unit[q]) /\ MyDoc(q) \notin note[q]
      /\ \A x \in note[q] : x[1] = "doc"
      /\ job[q].op = "index_book"
  BY <1>2, Here DEF Phase, Path
<1>4. /\ \A k \in DOMAIN Rows(q) : ~(k[1] = "chunk" /\ Mine(k, q))
      /\ \A w : /\ w.sent = Sent(q).sent
                /\ DOMAIN w.obj \subseteq Held(unit[q]) \cup DOMAIN Rows(q) \cup {MyDoc(q)}
                => Unfiled(q, w)
  <2>1. Unfiled(q, unit[q])
    BY <1>2, Here DEF Phase
  <2>. QED
    BY <1>2, <2>1, StillUnfiled
<1>5. /\ Mine(MyDoc(q), q) /\ Writes(q, MyDoc(q)) /\ Whole(db0, MyDoc(q), row)
      /\ MyDoc(q)[1] = "doc" /\ Target(q) = MyDoc(q)
  BY <1>3, Here, NewDocIs DEF Given
<1>6. ks \subseteq DOMAIN Rows(q) /\ \A k \in ks : k[1] = "chunk" /\ HomeOf(db0, k) = d
  BY <1>2, ChunksAre
<1>7. Dropped(db0, q, u, ks, {d})
  <2>1. Strikes(db0, q, ks \cup {d})
    <3>1. \A k \in ks : ~Mine(k, q)
      BY <1>6, <1>4
    <3>2. d[1] = "doc" /\ d # Target(q) /\ Target(q)[1] = "doc" /\ job[q].op \in Filing
      BY <1>3, <1>5 DEF Filing
    <3> HIDE DEF ks
    <3>. QED
      BY <1>6, <3>1, <3>2, StrikesFiled
  <2>2. {d} \subseteq Held(unit[q])
    BY <1>3
  <2> HIDE DEF ks
  <2>. QED
    BY <1>2, <1>6, <2>1, <2>2, DropsFit
<1> HIDE DEF ks, u, row
<1>8. Fit(db0, q, u) /\ u.sent = Sent(q).sent /\ DOMAIN u.obj = Held(unit[q]) \cup ks
  BY <1>7 DEF Dropped
<1>9. memo \subseteq Held(u) /\ MyDoc(q) \notin u.gone
  BY <1>3, <1>6, <1>7, <1>5 DEF Dropped, Held
<1>10. \A w : w.sent = Sent(q).sent /\ DOMAIN w.obj \subseteq DOMAIN u.obj \cup {MyDoc(q)}
              => Unfiled(q, w)
  <2> SUFFICES ASSUME NEW w, w.sent = Sent(q).sent,
                      DOMAIN w.obj \subseteq DOMAIN u.obj \cup {MyDoc(q)}
               PROVE  Unfiled(q, w)
    OBVIOUS
  <2>1. DOMAIN w.obj \subseteq Held(unit[q]) \cup DOMAIN Rows(q) \cup {MyDoc(q)}
    BY <1>6, <1>8
  <2>. QED
    BY <1>4, <2>1
<1>11. CASE note[q] = {d}
  <2>1. v = Add(u, MyDoc(q), row) /\ next = "file"
    BY <1>11
  <2> HIDE DEF v, next, memo
  <2>2. /\ Fit(db0, q, v) /\ v.sent = u.sent /\ v.gone = u.gone
        /\ DOMAIN v.obj = DOMAIN u.obj \cup {MyDoc(q)}
    <3>1. Fit(db0, q, u)
      BY <1>8
    <3>. QED
      BY <1>5, <2>1, <3>1, AddFits
  <2>3. MyDoc(q) \in Held(v) /\ Unfiled(q, v)
    BY <1>8, <1>9, <1>10, <2>2 DEF Held
  <2>4. Placed(db0, q, v, next, memo)
    BY <1>3, <2>1, <2>3 DEF Placed, Phase, Ready, Path, Over
  <2>. QED
    BY <1>1, <1>8, <2>1, <2>2, <2>4, StatementStep DEF Calls
<1>12. CASE note[q] # {d}
  <2>1. v = u /\ next = "clear"
    BY <1>12
  <2>2. (MyDoc(q) \notin memo /\ \A x \in memo : x[1] = "doc") /\ Unfiled(q, u)
    BY <1>3, <1>8, <1>10
  <2> HIDE DEF v, next, memo
  <2>3. Placed(db0, q, v, next, memo)
    BY <1>3, <1>9, <2>1, <2>2 DEF Placed, Phase, Ready, Path, Over
  <2>. QED
    BY <1>1, <1>8, <2>1, <2>3, StatementStep DEF Calls
<1>. QED
  BY <1>11, <1>12

(* What is filed is the text of the document.                                 *)
LEMMA PiecesAre ==
  ASSUME NEW q \in Requests, NEW u, NEW db0, Fit(db0, q, u), Target(q) \in DOMAIN u.obj,
         Target(q)[1] = "doc"
  PROVE  /\ Pieces(u, q) = PiecesOf[TextOf(db0, Target(q))]
         /\ Filling(db0, q) = {MyChunk(q, i) : i \in DOMAIN Pieces(u, q)}
         /\ Pieces(u, q) = <<>> => Filling(db0, q) = {}
<1>1. Whole(db0, Target(q), u.obj[Target(q)])
  BY DEF Fit, Session
<1>2. u.obj[Target(q)].text = TextOf(db0, Target(q))
  BY <1>1 DEF Whole, Part, Sound, Columns
<1>. QED
  BY <1>2 DEF Pieces, Filling

(* The document gets its status; op is one of those that file.                *)

LEMMA DescribedStep ==
  ASSUME NEW db0, ~SharedConnection, UnitsInv(db0), NEW q \in Requests, Files(q), NEW at, NEW u, NEW status,
         NEW n, StatementNoting(q, at, TRUE, Described(u, q, status, n), "commit", note[q]),
         at \notin Calls \cup {"ok", "close"},
         Fit(db0, q, u), u.sent = Sent(q).sent, Target(q) \in DOMAIN u.obj, Target(q)[1] = "doc",
         Filling(db0, q) \subseteq DOMAIN Sent(q).sent.put
  PROVE  UnitsInv(db0)'
<1> DEFINE columns == [status |-> status, chunks |-> n]
           k == Target(q)
<1>1. StatementNoting(q, at, TRUE, Touch(Assign(u, k, columns), k), "commit", note[q])
  BY DEF Described
<1>2. Part(db0, k, columns) /\ Writes(q, k)
  BY DEF Part, Sound, Writes
<1> HIDE DEF columns, k
<1>3. ASSUME NEW v, v.sent = u.sent
      PROVE  Placed(db0, q, v, "commit", note[q])
  <2>1. Filling(db0, q) \subseteq Due(v)
    BY <1>3 DEF Due
  <2>. QED
    BY <2>1 DEF Placed, Phase, Ready, Path, Over, Files
<1>4. k \in DOMAIN u.obj
  BY DEF k
<1>. QED
  BY <1>1, <1>2, <1>3, <1>4, TouchStep

LEMMA FileDocStep ==
  ASSUME NEW db0, ~SharedConnection, UnitsInv(db0), NEW q \in Requests, FileDoc(q)
  PROVE  UnitsInv(db0)'
<1> DEFINE u == Sent(q)
<1>1. StatementNoting(q, "file", TRUE, EmbedInto(u, q), AfterSplit(u, q), note[q])
  BY DEF FileDoc, Statement
<1>2. pc[q] = "file" /\ ~Stale(q)
  BY <1>1, Statements
<1>3. /\ MyDoc(q) \in Held(unit[q]) /\ job[q].op \in {"index_text", "index_book"}
      /\ Unfiled(q, unit[q])
  BY <1>2, Here DEF Phase, Path
<1>4. Target(q) = MyDoc(q) /\ Target(q)[1] = "doc" /\ Files(q)
  BY <1>3 DEF Target, MyDoc, Files
<1>5. Fresh(db0, q, u, {})
  BY <1>2, SentFresh
<1>6. u.sent = Sent(q).sent
  OBVIOUS
<1>7. CASE Pieces(u, q) = <<>>
  <2> DEFINE none == 0
  <2>1. StatementNoting(q, "file", TRUE, Described(u, q, "failed", none), "commit", note[q])
    BY <1>1, <1>7 DEF EmbedInto, AfterSplit
  <2> HIDE DEF u, none
  <2>2. Fit(db0, q, u) /\ Target(q) \in DOMAIN u.obj
    BY <1>3, <1>4, <1>5, FreshIs
  <2>3. Target(q)[1] = "doc" /\ Files(q) /\ "file" \notin Calls \cup {"ok", "close"}
    BY <1>4 DEF Calls
  <2>4. Filling(db0, q) = {}
    BY <1>7, <2>2, <2>3, PiecesAre
  <2>. QED
    BY <1>6, <2>1, <2>2, <2>3, <2>4, DescribedStep
<1>8. CASE Pieces(u, q) # <<>>
  <2>1. StatementNoting(q, "file", TRUE, Sent(q), "embed", note[q])
    BY <1>1, <1>8 DEF EmbedInto, AfterSplit
  <2> HIDE DEF u
  <2>2. ASSUME NEW v, Fresh(db0, q, v, {})
        PROVE  Placed(db0, q, v, "embed", note[q])
    <3>1. Target(q) \in Held(v) /\ v.sent = Sent(q).sent /\ DOMAIN v.obj = Held(unit[q])
      BY <1>3, <1>4, <2>2, FreshIs
    <3>2. Unfiled(q, v)
      BY <1>2, <1>3, <3>1, StillUnfiled
    <3>. QED
      BY <1>4, <3>1, <3>2 DEF Placed, Phase, Ready, Path, Over
  <2>. QED
    BY <2>1, <2>2, SendStep DEF Calls
<1>. QED
  BY <1>7, <1>8

(* The chunks are in the session before the next statement sends them.        *)
LEMMA ChunksFit ==
  ASSUME NEW q \in Requests, NEW u, NEW db0, Fit(db0, q, u), Target(q) \in DOMAIN u.obj,
         Target(q)[1] = "doc", Files(q)
  PROVE  /\ Fit(db0, q, WithChunks(u, q)) /\ WithChunks(u, q).sent = u.sent /\ WithChunks(u, q).gone = u.gone
         /\ DOMAIN u.obj \subseteq DOMAIN WithChunks(u, q).obj
         /\ Unfiled(q, u) => Filling(db0, q) \subseteq Unsent(WithChunks(u, q))
<1> DEFINE own == {MyChunk(q, i) : i \in DOMAIN Pieces(u, q)}
           rows == [k \in own |-> [doc |-> Target(q), piece |-> Pieces(u, q)[k[3]]]]
           v == WithChunks(u, q)
<1>1. Session(db0, q, u) /\ Strikes(db0, q, u.gone \cup u.sent.del)
  BY DEF Fit
<1>2. v = [u EXCEPT !.obj = Upon(rows, @)] /\ DOMAIN rows = own
  BY DEF WithChunks
<1>3. Pieces(u, q) = PiecesOf[TextOf(db0, Target(q))] /\ Filling(db0, q) = own
  BY PiecesAre
<1>4. ASSUME NEW k \in own
      PROVE  k[1] = "chunk" /\ Mine(k, q) /\ Writes(q, k) /\ Whole(db0, k, rows[k])
  <2>1. k[1] = "chunk" /\ Mine(k, q) /\ Drawn(k) /\ k[2] = q
    BY DEF MyChunk, Mine, Drawn
  <2>2. rows[k] = [doc |-> HomeOf(db0, k), piece |-> PieceOf(db0, k)]
    BY <1>3, <2>1 DEF HomeOf, PieceOf
  <2> HIDE DEF rows
  <2>3. Whole(db0, k, rows[k])
    BY <2>1, <2>2 DEF Whole, Part, Sound, Columns
  <2>. QED
    BY <2>1, <2>3 DEF Writes
<1> HIDE DEF v, rows, own
<1>5. /\ v = [base |-> v.base, obj |-> v.obj, touched |-> v.touched, gone |-> v.gone,
              sent |-> v.sent]
      /\ v.obj = Upon(rows, u.obj)
      /\ v.base = u.base /\ v.touched = u.touched /\ v.gone = u.gone /\ v.sent = u.sent
  BY <1>1, <1>2 DEF Session
<1>6. /\ DOMAIN v.obj = DOMAIN u.obj \cup own
      /\ \A k \in own : v.obj[k] = rows[k]
      /\ \A k \in DOMAIN u.obj : k \notin own => v.obj[k] = u.obj[k]
  BY <1>2, <1>5 DEF Upon
<1>7. Unsent(v) \subseteq Unsent(u) \cup own
  BY <1>5, <1>6 DEF Unsent
<1>8. \A k \in DOMAIN v.obj : Whole(db0, k, v.obj[k]) /\ (k \in DOMAIN v.base \/ Mine(k, q))
  BY <1>1, <1>4, <1>5, <1>6 DEF Session
<1>9. \A k \in Unsent(v) : Writes(q, k)
  BY <1>1, <1>4, <1>7 DEF Session
<1>10. Session(db0, q, v)
  BY <1>1, <1>5, <1>6, <1>8, <1>9 DEF Session
<1>11. Fit(db0, q, v)
  BY <1>5, <1>10 DEF Fit
<1>12. ASSUME Unfiled(q, u)
       PROVE  own \subseteq Unsent(v)
  <2>1. \A k \in own : k \notin DOMAIN v.base
    BY <1>1, <1>4, <1>5, <1>12 DEF Session, Unfiled
  <2>2. \A k \in own : k \notin v.gone
    BY <1>1, <1>4, <1>5, <1>12 DEF Strikes
  <2>. QED
    BY <1>6, <2>1, <2>2 DEF Unsent
<1>. QED
  BY <1>5, <1>6, <1>11, <1>12, <1>3 DEF v

LEMMA EmbedStep ==
  ASSUME NEW db0, ~SharedConnection, UnitsInv(db0), NEW q \in Requests, Embed(q)
  PROVE  UnitsInv(db0)'
<1> DEFINE u == WithChunks(unit[q], q)
<1>1. note = [p \in Requests |-> note[p]]
  BY DEF UnitsInv, Sessions
<1>2. /\ unit' = [unit EXCEPT ![q] = u] /\ pc' = [pc EXCEPT ![q] = "store"]
      /\ job' = job /\ durable' = durable /\ note' = note /\ met' = met /\ pc[q] = "embed"
  BY DEF Embed
<1>3. /\ unit' = [unit EXCEPT ![q] = u] /\ pc' = [pc EXCEPT ![q] = "store"]
      /\ note' = [note EXCEPT ![q] = note[q]] /\ job' = job /\ durable' = durable
  BY <1>1, <1>2
<1>4. /\ Fit(db0, q, unit[q]) /\ Target(q) \in Held(unit[q]) /\ Target(q)[1] = "doc"
      /\ Files(q) /\ Unfiled(q, unit[q])
  BY <1>2, Here DEF Phase, Path
<1>5. /\ Fit(db0, q, u) /\ u.sent = unit[q].sent /\ u.gone = unit[q].gone
      /\ DOMAIN unit[q].obj \subseteq DOMAIN u.obj /\ Filling(db0, q) \subseteq Unsent(u)
  <2>1. Fit(db0, q, unit[q]) /\ Target(q) \in DOMAIN unit[q].obj
    BY <1>4 DEF Held
  <2>. QED
    BY <1>4, <2>1, ChunksFit
<1> HIDE DEF u
<1>6. Target(q) \in Held(u) /\ Filling(db0, q) \subseteq Due(u)
  BY <1>4, <1>5 DEF Held, Due
<1>7. Placed(db0, q, u, "store", note[q])
  BY <1>4, <1>6 DEF Placed, Phase, Ready, Path, Over
<1>8. \A p \in Requests : p # q => Written(u.sent) \cap Written(unit[p].sent) = {}
  BY <1>5 DEF UnitsInv, Locked
<1>9. Own(durable, q) = {} /\ \A pair \in met' : Cardinality(pair) = 2
  BY <1>2 DEF UnitsInv, Kept, AllOrNothing
<1>10. Fit(db0, q, u)
  BY <1>5
<1>. QED
  BY <1>3, <1>7, <1>8, <1>9, <1>10, UnitStep

LEMMA RaiseStep ==
  ASSUME NEW db0, ~SharedConnection, UnitsInv(db0), NEW q \in Requests, NEW at \in Calls, Raise(q, at)
  PROVE  UnitsInv(db0)'
<1>1. Refuse(q) /\ job' = job /\ met' = met /\ pc[q] \notin {"ok", "close"}
  BY DEF Raise, Calls
<1>2. \A pair \in met' : Cardinality(pair) = 2
  BY <1>1 DEF UnitsInv, Kept
<1>. QED
  BY <1>1, <1>2, RefuseStep

LEMMA StoreChunksStep ==
  ASSUME NEW db0, ~SharedConnection, UnitsInv(db0), NEW q \in Requests, StoreChunks(q)
  PROVE  UnitsInv(db0)'
<1> DEFINE u == Sent(q)
           n == Len(Pieces(Sent(q), q))
<1>1. StatementNoting(q, "store", TRUE, Described(u, q, "indexed", n), "commit", note[q])
  BY DEF StoreChunks, Statement
<1>2. pc[q] = "store" /\ ~Stale(q)
  BY <1>1, Statements
<1>3. /\ Target(q) \in Held(unit[q]) /\ Target(q)[1] = "doc" /\ Files(q)
      /\ Filling(db0, q) \subseteq Due(unit[q])
  BY <1>2, Here DEF Phase, Path
<1>4. Filling(db0, q) \subseteq DOMAIN Sent(q).sent.put
  BY <1>3, DueIsSent
<1>5. Fresh(db0, q, u, {})
  BY <1>2, SentFresh
<1>6. u.sent = Sent(q).sent
  OBVIOUS
<1> HIDE DEF u, n
<1>7. Fit(db0, q, u) /\ Target(q) \in DOMAIN u.obj
  BY <1>3, <1>5, FreshIs
<1>8. Target(q)[1] = "doc" /\ Files(q) /\ "store" \notin Calls \cup {"ok", "close"}
  BY <1>3 DEF Calls
<1>. QED
  BY <1>1, <1>6, <1>7, <1>8, <1>4, DescribedStep

LEMMA RequireDocStep ==
  ASSUME NEW db0, ~SharedConnection, UnitsInv(db0), NEW q \in Requests, RequireDoc(q)
  PROVE  UnitsInv(db0)'
<1> DEFINE ok == DocOf(q) \in DOMAIN Rows(q)
           ks == {DocOf(q)}
<1>1. /\ StatementNoting(q, "start", ok, Found(q, ks), "listed", note[q])
      /\ job[q].op \in {"reindex", "delete_doc"}
  BY DEF RequireDoc, Statement
<1>2. ok => ks \subseteq DOMAIN Rows(q)
  OBVIOUS
<1>3. DocOf(q)[1] = "doc" /\ DocOf(q) \in ks
  BY <1>1, Here DEF Asked, DocOf
<1>4. pc[q] = "start"
  BY <1>1, Statements
<1> HIDE DEF ok, ks
<1>5. ASSUME NEW u, ok, Fresh(db0, q, u, ks)
      PROVE  Placed(db0, q, u, "listed", note[q])
  <2>1. /\ DocOf(q) \in Held(u) /\ u.sent = Sent(q).sent
        /\ DOMAIN u.obj = Held(unit[q]) \cup ks
    BY <1>3, <1>5, FreshIs
  <2>2. Unfiled(q, u)
    <3>1. Unfiled(q, unit[q])
      BY <1>4, AtStart
    <3>. QED
      BY <1>2, <1>4, <1>5, <2>1, <3>1, StillUnfiled
  <2>. QED
    BY <1>1, <1>3, <2>1, <2>2 DEF Placed, Phase, Ready, Path, Over
<1>. QED
  BY <1>1, <1>2, <1>5, QueryStep DEF Calls

LEMMA WithoutChunksIs ==
  ASSUME NEW db0, ~SharedConnection, UnitsInv(db0), NEW q \in Requests, pc[q] = "listed", ~Stale(q)
  PROVE  /\ ChunksOf(Rows(q), DocOf(q)) \subseteq DOMAIN Rows(q)
         /\ \A k \in ChunksOf(Rows(q), DocOf(q)) :
              k[1] = "chunk" /\ HomeOf(db0, k) = DocOf(q) /\ ~Mine(k, q)
         /\ DocOf(q) \in Held(unit[q]) /\ DocOf(q)[1] = "doc" /\ Unfiled(q, unit[q])
<1>1. /\ DocOf(q) \in Held(unit[q]) /\ DocOf(q)[1] = "doc" /\ Unfiled(q, unit[q])
  BY Here DEF Phase
<1> DEFINE ks == ChunksOf(Rows(q), DocOf(q))
<1>2. ks \subseteq DOMAIN Rows(q) /\ \A k \in ks : k[1] = "chunk" /\ HomeOf(db0, k) = DocOf(q)
  BY ChunksAre
<1> HIDE DEF ks
<1>3. \A k \in ks : ~Mine(k, q)
  BY <1>1, <1>2, StillUnfiled
<1>. QED
  BY <1>1, <1>2, <1>3 DEF ks

LEMMA ReindexStep ==
  ASSUME NEW db0, ~SharedConnection, UnitsInv(db0), NEW q \in Requests, Reindex(q)
  PROVE  UnitsInv(db0)'
<1> DEFINE ks == ChunksOf(Rows(q), DocOf(q))
           more == {}
           u == WithoutChunks(q)
<1>1. /\ StatementNoting(q, "listed", TRUE, EmbedInto(u, q), AfterSplit(u, q), note[q])
      /\ job[q].op = "reindex"
  BY DEF Reindex, Statement, Asks
<1>2. pc[q] = "listed" /\ ~Stale(q)
  BY <1>1, Statements
<1>3. Target(q) = DocOf(q) /\ Files(q)
  BY <1>1 DEF Target, Files
<1>4. /\ ks \subseteq DOMAIN Rows(q)
      /\ \A k \in ks : k[1] = "chunk" /\ HomeOf(db0, k) = DocOf(q) /\ ~Mine(k, q)
      /\ DocOf(q) \in Held(unit[q]) /\ DocOf(q)[1] = "doc" /\ Unfiled(q, unit[q])
  BY <1>2, WithoutChunksIs
<1>5. u = Delete(Found(q, ks), ks \cup more)
  BY DEF WithoutChunks
<1>6. Dropped(db0, q, u, ks, more)
  <2>1. /\ \A d \in more : d[1] = "doc" /\ d # Target(q)
        /\ Target(q)[1] = "doc" /\ job[q].op \in Filing
    BY <1>1, <1>3, <1>4 DEF Filing
  <2>2. more \in SUBSET Held(unit[q])
    OBVIOUS
  <2> HIDE DEF ks, u, more
  <2>3. Strikes(db0, q, ks \cup more)
    BY <1>1, <1>4, <2>1, StrikesFiled
  <2>. QED
    BY <1>2, <1>4, <1>5, <2>2, <2>3, DropsFit
<1>7. /\ Fit(db0, q, u) /\ u.sent = Sent(q).sent /\ Target(q) \in Held(u)
      /\ Target(q) \in DOMAIN u.obj
  <2>1. Target(q) \notin ks
    BY <1>3, <1>4
  <2> HIDE DEF ks, u
  <2>. QED
    BY <1>3, <1>4, <1>6, <2>1 DEF Dropped, Held
<1>8. Unfiled(q, u)
  <2>1. DOMAIN u.obj \subseteq Held(unit[q]) \cup DOMAIN Rows(q)
    BY <1>4, <1>6 DEF Dropped
  <2> HIDE DEF u
  <2>. QED
    BY <1>2, <1>4, <1>7, <2>1, StillUnfiled
<1>9. "listed" \notin Calls \cup {"ok", "close"}
  BY DEF Calls
<1>10. CASE Pieces(u, q) = <<>>
  <2> DEFINE none == 0
  <2>1. StatementNoting(q, "listed", TRUE, Described(u, q, "failed", none), "commit", note[q])
    BY <1>1, <1>10 DEF EmbedInto, AfterSplit
  <2> HIDE DEF u, none
  <2>2. Fit(db0, q, u) /\ u.sent = Sent(q).sent /\ Target(q) \in DOMAIN u.obj
    BY <1>7
  <2>3. Target(q)[1] = "doc" /\ Files(q)
    BY <1>3, <1>4
  <2>4. Filling(db0, q) = {}
    BY <1>10, <2>2, <2>3, PiecesAre
  <2>. QED
    BY <1>9, <2>1, <2>2, <2>3, <2>4, DescribedStep
<1>11. CASE Pieces(u, q) # <<>>
  <2>1. StatementNoting(q, "listed", TRUE, u, "embed", note[q])
    BY <1>1, <1>11 DEF EmbedInto, AfterSplit
  <2> HIDE DEF u
  <2>2. Placed(db0, q, u, "embed", note[q])
    BY <1>3, <1>4, <1>7, <1>8 DEF Placed, Phase, Ready, Path, Over
  <2>. QED
    BY <1>7, <1>9, <2>1, <2>2, StatementStep
<1>. QED
  BY <1>10, <1>11

LEMMA DeleteDocStep ==
  ASSUME NEW db0, ~SharedConnection, UnitsInv(db0), NEW q \in Requests, DeleteDoc(q)
  PROVE  UnitsInv(db0)'
<1> DEFINE ks == ChunksOf(Rows(q), DocOf(q))
           more == {DocOf(q)}
           v == Delete(Found(q, ks), ks \cup more)
<1>1. /\ StatementNoting(q, "listed", TRUE, Delete(WithoutChunks(q), more), "commit", note[q])
      /\ job[q].op = "delete_doc"
  BY DEF DeleteDoc, Statement, Asks
<1>2. pc[q] = "listed" /\ ~Stale(q)
  BY <1>1, Statements
<1>3. /\ ks \subseteq DOMAIN Rows(q)
      /\ \A k \in ks : k[1] = "chunk" /\ HomeOf(db0, k) = DocOf(q) /\ ~Mine(k, q)
      /\ DocOf(q) \in Held(unit[q]) /\ DocOf(q)[1] = "doc"
  BY <1>2, WithoutChunksIs
<1>4. Delete(WithoutChunks(q), more) = v
  <2> DEFINE found == Found(q, ks)
  <2>1. Fresh(db0, q, found, ks)
    BY <1>2, <1>3, FoundFresh
  <2>2. WithoutChunks(q) = Delete(found, ks)
    BY DEF WithoutChunks
  <2> HIDE DEF found, ks, more
  <2>3. found = [base |-> found.base, obj |-> found.obj, touched |-> found.touched,
                 gone |-> found.gone, sent |-> found.sent]
    BY <2>1 DEF Fresh, Fit, Session
  <2>4. Delete(Delete(found, ks), more) = Delete(found, ks \cup more)
    BY <2>3 DEF Delete
  <2>. QED
    BY <2>2, <2>4 DEF found
<1>5. StatementNoting(q, "listed", TRUE, v, "commit", note[q])
  BY <1>1, <1>4
<1>6. Dropped(db0, q, v, ks, more)
  <2>1. \A d \in more : d[1] = "doc"
    BY <1>3
  <2>2. more \in SUBSET Held(unit[q]) /\ \A k \in ks : HomeOf(db0, k) \in more
    BY <1>3
  <2>3. ~Files(q) /\ job[q].op \in Filing
    BY <1>1 DEF Files, Filing
  <2> HIDE DEF ks, more
  <2>4. Strikes(db0, q, ks \cup more)
    BY <1>3, <2>1, <2>2, <2>3, StrikesFiled
  <2>. QED
    BY <1>2, <1>3, <2>2, <2>4, DropsFit
<1> HIDE DEF v
<1>7. Fit(db0, q, v) /\ v.sent = Sent(q).sent
  BY <1>6 DEF Dropped
<1>8. Placed(db0, q, v, "commit", note[q])
  BY <1>1, CommitPlaced
<1>. QED
  BY <1>5, <1>7, <1>8, StatementStep DEF Calls

-----------------------------------------------------------------------------
(* Withdrawing a title: it is held until its last statement.                  *)
LEMMA DeleteBookStep ==
  ASSUME NEW db0, ~SharedConnection, UnitsInv(db0), NEW q \in Requests, DeleteBook(q)
  PROVE  UnitsInv(db0)'
<1> DEFINE ok == Book \in DOMAIN Rows(q)
           ks == {Book}
<1>1. StatementNoting(q, "start", ok, Found(q, ks), "out", note[q])
  BY DEF DeleteBook, Statement
<1>2. (ok => ks \subseteq DOMAIN Rows(q)) /\ Book \in ks
  OBVIOUS
<1> HIDE DEF ok, ks
<1>3. ASSUME NEW u, Fresh(db0, q, u, ks)
      PROVE  Placed(db0, q, u, "out", note[q])
  <2>1. Book \in Held(u)
    BY <1>2, <1>3, FreshIs
  <2>. QED
    BY <2>1 DEF Placed, Phase, Ready, Path, Over
<1>. QED
  BY <1>1, <1>2, <1>3, QueryStep DEF Calls

LEMMA DeleteOutStep ==
  ASSUME NEW db0, ~SharedConnection, UnitsInv(db0), NEW q \in Requests, DeleteOut(q)
  PROVE  UnitsInv(db0)'
<1> DEFINE ok == WithStatus(Rows(q), "on_loan") = {}
<1>1. StatementNoting(q, "out", ok, Sent(q), "docs", note[q])
  BY DEF DeleteOut, Statement
<1> HIDE DEF ok
<1>2. Book \in Held(unit[q])
  <2>1. pc[q] = "out"
    BY <1>1, Statements
  <2>. QED
    BY <2>1, Here DEF Phase
<1>3. ASSUME NEW u, Fresh(db0, q, u, {})
      PROVE  Placed(db0, q, u, "docs", note[q])
  <2>1. Book \in Held(u)
    BY <1>2, <1>3, FreshIs
  <2>. QED
    BY <2>1 DEF Placed, Phase, Ready, Path, Over
<1>. QED
  BY <1>1, <1>3, SendStep DEF Calls

LEMMA DeleteDocsStep ==
  ASSUME NEW db0, ~SharedConnection, UnitsInv(db0), NEW q \in Requests, DeleteDocs(q)
  PROVE  UnitsInv(db0)'
<1> DEFINE docs == Table(Rows(q), "doc")
           next == IF docs = {} THEN "chunks" ELSE "doc_chunks"
<1>1. StatementNoting(q, "docs", TRUE, Found(q, docs), next, docs)
  BY DEF DeleteDocs
<1>2. docs \subseteq DOMAIN Rows(q) /\ (\A d \in docs : d[1] = "doc")
      /\ next \in {"chunks", "doc_chunks"}
  BY DEF Table
<1> HIDE DEF docs, next
<1>3. Book \in Held(unit[q])
  <2>1. pc[q] = "docs"
    BY <1>1, Statements
  <2>. QED
    BY <2>1, Here DEF Phase
<1>4. ASSUME NEW u, Fresh(db0, q, u, docs)
      PROVE  Placed(db0, q, u, next, docs)
  <2>1. Book \in Held(u) /\ docs \subseteq Held(u)
    BY <1>3, <1>4, FreshIs
  <2>. QED
    BY <1>2, <2>1 DEF Placed, Phase, Ready, Path, Over
<1>. QED
  BY <1>1, <1>2, <1>4, QueryStep DEF Calls

LEMMA DeleteDocChunksStep ==
  ASSUME NEW db0, ~SharedConnection, UnitsInv(db0), NEW q \in Requests,
         job[q].op = "delete_book", DeleteDocChunks(q)
  PROVE  UnitsInv(db0)'
<1> PICK d \in note[q] :
      StatementNoting(q, "doc_chunks", TRUE,
        Delete(Found(q, ChunksOf(Rows(q), d)), ChunksOf(Rows(q), d) \cup {d}),
        IF note[q] = {d} THEN "chunks" ELSE "doc_chunks", note[q] \ {d})
  BY DEF DeleteDocChunks
<1> DEFINE ks == ChunksOf(Rows(q), d)
           u == Delete(Found(q, ks), ks \cup {d})
           next == IF note[q] = {d} THEN "chunks" ELSE "doc_chunks"
           memo == note[q] \ {d}
<1>1. StatementNoting(q, "doc_chunks", TRUE, u, next, memo) /\ next \in {"chunks", "doc_chunks"}
  OBVIOUS
<1>2. pc[q] = "doc_chunks" /\ ~Stale(q)
  BY <1>1, Statements
<1>3. /\ note[q] \subseteq Held(unit[q]) /\ Book \in Held(unit[q])
      /\ \A x \in note[q] : x[1] = "doc"
  BY <1>2, Here DEF Phase
<1>4. ks \subseteq DOMAIN Rows(q) /\ \A k \in ks : k[1] = "chunk" /\ HomeOf(db0, k) = d
  BY <1>2, ChunksAre
<1>5. Dropped(db0, q, u, ks, {d})
  <2>1. Strikes(db0, q, ks \cup {d})
    <3>1. ~Files(q) /\ job[q].op \in Filing
      BY DEF Files, Filing
    <3> HIDE DEF ks
    <3>. QED
      BY <1>3, <1>4, <3>1, StrikesFiled
  <2>2. {d} \subseteq Held(unit[q])
    BY <1>3
  <2> HIDE DEF ks
  <2>. QED
    BY <1>2, <1>4, <2>1, <2>2, DropsFit
<1>6. Book \notin ks \cup {d}
  BY <1>3, <1>4 DEF Book
<1>7. memo \subseteq note[q] \ {d}
  OBVIOUS
<1> HIDE DEF ks, u, next, memo
<1>8. Fit(db0, q, u) /\ u.sent = Sent(q).sent
  BY <1>5 DEF Dropped
<1>9. memo \subseteq Held(u) /\ Book \in Held(u) /\ \A x \in memo : x[1] = "doc"
  BY <1>3, <1>4, <1>5, <1>6, <1>7 DEF Dropped, Held
<1>10. Placed(db0, q, u, next, memo)
  BY <1>1, <1>9 DEF Placed, Phase, Ready, Path, Over
<1>11. next # "ok" /\ "doc_chunks" \notin Calls \cup {"ok", "close"}
  BY <1>1 DEF Calls
<1>. QED
  BY <1>1, <1>8, <1>10, <1>11, StatementStep

(* One query for the rows of a table, and their deletion; the last takes the
   title as well.                                                             *)
LEMMA DeleteTableStep ==
  ASSUME NEW db0, ~SharedConnection, UnitsInv(db0), NEW q \in Requests, job[q].op = "delete_book",
         NEW at \in {"chunks", "holds", "loans", "copies"},
         NEW table \in {"chunk", "hold", "loan", "copy"}, NEW more \in SUBSET {Book},
         NEW next \in {"holds", "loans", "copies", "commit"},
         next = "commit" <=> more = {Book}, DeleteTable(q, at, table, more, next)
  PROVE  UnitsInv(db0)'
<1> DEFINE ks == Table(Rows(q), table)
           u == Delete(Found(q, ks), ks \cup more)
<1>1. StatementNoting(q, at, TRUE, u, next, note[q])
  BY DEF DeleteTable, Statement
<1>2. pc[q] = at /\ ~Stale(q)
  BY <1>1, Statements
<1>3. Book \in Held(unit[q])
  BY <1>2, Here DEF Phase
<1>4. ks \subseteq DOMAIN Rows(q) /\ \A k \in ks : k[1] = table
  BY DEF Table
<1> HIDE DEF ks
<1>5. Strikes(db0, q, ks \cup more)
  <2>1. \A k \in ks \cup more : k[1] \notin {"message", "chat"}
    BY <1>4 DEF Book
  <2>. QED
    BY <2>1 DEF Strikes, Said, Files, Filing
<1>6. Dropped(db0, q, u, ks, more)
  <2>1. more \in SUBSET Held(unit[q])
    BY <1>3
  <2>. QED
    BY <1>2, <1>4, <1>5, <2>1, DropsFit
<1>7. Book \notin ks
  BY <1>4 DEF Book
<1> HIDE DEF u
<1>8. Fit(db0, q, u) /\ u.sent = Sent(q).sent /\ u.gone = ks \cup more
  BY <1>6 DEF Dropped
<1>9. DOMAIN u.obj = Held(unit[q]) \cup ks
  BY <1>6 DEF Dropped
<1>10. CASE next = "commit"
  <2>1. Book \in u.gone
    BY <1>8, <1>10
  <2>2. Placed(db0, q, u, next, note[q])
    BY <1>10, <2>1 DEF Placed, Phase, Ready, Path, Over, Files
  <2>. QED
    BY <1>1, <1>8, <1>10, <2>2, StatementStep DEF Calls
<1>11. CASE next # "commit"
  <2>1. Book \in Held(u)
    BY <1>3, <1>7, <1>8, <1>9, <1>11 DEF Held
  <2>2. Placed(db0, q, u, next, note[q])
    BY <1>11, <2>1 DEF Placed, Phase, Ready, Path, Over
  <2>3. next # "ok" /\ at \notin Calls \cup {"ok", "close"}
    BY DEF Calls
  <2>. QED
    BY <1>1, <1>8, <2>2, <2>3, StatementStep
<1>. QED
  BY <1>10, <1>11

LEMMA WithdrawStep ==
  ASSUME NEW db0, ~SharedConnection, UnitsInv(db0), NEW q \in Requests, Withdraw(q)
  PROVE  UnitsInv(db0)'
<1>1. job[q].op = "delete_book"
  BY DEF Withdraw, Asks
<1>2. {} \in SUBSET {Book} /\ {Book} \in SUBSET {Book} /\ {} # {Book}
  OBVIOUS
<1>3. CASE DeleteTable(q, "chunks", "chunk", {}, "holds")
  BY <1>1, <1>2, <1>3, DeleteTableStep
<1>4. CASE DeleteTable(q, "holds", "hold", {}, "loans")
  BY <1>1, <1>2, <1>4, DeleteTableStep
<1>5. CASE DeleteTable(q, "loans", "loan", {}, "copies")
  BY <1>1, <1>2, <1>5, DeleteTableStep
<1>6. CASE DeleteTable(q, "copies", "copy", {Book}, "commit")
  BY <1>1, <1>2, <1>6, DeleteTableStep
<1>. QED
  BY <1>1, <1>3, <1>4, <1>5, <1>6, DeleteBookStep, DeleteOutStep, DeleteDocsStep, DeleteDocChunksStep
     DEF Withdraw

LEMMA IndexStep ==
  ASSUME NEW db0, ~SharedConnection, UnitsInv(db0), NEW q \in Requests, Index(q)
  PROVE  UnitsInv(db0)'
<1>1. CASE Raise(q, "embed")
  BY <1>1, RaiseStep DEF Calls
<1>. QED
  BY <1>1, IndexTextStep, IndexBookStep, IndexCardsStep, IndexClearStep, FileDocStep, EmbedStep,
     StoreChunksStep, RequireDocStep, ReindexStep, DeleteDocStep, WithdrawStep DEF Index

-----------------------------------------------------------------------------
(* Conversations.                                                             *)
LEMMA CreateSessionStep ==
  ASSUME NEW db0, ~SharedConnection, UnitsInv(db0), NEW q \in Requests, CreateSession(q)
  PROVE  UnitsInv(db0)'
<1> DEFINE u == Sent(q)
           row == [messages |-> "none"]
           v == Add(u, MyChat(q), row)
<1>1. StatementNoting(q, "start", TRUE, v, "commit", note[q]) /\ job[q].op = "create_session"
  BY DEF CreateSession, Statement, Asks
<1>2. Fresh(db0, q, u, {})
  BY <1>1, Statements, SentFresh
<1>3. Mine(MyChat(q), q) /\ Writes(q, MyChat(q)) /\ Whole(db0, MyChat(q), row)
  BY DEF Mine, Writes, Whole, Part, Sound, Columns, MyChat
<1> HIDE DEF u, row
<1>4. Fit(db0, q, u) /\ u.sent = Sent(q).sent
  BY <1>2, FreshIs
<1>5. Fit(db0, q, v) /\ v.sent = Sent(q).sent
  BY <1>3, <1>4, AddFits
<1> HIDE DEF v
<1>6. Placed(db0, q, v, "commit", note[q])
  BY <1>1, CommitPlaced
<1>. QED
  BY <1>1, <1>5, <1>6, StatementStep DEF Calls

LEMMA RequireSessionStep ==
  ASSUME NEW db0, ~SharedConnection, UnitsInv(db0), NEW q \in Requests, NEW next \in {"messages", "history"},
         RequireSession(q, "start", next)
  PROVE  UnitsInv(db0)'
<1> DEFINE ok == ChatOf(q) \in DOMAIN Rows(q)
           ks == {ChatOf(q)}
<1>1. StatementNoting(q, "start", ok, Found(q, ks), next, note[q])
  BY DEF RequireSession, Statement
<1>2. (ok => ks \subseteq DOMAIN Rows(q)) /\ ChatOf(q) \in ks
  OBVIOUS
<1> HIDE DEF ok, ks
<1>3. ASSUME NEW u, Fresh(db0, q, u, ks)
      PROVE  Placed(db0, q, u, next, note[q])
  <2>1. ChatOf(q) \in Held(u)
    BY <1>2, <1>3, FreshIs
  <2>. QED
    BY <2>1 DEF Placed, Phase, Ready, Path, Over
<1>4. next # "ok" /\ "start" \notin Calls \cup {"ok", "close"}
  BY DEF Calls
<1>. QED
  BY <1>1, <1>2, <1>3, <1>4, QueryStep

(* The messages of a conversation that is deleted are whole turns.            *)
LEMMA MessagesArePaired ==
  ASSUME NEW db0, ~SharedConnection, UnitsInv(db0), NEW q \in Requests, ~Stale(q), job[q].op # "ask",
         NEW x \in Requests
  PROVE  Said(x, "user") \in MessagesOf(Rows(q), ChatOf(q))
           <=> Said(x, "assistant") \in MessagesOf(Rows(q), ChatOf(q))
<1> DEFINE u == unit[q]
<1>1. Session(db0, q, u) /\ Transaction(db0, q, u.sent) /\ Strikes(db0, q, u.gone \cup u.sent.del)
  BY Here DEF Fit
<1>2. DOMAIN Rows(q) =
        Unsent(u) \cup ((DOMAIN u.sent.put \cup (DOMAIN durable \ u.sent.del)) \ u.gone)
  BY RowsAre
<1>3. \A role : Said(x, role)[1] = "message"
  BY DEF Said
<1> HIDE DEF u
<1>4. \A role : Said(x, role) \notin Unsent(u) \cup DOMAIN u.sent.put
  BY <1>1, <1>3 DEF Session, Transaction, Writes
<1>5. \A role :
        Said(x, role) \in DOMAIN Rows(q)
          <=> Said(x, role) \in DOMAIN durable /\ Said(x, role) \notin u.gone \cup u.sent.del
  BY <1>2, <1>4
<1>6. Said(x, "user") \in DOMAIN Rows(q) <=> Said(x, "assistant") \in DOMAIN Rows(q)
  <2>1. Said(x, "user") \in DOMAIN durable <=> Said(x, "assistant") \in DOMAIN durable
    BY DEF UnitsInv, Kept, AllOrNothing
  <2>2. Said(x, "user") \in u.gone \cup u.sent.del
          <=> Said(x, "assistant") \in u.gone \cup u.sent.del
    BY <1>1 DEF Strikes
  <2>. QED
    BY <1>5, <2>1, <2>2
<1>7. ASSUME NEW role \in {"user", "assistant"}, Said(x, role) \in DOMAIN Rows(q)
      PROVE  Rows(q)[Said(x, role)].chat = ChatOf(x)
  <2>1. Whole(db0, Said(x, role), Rows(q)[Said(x, role)])
    BY <1>7, RowsWhole
  <2>2. Said(x, role) \in Turn(x)
    BY DEF Turn
  <2>. QED
    BY <1>3, <2>1, <2>2 DEF Whole, Part, Sound, Columns
<1>. QED
  BY <1>3, <1>6, <1>7 DEF MessagesOf, Table

LEMMA DeleteSessionStep ==
  ASSUME NEW db0, ~SharedConnection, UnitsInv(db0), NEW q \in Requests, DeleteSession(q)
  PROVE  UnitsInv(db0)'
<1>1. job[q].op = "delete_session"
  BY DEF DeleteSession, Asks
<1> DEFINE said == MessagesOf(Rows(q), ChatOf(q))
           more == {ChatOf(q)}
           u == Delete(Found(q, said), said \cup more)
<1>2. CASE StatementNoting(q, "messages", TRUE, u, "commit", note[q])
  <2>1. pc[q] = "messages" /\ ~Stale(q)
    BY <1>2, Statements
  <2>2. ChatOf(q) \in Held(unit[q]) /\ ChatOf(q)[1] = "chat"
    BY <1>1, <2>1, Here DEF Phase, Asked, ChatOf
  <2>3. said \subseteq DOMAIN Rows(q) /\ \A k \in said : k[1] = "message"
    BY DEF MessagesOf, Table
  <2>4. \A x \in Requests : Said(x, "user") \in said <=> Said(x, "assistant") \in said
    BY <1>1, <2>1, MessagesArePaired
  <2>5. \A x \in Requests : Said(x, "user") \notin more /\ Said(x, "assistant") \notin more
    BY <2>2 DEF Said
  <2>6. more \in SUBSET Held(unit[q]) /\ \A k \in more : k[1] = "chat" /\ k = ChatOf(q)
    BY <2>2
  <2> HIDE DEF said, more
  <2>7. Strikes(db0, q, said \cup more)
    BY <1>1, <2>3, <2>4, <2>5, <2>6 DEF Strikes, Files, Shelf
  <2>8. Dropped(db0, q, u, said, more)
    BY <2>1, <2>3, <2>6, <2>7, DropsFit
  <2> HIDE DEF u
  <2>9. Fit(db0, q, u) /\ u.sent = Sent(q).sent
    BY <2>8 DEF Dropped
  <2>10. Placed(db0, q, u, "commit", note[q])
    BY <1>1, CommitPlaced
  <2>. QED
    BY <1>2, <2>9, <2>10, StatementStep DEF Calls
<1>3. CASE RequireSession(q, "start", "messages")
  BY <1>3, RequireSessionStep
<1>. QED
  BY <1>2, <1>3 DEF DeleteSession, Statement

(* Awaits that change nothing but the place in the method, and sessions that
   end with nothing to commit.                                                *)
LEMMA AwaitStep ==
  ASSUME NEW db0, UnitsInv(db0), NEW q \in Requests, NEW next \in {"search", "turn"},
         pc[q] \in {"embed_query", "complete"}, pc' = [pc EXCEPT ![q] = next],
         UNCHANGED <<durable, working, unit, job, note, met>>,
         Placed(db0, q, unit[q], next, note[q])
  PROVE  UnitsInv(db0)'
<1> DEFINE u == unit[q]
<1>1. unit' = [unit EXCEPT ![q] = u] /\ note' = [note EXCEPT ![q] = note[q]]
  BY DEF UnitsInv, Sessions
<1>2. Fit(db0, q, u)
  BY Here
<1>3. \A p \in Requests : p # q => Written(u.sent) \cap Written(unit[p].sent) = {}
  BY DEF UnitsInv, Locked
<1>4. Own(durable, q) = {} /\ \A pair \in met' : Cardinality(pair) = 2
  BY DEF UnitsInv, Kept, AllOrNothing
<1> HIDE DEF u
<1>5. Placed(db0, q, u, next, note[q])
  BY DEF u
<1>. QED
  BY <1>1, <1>2, <1>3, <1>4, <1>5, UnitStep

LEMMA CloseStep ==
  ASSUME NEW db0, ~SharedConnection, UnitsInv(db0), NEW q \in Requests,
         NEW at \in {"heard", "found", "unheard", "close"},
         NEW next \in {"embed_query", "complete", "turn", "ok"},
         next = "ok" <=> at = "close", Close(q, at, next)
  PROVE  UnitsInv(db0)'
<1>1. pc[q] = at /\ Rollback(q) /\ pc' = [pc EXCEPT ![q] = next] /\ job' = job
  BY DEF Close
<1>2. note' = [note EXCEPT ![q] = note[q]]
  BY DEF Close, UnitsInv, Sessions
<1>3. \A pair \in met' : Cardinality(pair) = 2
  BY DEF Close, UnitsInv, Kept
<1>4. next = "ok" => job[q].op # "borrow"
  BY <1>1, Here DEF Path
<1>5. pc[q] \in {"ok", "close"} => next = "ok"
  BY <1>1
<1>. QED
  BY <1>1, <1>2, <1>3, <1>4, <1>5, ClosedStep

LEMMA AskHistoryStep ==
  ASSUME NEW db0, ~SharedConnection, UnitsInv(db0), NEW q \in Requests, job[q].op = "ask", AskHistory(q)
  PROVE  UnitsInv(db0)'
<1>1. CASE RequireSession(q, "start", "history")
  BY <1>1, RequireSessionStep
<1>2. CASE Statement(q, "history", TRUE, Found(q, MessagesOf(Rows(q), ChatOf(q))), "heard")
  <2> DEFINE ks == MessagesOf(Rows(q), ChatOf(q))
  <2>1. StatementNoting(q, "history", TRUE, Found(q, ks), "heard", note[q])
    BY <1>2 DEF Statement
  <2>2. ks \subseteq DOMAIN Rows(q)
    BY DEF MessagesOf, Table
  <2> HIDE DEF ks
  <2>3. \A u : Placed(db0, q, u, "heard", note[q])
    BY DEF Placed, Phase, Ready, Path, Over
  <2>. QED
    BY <2>1, <2>2, <2>3, QueryStep DEF Calls
<1>3. CASE Close(q, "heard", "embed_query")
  BY <1>3, CloseStep
<1>. QED
  BY <1>1, <1>2, <1>3 DEF AskHistory

LEMMA AskPassagesStep ==
  ASSUME NEW db0, ~SharedConnection, UnitsInv(db0), NEW q \in Requests, job[q].op = "ask", AskPassages(q)
  PROVE  UnitsInv(db0)'
<1>1. \A u, memo, at : at \in {"search", "titles", "unheard", "found"} => Placed(db0, q, u, at, memo)
  BY DEF Placed, Phase, Ready, Path, Over
<1>2. CASE EmbedQuery(q)
  <2>1. Placed(db0, q, unit[q], "search", note[q])
    BY <1>1
  <2>. QED
    BY <1>2, <2>1, AwaitStep DEF EmbedQuery
<1>3. CASE Raise(q, "embed_query")
  BY <1>3, RaiseStep DEF Calls
<1>4. CASE Hits(q, "search", "unheard")
  <2> PICK ks \in SUBSET Table(Rows(q), "chunk") :
        StatementNoting(q, "search", TRUE, Found(q, ks),
                        IF ks = {} THEN "unheard" ELSE "titles", ks)
    BY <1>4 DEF Hits
  <2> DEFINE next == IF ks = {} THEN "unheard" ELSE "titles"
  <2>1. StatementNoting(q, "search", TRUE, Found(q, ks), next, ks)
    OBVIOUS
  <2>2. ks \subseteq DOMAIN Rows(q) /\ next \in {"unheard", "titles"}
    BY DEF Table
  <2> HIDE DEF next
  <2>3. next # "ok" /\ "search" \notin Calls \cup {"ok", "close"}
    BY <2>2 DEF Calls
  <2>4. \A u : Placed(db0, q, u, next, ks)
    BY <1>1, <2>2
  <2>. QED
    BY <2>1, <2>2, <2>3, <2>4, QueryStep
<1>5. CASE HitTitles(q, "found")
  <2> DEFINE ks == {unit[q].obj[k].doc : k \in note[q]} \cap DOMAIN Rows(q)
  <2>1. StatementNoting(q, "titles", TRUE, Found(q, ks), "found", note[q])
    BY <1>5 DEF HitTitles, Statement
  <2>2. ks \subseteq DOMAIN Rows(q)
    OBVIOUS
  <2> HIDE DEF ks
  <2>3. \A u : Placed(db0, q, u, "found", note[q])
    BY <1>1
  <2>. QED
    BY <2>1, <2>2, <2>3, QueryStep DEF Calls
<1>6. CASE Close(q, "found", "complete")
  BY <1>6, CloseStep
<1>7. CASE Close(q, "unheard", "turn")
  BY <1>7, CloseStep
<1>. QED
  BY <1>2, <1>3, <1>4, <1>5, <1>6, <1>7 DEF AskPassages

LEMMA CompleteStep ==
  ASSUME NEW db0, ~SharedConnection, UnitsInv(db0), NEW q \in Requests, job[q].op = "ask", Complete(q)
  PROVE  UnitsInv(db0)'
<1>1. DOMAIN unit[q].obj = {}
  BY Here DEF Complete, Phase
<1>2. Placed(db0, q, unit[q], "turn", note[q])
  BY <1>1 DEF Placed, Phase, Ready, Path, Over
<1>. QED
  BY <1>2, AwaitStep DEF Complete

(* The turn of a question.                                                    *)
LEMMA MessageFits ==
  ASSUME NEW q \in Requests, NEW u, NEW role \in {"user", "assistant"}, job[q].op = "ask",
         Asked(job[q]),
         NEW db0, Fit(db0, q, u), u.gone = {}, DOMAIN u.base = DOMAIN u.obj, Said(q, role) \notin DOMAIN u.obj
  PROVE  /\ Fit(db0, q, Message(u, q, role)) /\ Message(u, q, role).sent = u.sent
         /\ DOMAIN Message(u, q, role).obj = DOMAIN u.obj \cup {Said(q, role)}
         /\ Message(u, q, role).gone = {}
         /\ Said(q, role) \in Due(Message(u, q, role))
<1> DEFINE row == [chat |-> ChatOf(q), role |-> role,
                   sources |-> IF role = "user" THEN {} ELSE note[q]]
           k == Said(q, role)
           v == Add(u, k, row)
<1>1. Message(u, q, role) = v
  BY DEF Message
<1>2. k[1] = "message" /\ Mine(k, q) /\ Writes(q, k)
  BY DEF Said, Mine, Writes, Turn
<1>3. Whole(db0, k, row)
  BY DEF Whole, Part, Sound, Columns, Turn, Said, Asked, ChatOf
<1>4. k \notin DOMAIN u.base \cup u.gone
  OBVIOUS
<1> HIDE DEF row, k
<1>5. /\ Fit(db0, q, v) /\ v.sent = u.sent /\ v.gone = u.gone
      /\ DOMAIN v.obj = DOMAIN u.obj \cup {k} /\ k \in Unsent(v)
  BY <1>2, <1>3, <1>4, AddFits
<1>. QED
  BY <1>1, <1>5 DEF Due, k

LEMMA TurnStep ==
  ASSUME NEW db0, ~SharedConnection, UnitsInv(db0), NEW q \in Requests, job[q].op = "ask",
         Statement(q, "turn", ChatOf(q) \in DOMAIN Rows(q),
                   Message(Found(q, {ChatOf(q)}), q, "user"), "user")
  PROVE  UnitsInv(db0)'
<1> DEFINE ok == ChatOf(q) \in DOMAIN Rows(q)
           u == Found(q, {ChatOf(q)})
           v == Message(u, q, "user")
<1>1. StatementNoting(q, "turn", ok, v, "user", note[q])
  BY DEF Statement
<1>2. pc[q] = "turn" /\ ~Stale(q)
  BY <1>1, Statements
<1>3. Held(unit[q]) = {} /\ ChatOf(q)[1] = "chat"
  BY <1>2, Here DEF Phase, Held, Asked, ChatOf
<1>4. ok => Fresh(db0, q, u, {ChatOf(q)})
  BY <1>2, FoundFresh
<1>5. \A role \in {"user", "assistant"} : Said(q, role) # ChatOf(q)
  BY <1>3 DEF Said
<1>6. Said(q, "user") # Said(q, "assistant")
  BY DEF Said
<1> HIDE DEF ok, u
<1>7. ASSUME ok
      PROVE  Fit(db0, q, v) /\ v.sent = Sent(q).sent /\ Placed(db0, q, v, "user", note[q])
  <2>1. /\ Fit(db0, q, u) /\ u.sent = Sent(q).sent /\ u.gone = {}
        /\ DOMAIN u.base = DOMAIN u.obj /\ DOMAIN u.obj = {ChatOf(q)}
    BY <1>3, <1>4, <1>7, FreshIs
  <2>2. /\ Fit(db0, q, v) /\ v.sent = u.sent /\ v.gone = {}
        /\ DOMAIN v.obj = DOMAIN u.obj \cup {Said(q, "user")} /\ Said(q, "user") \in Due(v)
    <3>1. Fit(db0, q, u)
      BY <2>1
    <3>2. Asked(job[q])
      BY Here
    <3>. QED
      BY <1>5, <2>1, <3>1, <3>2, MessageFits
  <2> HIDE DEF v
  <2>3. ChatOf(q) \in Held(v) /\ Said(q, "assistant") \notin DOMAIN v.obj
    BY <1>5, <1>6, <2>1, <2>2 DEF Held
  <2>. QED
    BY <2>1, <2>2, <2>3 DEF Placed, Phase, Ready, Path, Over
<1> HIDE DEF v
<1>. QED
  BY <1>1, <1>7, StatementStep DEF Calls

LEMMA UserStep ==
  ASSUME NEW db0, ~SharedConnection, UnitsInv(db0), NEW q \in Requests, job[q].op = "ask",
         Statement(q, "user", TRUE, Message(Sent(q), q, "assistant"), "assistant")
  PROVE  UnitsInv(db0)'
<1> DEFINE u == Sent(q)
           v == Message(u, q, "assistant")
<1>1. StatementNoting(q, "user", TRUE, v, "assistant", note[q])
  BY DEF Statement
<1>2. pc[q] = "user" /\ ~Stale(q)
  BY <1>1, Statements
<1>3. /\ ChatOf(q) \in Held(unit[q]) /\ Said(q, "user") \in Due(unit[q])
      /\ Said(q, "assistant") \notin Held(unit[q])
  BY <1>2, Here DEF Phase, Held
<1>4. Fresh(db0, q, u, {})
  BY <1>2, SentFresh
<1>5. Said(q, "user") \in DOMAIN Sent(q).sent.put
  BY <1>3, DueIsSent DEF Said
<1> HIDE DEF u
<1>6. /\ Fit(db0, q, u) /\ u.sent = Sent(q).sent /\ u.gone = {}
      /\ DOMAIN u.base = DOMAIN u.obj /\ DOMAIN u.obj = Held(unit[q])
  BY <1>4, FreshIs
<1>7. /\ Fit(db0, q, v) /\ v.sent = u.sent /\ v.gone = {}
      /\ DOMAIN v.obj = DOMAIN u.obj \cup {Said(q, "assistant")}
      /\ Said(q, "assistant") \in Due(v)
  <2>1. Fit(db0, q, u)
    BY <1>6
  <2>2. Asked(job[q])
    BY Here
  <2>. QED
    BY <1>3, <1>6, <2>1, <2>2, MessageFits
<1> HIDE DEF v
<1>8. ChatOf(q) \in Held(v) /\ Said(q, "user") \in Due(v)
  BY <1>3, <1>5, <1>6, <1>7 DEF Held, Due
<1>9. Placed(db0, q, v, "assistant", note[q])
  BY <1>7, <1>8 DEF Placed, Phase, Ready, Path, Over
<1>. QED
  BY <1>1, <1>6, <1>7, <1>9, StatementStep DEF Calls

LEMMA AssistantStep ==
  ASSUME NEW db0, ~SharedConnection, UnitsInv(db0), NEW q \in Requests, job[q].op = "ask",
         Statement(q, "assistant", TRUE, Touch(Sent(q), ChatOf(q)), "commit")
  PROVE  UnitsInv(db0)'
<1> DEFINE u == Sent(q)
           k == ChatOf(q)
           v == Touch(u, k)
<1>1. StatementNoting(q, "assistant", TRUE, v, "commit", note[q])
  BY DEF Statement
<1>2. pc[q] = "assistant" /\ ~Stale(q)
  BY <1>1, Statements
<1>3. /\ k \in Held(unit[q]) /\ k[1] = "chat"
      /\ Said(q, "user") \in Due(unit[q]) /\ Said(q, "assistant") \in Due(unit[q])
  BY <1>2, Here DEF Phase, Asked, ChatOf
<1>4. Turn(q) \subseteq DOMAIN Sent(q).sent.put
  BY <1>3, DueIsSent DEF Turn, Said
<1>5. Fresh(db0, q, u, {})
  BY <1>2, SentFresh
<1> HIDE DEF u
<1>6. Fit(db0, q, u) /\ u.sent = Sent(q).sent /\ u.gone = {} /\ k \in DOMAIN u.obj
  BY <1>3, <1>5, FreshIs
<1>7. Writes(q, k)
  BY <1>3 DEF Writes
<1> HIDE DEF k
<1>8. Fit(db0, q, v) /\ v.sent = u.sent /\ k \in Unsent(v)
  BY <1>6, <1>7, TouchFits
<1> HIDE DEF v
<1>9. Turn(q) \cup {ChatOf(q)} \subseteq Due(v)
  BY <1>4, <1>6, <1>8 DEF Due, k
<1>10. Placed(db0, q, v, "commit", note[q])
  BY <1>9 DEF Placed, Phase, Ready, Path, Over, Files
<1>. QED
  BY <1>1, <1>6, <1>8, <1>10, StatementStep DEF Calls

LEMMA ConverseStep ==
  ASSUME NEW db0, ~SharedConnection, UnitsInv(db0), NEW q \in Requests, Converse(q)
  PROVE  UnitsInv(db0)'
<1>1. CASE Ask(q)
  <2>1. job[q].op = "ask"
    BY <1>1 DEF Ask, Asks
  <2>2. CASE Raise(q, "complete")
    BY <2>2, RaiseStep DEF Calls
  <2>3. CASE RecordTurn(q)
    BY <2>1, <2>3, TurnStep, UserStep, AssistantStep DEF RecordTurn
  <2>. QED
    BY <1>1, <2>1, <2>2, <2>3, AskHistoryStep, AskPassagesStep, CompleteStep DEF Ask
<1>. QED
  BY <1>1, CreateSessionStep, DeleteSessionStep DEF Converse

-----------------------------------------------------------------------------
(* The end of a unit.                                                         *)
LEMMA FlushStep ==
  ASSUME NEW db0, ~SharedConnection, UnitsInv(db0), NEW q \in Requests, Flush(q)
  PROVE  UnitsInv(db0)'
<1>1. pc[q] = "commit" /\ StatementNoting(q, "commit", TRUE, Sent(q), "commit", note[q])
  BY DEF Flush, Statement
<1>2. Ready(db0, q, unit[q], "commit") /\ Asked(job[q])
  BY <1>1, Here
<1>3. ASSUME NEW u, Fresh(db0, q, u, {})
      PROVE  Placed(db0, q, u, "commit", note[q])
  <2>1. Due(u) = DOMAIN Sent(q).sent.put /\ u.sent = Sent(q).sent
    BY <1>3, FreshIs
  <2>2. job[q].op = "borrow" => MyLoan(q) \in Due(u)
    BY <1>2, <2>1, DueIsSent DEF Ready, MyLoan
  <2>3. job[q].op = "delete_book" => Book \in u.gone \cup u.sent.del
    BY <1>2, <2>1, SentIs DEF Ready
  <2>4. job[q].op = "ask" => Turn(q) \cup {ChatOf(q)} \subseteq Due(u)
    <3>1. job[q].op = "ask" => \A k \in Turn(q) \cup {ChatOf(q)} : k[1] \in {"message", "chat"}
      BY <1>2 DEF Asked, ChatOf, Turn, Said
    <3>. QED
      BY <1>2, <2>1, <3>1, DueIsSent DEF Ready
  <2>5. Files(q) => Filling(db0, q) \subseteq Due(u)
    BY <1>2, <2>1, DueIsSent DEF Ready
  <2>. QED
    BY <2>2, <2>3, <2>4, <2>5 DEF Placed, Phase, Ready, Path, Over
<1>. QED
  BY <1>1, <1>3, SendStep DEF Calls

LEMMA FinishStep ==
  ASSUME NEW db0, ~SharedConnection, UnitsInv(db0), NEW q \in Requests, Finish(q)
  PROVE  UnitsInv(db0)'
<1>1. CASE Close(q, "close", "ok")
  BY <1>1, CloseStep
<1>2. CASE FlushFails(q) \/ Victim(q)
  <2>1. Live(q) /\ Refuse(q) /\ job' = job /\ met' = met /\ (Stale(q) \/ Blocked(q))
    BY <1>2 DEF FlushFails, Victim
  <2>2. Unsent(unit[q]) # {} \/ unit[q].gone # {}
    <3>1. Stale(q) => Unsent(unit[q]) # {}
      BY DEF Stale
    <3>2. Blocked(q) => Written(Pending(unit[q])) # {}
      BY DEF Blocked, WaitsFor
    <3>. QED
      BY <2>1, <3>1, <3>2, PendingIs DEF Written
  <2>3. pc[q] \notin {"ok", "close"}
    BY <2>1, <2>2, Here DEF Live, Over, Phase
  <2>4. \A pair \in met' : Cardinality(pair) = 2
    BY <2>1 DEF UnitsInv, Kept
  <2>. QED
    BY <2>1, <2>3, <2>4, RefuseStep
<1>. QED
  BY <1>1, <1>2, FlushStep, CommitStep DEF Finish

-----------------------------------------------------------------------------
(* The inductive invariant holds.                                             *)
LEMMA StoredIsWhole ==
  ASSUME NEW db0, NEW k \in DOMAIN db0, Stored(db0, k)
  PROVE  Whole(db0, k, db0[k])
<1>1. ~Drawn(k)
  BY DEF Stored, Drawn
<1>2. \A q \in Requests : k \notin Turn(q)
  BY <1>1 DEF Turn, Said, Drawn
<1>3. Part(db0, k, db0[k])
  BY <1>1, <1>2 DEF Stored, Part, Sound, TextOf, HomeOf, PieceOf
<1>4. Columns(k) \subseteq DOMAIN db0[k]
  BY DEF Stored, Columns
<1>. QED
  BY <1>3, <1>4 DEF Whole

LEMMA InitInv ==
  ASSUME NEW db0, Init, durable = db0
  PROVE  UnitsInv(db0)
<1>1. durable \in Stores /\ \A k \in DOMAIN durable : Stored(durable, k)
  BY RequestsAssumption DEF Init
<1>2. /\ unit = [q \in Requests |-> Closed] /\ pc = [q \in Requests |-> "start"]
      /\ note = [q \in Requests |-> {}] /\ met = {}
  BY DEF Init
<1>3. \A q \in Requests : Asked(job[q])
  <2>1. PICK jobs \in Mixes : job \in [Requests -> jobs]
    BY DEF Init
  <2>. QED
    BY <2>1, RequestsAssumption
<1>4. \A q \in Requests : Fit(db0, q, Closed) /\ Placed(db0, q, Closed, "start", {})
  BY ClosedFits, ClosedPlaced
<1>5. Sessions(db0)
  BY <1>2, <1>3, <1>4 DEF Sessions
<1>6. Locked
  BY <1>2, ClosedFits DEF Locked
<1>7. \A k \in DOMAIN durable : Whole(db0, k, durable[k])
  BY <1>1, StoredIsWhole
<1>8. \A q \in Requests : Own(durable, q) = {}
  BY <1>1 DEF Own, Stored
<1>9. \A q \in Requests :
        Said(q, "user") \notin DOMAIN durable /\ Said(q, "assistant") \notin DOMAIN durable
  BY <1>8 DEF Own, Said
<1>10. AllOrNothing
  BY <1>2, <1>8, <1>9 DEF AllOrNothing, AcceptedIsKept
<1>. QED
  BY <1>2, <1>5, <1>6, <1>7, <1>10 DEF UnitsInv, Kept

LEMMA StutterStep ==
  ASSUME NEW db0, UnitsInv(db0), UNCHANGED vars
  PROVE  UnitsInv(db0)'
<1>1. /\ durable' = durable /\ unit' = unit /\ job' = job /\ pc' = pc /\ note' = note
      /\ met' = met
  BY DEF vars
<1>2. \A q \in Requests : Asked(job'[q]) /\ Fit(db0, q, unit'[q]) /\ Placed(db0, q, unit'[q], pc'[q], note'[q])
  BY <1>1 DEF UnitsInv, Sessions
<1>3. \A q \in Requests : (Fit(db0, q, unit[q]) /\ Placed(db0, q, unit[q], pc[q], note[q]))'
  BY <1>1, <1>2, Carried
<1>4. \A q \in Requests : Asked(job[q])'
  BY <1>1, <1>2 DEF Asked
<1>5. Sessions(db0)'
  BY <1>1, <1>3, <1>4 DEF UnitsInv, Sessions
<1>6. Locked'
  BY <1>1 DEF UnitsInv, Locked, Written
<1>7. (\A k \in DOMAIN durable : Whole(db0, k, durable[k]))'
  BY <1>1, RowsStay DEF UnitsInv, Kept
<1>8. AllOrNothing'
  BY <1>1 DEF UnitsInv, Kept, AllOrNothing, AcceptedIsKept, Own, Said, MyLoan, Book
<1>. QED
  BY <1>1, <1>5, <1>6, <1>7, <1>8 DEF UnitsInv, Kept

LEMMA ServeStep ==
  ASSUME NEW db0, ~SharedConnection, UnitsInv(db0), NEW q \in Requests, Serve(q)
  PROVE  UnitsInv(db0)'
BY LendStep, IndexStep, ConverseStep, FinishStep DEF Serve

(* On PostgreSQL the sessions, the locks and what each unit still has to send
   stay as UnitsInv says, whatever requests run, however their statements
   interleave and whichever calls fail.                                       *)
THEOREM UnitsInvariant == ASSUME ~SharedConnection PROVE Spec => []UnitsHold
<1>1. Init => UnitsHold
  <2> SUFFICES ASSUME Init  PROVE UnitsHold
    OBVIOUS
  <2>1. PICK db0 \in Stores : durable = db0
    BY DEF Init
  <2>. QED
    BY <2>1, InitInv DEF UnitsHold
<1>2. UnitsHold /\ [Next]_vars => UnitsHold'
  <2> SUFFICES ASSUME UnitsHold, [Next]_vars
               PROVE  UnitsHold'
    OBVIOUS
  <2>1. PICK db0 \in Stores : UnitsInv(db0)
    BY DEF UnitsHold
  <2>2. UnitsInv(db0)'
    BY <2>1, ServeStep, StutterStep DEF Next
  <2>. QED
    BY <2>2 DEF UnitsHold
<1>. QED
  BY <1>1, <1>2, PTL DEF Spec

-----------------------------------------------------------------------------
(* Every variable has its type, a request that is over has no session left, and
   no balance of a reader is ever negative: concurrent payments and charges, a
   fine that changes under a payment included.                                *)
THEOREM UnitsTypeCorrect == ASSUME ~SharedConnection PROVE Spec => []TypeOK
<1>1. UnitsHold => TypeOK
  <2> SUFFICES ASSUME NEW db0 \in Stores, UnitsInv(db0)  PROVE TypeOK
    BY DEF UnitsHold
  <2>1. ASSUME NEW q \in Requests
        PROVE  /\ DOMAIN unit[q].base \subseteq DOMAIN unit[q].obj
               /\ unit[q].touched \cup unit[q].gone \subseteq DOMAIN unit[q].obj
               /\ pc[q] \in Over \cup {"start"} => unit[q] = Closed
    BY Here DEF Fit, Session, Phase
  <2>2. \A k \in Table(durable, "reader") : durable[k].balance \in Nat
    BY DEF UnitsInv, Kept, Table, Whole, Part, Sound, Columns
  <2>. QED
    BY <2>1, <2>2 DEF TypeOK, UnitsInv, Kept
<1>. QED
  BY <1>1, UnitsInvariant, PTL

(* A unit of work is kept as a whole or not at all (db.py:77): the loan of an
   accepted borrow is there while the title is, a request that was refused or is
   not through left no row, and a turn has both its messages or neither.      *)
THEOREM UnitsAllOrNothing == ASSUME ~SharedConnection PROVE Spec => []AllOrNothing
<1>1. UnitsHold => AllOrNothing
  BY DEF UnitsHold, UnitsInv, Kept
<1>. QED
  BY <1>1, UnitsInvariant, PTL

(* What is durable changes by commits only.                                   *)
LEMMA OnlyCommitsWrite ==
  ASSUME ~SharedConnection, NEW q \in Requests, Serve(q), durable' # durable
  PROVE  Commit(q)
<1>1. \A at, accepts, u, next, memo :
        StatementNoting(q, at, accepts, u, next, memo) => durable' = durable
  BY DEF StatementNoting, Refuse, Rollback
<1>2. \A at, accepts, u, next : Statement(q, at, accepts, u, next) => durable' = durable
  BY <1>1 DEF Statement
<1>3. \A at, next : Close(q, at, next) \/ Raise(q, at) => durable' = durable
  BY DEF Close, Raise, Refuse, Rollback
<1>4. ~Lend(q)
  <2>1. Borrow(q) => durable' = durable
    BY <1>2 DEF Borrow, RequireReader, BorrowLimits, BorrowCopy, BorrowKept, BorrowTitle,
       BorrowInsert, BorrowHonour
  <2>2. Return(q) => durable' = durable
    BY <1>1, <1>2 DEF Return, ReturnCopy, ReturnLoan, ReturnCharge, ReleaseOrHold
  <2>3. Reserve(q) \/ CancelReservation(q) => durable' = durable
    BY <1>2 DEF Reserve, RequireReader, ReserveBook, ReserveOpen, ReserveCounts, ReservePosition,
       CancelReservation, CancelHold, CancelCopy, ReleaseOrHold
  <2>4. PayFine(q) \/ Read(q) => durable' = durable
    BY <1>2 DEF PayFine, PayReader, Read, ReadQuery
  <2>. QED
    BY <2>1, <2>2, <2>3, <2>4 DEF Lend
<1>5. ~Index(q)
  <2>1. IndexText(q) \/ IndexBook(q) \/ IndexCards(q) \/ IndexClear(q) => durable' = durable
    BY <1>1, <1>2 DEF IndexText, IndexBook, IndexCards, IndexClear
  <2>2. FileDoc(q) \/ Embed(q) \/ Raise(q, "embed") \/ StoreChunks(q) => durable' = durable
    BY <1>2, <1>3 DEF FileDoc, Embed, StoreChunks
  <2>3. RequireDoc(q) \/ Reindex(q) \/ DeleteDoc(q) => durable' = durable
    BY <1>2 DEF RequireDoc, Reindex, DeleteDoc
  <2>4. Withdraw(q) => durable' = durable
    BY <1>1, <1>2 DEF Withdraw, DeleteBook, DeleteOut, DeleteDocs, DeleteDocChunks, DeleteTable
  <2>. QED
    BY <2>1, <2>2, <2>3, <2>4 DEF Index
<1>6. ~Converse(q)
  <2>1. CreateSession(q) \/ DeleteSession(q) => durable' = durable
    BY <1>2 DEF CreateSession, DeleteSession, RequireSession
  <2>2. AskHistory(q) \/ Complete(q) \/ Raise(q, "complete") \/ RecordTurn(q)
          => durable' = durable
    BY <1>2, <1>3 DEF AskHistory, RequireSession, Complete, RecordTurn
  <2>3. AskPassages(q) => durable' = durable
    BY <1>1, <1>2, <1>3 DEF AskPassages, EmbedQuery, Hits, HitTitles
  <2>. QED
    BY <2>1, <2>2, <2>3 DEF Converse, Ask
<1>7. Flush(q) \/ FlushFails(q) \/ Victim(q) => durable' = durable
  BY <1>2 DEF Flush, FlushFails, Victim, Refuse, Rollback
<1>. QED
  BY <1>3, <1>4, <1>5, <1>6, <1>7 DEF Serve, Finish

(* No message of a conversation is written once it was deleted, although the
   answer was asked for before (chat/service.py, _record_turn).          *)
THEOREM UnitsStaySilent == ASSUME ~SharedConnection PROVE Spec => DeletedStaysSilent
<1> DEFINE Silent ==
             \A k \in Table(durable', "message") :
               k \notin DOMAIN durable => durable'[k].chat \in DOMAIN durable'
<1>1. UnitsHold /\ [Next]_vars => [Silent]_durable
  <2> SUFFICES ASSUME NEW db0 \in Stores, UnitsInv(db0), [Next]_vars, durable' # durable
               PROVE  Silent
    BY DEF UnitsHold
  <2>1. PICK q \in Requests : Serve(q)
    BY DEF Next, vars
  <2>2. Commit(q)
    BY <2>1, OnlyCommitsWrite
  <2>3. Committed(db0, q)
    BY <2>2, CommitIs
  <2>. QED
    BY <2>3, CommitStaysSilent DEF Table
<1>2. (Spec => []UnitsHold) => (Spec => [][Silent]_durable)
  BY <1>1, PTL DEF Spec
<1>. QED
  BY <1>2, UnitsInvariant DEF DeletedStaysSilent

(* A document that says it is indexed can be found by every part of its text
   while the library has its title (rag/service.py, _embed_into and reindex):
   whatever indexes, reindexes, deletes or withdraws at the same time, and
   whichever unit fails.  It was so in the database as the requests find it, and
   the pieces of a text hold all of it.                                       *)
THEOREM UnitsKeepFindable ==
  ASSUME ~SharedConnection, FoundFiled
  PROVE  Spec => []IndexedIsFindable
<1>1. Init => IndexedIsFindable
  BY DEF Init, FoundFiled, IndexedIsFindable
<1>2. UnitsHold /\ IndexedIsFindable /\ [Next]_vars => IndexedIsFindable'
  <2> SUFFICES ASSUME NEW db0 \in Stores, UnitsInv(db0), Findable(durable), [Next]_vars
               PROVE  Findable(durable')
    BY DEF UnitsHold, IndexedIsFindable, Findable, Table, ChunksOf, Holds, Book
  <2>1. CASE durable' = durable
    BY <2>1
  <2>2. CASE durable' # durable
    <3>1. PICK q \in Requests : Serve(q)
      BY <2>2 DEF Next, vars
    <3>2. Committed(db0, q)
      BY <2>2, <3>1, OnlyCommitsWrite, CommitIs
    <3>. QED
      BY <3>2, CommitKeepsFindable DEF FoundFiled
  <2>. QED
    BY <2>1, <2>2
<1>. QED
  BY <1>1, <1>2, UnitsInvariant, PTL DEF Spec

-----------------------------------------------------------------------------
(* Conversations that are deleted while nobody asks.  Requests that are served
   at one time have met, and a unit that is about to delete a conversation has
   found every message of it.                                                 *)
MetLive == \A p, q \in Requests : p # q /\ Live(p) /\ Live(q) => {p, q} \in met
Hushed(q) ==
  job[q].op = "delete_session" /\ pc[q] = "commit" =>
    MessagesOf(durable, ChatOf(q)) \subseteq unit[q].gone \cup unit[q].sent.del
TalkInv ==
  /\ MetLive
  /\ DeletedInPeace => Spoken(durable) /\ \A q \in Requests : Hushed(q)

(* What every step of a request leaves alone, and that it meets the others when
   it starts.                                                                 *)
Aside(q) ==
  /\ job' = job
  /\ \A p \in Requests :
       p # q => pc'[p] = pc[p] /\ unit'[p] = unit[p] /\ note'[p] = note[p]
  /\ Meet(q) /\ pc[q] \notin Over

LEMMA StepsAside ==
  ASSUME NEW db0, UnitsInv(db0), NEW q \in Requests, Serve(q)
  PROVE  Aside(q)
<1> DEFINE Lending == {"start", "limits", "copy", "kept", "title", "insert", "honour", "loan",
                       "charge", "release", "book", "open", "counts", "position", "keeper",
                       "pass_on"}
           Indexing == {"start", "cards", "clear", "file", "store", "listed", "out", "docs",
                        "doc_chunks", "chunks", "holds", "loans", "copies"}
           Conversing == {"start", "messages", "history", "search", "titles", "turn", "user",
                          "assistant", "commit"}
<1>0. /\ DOMAIN unit = Requests /\ DOMAIN pc = Requests /\ DOMAIN note = Requests
      /\ \A x, f : \A p \in Requests : p # q => [f EXCEPT ![q] = x][p] = f[p]
  BY DEF UnitsInv, Sessions
<1>1. \A at \in Lending \cup Indexing \cup Conversing :
        \A accepts, u, next, memo : StatementNoting(q, at, accepts, u, next, memo) => Aside(q)
  BY <1>0 DEF StatementNoting, Refuse, Rollback, Aside, Over
<1>2. \A at \in Lending \cup Indexing \cup Conversing :
        \A accepts, u, next : Statement(q, at, accepts, u, next) => Aside(q)
  BY <1>1 DEF Statement
<1>3. \A at, next :
        \/ Close(q, at, next) /\ at \in {"heard", "found", "unheard", "close"}
        \/ Raise(q, at) /\ at \in Calls
        => Aside(q)
  BY <1>0 DEF Close, Raise, Refuse, Rollback, Aside, Meet, Over, Calls
<1>4. Lend(q) => Aside(q)
  <2>1. Borrow(q) => Aside(q)
    BY <1>2 DEF Borrow, RequireReader, BorrowLimits, BorrowCopy, BorrowKept, BorrowTitle,
       BorrowInsert, BorrowHonour
  <2>2. Return(q) => Aside(q)
    BY <1>1, <1>2 DEF Return, ReturnCopy, ReturnLoan, ReturnCharge, ReleaseOrHold
  <2>3. Reserve(q) \/ CancelReservation(q) => Aside(q)
    BY <1>2 DEF Reserve, RequireReader, ReserveBook, ReserveOpen, ReserveCounts, ReservePosition,
       CancelReservation, CancelHold, CancelCopy, ReleaseOrHold
  <2>4. PayFine(q) \/ Read(q) => Aside(q)
    BY <1>2 DEF PayFine, PayReader, Read, ReadQuery
  <2>. QED
    BY <2>1, <2>2, <2>3, <2>4 DEF Lend
<1>5. Index(q) => Aside(q)
  <2>1. IndexText(q) \/ IndexBook(q) \/ IndexCards(q) \/ IndexClear(q) => Aside(q)
    BY <1>1, <1>2 DEF IndexText, IndexBook, IndexCards, IndexClear
  <2>2. FileDoc(q) \/ Raise(q, "embed") \/ StoreChunks(q) => Aside(q)
    BY <1>2, <1>3 DEF FileDoc, StoreChunks, Calls
  <2>3. RequireDoc(q) \/ Reindex(q) \/ DeleteDoc(q) => Aside(q)
    BY <1>2 DEF RequireDoc, Reindex, DeleteDoc
  <2>4. Withdraw(q) => Aside(q)
    BY <1>1, <1>2 DEF Withdraw, DeleteBook, DeleteOut, DeleteDocs, DeleteDocChunks, DeleteTable
  <2>5. Embed(q) => Aside(q)
    BY <1>0 DEF Embed, Aside, Meet, Over
  <2>. QED
    BY <2>1, <2>2, <2>3, <2>4, <2>5 DEF Index
<1>6. Converse(q) => Aside(q)
  <2>1. CreateSession(q) \/ DeleteSession(q) => Aside(q)
    BY <1>2 DEF CreateSession, DeleteSession, RequireSession
  <2>2. AskHistory(q) \/ Raise(q, "complete") \/ RecordTurn(q) => Aside(q)
    BY <1>2, <1>3 DEF AskHistory, RequireSession, RecordTurn, Calls
  <2>3. EmbedQuery(q) \/ Complete(q) => Aside(q)
    BY <1>0 DEF EmbedQuery, Complete, Aside, Meet, Over
  <2>4. AskPassages(q) => Aside(q)
    BY <1>1, <1>2, <1>3, <2>3 DEF AskPassages, Hits, HitTitles, Calls
  <2>. QED
    BY <2>1, <2>2, <2>3, <2>4 DEF Converse, Ask
<1>7. Finish(q) => Aside(q)
  <2>1. Flush(q) => Aside(q)
    BY <1>2 DEF Flush
  <2>2. Commit(q) \/ FlushFails(q) \/ Victim(q) => Aside(q)
    BY <1>0 DEF Commit, FlushFails, Victim, Refuse, Rollback, Aside, Meet, Live, Over
  <2>. QED
    BY <1>3, <2>1, <2>2 DEF Finish
<1>. QED
  BY <1>4, <1>5, <1>6, <1>7 DEF Serve

LEMMA MeetingsAreKept ==
  ASSUME NEW q \in Requests, Aside(q), MetLive
  PROVE  MetLive' /\ met \subseteq met' /\ (DeletedInPeace' => DeletedInPeace)
<1>1. met \subseteq met'
  BY DEF Aside, Meet
<1>2. DeletedInPeace' => DeletedInPeace
  BY <1>1 DEF Aside, DeletedInPeace, ChatOf
<1>3. \A p \in Requests : p # q => (Live(p)' <=> Live(p))
  BY DEF Aside, Live
<1>4. ASSUME NEW p \in Requests, p # q, Live(p), Live(q)'
      PROVE  {q, p} \in met'
  <2>1. CASE Live(q)
    BY <1>1, <1>4, <2>1 DEF MetLive
  <2>2. CASE ~Live(q)
    <3>1. Meet(q) /\ pc[q] = "start"
      BY <2>2 DEF Aside, Live
    <3>. QED
      BY <1>4, <3>1 DEF Meet
  <2>. QED
    BY <2>1, <2>2
<1>5. MetLive'
  <2> SUFFICES ASSUME NEW p \in Requests, NEW r \in Requests, p # r, Live(p)', Live(r)'
               PROVE  {p, r} \in met'
    BY DEF MetLive
  <2>1. CASE p = q
    BY <1>3, <1>4, <2>1
  <2>2. CASE r = q
    <3>1. {q, p} \in met' /\ {q, p} = {p, r}
      BY <1>3, <1>4, <2>2
    <3>. QED
      BY <3>1
  <2>3. CASE p # q /\ r # q
    BY <1>1, <1>3, <2>3 DEF MetLive
  <2>. QED
    BY <2>1, <2>2, <2>3
<1>. QED
  BY <1>1, <1>2, <1>5

(* Whoever asks nothing finds every message that is there and that it has not
   deleted.                                                                   *)
LEMMA FindsTheMessages ==
  ASSUME NEW db0, ~SharedConnection, UnitsInv(db0), NEW q \in Requests, job[q].op # "ask",
         NEW s, NEW k \in MessagesOf(durable, s), k \notin unit[q].gone \cup unit[q].sent.del
  PROVE  k \in MessagesOf(Rows(q), s)
<1> DEFINE u == unit[q]
<1>1. k \in DOMAIN durable /\ k[1] = "message" /\ durable[k].chat = s
  BY DEF MessagesOf, Table
<1>2. k \notin Unsent(u) \cup DOMAIN u.sent.put
  BY <1>1, Here DEF Fit, Session, Transaction, Writes
<1>3. \A db, d : k \in DOMAIN db \ d.del /\ k \notin DOMAIN d.put
              => k \in DOMAIN Apply(db, d) /\ Apply(db, d)[k] = db[k]
  BY DEF Apply
<1>4. k \in DOMAIN View(q) /\ View(q)[k] = durable[k]
  BY <1>1, <1>2, <1>3, ViewIs
<1>5. k \in DOMAIN Rows(q) /\ Rows(q)[k] = View(q)[k]
  BY <1>2, <1>3, <1>4, PendingIs DEF Rows
<1>. QED
  BY <1>1, <1>4, <1>5 DEF MessagesOf, Table

(* Where a delete_session is about to commit, it has sent all its deletions, or
   it just found the messages of the conversation.                            *)
Flushes(q) == pc[q] = "commit" /\ unit'[q] = Sent(q)
Hushes(q) ==
  LET said == MessagesOf(Rows(q), ChatOf(q))
  IN ~Stale(q) /\ unit'[q] = Delete(Found(q, said), said \cup {ChatOf(q)})

LEMMA BeforeItCommits ==
  ASSUME NEW db0, UnitsInv(db0), NEW q \in Requests, Serve(q),
         job[q].op = "delete_session", pc'[q] = "commit"
  PROVE  Flushes(q) \/ Hushes(q)
<1>0. /\ \A f, x : (DOMAIN f = Requests) => [f EXCEPT ![q] = x][q] = x
      /\ DOMAIN unit = Requests /\ DOMAIN pc = Requests
  BY DEF UnitsInv, Sessions
<1>1. /\ \A at, accepts, u, next, memo :
           StatementNoting(q, at, accepts, u, next, memo)
           => /\ ~Stale(q) /\ pc[q] = at
              /\ \/ pc'[q] = next /\ unit'[q] = u
                 \/ pc'[q] = "refused"
      /\ \A at : Refuse(q) => pc'[q] = "refused"
      /\ \A at, next : Close(q, at, next) => pc'[q] = next
  BY <1>0 DEF StatementNoting, Refuse, Rollback, Close
<1>2. /\ pc[q] \notin {"cards", "clear", "file", "embed", "store"}
      /\ job[q].op = "delete_session"
  BY Here DEF Path, Files
<1>3. ~Lend(q)
  BY <1>2 DEF Lend, Borrow, Return, Reserve, CancelReservation, PayFine, Read, Asks
<1>4. ~Index(q)
  <2>1. ~IndexText(q) /\ ~IndexBook(q) /\ ~Withdraw(q) /\ ~RequireDoc(q) /\ ~Reindex(q) /\ ~DeleteDoc(q)
    BY <1>2 DEF IndexText, IndexBook, Withdraw, RequireDoc, Reindex, DeleteDoc, Asks
  <2>2. ~IndexCards(q) /\ ~IndexClear(q) /\ ~FileDoc(q) /\ ~StoreChunks(q)
    BY <1>1, <1>2 DEF IndexCards, IndexClear, FileDoc, StoreChunks, Statement
  <2>3. ~Embed(q) /\ ~Raise(q, "embed")
    BY <1>2 DEF Embed, Raise
  <2>. QED
    BY <2>1, <2>2, <2>3 DEF Index
<1>5. Converse(q) => Hushes(q)
  <2>1. ~CreateSession(q) /\ ~Ask(q)
    BY <1>2 DEF CreateSession, Ask, Asks
  <2>2. ~RequireSession(q, "start", "messages")
    BY <1>1 DEF RequireSession, Statement
  <2>. QED
    BY <1>1, <2>1, <2>2 DEF Converse, DeleteSession, Statement, Hushes
<1>6. Finish(q) => Flushes(q)
  <2>1. Flush(q) => Flushes(q)
    BY <1>1 DEF Flush, Statement, Flushes
  <2>2. ~Commit(q) /\ ~Close(q, "close", "ok") /\ ~FlushFails(q) /\ ~Victim(q)
    BY <1>0, <1>1 DEF Commit, FlushFails, Victim
  <2>. QED
    BY <2>1, <2>2 DEF Finish
<1>. QED
  BY <1>3, <1>4, <1>5, <1>6 DEF Serve

LEMMA StaysHushed ==
  ASSUME NEW db0, ~SharedConnection, UnitsInv(db0), NEW q \in Requests, Serve(q), Hushed(q)
  PROVE  Hushed(q)'
<1> SUFFICES ASSUME job'[q].op = "delete_session", pc'[q] = "commit"
             PROVE  (MessagesOf(durable, ChatOf(q)) \subseteq unit[q].gone \cup unit[q].sent.del)'
  BY DEF Hushed
<1>1. job' = job
  BY StepsAside DEF Aside
<1>2. durable' = durable
  <2>1. Commit(q) => pc'[q] = "ok"
    BY DEF Commit, UnitsInv, Sessions
  <2>. QED
    BY <2>1, OnlyCommitsWrite
<1> DEFINE said == MessagesOf(durable, ChatOf(q))
           u == unit[q]
           v == unit'[q]
<1>3. ChatOf(q)' = ChatOf(q) /\ MessagesOf(durable, ChatOf(q))' = said
  BY <1>1, <1>2 DEF ChatOf, MessagesOf, Table
<1>4. said \subseteq v.gone \cup v.sent.del
  <2>1. CASE Flushes(q)
    <3>1. said \subseteq u.gone \cup u.sent.del
      BY <1>1, <2>1 DEF Flushes, Hushed
    <3>2. v.sent.del = u.sent.del \cup u.gone
      BY <2>1, SentIs DEF Flushes
    <3>. QED
      BY <3>1, <3>2
  <2>2. CASE Hushes(q)
    <3> DEFINE found == MessagesOf(Rows(q), ChatOf(q))
    <3>1. v = Delete(Found(q, found), found \cup {ChatOf(q)}) /\ ~Stale(q)
      BY <2>2 DEF Hushes
    <3>2. found \subseteq v.gone /\ v.sent = Sent(q).sent
      BY <3>1 DEF Delete, Found, Load, Sent
    <3>3. v.sent.del = u.sent.del \cup u.gone
      BY <3>2, SentIs
    <3>4. \A k \in said : k \in u.gone \cup u.sent.del \/ k \in found
      BY <1>1, FindsTheMessages
    <3>. QED
      BY <3>2, <3>3, <3>4
  <2>. QED
    BY <1>1, <2>1, <2>2, BeforeItCommits
<1>. QED
  BY <1>3, <1>4

(* A message of a turn is one of the conversation the question was asked in.  *)
LEMMA ChatsStay ==
  ASSUME NEW db0, UnitsInv(db0), NEW q \in Requests, Committed(db0, q),
         NEW x \in Requests, NEW k \in DOMAIN durable', k \in Turn(x)
  PROVE  durable'[k].chat = ChatOf(x)
<1>1. Whole(db0, k, durable'[k])
  BY ApplyWhole DEF UnitsInv, Kept, Committed, Transaction
<1>2. k[1] = "message"
  BY DEF Turn, Said
<1>. QED
  BY <1>1, <1>2 DEF Whole, Part, Sound, Columns

(* A commit: the messages it inserts are those of a conversation that is there,
   and the conversation it deletes, if any, loses all its messages.           *)
LEMMA CommitKeepsSpoken ==
  ASSUME NEW db0, ~SharedConnection, UnitsInv(db0), NEW q \in Requests, Commit(q), Hushed(q),
         Spoken(durable)
  PROVE  Spoken(durable')
<1> DEFINE s == unit[q].sent
<1>1. Committed(db0, q)
  BY CommitIs
<1> SUFFICES ASSUME NEW k \in DOMAIN durable', k[1] = "message"
             PROVE  durable'[k].chat \in DOMAIN durable'
  BY DEF Spoken, Table
<1>2. CASE k \notin DOMAIN durable
  BY <1>1, <1>2, CommitStaysSilent
<1>3. CASE k \in DOMAIN s.put
  <2>1. k \in Turn(q) /\ job[q].op = "ask"
    BY <1>1, <1>3 DEF Committed, Transaction, Writes
  <2>2. durable'[k].chat = ChatOf(q)
    BY <1>1, <2>1, ChatsStay
  <2>. QED
    BY <1>1, <2>1, <2>2 DEF Committed
<1>4. CASE k \in DOMAIN durable /\ k \notin DOMAIN s.put
  <2>1. k \in DOMAIN durable \ s.del /\ durable'[k] = durable[k]
    BY <1>1, <1>4 DEF Committed, Apply
  <2> DEFINE c == durable[k].chat
  <2>2. c \in DOMAIN durable /\ c[1] = "chat"
    <3>1. Whole(db0, k, durable[k])
      BY <1>4 DEF UnitsInv, Kept
    <3>2. c[1] = "chat"
      BY <3>1 DEF Whole, Part, Sound, Columns
    <3>. QED
      BY <1>4, <3>2 DEF Spoken, Table
  <2>3. c \notin s.del
    <3> SUFFICES ASSUME c \in s.del
                 PROVE  FALSE
      OBVIOUS
    <3>1. job[q].op = "delete_session" /\ c = ChatOf(q)
      BY <1>1, <2>2 DEF Committed, Strikes
    <3>2. MessagesOf(durable, c) \subseteq unit[q].gone \cup s.del
      BY <3>1 DEF Hushed, Commit
    <3>3. unit[q].gone = {}
      BY PendingIs DEF Commit, Clean, Nothing
    <3>4. k \in MessagesOf(durable, c)
      BY <1>4 DEF MessagesOf, Table
    <3>. QED
      BY <2>1, <3>2, <3>3, <3>4
  <2>. QED
    BY <1>1, <2>1, <2>2, <2>3 DEF Committed
<1>. QED
  BY <1>2, <1>3, <1>4

(* And whoever is about to delete a conversation still has every message of it:
   nobody who asked in it was served at that time.                            *)
LEMMA CommitKeepsHushed ==
  ASSUME NEW db0, ~SharedConnection, UnitsInv(db0), NEW q \in Requests, Commit(q),
         NEW p \in Requests, p # q, MetLive, DeletedInPeace, Hushed(p),
         job[p].op = "delete_session", pc[p] = "commit"
  PROVE  MessagesOf(durable', ChatOf(p)) \subseteq unit[p].gone \cup unit[p].sent.del
<1> DEFINE s == unit[q].sent
<1>1. Committed(db0, q)
  BY CommitIs
<1> SUFFICES ASSUME NEW k \in DOMAIN durable', k[1] = "message", durable'[k].chat = ChatOf(p)
             PROVE  k \in unit[p].gone \cup unit[p].sent.del
  BY DEF MessagesOf, Table
<1>2. k \notin DOMAIN s.put
  <2> SUFFICES ASSUME k \in DOMAIN s.put
               PROVE  FALSE
    OBVIOUS
  <2>1. k \in Turn(q) /\ job[q].op = "ask"
    BY <1>1 DEF Committed, Transaction, Writes
  <2>2. ChatOf(q) = ChatOf(p)
    BY <1>1, <2>1, ChatsStay
  <2>3. {q, p} \in met
    BY DEF MetLive, Live, Over, Commit
  <2>. QED
    BY <2>1, <2>2, <2>3 DEF DeletedInPeace
<1>3. k \in DOMAIN durable /\ durable'[k] = durable[k]
  BY <1>1, <1>2 DEF Committed, Apply
<1>4. k \in MessagesOf(durable, ChatOf(p))
  BY <1>3 DEF MessagesOf, Table
<1>. QED
  BY <1>4 DEF Hushed

LEMMA TalkStep ==
  ASSUME NEW db0, ~SharedConnection, UnitsInv(db0), NEW q \in Requests, Serve(q), TalkInv
  PROVE  TalkInv'
<1>1. Aside(q) /\ MetLive' /\ (DeletedInPeace' => DeletedInPeace)
  BY StepsAside, MeetingsAreKept DEF TalkInv
<1> SUFFICES ASSUME DeletedInPeace
             PROVE  Spoken(durable') /\ \A p \in Requests : Hushed(p)'
  BY <1>1 DEF TalkInv
<1>2. MetLive /\ Spoken(durable) /\ \A p \in Requests : Hushed(p)
  BY DEF TalkInv
<1>3. Spoken(durable')
  BY <1>2, OnlyCommitsWrite, CommitKeepsSpoken
<1>4. ASSUME NEW p \in Requests, p # q
      PROVE  Hushed(p)'
  <2>1. job' = job /\ pc'[p] = pc[p] /\ unit'[p] = unit[p]
    BY <1>1, <1>4 DEF Aside
  <2>2. CASE durable' = durable
    BY <1>2, <2>1, <2>2 DEF Hushed, MessagesOf, Table, ChatOf
  <2>3. CASE durable' # durable
    <3>1. Commit(q)
      BY <2>3, OnlyCommitsWrite
    <3>2. job[p].op = "delete_session" /\ pc[p] = "commit"
          => MessagesOf(durable', ChatOf(p)) \subseteq unit[p].gone \cup unit[p].sent.del
      BY <1>2, <1>4, <3>1, CommitKeepsHushed
    <3>. QED
      BY <2>1, <3>2 DEF Hushed, MessagesOf, Table, ChatOf
  <2>. QED
    BY <2>2, <2>3
<1>. QED
  BY <1>2, <1>3, <1>4, StaysHushed

(* No message outlives its conversation (chat/service.py, delete_session)
   unless a question in that conversation was being answered when somebody
   deleted it: conversations may otherwise be asked in, deleted twice and
   created at one time, and every call may fail.  It was so in the database as
   the requests find it.                                                      *)
THEOREM UnitsKeepTalk ==
  ASSUME ~SharedConnection, FoundSpoken
  PROVE  Spec => []TalkRacesStayLocal
<1>1. Init => TalkInv
  BY DEF Init, TalkInv, MetLive, Hushed, Live, FoundSpoken, Over
<1>2. UnitsHold /\ TalkInv /\ [Next]_vars => TalkInv'
  <2> SUFFICES ASSUME NEW db0 \in Stores, UnitsInv(db0), TalkInv, [Next]_vars
               PROVE  TalkInv'
    BY DEF UnitsHold
  <2>1. CASE Next
    BY <2>1, TalkStep DEF Next
  <2>2. CASE UNCHANGED vars
    BY <2>2 DEF vars, TalkInv, MetLive, Live, DeletedInPeace, Hushed, ChatOf, Spoken, Table,
       MessagesOf
  <2>. QED
    BY <2>1, <2>2
<1>3. TalkInv => TalkRacesStayLocal
  BY DEF TalkInv, TalkRacesStayLocal
<1>. QED
  BY <1>1, <1>2, <1>3, UnitsInvariant, PTL DEF Spec

-----------------------------------------------------------------------------
(* Documents that are filed and deleted by one request at a time.  The documents
   of a database are in order but for the counts of some of them.             *)
Sorted(db, but) ==
  /\ \A k \in Table(db, "chunk") : db[k].doc \in Table(db, "doc")
  /\ \A d \in Table(db, "doc") \ but : db[d].chunks = Cardinality(ChunksOf(db, d))
  /\ \A d, e \in Cards(db) : d = e
  /\ Table(db, "doc") # {} => Book \in DOMAIN db

(* The rows db2 are those of db without the rows ks.                          *)
Less(db, db2, ks) ==
  DOMAIN db2 = DOMAIN db \ ks /\ \A k \in DOMAIN db2 : db2[k] = db[k]
(* They are the same but for the row k.                                       *)
Else(db, db2, k) ==
  DOMAIN db2 = DOMAIN db \cup {k} /\ \A x \in DOMAIN db : x # k => db2[x] = db[x]
SameShelf(db, db2) ==
  \A k : k[1] \in Shelf =>
    /\ k \in DOMAIN db <=> k \in DOMAIN db2
    /\ k \in DOMAIN db => db2[k] = db[k]

LEMMA ShelfIs ==
  ASSUME NEW db, NEW db2, SameShelf(db, db2)
  PROVE  /\ Table(db2, "doc") = Table(db, "doc") /\ Table(db2, "chunk") = Table(db, "chunk")
         /\ \A d : ChunksOf(db2, d) = ChunksOf(db, d)
         /\ Cards(db2) = Cards(db) /\ (Book \in DOMAIN db2 <=> Book \in DOMAIN db)
         /\ \A but : Sorted(db, but) => Sorted(db2, but)
<1>1. /\ Table(db2, "doc") = Table(db, "doc") /\ Table(db2, "chunk") = Table(db, "chunk")
      /\ \A k \in Table(db, "doc") \cup Table(db, "chunk") : db2[k] = db[k]
      /\ Book \in DOMAIN db2 <=> Book \in DOMAIN db
  BY DEF SameShelf, Shelf, Table, Book
<1>2. /\ \A d : ChunksOf(db2, d) = ChunksOf(db, d)
      /\ Cards(db2) = Cards(db)
  BY <1>1 DEF ChunksOf, Cards
<1>3. \A but : Sorted(db, but) => Sorted(db2, but)
  <2> SUFFICES ASSUME NEW but, Sorted(db, but)
               PROVE  Sorted(db2, but)
    OBVIOUS
  <2>1. \A d \in Table(db2, "doc") \ but : db2[d].chunks = Cardinality(ChunksOf(db2, d))
    BY <1>1, <1>2 DEF Sorted
  <2>. QED
    BY <1>1, <1>2, <2>1 DEF Sorted
<1>. QED
  BY <1>1, <1>2, <1>3

(* A document goes with its chunks.                                           *)
LEMMA SortedDrop ==
  ASSUME NEW db, NEW db2, Sorted(db, {}), NEW d, d[1] = "doc",
         Less(db, db2, ChunksOf(db, d) \cup {d})
  PROVE  /\ Sorted(db2, {}) /\ Table(db2, "doc") = Table(db, "doc") \ {d}
         /\ Cards(db2) = Cards(db) \ {d} /\ (Book \in DOMAIN db => Book \in DOMAIN db2)
<1>1. Table(db2, "doc") = Table(db, "doc") \ {d}
  BY DEF Less, Table, ChunksOf
<1>2. Table(db2, "chunk") = Table(db, "chunk") \ ChunksOf(db, d)
  BY DEF Less, Table, ChunksOf
<1>3. \A k \in DOMAIN db2 : db2[k] = db[k]
  BY DEF Less
<1>4. Cards(db2) = Cards(db) \ {d}
  BY <1>1, <1>3 DEF Cards, Table
<1>5. \A k \in Table(db2, "chunk") : db2[k].doc \in Table(db2, "doc")
  BY <1>1, <1>2, <1>3 DEF Sorted, ChunksOf, Table
<1>6. \A e \in Table(db2, "doc") : ChunksOf(db2, e) = ChunksOf(db, e)
  BY <1>1, <1>2, <1>3 DEF ChunksOf, Table
<1>7. \A e \in Table(db2, "doc") : db2[e].chunks = Cardinality(ChunksOf(db2, e))
  BY <1>1, <1>3, <1>6 DEF Sorted, Table
<1>8. Book \in DOMAIN db => Book \in DOMAIN db2
  BY DEF Less, Book, ChunksOf, Table
<1>. QED
  BY <1>1, <1>4, <1>5, <1>7, <1>8 DEF Sorted

(* A document loses its chunks.                                               *)
LEMMA SortedStrip ==
  ASSUME NEW db, NEW db2, Sorted(db, {}), NEW d \in Table(db, "doc"),
         Less(db, db2, ChunksOf(db, d))
  PROVE  /\ Sorted(db2, {d}) /\ ChunksOf(db2, d) = {} /\ d \in Table(db2, "doc")
         /\ db2[d] = db[d]
<1>1. Table(db2, "doc") = Table(db, "doc")
  BY DEF Less, Table, ChunksOf
<1>2. Table(db2, "chunk") = Table(db, "chunk") \ ChunksOf(db, d)
  BY DEF Less, Table, ChunksOf
<1>3. \A k \in DOMAIN db2 : db2[k] = db[k]
  BY DEF Less
<1>4. Cards(db2) = Cards(db)
  BY <1>1, <1>3 DEF Cards, Table
<1>5. \A k \in Table(db2, "chunk") : db2[k].doc \in Table(db2, "doc")
  BY <1>1, <1>2, <1>3 DEF Sorted, Table
<1>6. /\ \A e \in Table(db2, "doc") : e # d => ChunksOf(db2, e) = ChunksOf(db, e)
      /\ ChunksOf(db2, d) = {}
  BY <1>1, <1>2, <1>3 DEF ChunksOf, Table
<1>7. \A e \in Table(db2, "doc") \ {d} : db2[e].chunks = Cardinality(ChunksOf(db2, e))
  BY <1>1, <1>3, <1>6 DEF Sorted, Table
<1>8. Book \in DOMAIN db => Book \in DOMAIN db2
  BY DEF Less, Book, ChunksOf, Table
<1>. QED
  BY <1>1, <1>3, <1>4, <1>5, <1>6, <1>7, <1>8 DEF Sorted, Table

(* A new document, as yet without chunks.                                     *)
LEMMA SortedAdd ==
  ASSUME NEW db, NEW db2, Sorted(db, {}), NEW d, d[1] = "doc", d \notin DOMAIN db,
         Else(db, db2, d), Book \in DOMAIN db,
         db2[d].chunks = 0, db2[d].source # "catalog" \/ Cards(db) = {}
  PROVE  Sorted(db2, {}) /\ ChunksOf(db2, d) = {}
<1>1. Table(db2, "doc") = Table(db, "doc") \cup {d} /\ Table(db2, "chunk") = Table(db, "chunk")
  BY DEF Else, Table
<1>2. \A k \in DOMAIN db : db2[k] = db[k]
  BY DEF Else
<1>3. \A x, y \in Cards(db2) : x = y
  BY <1>1, <1>2 DEF Cards, Sorted, Table
<1>4. \A e : e # d => ChunksOf(db2, e) = ChunksOf(db, e)
  BY <1>1, <1>2 DEF ChunksOf, Table
<1>5. ChunksOf(db2, d) = {}
  BY <1>1, <1>2 DEF ChunksOf, Sorted, Table
<1>6. \A e \in Table(db2, "doc") : db2[e].chunks = Cardinality(ChunksOf(db2, e))
  BY <1>1, <1>2, <1>4, <1>5, FS_EmptySet DEF Sorted, Table
<1>7. \A k \in Table(db2, "chunk") : db2[k].doc \in Table(db2, "doc")
  BY <1>1, <1>2 DEF Sorted, Table
<1>. QED
  BY <1>3, <1>5, <1>6, <1>7 DEF Else, Sorted

(* A document gets its chunks, and then their number.                         *)
Filled(db, db2, d, ks) ==
  /\ DOMAIN db2 = DOMAIN db \cup ks /\ \A k \in DOMAIN db : k \notin ks /\ db2[k] = db[k]
  /\ \A k \in ks : k[1] = "chunk" /\ db2[k].doc = d

LEMMA SortedFill ==
  ASSUME NEW db, NEW db2, NEW d \in Table(db, "doc"), Sorted(db, {d}), ChunksOf(db, d) = {},
         NEW ks, Filled(db, db2, d, ks)
  PROVE  Sorted(db2, {d}) /\ ChunksOf(db2, d) = ks /\ db2[d] = db[d]
<1>0. /\ DOMAIN db2 = DOMAIN db \cup ks /\ \A k \in DOMAIN db : k \notin ks /\ db2[k] = db[k]
      /\ \A k \in ks : k[1] = "chunk" /\ db2[k].doc = d
  BY DEF Filled
<1>1. Table(db2, "doc") = Table(db, "doc") /\ Table(db2, "chunk") = Table(db, "chunk") \cup ks
  BY <1>0 DEF Table
<1>2. Cards(db2) = Cards(db)
  BY <1>0, <1>1 DEF Cards, Table
<1>3. /\ \A e : e # d => ChunksOf(db2, e) = ChunksOf(db, e)
      /\ ChunksOf(db2, d) = ks
  BY <1>0, <1>1 DEF ChunksOf, Table
<1>4. \A e \in Table(db2, "doc") \ {d} : db2[e].chunks = Cardinality(ChunksOf(db2, e))
  BY <1>0, <1>1, <1>3 DEF Sorted, Table
<1>5. \A k \in Table(db2, "chunk") : db2[k].doc \in Table(db2, "doc")
  BY <1>0, <1>1 DEF Sorted, Table
<1>. QED
  BY <1>0, <1>1, <1>2, <1>3, <1>4, <1>5 DEF Sorted, Table

LEMMA SortedCount ==
  ASSUME NEW db, NEW db2, NEW d \in Table(db, "doc"), Sorted(db, {d}), Else(db, db2, d),
         db2[d].source = db[d].source, db2[d].chunks = Cardinality(ChunksOf(db, d))
  PROVE  Sorted(db2, {})
<1>1. DOMAIN db2 = DOMAIN db /\ \A k \in DOMAIN db : k # d => db2[k] = db[k]
  BY DEF Else, Table
<1>2. Table(db2, "doc") = Table(db, "doc") /\ Table(db2, "chunk") = Table(db, "chunk")
  BY <1>1 DEF Table
<1>3. Cards(db2) = Cards(db)
  BY <1>1, <1>2 DEF Cards, Table
<1>4. \A k \in Table(db2, "chunk") : db2[k] = db[k]
  BY <1>1, <1>2 DEF Table
<1>5. \A e : ChunksOf(db2, e) = ChunksOf(db, e)
  BY <1>2, <1>4 DEF ChunksOf
<1>6. \A e \in Table(db2, "doc") : db2[e].chunks = Cardinality(ChunksOf(db2, e))
  BY <1>1, <1>2, <1>5 DEF Sorted, Table
<1>. QED
  BY <1>1, <1>2, <1>3, <1>4, <1>6 DEF Sorted

LEMMA SortedMore ==
  ASSUME NEW db, Sorted(db, {})
  PROVE  (\A but : Sorted(db, but)) /\ InOrder(db)
BY DEF Sorted, InOrder

-----------------------------------------------------------------------------
(* What a request sees after a statement: what it saw before, with what its
   method then did to the session.                                            *)
LEMMA FollowedIs ==
  ASSUME NEW db, NEW d, NEW e,
         \A k \in DOMAIN e.put : k \in DOMAIN db /\ k \in d.del => k \in DOMAIN d.put
  PROVE  Apply(db, Followed(d, e)) = Apply(Apply(db, d), e)
<1> DEFINE f == Followed(d, e)
           left == Apply(db, f)
           mid == Apply(db, d)
           right == Apply(mid, e)
<1>1. f.put = Apply(d.put, e) /\ f.del = d.del \cup e.del
  BY DEF Followed
<1>2. /\ DOMAIN f.put = DOMAIN e.put \cup (DOMAIN d.put \ e.del)
      /\ \A k \in DOMAIN f.put :
           f.put[k] = IF k \notin DOMAIN e.put THEN d.put[k]
                      ELSE IF k \in DOMAIN d.put THEN Upon(e.put[k], d.put[k])
                      ELSE e.put[k]
  BY <1>1 DEF Apply
<1>3. /\ DOMAIN mid = DOMAIN d.put \cup (DOMAIN db \ d.del)
      /\ \A k \in DOMAIN mid :
           mid[k] = IF k \notin DOMAIN d.put THEN db[k]
                    ELSE IF k \in DOMAIN db THEN Upon(d.put[k], db[k])
                    ELSE d.put[k]
  BY DEF Apply
<1>4. left = [k \in DOMAIN f.put \cup (DOMAIN db \ f.del) |->
                IF k \notin DOMAIN f.put THEN db[k]
                ELSE IF k \in DOMAIN db THEN Upon(f.put[k], db[k]) ELSE f.put[k]]
  BY DEF Apply
<1>5. right = [k \in DOMAIN e.put \cup (DOMAIN mid \ e.del) |->
                 IF k \notin DOMAIN e.put THEN mid[k]
                 ELSE IF k \in DOMAIN mid THEN Upon(e.put[k], mid[k]) ELSE e.put[k]]
  BY DEF Apply
<1> HIDE DEF f, left, mid, right
<1>6. DOMAIN f.put \cup (DOMAIN db \ f.del) = DOMAIN e.put \cup (DOMAIN mid \ e.del)
  BY <1>1, <1>2, <1>3
<1>7. \A x, y, z : Upon(x, Upon(y, z)) = Upon(Upon(x, y), z)
  BY DEF Upon
<1>8. ASSUME NEW k \in DOMAIN e.put \cup (DOMAIN mid \ e.del)
      PROVE  left[k] = right[k]
  <2>1. /\ left[k] = IF k \notin DOMAIN f.put THEN db[k]
                     ELSE IF k \in DOMAIN db THEN Upon(f.put[k], db[k]) ELSE f.put[k]
        /\ right[k] = IF k \notin DOMAIN e.put THEN mid[k]
                      ELSE IF k \in DOMAIN mid THEN Upon(e.put[k], mid[k]) ELSE e.put[k]
    BY <1>4, <1>5, <1>6
  <2>2. CASE k \notin DOMAIN e.put
    BY <1>2, <1>3, <2>1, <2>2
  <2>3. CASE k \in DOMAIN e.put /\ k \in DOMAIN d.put
    BY <1>2, <1>3, <1>7, <2>1, <2>3
  <2>4. CASE k \in DOMAIN e.put /\ k \notin DOMAIN d.put
    BY <1>2, <1>3, <2>1, <2>4
  <2>. QED
    BY <2>2, <2>3, <2>4
<1>. QED
  BY <1>4, <1>5, <1>6, <1>8 DEF f, left, mid, right

LEMMA SentRows ==
  ASSUME NEW db0, ~SharedConnection, UnitsInv(db0), NEW q \in Requests, ~Stale(q),
         pc[q] \notin {"ok", "close"}
  PROVE  Apply(durable, Sent(q).sent) = Rows(q)
<1> DEFINE u == unit[q]
           d == u.sent
           e == Pending(u)
<1>1. Sent(q).sent = Followed(d, e)
  BY DEF Sent
<1>2. Session(db0, q, u)
  BY Here DEF Fit
<1>3. ASSUME NEW k \in DOMAIN e.put, k \in DOMAIN durable, k \in d.del
      PROVE  k \in DOMAIN d.put
  <2>1. k \in Unsent(u) /\ k \in DOMAIN u.obj
    BY PendingIs DEF Unsent
  <2>2. CASE k \in DOMAIN u.base
    <3>1. k \in DOMAIN View(q)
      BY <2>1, <2>2 DEF Stale
    <3>2. View(q) = Apply(durable, d)
      BY ViewIs
    <3>. QED
      BY <1>3, <3>1, <3>2 DEF Apply
  <2>3. CASE k \notin DOMAIN u.base
    <3>1. Mine(k, q)
      BY <1>2, <2>1, <2>3 DEF Session
    <3>2. Own(durable, q) = {}
      BY DEF UnitsInv, Kept, AllOrNothing
    <3>. QED
      BY <1>3, <3>1, <3>2 DEF Own, Mine
  <2>. QED
    BY <2>2, <2>3
<1>4. View(q) = Apply(durable, d)
  BY ViewIs
<1> HIDE DEF u, d, e
<1>5. Apply(durable, Followed(d, e)) = Apply(Apply(durable, d), e)
  BY <1>3, FollowedIs
<1>. QED
  BY <1>1, <1>4, <1>5 DEF Rows, u, d, e

(* The method goes on with the session u.                                     *)
GoesOn(q, u, next, memo) ==
  /\ unit'[q] = u /\ pc'[q] = next /\ note'[q] = memo
  /\ job' = job /\ durable' = durable

LEMMA AcceptedGoesOn ==
  ASSUME NEW db0, UnitsInv(db0), NEW q \in Requests, NEW at, NEW accepts, NEW u, NEW next, NEW memo,
         StatementNoting(q, at, accepts, u, next, memo)
  PROVE  pc'[q] = "refused" \/ (accepts /\ GoesOn(q, u, next, memo))
<1>1. DOMAIN unit = Requests /\ DOMAIN pc = Requests /\ DOMAIN note = Requests
  BY DEF UnitsInv, Sessions
<1>2. \A f, x : DOMAIN f = Requests => [f EXCEPT ![q] = x][q] = x
  OBVIOUS
<1>3. CASE accepts
  <2>1. /\ unit' = [unit EXCEPT ![q] = u] /\ pc' = [pc EXCEPT ![q] = next]
        /\ note' = [note EXCEPT ![q] = memo] /\ job' = job /\ durable' = durable
    BY <1>3 DEF StatementNoting
  <2>. QED
    BY <1>1, <1>2, <1>3, <2>1 DEF GoesOn
<1>4. CASE ~accepts
  BY <1>1, <1>2, <1>4 DEF StatementNoting, Refuse
<1>. QED
  BY <1>3, <1>4

LEMMA RowsThen ==
  ASSUME NEW db0, ~SharedConnection, UnitsInv(db0), NEW q \in Requests, ~Stale(q),
         pc[q] \notin {"ok", "close"}, NEW u, NEW next, NEW memo,
         GoesOn(q, u, next, memo), u.sent = Sent(q).sent
  PROVE  View(q)' = Rows(q) /\ Rows(q)' = Apply(Rows(q), Pending(u))
<1>1. View(q)' = Apply(durable, u.sent)
  BY DEF GoesOn, View
<1>2. View(q)' = Rows(q)
  BY <1>1, SentRows
<1>3. Pending(unit[q])' = Pending(u)
  BY DEF GoesOn, Pending, Unsent, Difference
<1>. QED
  BY <1>2, <1>3 DEF Rows, Apply

(* What the changes of a session make of the rows.                            *)
LEMMA QuietRows ==
  ASSUME NEW rows, NEW u, Unsent(u) = {}
  PROVE  Less(rows, Apply(rows, Pending(u)), u.gone)
<1> DEFINE e == Pending(u)
           rows2 == Apply(rows, e)
<1>1. DOMAIN e.put = {} /\ e.del = u.gone
  BY PendingIs
<1> HIDE DEF e
<1>2. DOMAIN rows2 = DOMAIN rows \ u.gone /\ \A k \in DOMAIN rows \ u.gone : rows2[k] = rows[k]
  BY <1>1 DEF Apply
<1>. QED
  BY <1>2 DEF Less, e

LEMMA OneRow ==
  ASSUME NEW rows, NEW u, NEW v, NEW k, Unsent(u) = {}, Unsent(v) = {k}, v.gone = u.gone
  PROVE  LET rows2 == Apply(rows, Pending(u))
             rows3 == Apply(rows, Pending(v))
         IN /\ k \notin u.gone => Else(rows2, rows3, k)
            /\ rows3[k] = IF k \in DOMAIN rows THEN Upon(Difference(v, k), rows[k])
                          ELSE Difference(v, k)
<1> DEFINE e == Pending(v)
           rows2 == Apply(rows, Pending(u))
           rows3 == Apply(rows, e)
<1>1. Less(rows, rows2, u.gone)
  BY QuietRows
<1>2. DOMAIN e.put = {k} /\ e.del = u.gone /\ e.put[k] = Difference(v, k)
  BY PendingIs
<1> HIDE DEF e, rows2
<1>3. /\ DOMAIN rows3 = {k} \cup (DOMAIN rows \ u.gone)
      /\ \A x \in DOMAIN rows \ u.gone : x # k => rows3[x] = rows[x]
      /\ rows3[k] = IF k \in DOMAIN rows THEN Upon(e.put[k], rows[k]) ELSE e.put[k]
  BY <1>2 DEF Apply
<1>. QED
  BY <1>1, <1>2, <1>3 DEF Less, Else, e, rows2

LEMMA AddIs ==
  ASSUME NEW db0, NEW q, NEW u, Session(db0, q, u), Unsent(u) = {}, NEW k, NEW row,
         k \notin DOMAIN u.obj
  PROVE  LET v == Add(u, k, row)
         IN /\ Unsent(v) = {k} /\ Difference(v, k) = row /\ v.obj[k] = row /\ v.gone = u.gone
            /\ v.sent = u.sent /\ k \notin u.gone /\ k \notin DOMAIN v.base
<1> DEFINE v == Add(u, k, row)
           rows == [x \in {k} |-> row]
<1>1. v = [u EXCEPT !.obj = Upon(rows, @)]
  BY DEF Add
<1>2. DOMAIN rows = {k} /\ rows[k] = row
  OBVIOUS
<1> HIDE DEF v, rows
<1>3. /\ v.obj = Upon(rows, u.obj)
      /\ v.base = u.base /\ v.touched = u.touched /\ v.gone = u.gone /\ v.sent = u.sent
  BY <1>1 DEF Session
<1>4. /\ DOMAIN v.obj = DOMAIN u.obj \cup {k} /\ v.obj[k] = row
      /\ \A x \in DOMAIN u.obj : v.obj[x] = u.obj[x]
  BY <1>2, <1>3 DEF Upon
<1>5. k \notin DOMAIN v.base /\ k \notin v.gone /\ k \notin DOMAIN u.base
  BY <1>3 DEF Session
<1>6. Unsent(v) = {k}
  BY <1>3, <1>4, <1>5 DEF Unsent
<1>7. Difference(v, k) = row
  BY <1>4, <1>5 DEF Difference
<1>. QED
  BY <1>3, <1>4, <1>5, <1>6, <1>7 DEF v

(* The count of a described document is the new one, also where the session has
   loaded that very count and does not send it.                               *)
LEMMA DescribedIs ==
  ASSUME NEW db0, NEW q, NEW u, Session(db0, q, u), Unsent(u) = {}, Target(q) \in Held(u),
         Target(q)[1] = "doc", NEW status, NEW n
  PROVE  LET v == Described(u, q, status, n)
         IN /\ Unsent(v) = {Target(q)} /\ v.gone = u.gone /\ v.sent = u.sent /\ v.base = u.base
            /\ \A row : /\ {"chunks", "source"} \subseteq DOMAIN row
                        /\ row.chunks = u.obj[Target(q)].chunks
                        => /\ Upon(Difference(v, Target(q)), row).chunks = n
                           /\ Upon(Difference(v, Target(q)), row).source = row.source
<1> DEFINE k == Target(q)
           columns == [status |-> status, chunks |-> n]
           v == Described(u, q, status, n)
<1>1. v = [[u EXCEPT !.obj[k] = Upon(columns, @)] EXCEPT !.touched = @ \cup {k}]
  BY DEF Described, Touch, Assign
<1>2. DOMAIN columns = {"status", "chunks"} /\ columns["chunks"] = n
  OBVIOUS
<1>3. k \in DOMAIN u.obj /\ k \notin u.gone /\ k[1] = "doc"
  BY DEF Held
<1> HIDE DEF v, columns, k
<1>4. /\ v.obj = [u.obj EXCEPT ![k] = Upon(columns, @)] /\ v.touched = u.touched \cup {k}
      /\ v.base = u.base /\ v.gone = u.gone /\ v.sent = u.sent
  BY <1>1 DEF Session
<1>5. /\ DOMAIN v.obj = DOMAIN u.obj /\ v.obj[k] = Upon(columns, u.obj[k])
      /\ \A x \in DOMAIN u.obj : x # k => v.obj[x] = u.obj[x]
  BY <1>3, <1>4
<1>6. Unsent(v) = {k}
  BY <1>3, <1>4, <1>5 DEF Unsent
<1>7. k \in DOMAIN v.base /\ v.base[k] = u.obj[k]
  BY <1>3, <1>4 DEF Unsent
<1>8. {"chunks", "source"} \subseteq DOMAIN u.obj[k]
  BY <1>3 DEF Session, Whole, Columns
<1>9. /\ v.obj[k]["chunks"] = n /\ v.obj[k]["source"] = u.obj[k]["source"]
      /\ {"chunks", "source"} \subseteq DOMAIN v.obj[k]
  BY <1>2, <1>5, <1>8 DEF Upon
<1> DEFINE diff == Difference(v, k)
<1>10. diff = [f \in {g \in DOMAIN v.obj[k] : v.obj[k][g] # v.base[k][g]} |-> v.obj[k][f]]
  BY <1>7 DEF Difference
<1> HIDE DEF diff
<1>11. /\ "source" \notin DOMAIN diff
       /\ n # u.obj[k]["chunks"] => "chunks" \in DOMAIN diff /\ diff["chunks"] = n
       /\ n = u.obj[k]["chunks"] => "chunks" \notin DOMAIN diff
  BY <1>7, <1>9, <1>10
<1>12. ASSUME NEW row, {"chunks", "source"} \subseteq DOMAIN row,
              row["chunks"] = u.obj[k]["chunks"]
       PROVE  Upon(diff, row)["chunks"] = n /\ Upon(diff, row)["source"] = row["source"]
  BY <1>11, <1>12 DEF Upon
<1>. QED
  BY <1>4, <1>6, <1>12 DEF v, k, diff

-----------------------------------------------------------------------------
(* Where a request that files or deletes documents stands while no other does.
   What it sees is in order but for the count of a document whose chunks it is
   about to write.                                                            *)
Standing(q, u, rows, at, memo) ==
  LET d == Target(q)
  IN /\ Sorted(rows, IF at \in {"embed", "store"} THEN {d} ELSE {})
     /\ Files(q) /\ at \in {"file", "listed", "embed", "store"} =>
          d \in Table(rows, "doc") /\ u.obj[d].chunks = rows[d].chunks
     /\ at \in {"file", "embed"} => ChunksOf(rows, d) = {}
     /\ at = "store" => ChunksOf(rows, d) = {MyChunk(q, i) : i \in DOMAIN Pieces(u, q)}
     /\ at \in {"cards", "clear"} =>
          Book \in DOMAIN rows /\ MyDoc(q) \notin DOMAIN rows \cup DOMAIN u.obj
     /\ at = "clear" => memo = Cards(rows)
     /\ at = "doc_chunks" => memo = Table(rows, "doc")
     /\ at \in {"chunks", "holds", "loans", "copies"} => Table(rows, "doc") = {}
Underway(q) == Standing(q, unit[q], Rows(q), pc[q], note[q])

(* A request that goes on, or is refused.                                     *)
Proceeds(q) == pc'[q] = "refused" \/ Underway(q)'

LEMMA StandsThen ==
  ASSUME NEW db0, ~SharedConnection, UnitsInv(db0), NEW q \in Requests, Underway(q),
         pc[q] \notin {"ok", "close"} /\ ~Stale(q), NEW u, NEW next, NEW memo,
         GoesOn(q, u, next, memo), u.sent = Sent(q).sent,
         Standing(q, u, Apply(Rows(q), Pending(u)), next, memo)
  PROVE  Underway(q)'
<1>2. View(q)' = Rows(q) /\ Rows(q)' = Apply(Rows(q), Pending(u))
  BY RowsThen
<1>3. unit'[q] = u /\ pc'[q] = next /\ note'[q] = memo /\ job' = job
  BY DEF GoesOn
<1>5. Standing(q, unit[q], Rows(q), pc[q], note[q])'
  <2>1. Target(q)' = Target(q) /\ Files(q)' = Files(q)
    BY <1>3 DEF Target, DocOf, MyDoc, Files
  <2> DEFINE rows2 == Apply(Rows(q), Pending(u))
  <2>2. Standing(q, u, rows2, next, memo)
    OBVIOUS
  <2>3. Rows(q)' = rows2
    BY <1>2
  <2> HIDE DEF rows2
  <2>. QED
    BY <1>3, <2>1, <2>2, <2>3
       DEF Standing, Sorted, Cards, Table, ChunksOf, MyChunk, Pieces, Book, MyDoc
<1>. QED
  BY <1>5 DEF Underway

LEMMA SameRows ==
  ASSUME NEW q, NEW u, Unsent(u) = {}, u.gone = {}
  PROVE  Apply(Rows(q), Pending(u)) = Rows(q)
<1> DEFINE rows == Rows(q)
           rows2 == Apply(rows, Pending(u))
<1>1. Less(rows, rows2, {})
  BY QuietRows
<1>2. rows = [k \in DOMAIN rows |-> rows[k]]
  BY DEF Rows, Apply
<1>3. rows2 = [k \in DOMAIN rows2 |-> rows2[k]]
  BY DEF Apply
<1> HIDE DEF rows, rows2
<1>. QED
  BY <1>1, <1>2, <1>3 DEF Less, rows, rows2

(* A query that leaves the rows as they are.                                  *)
LEMMA FreshProceeds ==
  ASSUME NEW db0, ~SharedConnection, UnitsInv(db0), NEW q \in Requests, Underway(q),
         pc[q] \notin {"ok", "close"} /\ ~Stale(q), NEW u, NEW ks, NEW next, NEW memo,
         Fresh(db0, q, u, ks), GoesOn(q, u, next, memo),
         Standing(q, u, Rows(q), next, memo)
  PROVE  Underway(q)'
<1>1. u.sent = Sent(q).sent /\ Unsent(u) = {} /\ u.gone = {}
  BY DEF Fresh
<1>2. Apply(Rows(q), Pending(u)) = Rows(q)
  BY <1>1, SameRows
<1>. QED
  BY <1>1, <1>2, StandsThen

(* A session with nothing to send but deletions.                              *)
Idle(db0, q, u) == Session(db0, q, u) /\ Unsent(u) = {} /\ u.sent = Sent(q).sent

LEMMA FreshIdle ==
  ASSUME NEW db0, NEW q, NEW u, NEW ks, Fresh(db0, q, u, ks)
  PROVE  Idle(db0, q, u) /\ u.gone = {}
BY DEF Fresh, Fit, Idle

LEMMA DeleteIdle ==
  ASSUME NEW db0, NEW q, NEW u, Idle(db0, q, u), u.gone = {}, NEW ks, ks \subseteq DOMAIN u.obj
  PROVE  /\ Idle(db0, q, Delete(u, ks))
         /\ Delete(u, ks).gone = ks /\ Delete(u, ks).obj = u.obj
<1> DEFINE v == Delete(u, ks)
<1>1. v = [u EXCEPT !.gone = @ \cup ks] /\ Session(db0, q, u) /\ Unsent(u) = {}
  BY DEF Delete, Idle
<1> HIDE DEF v
<1>2. /\ v = [base |-> v.base, obj |-> v.obj, touched |-> v.touched, gone |-> v.gone,
              sent |-> v.sent]
      /\ v.gone = ks
      /\ v.base = u.base /\ v.obj = u.obj /\ v.touched = u.touched /\ v.sent = u.sent
  BY <1>1 DEF Session
<1>3. Unsent(v) = {}
  BY <1>1, <1>2 DEF Unsent
<1>4. Session(db0, q, v)
  BY <1>1, <1>2, <1>3 DEF Session
<1>. QED
  BY <1>2, <1>3, <1>4 DEF v, Idle

(* A new document is added to rows that are in order.                         *)
LEMMA FiledAnew ==
  ASSUME NEW db0, ~SharedConnection, UnitsInv(db0), NEW q \in Requests, Underway(q),
         pc[q] \notin {"ok", "close"} /\ ~Stale(q), NEW w, Idle(db0, q, w), NEW rows,
         rows = Apply(Rows(q), Pending(w)), Sorted(rows, {}), Book \in DOMAIN rows,
         MyDoc(q) \notin DOMAIN Rows(q) \cup DOMAIN w.obj,
         job[q].op \in {"index_text", "index_book"}, NEW source, NEW text,
         source # "catalog" \/ Cards(rows) = {},
         NEW memo, GoesOn(q, WithDoc(w, q, source, text), "file", memo)
  PROVE  Underway(q)'
<1> DEFINE k == MyDoc(q)
           row == [source |-> source, text |-> text, status |-> "pending", chunks |-> 0]
           v == Add(w, k, row)
           rows2 == Apply(Rows(q), Pending(v))
<1>1. GoesOn(q, v, "file", memo) /\ row.chunks = 0 /\ row.source = source
  BY DEF WithDoc
<1>2. k[1] = "doc" /\ Target(q) = k /\ k \notin DOMAIN Rows(q) /\ k \notin DOMAIN w.obj
  BY DEF MyDoc, Target
<1> HIDE DEF k, row
<1>3. Session(db0, q, w) /\ Unsent(w) = {}
  BY DEF Idle
<1>4. /\ Unsent(v) = {k} /\ Difference(v, k) = row /\ v.obj[k] = row /\ v.gone = w.gone
      /\ v.sent = w.sent /\ k \notin w.gone /\ k \notin DOMAIN v.base
  BY <1>2, <1>3, AddIs
<1> HIDE DEF v
<1>5. Else(rows, rows2, k) /\ rows2[k] = row
  <2> DEFINE all == Rows(q)
  <2>1. rows = Apply(all, Pending(w))
    OBVIOUS
  <2> HIDE DEF all
  <2>2. /\ k \notin w.gone => Else(rows, rows2, k)
        /\ rows2[k] = IF k \in DOMAIN all THEN Upon(Difference(v, k), all[k])
                      ELSE Difference(v, k)
    BY <1>3, <1>4, <2>1, OneRow DEF all
  <2>. QED
    BY <1>2, <1>4, <2>2 DEF all
<1>6. k \notin DOMAIN rows
  <2>1. Less(Rows(q), rows, w.gone)
    BY <1>3, QuietRows
  <2>. QED
    BY <1>2, <2>1 DEF Less
<1>7. Sorted(rows2, {}) /\ ChunksOf(rows2, k) = {}
  <2>1. rows2[k].chunks = 0 /\ (rows2[k].source # "catalog" \/ Cards(rows) = {})
    BY <1>1, <1>5
  <2> HIDE DEF rows2
  <2>. QED
    BY <1>2, <1>5, <1>6, <2>1, SortedAdd
<1>8. k \in Table(rows2, "doc")
  BY <1>2, <1>5 DEF Else, Table
<1>9. Standing(q, v, rows2, "file", memo)
  BY <1>2, <1>4, <1>5, <1>7, <1>8 DEF Standing
<1>10. v.sent = Sent(q).sent
  BY <1>4 DEF Idle
<1>. QED
  BY <1>1, <1>9, <1>10, StandsThen

(* The chunks of a document are counted.                                      *)
LEMMA CountedProceeds ==
  ASSUME NEW db0, ~SharedConnection, UnitsInv(db0), NEW q \in Requests, Underway(q),
         pc[q] \notin {"ok", "close"} /\ ~Stale(q), NEW w, Idle(db0, q, w), NEW rows,
         rows = Apply(Rows(q), Pending(w)), Sorted(rows, {Target(q)}),
         Target(q) \in Held(w) \cap Table(rows, "doc"),
         w.obj[Target(q)].chunks = rows[Target(q)].chunks,
         NEW status, NEW n, n = Cardinality(ChunksOf(rows, Target(q))),
         NEW memo, GoesOn(q, Described(w, q, status, n), "commit", memo)
  PROVE  Underway(q)'
<1> DEFINE k == Target(q)
           v == Described(w, q, status, n)
           rows2 == Apply(Rows(q), Pending(v))
<1>1. Session(db0, q, w) /\ Unsent(w) = {} /\ k[1] = "doc"
  BY DEF Idle, Table
<1>2. Less(Rows(q), rows, w.gone)
  BY <1>1, QuietRows
<1>3. k \in DOMAIN Rows(q) /\ Rows(q)[k] = rows[k]
  BY <1>2 DEF Less, Table
<1>4. {"chunks", "source"} \subseteq DOMAIN Rows(q)[k]
  BY <1>1, <1>3, RowsWhole DEF Underway, Whole, Columns
<1>5. /\ Unsent(v) = {k} /\ v.gone = w.gone /\ v.sent = w.sent
      /\ Upon(Difference(v, k), Rows(q)[k]).chunks = n
      /\ Upon(Difference(v, k), Rows(q)[k]).source = Rows(q)[k].source
  BY <1>1, <1>3, <1>4, DescribedIs
<1>6. k \notin w.gone
  BY DEF Held
<1> HIDE DEF v, k
<1>7. Else(rows, rows2, k) /\ rows2[k] = Upon(Difference(v, k), Rows(q)[k])
  BY <1>1, <1>3, <1>5, <1>6, OneRow
<1>8. rows2[k].source = rows[k].source /\ rows2[k].chunks = Cardinality(ChunksOf(rows, k))
  BY <1>3, <1>5, <1>7 DEF k
<1>9. Sorted(rows2, {})
  <2>1. k \in Table(rows, "doc") /\ Sorted(rows, {k})
    BY DEF k
  <2> HIDE DEF rows2
  <2>. QED
    BY <1>7, <1>8, <2>1, SortedCount
<1>10. Standing(q, v, rows2, "commit", memo)
  BY <1>9 DEF Standing
<1>11. v.sent = Sent(q).sent
  BY <1>3, <1>5 DEF Idle
<1>12. GoesOn(q, v, "commit", memo)
  BY DEF v
<1>. QED
  BY <1>10, <1>11, <1>12, StandsThen

-----------------------------------------------------------------------------
(* The methods.                                                               *)
LEMMA NoDocAtStart ==
  ASSUME NEW db0, ~SharedConnection, UnitsInv(db0), NEW q \in Requests, pc[q] = "start"
  PROVE  MyDoc(q) \notin DOMAIN Rows(q)
<1>1. Due(unit[q]) = {}
  BY AtStart
<1>2. Own(durable, q) = {}
  BY DEF UnitsInv, Kept, AllOrNothing
<1>3. MyDoc(q) \notin DOMAIN durable
  BY <1>2 DEF Own, MyDoc
<1>. QED
  BY <1>1, <1>3, RowsAre DEF Due

LEMMA IndexTextProceeds ==
  ASSUME NEW db0, ~SharedConnection, UnitsInv(db0), NEW q \in Requests, Underway(q), IndexText(q)
  PROVE  Proceeds(q)
<1> DEFINE ok == Book \in DOMAIN Rows(q)
           w == Found(q, {Book})
           v == WithDoc(w, q, "upload", job[q].text)
<1>1. StatementNoting(q, "start", ok, v, "file", note[q]) /\ job[q].op = "index_text"
  BY DEF IndexText, Statement, Asks
<1>2. pc[q] = "start" /\ ~Stale(q)
  BY <1>1, Statements
<1>3. pc'[q] = "refused" \/ (ok /\ GoesOn(q, v, "file", note[q]))
  BY <1>1, AcceptedGoesOn
<1>4. ASSUME ok, GoesOn(q, v, "file", note[q])
      PROVE  Underway(q)'
  <2>1. Fresh(db0, q, w, {Book})
    BY <1>2, <1>4, FoundFresh
  <2> HIDE DEF w
  <2>2. Idle(db0, q, w) /\ w.gone = {} /\ Unsent(w) = {}
    BY <2>1, FreshIdle DEF Idle
  <2>3. Rows(q) = Apply(Rows(q), Pending(w))
    BY <2>2, SameRows
  <2>4. DOMAIN w.obj = {Book}
    BY <1>2, <2>1, FreshIs, AtStart
  <2>5. MyDoc(q) \notin DOMAIN Rows(q) \cup DOMAIN w.obj
    BY <1>2, <2>4, NoDocAtStart DEF MyDoc, Book
  <2>6. Sorted(Rows(q), {})
    BY <1>2 DEF Underway, Standing
  <2>7. "upload" # "catalog" /\ job[q].op \in {"index_text", "index_book"}
    BY <1>1
  <2>8. Book \in DOMAIN Rows(q) /\ pc[q] \notin {"ok", "close"} /\ ~Stale(q)
    BY <1>2, <1>4
  <2>. QED
    BY <1>4, <2>2, <2>3, <2>5, <2>6, <2>7, <2>8, FiledAnew
<1>. QED
  BY <1>3, <1>4 DEF Proceeds

LEMMA IndexBookProceeds ==
  ASSUME NEW db0, ~SharedConnection, UnitsInv(db0), NEW q \in Requests, Underway(q), IndexBook(q)
  PROVE  Proceeds(q)
<1> DEFINE ok == Book \in DOMAIN Rows(q)
           ks == {Book}
           u == Found(q, ks)
<1>1. StatementNoting(q, "start", ok, u, "cards", note[q]) /\ job[q].op = "index_book"
  BY DEF IndexBook, Statement, Asks
<1>2. pc[q] = "start" /\ ~Stale(q)
  BY <1>1, Statements
<1>3. pc'[q] = "refused" \/ (ok /\ GoesOn(q, u, "cards", note[q]))
  BY <1>1, AcceptedGoesOn
<1>4. ASSUME ok, GoesOn(q, u, "cards", note[q])
      PROVE  Underway(q)'
  <2>1. Fresh(db0, q, u, ks)
    BY <1>2, <1>4, FoundFresh
  <2> HIDE DEF u
  <2>2. DOMAIN u.obj = {Book}
    BY <1>2, <2>1, FreshIs, AtStart
  <2>3. MyDoc(q) \notin DOMAIN Rows(q) \cup DOMAIN u.obj
    BY <1>2, <2>2, NoDocAtStart DEF MyDoc, Book
  <2>4. Sorted(Rows(q), {})
    BY <1>2 DEF Underway, Standing
  <2>5. Standing(q, u, Rows(q), "cards", note[q]) /\ pc[q] \notin {"ok", "close"} /\ ~Stale(q)
    BY <1>2, <1>4, <2>3, <2>4 DEF Standing
  <2>. QED
    BY <1>4, <2>1, <2>5, FreshProceeds
<1>. QED
  BY <1>3, <1>4 DEF Proceeds

LEMMA IndexCardsProceeds ==
  ASSUME NEW db0, ~SharedConnection, UnitsInv(db0), NEW q \in Requests, Underway(q), IndexCards(q)
  PROVE  Proceeds(q)
<1> DEFINE ks == Table(Rows(q), "doc")
           old == {k \in ks : Rows(q)[k].source = "catalog"}
           u == Found(q, ks)
           v == IF old = {} THEN WithDoc(u, q, "catalog", CardText) ELSE u
           next == IF old = {} THEN "file" ELSE "clear"
<1>1. StatementNoting(q, "cards", TRUE, v, next, old)
  BY DEF IndexCards
<1>2. pc[q] = "cards" /\ ~Stale(q)
  BY <1>1, Statements
<1>3. pc'[q] = "refused" \/ GoesOn(q, v, next, old)
  BY <1>1, AcceptedGoesOn
<1>4. old = Cards(Rows(q)) /\ ks \subseteq DOMAIN Rows(q) /\ \A k \in ks : k[1] = "doc"
  BY DEF Cards, Table
<1>5. /\ Sorted(Rows(q), {}) /\ Book \in DOMAIN Rows(q)
      /\ MyDoc(q) \notin DOMAIN Rows(q) \cup DOMAIN unit[q].obj
  BY <1>2 DEF Underway, Standing
<1>6. Fresh(db0, q, u, ks)
  BY <1>2, <1>4, FoundFresh
<1>7. job[q].op = "index_book"
  BY <1>2, Here DEF Path
<1> HIDE DEF u, ks
<1>8. MyDoc(q) \notin DOMAIN Rows(q) \cup DOMAIN u.obj
  BY <1>4, <1>5, <1>6, FreshIs DEF Held
<1>9. CASE GoesOn(q, v, next, old) /\ old = {}
  <2>1. GoesOn(q, WithDoc(u, q, "catalog", CardText), "file", old)
    BY <1>9
  <2>2. Idle(db0, q, u) /\ u.gone = {} /\ Unsent(u) = {}
    BY <1>6, FreshIdle DEF Idle
  <2>3. Rows(q) = Apply(Rows(q), Pending(u))
    BY <2>2, SameRows
  <2>4. Cards(Rows(q)) = {} /\ job[q].op \in {"index_text", "index_book"}
    BY <1>4, <1>7, <1>9
  <2>5. Book \in DOMAIN Rows(q) /\ pc[q] \notin {"ok", "close"} /\ ~Stale(q)
    BY <1>2, <1>5
  <2> HIDE DEF v, next, old
  <2>. QED
    BY <1>5, <1>8, <2>1, <2>2, <2>3, <2>4, <2>5, FiledAnew DEF Proceeds
<1>10. CASE GoesOn(q, v, next, old) /\ old # {}
  <2>1. GoesOn(q, u, "clear", old)
    BY <1>10
  <2> HIDE DEF v, next, old
  <2>2. Standing(q, u, Rows(q), "clear", old) /\ pc[q] \notin {"ok", "close"} /\ ~Stale(q)
    BY <1>2, <1>4, <1>5, <1>8 DEF Standing
  <2>. QED
    BY <1>6, <2>1, <2>2, FreshProceeds DEF Proceeds
<1>. QED
  BY <1>3, <1>9, <1>10 DEF Proceeds

(* A document is deleted with its chunks: what the session u that did it leaves
   of the rows.                                                               *)
LEMMA DropIs ==
  ASSUME NEW db0, ~SharedConnection, UnitsInv(db0), NEW q \in Requests, ~Stale(q),
         NEW d \in Held(unit[q]), d[1] = "doc", Sorted(Rows(q), {}), NEW w,
         w = Delete(Found(q, ChunksOf(Rows(q), d)), ChunksOf(Rows(q), d) \cup {d}),
         NEW rows, rows = Apply(Rows(q), Pending(w))
  PROVE  /\ Idle(db0, q, w) /\ Less(Rows(q), rows, ChunksOf(Rows(q), d) \cup {d})
         /\ DOMAIN w.obj \subseteq DOMAIN unit[q].obj \cup DOMAIN Rows(q)
         /\ Sorted(rows, {}) /\ Table(rows, "doc") = Table(Rows(q), "doc") \ {d}
         /\ Cards(rows) = Cards(Rows(q)) \ {d}
         /\ Book \in DOMAIN Rows(q) => Book \in DOMAIN rows
<1> DEFINE ks == ChunksOf(Rows(q), d)
           all == ks \cup {d}
           u == Found(q, ks)
<1>1. ks \subseteq DOMAIN Rows(q)
  BY DEF ChunksOf, Table
<1>2. Fresh(db0, q, u, ks)
  BY <1>1, FoundFresh DEF Underway
<1>3. w = Delete(u, all)
  OBVIOUS
<1> HIDE DEF u
<1>4. Idle(db0, q, u) /\ u.gone = {} /\ DOMAIN u.obj = Held(unit[q]) \cup ks
  BY <1>2, FreshIdle, FreshIs
<1>5. all \subseteq DOMAIN u.obj
  BY <1>4
<1> HIDE DEF all
<1>6. Idle(db0, q, w) /\ w.gone = all /\ w.obj = u.obj
  BY <1>3, <1>4, <1>5, DeleteIdle
<1>7. Less(Rows(q), rows, all)
  BY <1>6, QuietRows DEF Idle
<1>8. DOMAIN w.obj \subseteq DOMAIN unit[q].obj \cup DOMAIN Rows(q)
  BY <1>1, <1>4, <1>6 DEF Held
<1>9. Less(Rows(q), rows, ChunksOf(Rows(q), d) \cup {d})
  BY <1>7 DEF all
<1> DEFINE seen == Rows(q)
<1>10. Sorted(seen, {}) /\ Less(seen, rows, ChunksOf(seen, d) \cup {d}) /\ d[1] = "doc"
  BY <1>9
<1> HIDE DEF seen
<1>11. /\ Sorted(rows, {}) /\ Table(rows, "doc") = Table(seen, "doc") \ {d}
       /\ Cards(rows) = Cards(seen) \ {d} /\ (Book \in DOMAIN seen => Book \in DOMAIN rows)
  BY ONLY <1>10, SortedDrop
<1>. QED
  BY <1>6, <1>8, <1>9, <1>11 DEF seen

LEMMA IndexClearProceeds ==
  ASSUME NEW db0, ~SharedConnection, UnitsInv(db0), NEW q \in Requests, Underway(q), IndexClear(q)
  PROVE  Proceeds(q)
<1> PICK d \in note[q] :
      LET w == Delete(Found(q, ChunksOf(Rows(q), d)), ChunksOf(Rows(q), d) \cup {d})
      IN StatementNoting(q, "clear", TRUE,
           IF note[q] = {d} THEN WithDoc(w, q, "catalog", CardText) ELSE w,
           IF note[q] = {d} THEN "file" ELSE "clear", note[q] \ {d})
  BY DEF IndexClear
<1> DEFINE w == Delete(Found(q, ChunksOf(Rows(q), d)), ChunksOf(Rows(q), d) \cup {d})
           rows == Apply(Rows(q), Pending(w))
           v == IF note[q] = {d} THEN WithDoc(w, q, "catalog", CardText) ELSE w
           next == IF note[q] = {d} THEN "file" ELSE "clear"
           memo == note[q] \ {d}
<1>1. StatementNoting(q, "clear", TRUE, v, next, memo)
  OBVIOUS
<1>2. pc[q] = "clear" /\ ~Stale(q)
  BY <1>1, Statements
<1>3. pc'[q] = "refused" \/ GoesOn(q, v, next, memo)
  BY <1>1, AcceptedGoesOn
<1>4. /\ Sorted(Rows(q), {}) /\ Book \in DOMAIN Rows(q) /\ note[q] = Cards(Rows(q))
      /\ MyDoc(q) \notin DOMAIN Rows(q) \cup DOMAIN unit[q].obj
  BY <1>2 DEF Underway, Standing
<1>5. job[q].op = "index_book" /\ note[q] \subseteq Held(unit[q]) /\ \A x \in note[q] : x[1] = "doc"
  BY <1>2, Here DEF Path, Phase
<1>6. /\ Idle(db0, q, w) /\ DOMAIN w.obj \subseteq DOMAIN unit[q].obj \cup DOMAIN Rows(q)
      /\ Sorted(rows, {}) /\ Cards(rows) = Cards(Rows(q)) \ {d}
      /\ Book \in DOMAIN rows /\ DOMAIN rows \subseteq DOMAIN Rows(q)
  <2>0. ~SharedConnection /\ UnitsInv(db0) /\ q \in Requests /\ ~Stale(q)
    BY <1>2
  <2>1. d \in Held(unit[q]) /\ d[1] = "doc" /\ Sorted(Rows(q), {})
    BY <1>4, <1>5
  <2>2. /\ w = Delete(Found(q, ChunksOf(Rows(q), d)), ChunksOf(Rows(q), d) \cup {d})
        /\ rows = Apply(Rows(q), Pending(w))
    OBVIOUS
  <2> HIDE DEF w, rows
  <2>3. /\ Idle(db0, q, w) /\ Less(Rows(q), rows, ChunksOf(Rows(q), d) \cup {d})
        /\ DOMAIN w.obj \subseteq DOMAIN unit[q].obj \cup DOMAIN Rows(q)
        /\ Sorted(rows, {}) /\ Cards(rows) = Cards(Rows(q)) \ {d}
        /\ Book \in DOMAIN Rows(q) => Book \in DOMAIN rows
    BY ONLY <2>0, <2>1, <2>2, DropIs
  <2>. QED
    BY <1>4, <2>3 DEF Less
<1> HIDE DEF w, rows
<1>7. MyDoc(q) \notin DOMAIN Rows(q) \cup DOMAIN w.obj /\ pc[q] \notin {"ok", "close"} /\ ~Stale(q)
  BY <1>2, <1>4, <1>6
<1>8. rows = Apply(Rows(q), Pending(w))
  BY DEF rows
<1>9. CASE GoesOn(q, v, next, memo) /\ note[q] = {d}
  <2>1. GoesOn(q, WithDoc(w, q, "catalog", CardText), "file", memo)
    BY <1>9
  <2>2. Cards(rows) = {} /\ job[q].op \in {"index_text", "index_book"}
    BY <1>4, <1>5, <1>6, <1>9
  <2> HIDE DEF v, next, memo
  <2>3. Underway(q)'
    BY <1>6, <1>7, <1>8, <2>1, <2>2, FiledAnew
  <2>. QED
    BY <2>3 DEF Proceeds
<1>10. CASE GoesOn(q, v, next, memo) /\ note[q] # {d}
  <2>1. GoesOn(q, w, "clear", memo) /\ memo = Cards(rows)
    BY <1>4, <1>6, <1>10
  <2> HIDE DEF v, next, memo
  <2>2. Standing(q, w, rows, "clear", memo)
    BY <1>6, <1>7, <2>1 DEF Standing
  <2>3. w.sent = Sent(q).sent
    BY <1>6 DEF Idle
  <2>4. Standing(q, w, Apply(Rows(q), Pending(w)), "clear", memo)
    BY <1>8, <2>2
  <2>5. Underway(q)'
    BY <1>7, <2>1, <2>3, <2>4, StandsThen
  <2>. QED
    BY <2>5 DEF Proceeds
<1>. QED
  BY <1>3, <1>9, <1>10 DEF Proceeds

(* A document that has lost or never had chunks is split: a text without
   passages fails, the others are embedded.                                   *)
LEMMA SplitProceeds ==
  ASSUME NEW db0, ~SharedConnection, UnitsInv(db0), NEW q \in Requests, Underway(q),
         pc[q] \notin {"ok", "close"} /\ ~Stale(q), NEW w, Idle(db0, q, w), NEW rows,
         rows = Apply(Rows(q), Pending(w)), Sorted(rows, {Target(q)}),
         Target(q) \in Held(w) \cap Table(rows, "doc"),
         w.obj[Target(q)].chunks = rows[Target(q)].chunks, ChunksOf(rows, Target(q)) = {},
         NEW memo, GoesOn(q, EmbedInto(w, q), AfterSplit(w, q), memo)
  PROVE  Underway(q)'
<1>1. CASE Pieces(w, q) = <<>>
  <2>1. GoesOn(q, Described(w, q, "failed", 0), "commit", memo)
    BY <1>1 DEF EmbedInto, AfterSplit
  <2>2. 0 = Cardinality(ChunksOf(rows, Target(q)))
    BY FS_EmptySet
  <2>. QED
    BY <2>1, <2>2, CountedProceeds
<1>2. CASE Pieces(w, q) # <<>>
  <2>1. GoesOn(q, w, "embed", memo)
    BY <1>2 DEF EmbedInto, AfterSplit
  <2>2. Standing(q, w, rows, "embed", memo)
    BY DEF Standing
  <2>3. Standing(q, w, Apply(Rows(q), Pending(w)), "embed", memo)
    BY <2>2
  <2>4. w.sent = Sent(q).sent
    BY DEF Idle
  <2>. QED
    BY <2>1, <2>3, <2>4, StandsThen
<1>. QED
  BY <1>1, <1>2

LEMMA FileDocProceeds ==
  ASSUME NEW db0, ~SharedConnection, UnitsInv(db0), NEW q \in Requests, Underway(q), FileDoc(q)
  PROVE  Proceeds(q)
<1> DEFINE w == Sent(q)
           k == Target(q)
<1>1. StatementNoting(q, "file", TRUE, EmbedInto(w, q), AfterSplit(w, q), note[q])
  BY DEF FileDoc, Statement
<1>2. pc[q] = "file" /\ ~Stale(q)
  BY <1>1, Statements
<1>3. pc'[q] = "refused" \/ GoesOn(q, EmbedInto(w, q), AfterSplit(w, q), note[q])
  BY <1>1, AcceptedGoesOn
<1>4. k = MyDoc(q) /\ k \in Held(unit[q]) /\ Files(q)
  BY <1>2, Here DEF Path, Phase, Target, Files
<1>5. Fresh(db0, q, w, {})
  BY <1>2, SentFresh
<1> HIDE DEF w
<1>6. Idle(db0, q, w) /\ w.gone = {} /\ Unsent(w) = {}
  BY <1>5, FreshIdle DEF Idle
<1>7. Rows(q) = Apply(Rows(q), Pending(w))
  BY <1>6, SameRows
<1>8. k \in Held(w) /\ w.obj[k] = unit[q].obj[k]
  BY <1>4, <1>5, FreshIs
<1>9. /\ Sorted(Rows(q), {}) /\ k \in Table(Rows(q), "doc") /\ ChunksOf(Rows(q), k) = {}
      /\ w.obj[k].chunks = Rows(q)[k].chunks
  BY <1>2, <1>4, <1>8 DEF Underway, Standing
<1>10. Sorted(Rows(q), {k})
  BY <1>9, SortedMore
<1>11. pc[q] \notin {"ok", "close"} /\ ~Stale(q)
  BY <1>2
<1> DEFINE rows == Rows(q)
<1>12. /\ rows = Apply(Rows(q), Pending(w)) /\ Sorted(rows, {Target(q)})
       /\ Target(q) \in Held(w) \cap Table(rows, "doc") /\ ChunksOf(rows, Target(q)) = {}
       /\ w.obj[Target(q)].chunks = rows[Target(q)].chunks
  BY <1>7, <1>8, <1>9, <1>10
<1> HIDE DEF rows, k
<1>13. GoesOn(q, EmbedInto(w, q), AfterSplit(w, q), note[q]) => Underway(q)'
  BY <1>6, <1>11, <1>12, SplitProceeds
<1>. QED
  BY <1>3, <1>13 DEF Proceeds

LEMMA RequireDocProceeds ==
  ASSUME NEW db0, ~SharedConnection, UnitsInv(db0), NEW q \in Requests, Underway(q), RequireDoc(q)
  PROVE  Proceeds(q)
<1> DEFINE k == DocOf(q)
           ok == k \in DOMAIN Rows(q)
           ks == {k}
           u == Found(q, ks)
<1>1. /\ StatementNoting(q, "start", ok, u, "listed", note[q])
      /\ job[q].op \in {"reindex", "delete_doc"}
  BY DEF RequireDoc, Statement
<1>2. pc[q] = "start" /\ ~Stale(q)
  BY <1>1, Statements
<1>3. pc'[q] = "refused" \/ (ok /\ GoesOn(q, u, "listed", note[q]))
  BY <1>1, AcceptedGoesOn
<1>4. ASSUME ok, GoesOn(q, u, "listed", note[q])
      PROVE  Underway(q)'
  <2>1. Fresh(db0, q, u, ks)
    BY <1>2, <1>4, FoundFresh
  <2>2. u.obj[k] = Rows(q)[k]
    <3> DEFINE s == Sent(q)
               seen == Rows(q)
               new == [x \in ks |-> seen[x]]
    <3>1. u = [s EXCEPT !.base = Upon(@, new), !.obj = Upon(@, new)]
      BY DEF Found, Load
    <3>2. "obj" \in DOMAIN s
      BY DEF Sent
    <3>9. DOMAIN s.obj = {}
      BY <1>2, AtStart, SentIs
    <3> HIDE DEF u, s, seen
    <3>3. u.obj = Upon(s.obj, new)
      BY <3>1, <3>2
    <3>4. k \in DOMAIN new /\ new[k] = seen[k]
      OBVIOUS
    <3> HIDE DEF new, k
    <3>5. u.obj[k] = new[k]
      BY <3>3, <3>4, <3>9 DEF Upon
    <3>. QED
      BY <3>4, <3>5 DEF seen
  <2> HIDE DEF u
  <2>3. Sorted(Rows(q), {}) /\ pc[q] \notin {"ok", "close"} /\ ~Stale(q)
    BY <1>2 DEF Underway, Standing
  <2>4. k[1] = "doc"
    BY <1>1, Here DEF Asked, DocOf
  <2>5. Files(q) => Target(q) = k
    BY <1>1 DEF Files, Target
  <2>6. k \in Table(Rows(q), "doc")
    BY <1>4, <2>4 DEF Table
  <2>7. Standing(q, u, Rows(q), "listed", note[q])
    BY <2>2, <2>3, <2>5, <2>6 DEF Standing
  <2>. QED
    BY <1>4, <2>1, <2>3, <2>7, FreshProceeds
<1>. QED
  BY <1>3, <1>4 DEF Proceeds

(* A document is found and loses its chunks.                                  *)
LEMMA StripIs ==
  ASSUME NEW db0, ~SharedConnection, UnitsInv(db0), NEW q \in Requests, Underway(q),
         pc[q] = "listed", ~Stale(q), NEW w, w = WithoutChunks(q), NEW rows, rows = Apply(Rows(q), Pending(w))
  PROVE  /\ Idle(db0, q, w) /\ Less(Rows(q), rows, ChunksOf(Rows(q), DocOf(q)))
         /\ w.gone = ChunksOf(Rows(q), DocOf(q))
         /\ DocOf(q) \in Held(w) /\ w.obj[DocOf(q)] = unit[q].obj[DocOf(q)]
<1> DEFINE ks == ChunksOf(Rows(q), DocOf(q))
           u == Found(q, ks)
<1>1. ks \subseteq DOMAIN Rows(q) /\ DocOf(q) \in Held(unit[q]) /\ DocOf(q) \notin ks /\ ~Stale(q)
  BY WithoutChunksIs DEF Underway
<1>2. Fresh(db0, q, u, ks)
  BY <1>1, FoundFresh
<1>3. w = Delete(u, ks)
  BY DEF WithoutChunks
<1> HIDE DEF u, ks
<1>4. Idle(db0, q, u) /\ u.gone = {} /\ DOMAIN u.obj = Held(unit[q]) \cup ks
      /\ u.obj[DocOf(q)] = unit[q].obj[DocOf(q)]
  BY <1>1, <1>2, FreshIdle, FreshIs
<1>5. ks \subseteq DOMAIN u.obj
  BY <1>4
<1>6. Idle(db0, q, w) /\ w.gone = ks /\ w.obj = u.obj
  BY <1>3, <1>4, <1>5, DeleteIdle
<1>7. Less(Rows(q), rows, ks)
  BY <1>6, QuietRows DEF Idle
<1>8. DocOf(q) \in Held(w) /\ w.obj[DocOf(q)] = unit[q].obj[DocOf(q)]
  BY <1>1, <1>4, <1>6 DEF Held
<1>. QED
  BY <1>6, <1>7, <1>8 DEF ks

LEMMA ReindexProceeds ==
  ASSUME NEW db0, ~SharedConnection, UnitsInv(db0), NEW q \in Requests, Underway(q), Reindex(q)
  PROVE  Proceeds(q)
<1> DEFINE w == WithoutChunks(q)
           rows == Apply(Rows(q), Pending(w))
           k == Target(q)
           seen == Rows(q)
<1>1. /\ StatementNoting(q, "listed", TRUE, EmbedInto(w, q), AfterSplit(w, q), note[q])
      /\ k = DocOf(q) /\ Files(q)
  BY DEF Reindex, Statement, Asks, Target, Files
<1>2. pc[q] = "listed" /\ ~Stale(q)
  BY <1>1, Statements
<1>3. pc'[q] = "refused" \/ GoesOn(q, EmbedInto(w, q), AfterSplit(w, q), note[q])
  BY <1>1, AcceptedGoesOn
<1>4. w = WithoutChunks(q) /\ rows = Apply(Rows(q), Pending(w))
  OBVIOUS
<1> HIDE DEF w, rows
<1>5. /\ Idle(db0, q, w) /\ Less(Rows(q), rows, ChunksOf(Rows(q), DocOf(q)))
      /\ DocOf(q) \in Held(w) /\ w.obj[DocOf(q)] = unit[q].obj[DocOf(q)]
  BY <1>2, <1>4, StripIs
<1>6. Less(seen, rows, ChunksOf(seen, k)) /\ k \in Held(w) /\ w.obj[k] = unit[q].obj[k]
  BY <1>1, <1>5
<1>7. Sorted(seen, {}) /\ k \in Table(seen, "doc") /\ unit[q].obj[k].chunks = seen[k].chunks
  BY <1>1, <1>2 DEF Underway, Standing
<1> HIDE DEF seen, k
<1>8. Sorted(rows, {k}) /\ ChunksOf(rows, k) = {} /\ k \in Table(rows, "doc") /\ rows[k] = seen[k]
  BY ONLY <1>6, <1>7, SortedStrip
<1>9. /\ Sorted(rows, {Target(q)}) /\ ChunksOf(rows, Target(q)) = {}
      /\ Target(q) \in Held(w) \cap Table(rows, "doc")
      /\ w.obj[Target(q)].chunks = rows[Target(q)].chunks /\ pc[q] \notin {"ok", "close"} /\ ~Stale(q)
  BY <1>2, <1>6, <1>7, <1>8 DEF k
<1>10. GoesOn(q, EmbedInto(w, q), AfterSplit(w, q), note[q]) => Underway(q)'
  BY <1>4, <1>5, <1>9, SplitProceeds
<1>. QED
  BY <1>3, <1>10 DEF Proceeds

(* The chunks of a text of n pieces are n.                                    *)
LEMMA ChunksNumber ==
  ASSUME NEW q, NEW n \in Nat
  PROVE  Cardinality({MyChunk(q, i) : i \in 1..n}) = n
<1> DEFINE ks == {MyChunk(q, i) : i \in 1..n}
           f == [i \in 1..n |-> MyChunk(q, i)]
<1>1. f \in [1..n -> ks] /\ \A k \in ks : \E i \in 1..n : f[i] = k
  OBVIOUS
<1>2. \A i, j \in 1..n : f[i] = f[j] => i = j
  BY DEF MyChunk
<1>3. f \in Bijection(1..n, ks)
  BY <1>1, <1>2 DEF Bijection, Injection, IsInjective, Surjection
<1>4. ExistsBijection(1..n, ks)
  BY <1>3 DEF ExistsBijection
<1>5. IsFiniteSet(1..n) /\ Cardinality(1..n) = n
  BY FS_Interval
<1> HIDE DEF ks
<1>6. Cardinality(ks) = n
  BY <1>4, <1>5, FS_Bijection
<1>. QED
  BY <1>6 DEF ks

LEMMA StoreChunksProceeds ==
  ASSUME NEW db0, ~SharedConnection, FoundInOrder, UnitsInv(db0), NEW q \in Requests, Underway(q),
         StoreChunks(q)
  PROVE  Proceeds(q)
<1> DEFINE w == Sent(q)
           k == Target(q)
           n == Len(Pieces(Sent(q), q))
           rows == Rows(q)
<1>1. StatementNoting(q, "store", TRUE, Described(w, q, "indexed", n), "commit", note[q])
  BY DEF StoreChunks, Statement
<1>2. pc[q] = "store" /\ ~Stale(q)
  BY <1>1, Statements
<1>3. pc'[q] = "refused" \/ GoesOn(q, Described(w, q, "indexed", n), "commit", note[q])
  BY <1>1, AcceptedGoesOn
<1>4. k \in Held(unit[q]) /\ k[1] = "doc" /\ Files(q)
  BY <1>2, Here DEF Path, Phase
<1>5. /\ Sorted(rows, {k}) /\ k \in Table(rows, "doc") /\ unit[q].obj[k].chunks = rows[k].chunks
      /\ ChunksOf(rows, k) = {MyChunk(q, i) : i \in DOMAIN Pieces(unit[q], q)}
  BY <1>2, <1>4 DEF Underway, Standing
<1>6. Fresh(db0, q, w, {})
  BY <1>2, SentFresh
<1>7. n = Len(Pieces(w, q))
  OBVIOUS
<1> HIDE DEF w, rows, k, n
<1>8. Idle(db0, q, w) /\ w.gone = {} /\ Unsent(w) = {}
  BY <1>6, FreshIdle DEF Idle
<1>9. rows = Apply(Rows(q), Pending(w))
  BY <1>8, SameRows DEF rows
<1>10. k \in Held(w) /\ w.obj[k] = unit[q].obj[k]
  BY <1>4, <1>6, FreshIs
<1>11. Pieces(w, q) = Pieces(unit[q], q)
  BY <1>10 DEF Pieces, k
<1>12. Pieces(w, q) \in Seq(Int \X Int)
  <2>1. Whole(db0, k, w.obj[k])
    BY <1>6, <1>10, FreshIs DEF Held
  <2>2. w.obj[k].text \in DOMAIN PiecesOf
    BY <1>4, <2>1, RowIs
  <2>. QED
    BY <2>2 DEF FoundInOrder, Pieces, k
<1>13. n = Cardinality(ChunksOf(rows, k))
  <2>1. n \in Nat /\ DOMAIN Pieces(w, q) = 1..n
    BY <1>7, <1>12
  <2>. QED
    BY <1>5, <1>11, <2>1, ChunksNumber
<1>14. /\ Sorted(rows, {Target(q)}) /\ Target(q) \in Held(w) \cap Table(rows, "doc")
       /\ w.obj[Target(q)].chunks = rows[Target(q)].chunks
       /\ n = Cardinality(ChunksOf(rows, Target(q))) /\ pc[q] \notin {"ok", "close"} /\ ~Stale(q)
  BY <1>2, <1>5, <1>10, <1>13 DEF k
<1>15. GoesOn(q, Described(w, q, "indexed", n), "commit", note[q]) => Underway(q)'
  BY <1>8, <1>9, <1>14, CountedProceeds
<1>. QED
  BY <1>3, <1>15 DEF Proceeds

LEMMA DeleteDocProceeds ==
  ASSUME NEW db0, ~SharedConnection, UnitsInv(db0), NEW q \in Requests, Underway(q), DeleteDoc(q)
  PROVE  Proceeds(q)
<1> DEFINE u == WithoutChunks(q)
           d == DocOf(q)
           ks == ChunksOf(Rows(q), d)
           w == Delete(u, {d})
           seen == Rows(q)
           rows == Apply(seen, Pending(w))
<1>1. StatementNoting(q, "listed", TRUE, w, "commit", note[q]) /\ job[q].op = "delete_doc"
  BY DEF DeleteDoc, Statement, Asks
<1>2. pc[q] = "listed" /\ ~Stale(q)
  BY <1>1, Statements
<1>3. pc'[q] = "refused" \/ GoesOn(q, w, "commit", note[q])
  BY <1>1, AcceptedGoesOn
<1>4. d \in Held(unit[q]) /\ d[1] = "doc" /\ ks \subseteq DOMAIN Rows(q) /\ Sorted(seen, {})
  BY <1>2, WithoutChunksIs DEF Underway, Standing
<1>5. w = Delete(Found(q, ks), ks \cup {d})
  <2> DEFINE found == Found(q, ks)
  <2>1. Fresh(db0, q, found, ks)
    BY <1>2, <1>4, FoundFresh
  <2>2. u = Delete(found, ks)
    BY DEF WithoutChunks
  <2> HIDE DEF found, ks, u
  <2>3. found = [base |-> found.base, obj |-> found.obj, touched |-> found.touched,
                 gone |-> found.gone, sent |-> found.sent]
    BY <2>1 DEF Fresh, Fit, Session
  <2>4. Delete(Delete(found, ks), {d}) = Delete(found, ks \cup {d})
    BY <2>3 DEF Delete
  <2>. QED
    BY <2>2, <2>4 DEF found
<1>6. w = Delete(Found(q, ChunksOf(Rows(q), d)), ChunksOf(Rows(q), d) \cup {d})
  BY <1>5
<1>7. rows = Apply(Rows(q), Pending(w)) /\ Sorted(Rows(q), {})
  BY <1>4
<1> HIDE DEF w, rows, u, ks, d, seen
<1>8. Idle(db0, q, w) /\ Sorted(rows, {})
  BY <1>2, <1>4, <1>6, <1>7, DropIs
<1>9. Standing(q, w, Apply(Rows(q), Pending(w)), "commit", note[q]) /\ pc[q] \notin {"ok", "close"} /\ ~Stale(q)
  BY <1>1, <1>2, <1>7, <1>8 DEF Standing, Files
<1>10. w.sent = Sent(q).sent
  BY <1>8 DEF Idle
<1>11. GoesOn(q, w, "commit", note[q]) => Underway(q)'
  BY <1>9, <1>10, StandsThen
<1>. QED
  BY <1>3, <1>11 DEF Proceeds

LEMMA EmbedProceeds ==
  ASSUME NEW db0, ~SharedConnection, UnitsInv(db0), NEW q \in Requests, Underway(q), Embed(q)
  PROVE  Underway(q)'
<1> DEFINE u == unit[q]
           k == Target(q)
           own == {MyChunk(q, i) : i \in DOMAIN Pieces(u, q)}
           new == [x \in own |-> [doc |-> k, piece |-> Pieces(u, q)[x[3]]]]
           v == WithChunks(u, q)
           seen == View(q)
           rows == Rows(q)
           rows2 == Apply(seen, Pending(v))
<1>1. /\ unit'[q] = v /\ pc'[q] = "store" /\ note' = note /\ job' = job /\ durable' = durable
      /\ pc[q] = "embed"
  BY DEF Embed, UnitsInv, Sessions
<1>2. /\ Session(db0, q, u) /\ k \in Held(u) /\ k[1] = "doc" /\ Files(q) /\ Unfiled(q, u)
  BY <1>1, Here DEF Phase, Path, Fit
<1>3. \A x \in own : x[1] = "chunk" /\ Mine(x, q) /\ x \notin DOMAIN u.obj /\ x \notin DOMAIN rows
  <2>1. \A x \in own : x[1] = "chunk" /\ Mine(x, q)
    BY DEF MyChunk, Mine
  <2>2. \A x \in DOMAIN Rows(q) : ~(x[1] = "chunk" /\ Mine(x, q))
    BY <1>1, <1>2, StillUnfiled
  <2>. QED
    BY <1>2, <2>1, <2>2 DEF Unfiled
<1>4. v = [u EXCEPT !.obj = Upon(new, @)]
  BY DEF WithChunks
<1>5. DOMAIN new = own /\ \A x \in own : new[x].doc = k
  OBVIOUS
<1>6. rows = Apply(seen, Pending(u))
  BY DEF Rows
<1> HIDE DEF v, new, own, rows, u, seen
<1>7. /\ v.obj = Upon(new, u.obj)
      /\ v.base = u.base /\ v.touched = u.touched /\ v.gone = u.gone /\ v.sent = u.sent
      /\ DOMAIN u.base \subseteq DOMAIN u.obj /\ u.gone \subseteq DOMAIN u.obj
  BY <1>2, <1>4 DEF Session
<1>8. /\ DOMAIN v.obj = DOMAIN u.obj \cup own
      /\ \A x \in own : v.obj[x] = new[x]
      /\ \A x \in DOMAIN u.obj : v.obj[x] = u.obj[x]
  BY <1>3, <1>5, <1>7 DEF Upon
<1>9. Unsent(v) = Unsent(u) \cup own
  BY <1>3, <1>7, <1>8 DEF Unsent
<1>10. /\ \A x \in Unsent(u) : Difference(v, x) = Difference(u, x)
       /\ \A x \in own : Difference(v, x) = new[x]
  BY <1>3, <1>7, <1>8 DEF Difference, Unsent
<1>11. /\ DOMAIN rows2 = DOMAIN rows \cup own
       /\ \A x \in DOMAIN rows : x \notin own /\ rows2[x] = rows[x]
       /\ \A x \in own : rows2[x] = new[x]
  <2> DEFINE e == Pending(u)
             f == Pending(v)
  <2>1. /\ DOMAIN e.put = Unsent(u) /\ DOMAIN f.put = Unsent(u) \cup own
        /\ e.del = u.gone /\ f.del = u.gone
        /\ \A x \in Unsent(u) : f.put[x] = e.put[x]
        /\ \A x \in own : f.put[x] = new[x]
    BY <1>7, <1>9, <1>10, PendingIs
  <2> HIDE DEF e, f
  <2>2. /\ DOMAIN rows = DOMAIN e.put \cup (DOMAIN seen \ e.del)
        /\ \A x \in DOMAIN rows :
             rows[x] = IF x \notin DOMAIN e.put THEN seen[x]
                       ELSE IF x \in DOMAIN seen THEN Upon(e.put[x], seen[x]) ELSE e.put[x]
    BY <1>6 DEF Apply, e
  <2>3. /\ DOMAIN rows2 = DOMAIN f.put \cup (DOMAIN seen \ f.del)
        /\ \A x \in DOMAIN rows2 :
             rows2[x] = IF x \notin DOMAIN f.put THEN seen[x]
                        ELSE IF x \in DOMAIN seen THEN Upon(f.put[x], seen[x]) ELSE f.put[x]
    BY DEF Apply, f
  <2> HIDE DEF rows2
  <2>4. DOMAIN rows2 = DOMAIN rows \cup own
    BY <2>1, <2>2, <2>3
  <2>5. \A x \in DOMAIN rows : x \notin own /\ rows2[x] = rows[x]
    BY <1>3, <2>1, <2>2, <2>3, <2>4
  <2>6. \A x \in own : x \notin DOMAIN seen
    BY <1>3, <1>7, <2>1, <2>2
  <2>7. \A x \in own : rows2[x] = new[x]
    BY <2>1, <2>3, <2>4, <2>6
  <2>. QED
    BY <2>4, <2>5, <2>7
<1>12. /\ Sorted(rows, {k}) /\ ChunksOf(rows, k) = {} /\ k \in Table(rows, "doc")
       /\ u.obj[k].chunks = rows[k].chunks
  BY <1>1, <1>2 DEF Underway, Standing, rows, u
<1> HIDE DEF rows2, k
<1>13. Sorted(rows2, {k}) /\ ChunksOf(rows2, k) = own /\ rows2[k] = rows[k]
  <2>1. \A x \in own : x[1] = "chunk" /\ rows2[x].doc = k
    BY <1>3, <1>5, <1>11
  <2>2. k \in Table(rows, "doc") /\ Sorted(rows, {k}) /\ ChunksOf(rows, k) = {}
    BY <1>12
  <2>3. Filled(rows, rows2, k, own)
    BY <1>11, <2>1 DEF Filled
  <2>. QED
    BY ONLY <2>2, <2>3, SortedFill
<1>14. v.obj[k] = u.obj[k] /\ k \in Table(rows2, "doc")
  BY <1>2, <1>8, <1>11, <1>12 DEF Held, Table
<1>15. own = {MyChunk(q, i) : i \in DOMAIN Pieces(v, q)}
  BY <1>14 DEF own, Pieces, k
<1>16. View(q)' = seen /\ Rows(q)' = rows2
  <2>1. View(q)' = seen
    BY <1>1, <1>7 DEF View, seen, u
  <2>2. Pending(unit[q])' = Pending(v)
    BY <1>1 DEF Pending, Unsent, Difference
  <2>. QED
    BY <2>1, <2>2 DEF Rows, Apply, rows2
<1>18. Target(q)' = k /\ Files(q)' = Files(q)
  BY <1>1 DEF Target, DocOf, MyDoc, Files, k
<1>19. Standing(q, v, rows2, "store", note[q])
  BY <1>12, <1>13, <1>14, <1>15 DEF Standing, k
<1>20. Standing(q, unit[q], Rows(q), pc[q], note[q])'
  BY <1>1, <1>16, <1>18, <1>19
     DEF Standing, Sorted, Cards, Table, ChunksOf, MyChunk, Pieces, Book, MyDoc, k
<1>. QED
  BY <1>20 DEF Underway

-----------------------------------------------------------------------------
(* Withdrawing the title.                                                     *)
LEMMA SortedBare ==
  ASSUME NEW db, NEW db2, NEW ks, Sorted(db, {}), Table(db, "doc") = {}, Less(db, db2, ks)
  PROVE  Table(db2, "doc") = {} /\ Sorted(db2, {})
<1>1. Table(db, "chunk") = {}
  BY DEF Sorted
<1>2. Table(db2, "doc") = {} /\ Table(db2, "chunk") = {}
  BY <1>1 DEF Less, Table
<1>. QED
  BY <1>2 DEF Sorted, Cards

LEMMA DeleteBookProceeds ==
  ASSUME NEW db0, ~SharedConnection, UnitsInv(db0), NEW q \in Requests, Underway(q), DeleteBook(q),
         job[q].op = "delete_book"
  PROVE  Proceeds(q)
<1> DEFINE ok == Book \in DOMAIN Rows(q)
           ks == {Book}
           u == Found(q, ks)
<1>1. StatementNoting(q, "start", ok, u, "out", note[q])
  BY DEF DeleteBook, Statement
<1>2. pc[q] = "start" /\ ~Stale(q)
  BY <1>1, Statements
<1>3. pc'[q] = "refused" \/ (ok /\ GoesOn(q, u, "out", note[q]))
  BY <1>1, AcceptedGoesOn
<1>4. ASSUME ok, GoesOn(q, u, "out", note[q])
      PROVE  Underway(q)'
  <2>1. Fresh(db0, q, u, ks)
    BY <1>2, <1>4, FoundFresh
  <2> HIDE DEF u
  <2>2. Standing(q, u, Rows(q), "out", note[q]) /\ pc[q] \notin {"ok", "close"} /\ ~Stale(q)
    BY <1>2 DEF Underway, Standing
  <2>. QED
    BY <1>4, <2>1, <2>2, FreshProceeds
<1>. QED
  BY <1>3, <1>4 DEF Proceeds

LEMMA DeleteOutProceeds ==
  ASSUME NEW db0, ~SharedConnection, UnitsInv(db0), NEW q \in Requests, Underway(q), DeleteOut(q)
  PROVE  Proceeds(q)
<1> DEFINE u == Sent(q)
           ok == WithStatus(Rows(q), "on_loan") = {}
<1>1. StatementNoting(q, "out", ok, u, "docs", note[q])
  BY DEF DeleteOut, Statement
<1>2. pc[q] = "out" /\ ~Stale(q)
  BY <1>1, Statements
<1> HIDE DEF ok
<1>3. pc'[q] = "refused" \/ GoesOn(q, u, "docs", note[q])
  BY <1>1, AcceptedGoesOn
<1>4. Fresh(db0, q, u, {})
  BY <1>2, SentFresh
<1> HIDE DEF u
<1>5. Standing(q, u, Rows(q), "docs", note[q]) /\ pc[q] \notin {"ok", "close"} /\ ~Stale(q)
  BY <1>2 DEF Underway, Standing
<1>6. GoesOn(q, u, "docs", note[q]) => Underway(q)'
  BY <1>4, <1>5, FreshProceeds
<1>. QED
  BY <1>3, <1>6 DEF Proceeds

LEMMA DeleteDocsProceeds ==
  ASSUME NEW db0, ~SharedConnection, UnitsInv(db0), NEW q \in Requests, Underway(q), DeleteDocs(q)
  PROVE  Proceeds(q)
<1> DEFINE docs == Table(Rows(q), "doc")
           u == Found(q, docs)
           next == IF docs = {} THEN "chunks" ELSE "doc_chunks"
<1>1. StatementNoting(q, "docs", TRUE, u, next, docs)
  BY DEF DeleteDocs
<1>2. pc[q] = "docs" /\ ~Stale(q)
  BY <1>1, Statements
<1>3. pc'[q] = "refused" \/ GoesOn(q, u, next, docs)
  BY <1>1, AcceptedGoesOn
<1>4. Fresh(db0, q, u, docs)
  <2>1. docs \in SUBSET DOMAIN Rows(q)
    BY DEF Table
  <2>. QED
    BY <1>2, <2>1, FoundFresh
<1> HIDE DEF u
<1>5. Sorted(Rows(q), {}) /\ pc[q] \notin {"ok", "close"} /\ ~Stale(q)
  BY <1>2 DEF Underway, Standing
<1>6. Standing(q, u, Rows(q), next, docs)
  BY <1>5 DEF Standing
<1> HIDE DEF next, docs
<1>7. GoesOn(q, u, next, docs) => Underway(q)'
  BY <1>4, <1>5, <1>6, FreshProceeds
<1>. QED
  BY <1>3, <1>7 DEF Proceeds

LEMMA DeleteDocChunksProceeds ==
  ASSUME NEW db0, ~SharedConnection, UnitsInv(db0), NEW q \in Requests, Underway(q),
         DeleteDocChunks(q)
  PROVE  Proceeds(q)
<1> PICK d \in note[q] :
      StatementNoting(q, "doc_chunks", TRUE,
        Delete(Found(q, ChunksOf(Rows(q), d)), ChunksOf(Rows(q), d) \cup {d}),
        IF note[q] = {d} THEN "chunks" ELSE "doc_chunks", note[q] \ {d})
  BY DEF DeleteDocChunks
<1> DEFINE w == Delete(Found(q, ChunksOf(Rows(q), d)), ChunksOf(Rows(q), d) \cup {d})
           rows == Apply(Rows(q), Pending(w))
           next == IF note[q] = {d} THEN "chunks" ELSE "doc_chunks"
           memo == note[q] \ {d}
<1>1. StatementNoting(q, "doc_chunks", TRUE, w, next, memo)
  OBVIOUS
<1>2. pc[q] = "doc_chunks" /\ ~Stale(q)
  BY <1>1, Statements
<1>3. pc'[q] = "refused" \/ GoesOn(q, w, next, memo)
  BY <1>1, AcceptedGoesOn
<1>4. d \in Held(unit[q]) /\ d[1] = "doc"
  BY <1>2, Here DEF Phase
<1>5. Sorted(Rows(q), {}) /\ note[q] = Table(Rows(q), "doc")
  BY <1>2 DEF Underway, Standing
<1>6. /\ w = Delete(Found(q, ChunksOf(Rows(q), d)), ChunksOf(Rows(q), d) \cup {d})
      /\ rows = Apply(Rows(q), Pending(w))
  OBVIOUS
<1> HIDE DEF w, rows
<1>7. /\ Idle(db0, q, w) /\ Sorted(rows, {})
      /\ Table(rows, "doc") = Table(Rows(q), "doc") \ {d}
  <2>1. ~SharedConnection /\ UnitsInv(db0) /\ q \in Requests /\ ~Stale(q)
    BY <1>2
  <2>. QED
    BY ONLY <1>4, <1>5, <1>6, <2>1, DropIs
<1>8. memo = Table(rows, "doc") /\ (next = "chunks" => Table(rows, "doc") = {})
  BY <1>5, <1>7
<1>9. next \in {"chunks", "doc_chunks"}
  OBVIOUS
<1> HIDE DEF next, memo
<1>10. Standing(q, w, rows, next, memo)
  BY <1>7, <1>8, <1>9 DEF Standing
<1>11. Standing(q, w, Apply(Rows(q), Pending(w)), next, memo) /\ pc[q] \notin {"ok", "close"} /\ ~Stale(q)
  BY <1>2, <1>6, <1>10
<1>12. w.sent = Sent(q).sent
  BY <1>7 DEF Idle
<1>13. GoesOn(q, w, next, memo) => Underway(q)'
  BY <1>11, <1>12, StandsThen
<1>. QED
  BY <1>3, <1>13 DEF Proceeds

LEMMA DeleteTableProceeds ==
  ASSUME NEW db0, ~SharedConnection, UnitsInv(db0), NEW q \in Requests, Underway(q),
         job[q].op = "delete_book", NEW at \in {"chunks", "holds", "loans", "copies"}, NEW table,
         NEW more \in SUBSET {Book}, NEW next \in {"holds", "loans", "copies", "commit"},
         DeleteTable(q, at, table, more, next)
  PROVE  Proceeds(q)
<1> DEFINE ks == Table(Rows(q), table)
           all == ks \cup more
           u == Found(q, ks)
           w == Delete(u, all)
           rows == Apply(Rows(q), Pending(w))
           seen == Rows(q)
<1>1. StatementNoting(q, at, TRUE, w, next, note[q])
  BY DEF DeleteTable, Statement
<1>2. pc[q] = at /\ ~Stale(q)
  BY <1>1, Statements
<1>3. pc'[q] = "refused" \/ GoesOn(q, w, next, note[q])
  BY <1>1, AcceptedGoesOn
<1>4. ks \in SUBSET DOMAIN Rows(q)
  BY DEF Table
<1>5. Book \in Held(unit[q])
  BY <1>2, Here DEF Phase
<1>6. Fresh(db0, q, u, ks)
  BY <1>2, <1>4, FoundFresh
<1>7. w = Delete(u, all)
  OBVIOUS
<1>8. Sorted(seen, {}) /\ Table(seen, "doc") = {}
  BY <1>2 DEF Underway, Standing
<1> HIDE DEF u, w, ks
<1>9. Idle(db0, q, u) /\ u.gone = {} /\ DOMAIN u.obj = Held(unit[q]) \cup ks
  BY <1>6, FreshIdle, FreshIs
<1>10. all \subseteq DOMAIN u.obj
  BY <1>5, <1>9
<1> HIDE DEF all
<1>11. Idle(db0, q, w) /\ w.gone = all
  BY <1>7, <1>9, <1>10, DeleteIdle
<1>12. Less(seen, rows, all)
  BY <1>11, QuietRows DEF Idle
<1> HIDE DEF rows, seen
<1>13. Table(rows, "doc") = {} /\ Sorted(rows, {})
  BY ONLY <1>8, <1>12, SortedBare
<1>14. Standing(q, w, rows, next, note[q])
  BY <1>13 DEF Standing, Files
<1>15. Standing(q, w, Apply(Rows(q), Pending(w)), next, note[q]) /\ pc[q] \notin {"ok", "close"} /\ ~Stale(q)
  BY <1>2, <1>14 DEF rows
<1>16. w.sent = Sent(q).sent
  BY <1>11 DEF Idle
<1>17. GoesOn(q, w, next, note[q]) => Underway(q)'
  BY <1>15, <1>16, StandsThen
<1>. QED
  BY <1>3, <1>17 DEF Proceeds

LEMMA FlushProceeds ==
  ASSUME NEW db0, ~SharedConnection, UnitsInv(db0), NEW q \in Requests, Underway(q), Flush(q)
  PROVE  Proceeds(q)
<1> DEFINE u == Sent(q)
<1>1. StatementNoting(q, "commit", TRUE, u, "commit", note[q])
  BY DEF Flush, Statement
<1>2. pc[q] = "commit" /\ ~Stale(q)
  BY <1>1, Statements
<1>3. pc'[q] = "refused" \/ GoesOn(q, u, "commit", note[q])
  BY <1>1, AcceptedGoesOn
<1>4. Fresh(db0, q, u, {})
  BY <1>2, SentFresh
<1> HIDE DEF u
<1>5. Standing(q, u, Rows(q), "commit", note[q]) /\ pc[q] \notin {"ok", "close"} /\ ~Stale(q)
  BY <1>2 DEF Underway, Standing
<1>6. GoesOn(q, u, "commit", note[q]) => Underway(q)'
  BY <1>4, <1>5, FreshProceeds
<1>. QED
  BY <1>3, <1>6 DEF Proceeds

-----------------------------------------------------------------------------
(* Every step of a request that files or deletes documents, but its commit.   *)
LEMMA FilingProceeds ==
  ASSUME NEW db0, ~SharedConnection, FoundInOrder, UnitsInv(db0), NEW q \in Requests, Serve(q),
         job[q].op \in Filing, Underway(q), ~Commit(q)
  PROVE  Proceeds(q)
<1>1. Refuse(q) => Proceeds(q)
  BY DEF Refuse, UnitsInv, Sessions, Proceeds
<1>2. job[q].op \in {"index_text", "index_book", "reindex", "delete_doc", "delete_book"}
  BY DEF Filing
<1>3. ~Lend(q) /\ ~Converse(q)
  BY <1>2 DEF Lend, Borrow, Return, Reserve, CancelReservation, PayFine, Read, Asks,
     Converse, CreateSession, DeleteSession, Ask
<1>4. Index(q) => Proceeds(q)
  <2>1. IndexText(q) \/ IndexBook(q) \/ IndexCards(q) \/ IndexClear(q) => Proceeds(q)
    BY IndexTextProceeds, IndexBookProceeds, IndexCardsProceeds, IndexClearProceeds
  <2>2. FileDoc(q) \/ StoreChunks(q) => Proceeds(q)
    BY FileDocProceeds, StoreChunksProceeds
  <2>3. Embed(q) => Proceeds(q)
    BY EmbedProceeds DEF Proceeds
  <2>4. Raise(q, "embed") => Proceeds(q)
    BY <1>1 DEF Raise
  <2>5. RequireDoc(q) \/ Reindex(q) \/ DeleteDoc(q) => Proceeds(q)
    BY RequireDocProceeds, ReindexProceeds, DeleteDocProceeds
  <2>6. ASSUME Withdraw(q)
        PROVE  Proceeds(q)
    <3>1. job[q].op = "delete_book"
      BY <2>6 DEF Withdraw, Asks
    <3>2. DeleteBook(q) \/ DeleteOut(q) \/ DeleteDocs(q) \/ DeleteDocChunks(q) => Proceeds(q)
      BY <3>1, DeleteBookProceeds, DeleteOutProceeds, DeleteDocsProceeds, DeleteDocChunksProceeds
    <3>3. \A table : DeleteTable(q, "chunks", table, {}, "holds") => Proceeds(q)
      BY <3>1, DeleteTableProceeds
    <3>4. \A table : DeleteTable(q, "holds", table, {}, "loans") => Proceeds(q)
      BY <3>1, DeleteTableProceeds
    <3>5. \A table : DeleteTable(q, "loans", table, {}, "copies") => Proceeds(q)
      BY <3>1, DeleteTableProceeds
    <3>6. \A table : DeleteTable(q, "copies", table, {Book}, "commit") => Proceeds(q)
      BY <3>1, DeleteTableProceeds
    <3>. QED
      BY <2>6, <3>2, <3>3, <3>4, <3>5, <3>6 DEF Withdraw
  <2>. QED
    BY <2>1, <2>2, <2>3, <2>4, <2>5, <2>6 DEF Index
<1>5. Finish(q) => Proceeds(q)
  <2>1. Flush(q) => Proceeds(q)
    BY FlushProceeds
  <2>2. FlushFails(q) \/ Victim(q) => Proceeds(q)
    BY <1>1 DEF FlushFails, Victim
  <2>3. ~Close(q, "close", "ok")
    <3>1. pc[q] # "close"
      BY <1>2, Here DEF Path
    <3>. QED
      BY <3>1 DEF Close
  <2>. QED
    BY <2>1, <2>2, <2>3 DEF Finish
<1>. QED
  BY <1>3, <1>4, <1>5 DEF Serve

(* What others change away from the shelf.                                    *)
LEMMA ApplyShelf ==
  ASSUME NEW db, NEW db2, SameShelf(db, db2), NEW d
  PROVE  SameShelf(Apply(db, d), Apply(db2, d))
<1> DEFINE one == Apply(db, d)
           two == Apply(db2, d)
<1>1. /\ DOMAIN one = DOMAIN d.put \cup (DOMAIN db \ d.del)
      /\ \A k \in DOMAIN one :
           one[k] = IF k \notin DOMAIN d.put THEN db[k]
                    ELSE IF k \in DOMAIN db THEN Upon(d.put[k], db[k]) ELSE d.put[k]
  BY DEF Apply
<1>2. /\ DOMAIN two = DOMAIN d.put \cup (DOMAIN db2 \ d.del)
      /\ \A k \in DOMAIN two :
           two[k] = IF k \notin DOMAIN d.put THEN db2[k]
                    ELSE IF k \in DOMAIN db2 THEN Upon(d.put[k], db2[k]) ELSE d.put[k]
  BY DEF Apply
<1> HIDE DEF one, two
<1>3. ASSUME NEW k, k[1] \in Shelf
      PROVE  /\ k \in DOMAIN one <=> k \in DOMAIN two
             /\ k \in DOMAIN one => two[k] = one[k]
  <2>1. (k \in DOMAIN db <=> k \in DOMAIN db2) /\ (k \in DOMAIN db => db2[k] = db[k])
    BY <1>3 DEF SameShelf
  <2>. QED
    BY <1>1, <1>2, <2>1
<1>. QED
  BY <1>3 DEF SameShelf, one, two

LEMMA StandsStill ==
  ASSUME NEW q, job' = job, unit'[q] = unit[q], pc'[q] = pc[q], note'[q] = note[q],
         ~SharedConnection, SameShelf(durable, durable'), Underway(q)
  PROVE  Underway(q)'
<1> DEFINE rows == Rows(q)
           rows2 == Rows(q)'
<1>1. SameShelf(rows, rows2)
  <2> DEFINE d == unit[q].sent
             e == Pending(unit[q])
             one == Apply(durable, d)
             two == Apply(durable', d)
  <2>1. SameShelf(one, two)
    BY ApplyShelf
  <2> HIDE DEF e, one, two
  <2>2. SameShelf(Apply(one, e), Apply(two, e))
    BY <2>1, ApplyShelf
  <2>3. rows = Apply(one, e)
    BY ViewIs DEF Rows, one, e
  <2>4. Pending(unit[q])' = e
    BY DEF Pending, Unsent, Difference, e
  <2>5. rows2 = Apply(two, e)
    BY <2>4 DEF Rows, View, Apply, two
  <2>. QED
    BY <2>2, <2>3, <2>5
<1>2. Target(q)' = Target(q) /\ Files(q)' = Files(q)
  BY DEF Target, DocOf, MyDoc, Files
<1>3. Standing(q, unit[q], rows, pc[q], note[q])
  BY DEF Underway
<1> HIDE DEF rows, rows2
<1>4. /\ Table(rows2, "doc") = Table(rows, "doc")
      /\ \A d : ChunksOf(rows2, d) = ChunksOf(rows, d)
      /\ Cards(rows2) = Cards(rows) /\ (Book \in DOMAIN rows2 <=> Book \in DOMAIN rows)
      /\ \A but : Sorted(rows, but) => Sorted(rows2, but)
  BY <1>1, ShelfIs
<1>5. /\ \A d \in Table(rows, "doc") : rows2[d] = rows[d]
      /\ MyDoc(q) \in DOMAIN rows2 <=> MyDoc(q) \in DOMAIN rows
  BY <1>1 DEF SameShelf, Shelf, Table, MyDoc
<1>6. Standing(q, unit[q], rows2, pc[q], note[q])
  BY <1>3, <1>4, <1>5 DEF Standing
<1>7. Standing(q, unit[q], Rows(q), pc[q], note[q])'
  BY <1>2, <1>6
     DEF Standing, Sorted, Cards, Table, ChunksOf, MyChunk, Pieces, Book, MyDoc, rows2
<1>. QED
  BY <1>7 DEF Underway

LEMMA StartsInOrder ==
  ASSUME NEW db0, ~SharedConnection, UnitsInv(db0), NEW q \in Requests, pc[q] = "start",
         InOrder(durable)
  PROVE  Underway(q)
<1>1. unit[q] = Closed
  BY Here DEF Phase
<1>2. Rows(q) = Apply(Apply(durable, Nothing), Pending(Closed))
  BY <1>1, ViewIs DEF Rows, Closed
<1> DEFINE one == Apply(durable, Nothing)
           two == Apply(one, Pending(Closed))
<1>3. SameShelf(durable, one)
  BY DEF SameShelf, Apply, Nothing
<1> HIDE DEF one
<1>4. Unsent(Closed) = {} /\ Closed.gone = {}
  BY DEF Unsent, Closed
<1>5. Less(one, two, {})
  BY <1>4, QuietRows
<1> HIDE DEF two
<1>6. SameShelf(one, two)
  BY <1>5 DEF Less, SameShelf
<1>7. Sorted(durable, {})
  BY DEF Sorted, InOrder
<1>8. Sorted(two, {})
  <2>1. Sorted(one, {})
    BY <1>3, <1>7, ShelfIs
  <2>. QED
    BY <1>6, <2>1, ShelfIs
<1>9. Rows(q) = two
  BY <1>2 DEF two, one
<1>. QED
  BY <1>8, <1>9 DEF Underway, Standing

(* What a commit makes of the shelf.                                          *)
LEMMA CommitAway ==
  ASSUME NEW db0, ~SharedConnection, UnitsInv(db0), NEW q \in Requests, Commit(q),
         job[q].op \notin Filing
  PROVE  SameShelf(durable, durable')
<1> DEFINE s == unit[q].sent
<1>1. Committed(db0, q)
  BY CommitIs
<1>2. durable' = Apply(durable, s) /\ Transaction(db0, q, s) /\ Strikes(db0, q, s.del)
  BY <1>1 DEF Committed
<1>3. ~Files(q)
  BY DEF Files, Filing
<1> HIDE DEF s
<1>4. \A k : k[1] \in Shelf => k \notin DOMAIN s.put
  BY <1>2, <1>3 DEF Transaction, Writes, Shelf
<1>5. \A k : k[1] \in Shelf => k \notin s.del
  BY <1>2 DEF Strikes
<1>6. \A k : k[1] \in Shelf =>
        /\ k \in DOMAIN Apply(durable, s) <=> k \in DOMAIN durable
        /\ k \in DOMAIN durable => Apply(durable, s)[k] = durable[k]
  BY <1>4, <1>5 DEF Apply
<1>. QED
  BY <1>2, <1>6 DEF SameShelf

LEMMA CommitInOrder ==
  ASSUME NEW db0, ~SharedConnection, UnitsInv(db0), NEW q \in Requests, Commit(q), Underway(q)
  PROVE  InOrder(durable')
<1> DEFINE seen == View(q)
           rows == Apply(seen, Pending(unit[q]))
<1>1. durable' = seen
  BY ViewIs DEF Commit
<1>2. Unsent(unit[q]) = {} /\ unit[q].gone = {}
  <2>1. Pending(unit[q]) = Nothing
    BY DEF Commit, Clean
  <2>. QED
    BY <2>1, PendingIs DEF Nothing
<1>3. Less(seen, rows, {})
  BY <1>2, QuietRows
<1>4. Sorted(rows, {})
  BY DEF Underway, Standing, Rows, Commit
<1> HIDE DEF seen, rows
<1>5. SameShelf(rows, seen)
  BY <1>3 DEF Less, SameShelf
<1>6. Sorted(seen, {})
  BY <1>4, <1>5, ShelfIs
<1>. QED
  BY <1>1, <1>6, SortedMore

(* While no two of them are served at one time, each of them finds the documents
   in order and is underway, and what it commits is in order.                 *)
FilingInv ==
  /\ MetLive
  /\ Apart(Filing) =>
       /\ InOrder(durable)
       /\ \A q \in Requests : Live(q) /\ job[q].op \in Filing => Underway(q)

LEMMA FilingStep ==
  ASSUME NEW db0, ~SharedConnection, FoundInOrder, UnitsInv(db0), NEW q \in Requests, Serve(q),
         FilingInv
  PROVE  FilingInv'
<1>1. Aside(q) /\ MetLive' /\ met \subseteq met'
  BY StepsAside, MeetingsAreKept DEF FilingInv
<1>2. Apart(Filing)' => Apart(Filing)
  BY <1>1 DEF Aside, Apart, Filing
<1> SUFFICES ASSUME Apart(Filing)
             PROVE  /\ InOrder(durable')
                    /\ \A p \in Requests : Live(p)' /\ job[p].op \in Filing => Underway(p)'
  BY <1>1, <1>2 DEF FilingInv, Aside, InOrder, Cards, ChunksOf, Table, Book, Filing
<1>3. /\ MetLive /\ InOrder(durable)
      /\ \A p \in Requests : Live(p) /\ job[p].op \in Filing => Underway(p)
  BY DEF FilingInv
<1>4. Commit(q) => Live(q) /\ ~Live(q)'
  BY DEF Commit, Live, Over, UnitsInv, Sessions
<1>5. SameShelf(durable, durable') \/ (Commit(q) /\ job[q].op \in Filing)
  <2>1. CASE durable' = durable
    BY <2>1 DEF SameShelf
  <2>2. CASE durable' # durable
    <3>1. Commit(q)
      BY <2>2, OnlyCommitsWrite
    <3>. QED
      BY <3>1, CommitAway
  <2>. QED
    BY <2>1, <2>2
<1>6. InOrder(durable')
  <2>1. CASE SameShelf(durable, durable')
    <3>1. Sorted(durable, {})
      BY <1>3 DEF Sorted, InOrder
    <3>2. Sorted(durable', {})
      BY <2>1, <3>1, ShelfIs
    <3>. QED
      BY <3>2, SortedMore
  <2>2. CASE Commit(q) /\ job[q].op \in Filing
    BY <1>3, <1>4, <2>2, CommitInOrder
  <2>. QED
    BY <1>5, <2>1, <2>2
<1>7. ASSUME NEW p \in Requests, p # q, Live(p)', job[p].op \in Filing
      PROVE  Underway(p)'
  <2>1. job' = job /\ pc'[p] = pc[p] /\ unit'[p] = unit[p] /\ note'[p] = note[p]
    BY <1>1, <1>7 DEF Aside
  <2>2. Live(p) /\ Underway(p)
    BY <1>3, <1>7, <2>1 DEF Live
  <2>3. SameShelf(durable, durable')
    <3>1. ~(Commit(q) /\ job[q].op \in Filing)
      BY <1>3, <1>4, <1>7, <2>2 DEF MetLive, Apart
    <3>. QED
      BY <1>5, <3>1
  <2>. QED
    BY <2>1, <2>2, <2>3, StandsStill
<1>8. ASSUME Live(q)', job[q].op \in Filing
      PROVE  Underway(q)'
  <2>1. Underway(q)
    <3>1. CASE Live(q)
      BY <1>3, <1>8, <3>1
    <3>2. CASE ~Live(q)
      <4>1. pc[q] = "start"
        BY <1>1, <3>2 DEF Aside, Live
      <4>. QED
        BY <1>3, <4>1, StartsInOrder
    <3>. QED
      BY <3>1, <3>2
  <2>2. ~Commit(q)
    BY <1>4, <1>8
  <2>3. Proceeds(q)
    BY <1>8, <2>1, <2>2, FilingProceeds
  <2>4. pc'[q] # "refused"
    BY <1>8 DEF Live, Over
  <2>. QED
    BY <2>3, <2>4 DEF Proceeds
<1>. QED
  BY <1>6, <1>7, <1>8

(* A document that is there has as many chunks as it says, no chunk is of a
   document that is gone, and a title has one card at most and is there as long
   as it has documents (rag/service.py: index_text, index_book, reindex,
   delete_doc, delete_by_book), unless two requests that file or delete
   documents were served at one time: whatever else is served meanwhile, and
   whichever call fails.  It was so in the database as the requests find it, and
   a text is split into a sequence of pieces.                                 *)
THEOREM UnitsKeepOrder ==
  ASSUME ~SharedConnection, FoundInOrder
  PROVE  Spec => []FilingRacesStayLocal
<1>1. Init => FilingInv
  BY DEF Init, FilingInv, MetLive, Live, FoundInOrder, Over
<1>2. UnitsHold /\ FilingInv /\ [Next]_vars => FilingInv'
  <2> SUFFICES ASSUME NEW db0 \in Stores, UnitsInv(db0), FilingInv, [Next]_vars
               PROVE  FilingInv'
    BY DEF UnitsHold
  <2>1. CASE Next
    BY <2>1, FilingStep DEF Next
  <2>2. CASE UNCHANGED vars
    <3>1. \A q \in Requests : Underway(q) => Underway(q)'
      BY <2>2, StandsStill DEF vars, SameShelf
    <3>2. /\ MetLive' <=> MetLive
          /\ Apart(Filing)' <=> Apart(Filing)
          /\ \A q \in Requests : Live(q)' <=> Live(q)
      BY <2>2 DEF vars, MetLive, Live, Apart, Filing
    <3>3. InOrder(durable)' <=> InOrder(durable)
      BY <2>2 DEF vars, InOrder, Cards, ChunksOf, Table, Book
    <3>. QED
      BY <2>2, <3>1, <3>2, <3>3 DEF FilingInv, vars, Filing
  <2>. QED
    BY <2>1, <2>2
<1>3. FilingInv => FilingRacesStayLocal
  BY DEF FilingInv, FilingRacesStayLocal
<1>. QED
  BY <1>1, <1>2, <1>3, UnitsInvariant, PTL DEF Spec

=============================================================================
