------------------------------ MODULE Requests ------------------------------
(***************************************************************************)
(* Concurrent requests on the library: every request calls one service     *)
(* method, and the statements of the units of work interleave as the event *)
(* loop and the database let them.                                         *)
(***************************************************************************)
EXTENDS Assistant

CONSTANTS Stores,    (* the databases the requests may find                      *)
          Opening,   (* per row of a reader, the balance in all of them          *)
          Mixes      (* the sets of jobs that are asked for at one time          *)

(* What schema and API see to: a row has the columns of its table, its id is none
   that a request will draw, and no debt or fine is negative; a job names rows of
   the tables it is about.                                                    *)
Stored(db, k) ==
  /\ ~(Len(k) > 1 /\ k[2] \in Requests)
  /\ k[1] = "reader" => "balance" \in DOMAIN db[k] /\ db[k].balance \in Nat
  /\ k[1] = "loan" => /\ {"reader", "fine"} \subseteq DOMAIN db[k]
                      /\ db[k].reader[1] = "reader" /\ db[k].fine \in Nat
  /\ k[1] = "hold" => "copy" \in DOMAIN db[k] /\ db[k].copy[1] \in {"copy", "no_copy"}
  /\ k[1] = "message" => "chat" \in DOMAIN db[k] /\ db[k].chat[1] = "chat"
  /\ k[1] = "doc" => /\ {"text", "chunks", "source"} \subseteq DOMAIN db[k]
                     /\ db[k].text \in DOMAIN PiecesOf
  /\ k[1] = "chunk" => {"doc", "piece"} \subseteq DOMAIN db[k]
Asked(j) ==
  /\ j.op \in {"reindex", "delete_doc"} => j.doc[1] = "doc"
  /\ j.op \in {"ask", "delete_session"} => j.chat[1] = "chat"
  /\ j.op = "cancel" => j.hold[1] = "hold"
  /\ j.op = "pay" => j.amount \in Int
  /\ j.op = "index_text" => j.text \in BodyTexts
ASSUME RequestsAssumption ==
  /\ Fine \in Nat
  /\ \A db \in Stores : \A k \in DOMAIN db : Stored(db, k)
  /\ \A jobs \in Mixes : \A j \in jobs : Asked(j)

Init ==
  /\ durable \in Stores
  /\ working = durable
  /\ unit = [q \in Requests |-> Closed]
  /\ \E jobs \in Mixes : job \in [Requests -> jobs]
  /\ pc = [q \in Requests |-> "start"]
  /\ note = [q \in Requests |-> {}]
  /\ met = {}

Serve(q) == Lend(q) \/ Index(q) \/ Converse(q) \/ Finish(q)
Next == \E q \in Requests : Serve(q)

(* A statement, a call of a remote service and a lock wait end: the event loop
   serves every request, and the services have a timeout.                     *)
Fairness == \A q \in Requests : WF_vars(Serve(q))

Spec == Init /\ [][Next]_vars
FairSpec == Spec /\ Fairness

-----------------------------------------------------------------------------
Circulating == {"borrow", "return", "reserve", "cancel", "pay", "delete_book"}
Filing == {"index_text", "index_book", "reindex", "delete_doc", "delete_book"}

(* The rows a request inserts.                                                *)
Own(db, q) == {k \in DOMAIN db : Len(k) > 1 /\ k[2] = q}
Apart(ops) ==
  \A q, p \in Requests :
    q # p /\ job[q].op \in ops /\ job[p].op \in ops => {q, p} \notin met

(* The variables have their types, and no balance is negative: a payment
   above the debt is refused even when the debt changes under it.             *)
TypeOK ==
  /\ \A q \in Requests :
       /\ DOMAIN unit[q].base \subseteq DOMAIN unit[q].obj
       /\ unit[q].touched \cup unit[q].gone \subseteq DOMAIN unit[q].obj
       /\ pc[q] \in Over \cup {"start"} => unit[q] = Closed
  /\ \A k \in Table(durable, "reader") : durable[k].balance \in Nat
  /\ \A pair \in met : Cardinality(pair) = 2

(* A unit of work commits on success (db.py:77): a borrow that was accepted has
   its loan, until the title is withdrawn.                                    *)
AcceptedIsKept ==
  \A q \in Requests :
    pc[q] = "ok" /\ job[q].op = "borrow" /\ Book \in DOMAIN durable =>
      MyLoan(q) \in DOMAIN durable

(* And it is kept as a whole or not at all: a request that was refused or has
   not committed left no row behind, and the turn of a question is there with
   both its messages or with neither.                                         *)
AllOrNothing ==
  /\ AcceptedIsKept
  /\ \A q \in Requests :
       /\ pc[q] \notin {"ok", "close"} => Own(durable, q) = {}
       /\ Said(q, "user") \in DOMAIN durable <=> Said(q, "assistant") \in DOMAIN durable

OneKeeper ==
  \A c \in Table(durable, "copy") :
    /\ Cardinality(ActiveForCopy(durable, c)) =
         (IF durable[c].status = "on_loan" THEN 1 ELSE 0)
    /\ Cardinality({k \in Open(durable) :
                      durable[k].status = "ready" /\ durable[k].copy = c}) =
         (IF durable[c].status = "reserved" THEN 1 ELSE 0)
(* What the readers owe: the fines of the loans that ended, less what was paid. *)
FinesAddUp ==
  \A r \in DOMAIN Opening :
    durable[r].balance =
      Opening[r]
      + MapThenSumSet(LAMBDA k : durable[k].fine,
                      {k \in Table(durable, "loan") : durable[k].reader = r})
      - MapThenSumSet(LAMBDA q : job[q].amount,
                      {q \in Requests : job[q].op = "pay" /\ ReaderOf(q) = r /\ pc[q] = "ok"})
NoStrays ==
  /\ \A k \in Table(durable, "loan") : durable[k].copy \in DOMAIN durable
  /\ Open(durable) # {} => Book \in DOMAIN durable
  /\ \A r \in Table(durable, "reader") : Cardinality(FindOpen(durable, r)) <= 1
(* The cards of the catalogue.                                                *)
Cards(db) == {d \in Table(db, "doc") : db[d].source = "catalog"}
InOrder(db) ==
  /\ \A k \in Table(db, "chunk") : db[k].doc \in Table(db, "doc")
  /\ \A d \in Table(db, "doc") : db[d].chunks = Cardinality(ChunksOf(db, d))
  /\ \A d, e \in Cards(db) : d = e
  /\ Table(db, "doc") # {} => Book \in DOMAIN db
DeletedInPeace ==
  \A q, p \in Requests :
    job[q].op = "ask" /\ job[p].op = "delete_session" /\ ChatOf(q) = ChatOf(p)
      => {q, p} \notin met
Spoken(db) == \A k \in Table(db, "message") : db[k].chat \in DOMAIN db

(* What breaks, breaks by a race.  While no two requests on loans, copies, holds
   or balances were served at one time, these agree and the fines add up.     *)
DeskRacesStayLocal ==
  Apart(Circulating) => OneKeeper /\ NoStrays /\ (Book \in DOMAIN durable => FinesAddUp)

(* While no two requests filed or deleted documents at one time, every document
   has as many chunks as it says, none is of no document, and a title that is
   there has one card at most.                                                *)
FilingRacesStayLocal == Apart(Filing) => InOrder(durable)

(* While no conversation was deleted at the time of a question in it, no message
   outlives its conversation.                                                 *)
TalkRacesStayLocal == DeletedInPeace => Spoken(durable)

(* A document that says it is indexed can be found by every part of its text,
   whatever raced or failed, as long as the library has its title.            *)
Holds(piece, n) == piece[1] <= n /\ n < piece[2]
Findable(db) ==
  \A d \in Table(db, "doc") :
    db[d].status = "indexed" /\ Book \in DOMAIN db =>
      \A n \in InkOf[db[d].text] : \E k \in ChunksOf(db, d) : Holds(db[k].piece, n)
IndexedIsFindable == Findable(durable)

(* What that rests on: the pieces of a text hold all of it, and the documents
   that the requests find are filed.                                          *)
SplitCovers ==
  \A text \in DOMAIN PiecesOf : \A n \in InkOf[text] :
    \E i \in DOMAIN PiecesOf[text] : Holds(PiecesOf[text][i], n)
FoundFiled == SplitCovers /\ \A db \in Stores : Findable(db)
FoundInOrder ==
  /\ \A text \in DOMAIN PiecesOf : PiecesOf[text] \in Seq(Int \X Int)
  /\ \A db \in Stores : InOrder(db)
FoundSpoken == \A db \in Stores : Spoken(db)

(* Once a conversation is deleted no message of it is written any more,
   although an answer may still be under way.                                 *)
DeletedStaysSilent ==
  [][\A k \in Table(durable', "message") :
       k \notin DOMAIN durable => durable'[k].chat \in DOMAIN durable']_durable

(* Every request ends: no unit waits for ever for the rows of another.        *)
EveryRequestEnds == \A q \in Requests : <>(pc[q] \in Over)

(* The docstring of loan/service.py: no copy is stranded in on_loan with no
   loan record behind it.                                                     *)
NoStrandedCopy ==
  \A c \in Table(durable, "copy") :
    durable[c].status = "on_loan" => ActiveForCopy(durable, c) # {}

=============================================================================
