------------------------------- MODULE Lending -------------------------------
(***************************************************************************)
(* The circulation operations of src/library statement by statement: what  *)
(* Circulation takes in one step, as the units of work that concurrent     *)
(* requests run.  One title; loan periods and overdue days are abstracted  *)
(* to what the rows say: a loan is late or not and costs FineOf(late).     *)
(***************************************************************************)
EXTENDS UnitOfWork

CONSTANTS MaxActive,   (* config.max_loans                                      *)
          BlockAt,     (* config.max_fine_cents_before_block                    *)
          Fine         (* the fine of a loan returned late                      *)

Book == <<"book">>
ReaderOf(q) == <<"reader", job[q].reader>>
CopyOf(q) == <<"copy", job[q].copy>>
MyLoan(q) == <<"loan", q>>
MyHold(q) == <<"hold", q>>
NoCopy == <<"no_copy">>

(* The repositories' queries, over the rows a statement sees.                 *)
ActiveForCopy(db, c) == {k \in Table(db, "loan") : db[k].copy = c /\ db[k].status = "active"}
ActiveForReader(db, r) ==
  {k \in Table(db, "loan") : db[k].reader = r /\ db[k].status = "active"}
WithStatus(db, s) == {k \in Table(db, "copy") : db[k].status = s}
Open(db) == {k \in Table(db, "hold") : db[k].status \in {"waiting", "ready"}}
FindOpen(db, r) == {k \in Open(db) : db[k].reader = r}
NextWaiting(db) ==
  {k \in Open(db) : /\ db[k].status = "waiting"
                    /\ \A other \in Open(db) :
                         db[other].status = "waiting" => db[k].at <= db[other].at}

Asks(q, op) == job[q].op = op
Object(q, k) == Found(q, {k}).obj[k]

-----------------------------------------------------------------------------
(* borrow, by copy id.                                                        *)

RequireReader(q, next) ==
  Statement(q, "start", ReaderOf(q) \in DOMAIN Rows(q), Found(q, {ReaderOf(q)}), next)

BorrowLimits(q) ==
  LET mine == ActiveForReader(Rows(q), ReaderOf(q))
  IN Statement(q, "limits",
       /\ \A k \in mine : ~Rows(q)[k].late
       /\ Object(q, ReaderOf(q)).balance < BlockAt
       /\ Cardinality(mine) < MaxActive,
       Sent(q), "copy")

(* The loan is built before the statement that inserts it.                    *)
WithLoan(u, q) ==
  Add(u, MyLoan(q), [copy |-> CopyOf(q), reader |-> ReaderOf(q), status |-> "active",
                     late |-> FALSE, fine |-> 0])

BorrowCopy(q) ==
  LET c == CopyOf(q)
  IN Statement(q, "copy",
       c \in DOMAIN Rows(q) /\ Object(q, c).status \in {"available", "reserved"},
       Found(q, {c}),
       IF Object(q, c).status = "reserved" THEN "kept" ELSE "title")

(* A reserved copy goes only to the reader whose open hold is ready for it.   *)
KeptFor(q, k) == Object(q, k).status = "ready" /\ Object(q, k).copy = CopyOf(q)
BorrowKept(q) ==
  LET open == FindOpen(Rows(q), ReaderOf(q))
  IN IF open = {} THEN Statement(q, "kept", FALSE, unit[q], "refused")
     ELSE \E k \in open :
            Statement(q, "kept", KeptFor(q, k), Found(q, {k}), "title")

BorrowTitle(q) ==
  Statement(q, "title", Book \in DOMAIN Rows(q), WithLoan(Found(q, {Book}), q), "insert")

BorrowInsert(q) ==
  Statement(q, "insert", TRUE,
            Touch(Assign(Sent(q), CopyOf(q), [status |-> "on_loan"]), CopyOf(q)),
            "honour")

(* Borrowing the copy that was kept for the reader fulfils the hold.          *)
BorrowHonour(q) ==
  LET open == FindOpen(Rows(q), ReaderOf(q))
  IN IF open = {} THEN Statement(q, "honour", TRUE, Sent(q), "commit")
     ELSE \E k \in open :
            Statement(q, "honour", TRUE,
              IF KeptFor(q, k) THEN Assign(Found(q, {k}), k, [status |-> "fulfilled"])
              ELSE Found(q, {k}),
              "commit")

Borrow(q) ==
  /\ Asks(q, "borrow")
  /\ \/ RequireReader(q, "limits") \/ BorrowLimits(q) \/ BorrowCopy(q)
     \/ pc[q] = "kept" /\ BorrowKept(q)
     \/ BorrowTitle(q) \/ BorrowInsert(q)
     \/ pc[q] = "honour" /\ BorrowHonour(q)

-----------------------------------------------------------------------------
(* _release_or_hold: the query for the head of the queue, and what follows.   *)
ReleaseOrHold_ForgetsTheCopy(q, at, c, next) ==
  LET heads == NextWaiting(Rows(q))
  IN IF heads = {}
     THEN Statement(q, at, TRUE,
                    Touch(Assign(Sent(q), c, [status |-> "available"]), c), next)
     ELSE \E k \in heads :
            Statement(q, at, TRUE,
              Assign(Found(q, {k}), k, [status |-> "ready", copy |-> c]), next)
ReleaseOrHold(q, at, c, next) ==
  LET heads == NextWaiting(Rows(q))
  IN IF heads = {}
     THEN Statement(q, at, TRUE,
                    Touch(Assign(Sent(q), c, [status |-> "available"]), c), next)
     ELSE \E k \in heads :
            Statement(q, at, TRUE,
              Touch(Assign(Assign(Found(q, {k}), k, [status |-> "ready", copy |-> c]),
                           c, [status |-> "reserved"]), c), next)

ReturnCopy(q) ==
  Statement(q, "start", CopyOf(q) \in DOMAIN Rows(q), Found(q, {CopyOf(q)}), "loan")

(* active_for_copy, the fine, the loan closed; note keeps the loan.           *)
FineOf(loan) == IF loan.late THEN Fine ELSE 0
ReturnLoan(q) ==
  LET active == ActiveForCopy(Rows(q), CopyOf(q))
  IN IF active = {} THEN Statement(q, "loan", FALSE, unit[q], "refused")
     ELSE \E k \in active :
            StatementNoting(q, "loan", TRUE,
              Assign(Found(q, {k}), k,
                     [status |-> "returned", fine |-> FineOf(Object(q, k))]),
              "charge", {k})

(* The reader is charged by read and write-back; one who is gone is not.      *)
ReturnCharge(q) ==
  \E k \in note[q] :
    LET r == unit[q].obj[k].reader
        fine == unit[q].obj[k].fine
    IN Statement(q, "charge", TRUE,
         IF r \notin DOMAIN Rows(q) THEN Sent(q)
         ELSE IF fine = 0 THEN Found(q, {r})
         ELSE Touch(Assign(Found(q, {r}), r, [balance |-> Object(q, r).balance + fine]), r),
         "release")

Return(q) ==
  /\ Asks(q, "return")
  /\ \/ ReturnCopy(q)
     \/ pc[q] = "loan" /\ ReturnLoan(q)
     \/ pc[q] = "charge" /\ ReturnCharge(q)
     \/ pc[q] = "release" /\ ReleaseOrHold(q, "release", CopyOf(q), "commit")

-----------------------------------------------------------------------------
ReserveOpen(q) ==
  Statement(q, "open", FindOpen(Rows(q), ReaderOf(q)) = {}, Sent(q), "counts")
(* The queue is only for titles with copies, none of them on the shelf.       *)
ReserveCounts(q) ==
  Statement(q, "counts",
    WithStatus(Rows(q), "available") = {} /\ Table(Rows(q), "copy") # {},
    Add(Sent(q), MyHold(q), [reader |-> ReaderOf(q), status |-> "waiting",
                             copy |-> NoCopy, at |-> 3]),
    "position")
ReservePosition(q) == Statement(q, "position", TRUE, Sent(q), "commit")
ReserveBook(q) == Statement(q, "book", Book \in DOMAIN Rows(q), Found(q, {Book}), "open")
Reserve(q) ==
  /\ Asks(q, "reserve")
  /\ \/ RequireReader(q, "book") \/ ReserveBook(q) \/ ReserveOpen(q)
     \/ ReserveCounts(q) \/ ReservePosition(q)

CancelHold(q) ==
  LET k == job[q].hold
  IN Statement(q, "start", k \in Open(Rows(q)),
       Assign(Found(q, {k}), k, [status |-> "cancelled"]),
       IF Rows(q)[k].status = "ready" THEN "keeper" ELSE "commit")
CancelCopy(q) ==
  LET c == unit[q].obj[job[q].hold].copy
  IN IF c \notin DOMAIN Rows(q) THEN Statement(q, "keeper", TRUE, Sent(q), "commit")
     ELSE Statement(q, "keeper", TRUE, Found(q, {c}),
                    IF Object(q, c).status = "reserved" THEN "pass_on" ELSE "commit")
CancelReservation(q) ==
  /\ Asks(q, "cancel")
  /\ \/ CancelHold(q)
     \/ pc[q] = "keeper" /\ CancelCopy(q)
     \/ pc[q] = "pass_on" /\
        ReleaseOrHold(q, "pass_on", unit[q].obj[job[q].hold].copy, "commit")

PayReader_Unchecked(q) ==
  LET r == ReaderOf(q)
  IN Statement(q, "start", r \in DOMAIN Rows(q),
       Touch(Assign(Found(q, {r}), r, [balance |-> Rows(q)[r].balance - job[q].amount]), r),
       "commit")
PayReader(q) ==
  LET r == ReaderOf(q)
  IN Statement(q, "start",
       r \in DOMAIN Rows(q) /\ job[q].amount <= Rows(q)[r].balance,
       Touch(Assign(Found(q, {r}), r, [balance |-> Rows(q)[r].balance - job[q].amount]), r),
       "commit")
PayFine(q) == Asks(q, "pay") /\ PayReader(q)

(* Any read: its query, then the session is closed without a commit.          *)
ReadQuery(q) == Statement(q, "start", TRUE, Sent(q), "close")
Read(q) == Asks(q, "read") /\ ReadQuery(q)

Lend(q) == Borrow(q) \/ Return(q) \/ Reserve(q) \/ CancelReservation(q) \/ PayFine(q) \/ Read(q)

=============================================================================
