----------------------------- MODULE Circulation -----------------------------
(***************************************************************************)
(* Circulation of src/library: copies, readers, loans and the hold queue.  *)
(*                                                                         *)
(* Every operation runs in one unit of work (infra/db.py, begin), which    *)
(* commits as a whole or rolls back: one operation is one action, and an   *)
(* operation that raises is no step.  Rows that no operation reads again   *)
(* (returned loans; fulfilled and cancelled reservations) are dropped.     *)
(* Time counts in ticks, several to a day: a loan is overdue at once but   *)
(* costs nothing before a whole day has passed.                            *)
(***************************************************************************)
EXTENDS Naturals, FiniteSets, SequencesExt, Rows

CONSTANTS Books, Copies, Readers, Levels,
          DefaultLevel,  (* the level assumed for a reader who is gone          *)
          BookOf,        (* the title a copy is added to                        *)
          LoanTicks,     (* config.loan_days, per level, in ticks               *)
          MaxActive,     (* config.max_loans, per level                         *)
          TicksPerDay,
          FinePerDay,    (* config.fine_cents_per_overdue_day                   *)
          BlockAt,       (* config.max_fine_cents_before_block                  *)
          MaxRenews,     (* config.max_renews                                   *)
          MaxTime        (* bound: the clock                                    *)

ASSUME ConstantsAssumption ==
       /\ DefaultLevel \in Levels
       /\ BookOf \in [Copies -> Books]
       /\ LoanTicks \in [Levels -> Nat] /\ MaxActive \in [Levels -> Nat]
       /\ TicksPerDay \in Nat \ {0}
       /\ FinePerDay \in Nat /\ BlockAt \in Nat /\ MaxRenews \in Nat /\ MaxTime \in Nat

VARIABLES
  now,
  titles,    (* the books in the catalogue                                       *)
  copy,      (* BookCopy.status, "none" for a copy that is not in the library    *)
  reader,    (* Reader.status, "new" before and "gone" after its life            *)
  level,     (* Reader.level                                                     *)
  balance,   (* Reader.fine_balance_cents                                        *)
  loans,     (* the active rows of Loan                                          *)
  holds,     (* the waiting and ready rows of Reservation, oldest first          *)
  pulled     (* history: copies staff took out of "reserved" by hand             *)

deskVars == <<reader, level>>
vars == <<now, titles, deskVars, copy, balance, loans, holds, pulled>>

(* "aside" stands for lost, repairing and withdrawn: no operation tells them
   apart.                                                                     *)
StaffSettable == {"available", "aside"}
CopyStates == StaffSettable \cup {"on_loan", "reserved"}
NoCopy == "no_copy"

Loan == [copy : Copies, reader : Readers, due : Nat, renews : 0..MaxRenews]
Hold == [book : Books, reader : Readers, status : {"waiting", "ready"},
         copy : Copies \cup {NoCopy}]

(* The types of the variables; a balance is never negative.                   *)
TypeOK ==
  /\ now \in 0..MaxTime
  /\ titles \subseteq Books
  /\ copy \in [Copies -> CopyStates \cup {"none"}]
  /\ reader \in [Readers -> {"new", "active", "suspended", "gone"}]
  /\ level \in [Readers -> Levels]
  /\ balance \in [Readers -> Nat]
  /\ loans \in Seq(Loan)
  /\ holds \in Seq(Hold)
  /\ pulled \subseteq Copies

Init ==
  /\ now = 0
  /\ titles = {}
  /\ copy = [c \in Copies |-> "none"]
  /\ reader = [r \in Readers |-> "new"]
  /\ level = [r \in Readers |-> DefaultLevel]
  /\ balance = [r \in Readers |-> 0]
  /\ loans = <<>>
  /\ holds = <<>>
  /\ pulled = {}

-----------------------------------------------------------------------------
(* What the repositories select: positions in loans and holds.                *)

Exists(r) == reader[r] \in {"active", "suspended"}
CopiesOf(b) == {c \in Copies : BookOf[c] = b}
Stock(b) == {c \in CopiesOf(b) : copy[c] # "none"}
Available(b) == {c \in CopiesOf(b) : copy[c] = "available"}

ActiveForCopy(c) == {i \in DOMAIN loans : loans[i].copy = c}
ActiveForReader(r) == {i \in DOMAIN loans : loans[i].reader = r}
OverdueForReader(r) == {i \in ActiveForReader(r) : loans[i].due < now}

OpenHolds(b) == {h \in DOMAIN holds : holds[h].book = b}
OpenHoldsOf(r, b) == {h \in OpenHolds(b) : holds[h].reader = r}
Waiting(b) == {h \in OpenHolds(b) : holds[h].status = "waiting"}

(* The ready hold under which reader r may collect copy c.                    *)
HeldFor(r, c) == {h \in OpenHoldsOf(r, BookOf[c]) :
                    holds[h].status = "ready" /\ holds[h].copy = c}

(* next_waiting: the oldest one.                                              *)
NextWaiting_Newest(b) == Max(Waiting(b))
NextWaiting(b) == Min(Waiting(b))

-----------------------------------------------------------------------------
(* Catalogue and readers.                                                     *)

(* create_book, with the copies it comes with.                                *)
CreateBook(b, cs) ==
  /\ b \notin titles /\ cs \subseteq CopiesOf(b)
  /\ titles' = titles \cup {b}
  /\ copy' = [c \in Copies |-> IF c \in cs THEN "available" ELSE copy[c]]
  /\ UNCHANGED <<now, deskVars, balance, loans, holds, pulled>>

AddCopies(b, cs) ==
  /\ b \in titles
  /\ cs # {} /\ cs \subseteq CopiesOf(b) \ Stock(b)
  /\ copy' = [c \in Copies |-> IF c \in cs THEN "available" ELSE copy[c]]
  /\ UNCHANGED <<now, titles, deskVars, balance, loans, holds, pulled>>

(* update_copy with a status: only a copy on loan is protected.               *)
UpdateCopy(c, status) ==
  /\ copy[c] \notin {"none", "on_loan"}
  /\ copy' = [copy EXCEPT ![c] = status]
  /\ pulled' = IF copy[c] = "reserved" THEN pulled \cup {c} ELSE pulled
  /\ UNCHANGED <<now, titles, deskVars, balance, loans, holds>>

(* delete_book: refused while a copy is on loan; holds, loans and copies of
   the title go with it.                                                      *)
DeleteBook_KeepsHolds(b) ==
  /\ b \in titles
  /\ \A c \in CopiesOf(b) : copy[c] # "on_loan"
  /\ titles' = titles \ {b}
  /\ copy' = [c \in Copies |-> IF c \in CopiesOf(b) THEN "none" ELSE copy[c]]
  /\ loans' = Without(loans, {i \in DOMAIN loans : BookOf[loans[i].copy] = b})
  /\ pulled' = pulled \ CopiesOf(b)
  /\ UNCHANGED <<now, deskVars, balance, holds>>
DeleteBook(b) ==
  /\ b \in titles
  /\ \A c \in CopiesOf(b) : copy[c] # "on_loan"
  /\ titles' = titles \ {b}
  /\ copy' = [c \in Copies |-> IF c \in CopiesOf(b) THEN "none" ELSE copy[c]]
  /\ loans' = Without(loans, {i \in DOMAIN loans : BookOf[loans[i].copy] = b})
  /\ holds' = Without(holds, OpenHolds(b))
  /\ pulled' = pulled \ CopiesOf(b)
  /\ UNCHANGED <<now, deskVars, balance>>

CreateReader(r, lv) ==
  /\ reader[r] = "new"
  /\ reader' = [reader EXCEPT ![r] = "active"]
  /\ level' = [level EXCEPT ![r] = lv]
  /\ UNCHANGED <<now, titles, copy, balance, loans, holds, pulled>>

UpdateReader(r, status, lv) ==
  /\ Exists(r)
  /\ reader' = [reader EXCEPT ![r] = status]
  /\ level' = [level EXCEPT ![r] = lv]
  /\ UNCHANGED <<now, titles, copy, balance, loans, holds, pulled>>

(* delete_reader finds the reader by id or by card number, but counts the
   loans written under the string it was given: none for a card number.       *)
DeleteReader(r, byCard) ==
  /\ Exists(r)
  /\ byCard \/ ActiveForReader(r) = {}
  /\ balance[r] = 0
  /\ reader' = [reader EXCEPT ![r] = "gone"]
  /\ UNCHANGED <<now, titles, level, copy, balance, loans, holds, pulled>>

PayFine_Unchecked(r, amount) ==
  /\ Exists(r)
  /\ balance' = [balance EXCEPT ![r] = @ - amount]
  /\ UNCHANGED <<now, titles, deskVars, copy, loans, holds, pulled>>
PayFine(r, amount) ==
  /\ Exists(r)
  /\ amount <= balance[r]
  /\ balance' = [balance EXCEPT ![r] = @ - amount]
  /\ UNCHANGED <<now, titles, deskVars, copy, loans, holds, pulled>>

-----------------------------------------------------------------------------
(* Circulation.                                                               *)

Borrowable(r) ==
  /\ reader[r] = "active"
  /\ OverdueForReader(r) = {}
  /\ balance[r] < BlockAt
  /\ Cardinality(ActiveForReader(r)) < MaxActive[level[r]]

(* The writes of borrow: the loan, the copy, the hold it honours.             *)
Lend(r, c) ==
  /\ loans' = Append(loans, [copy |-> c, reader |-> r, renews |-> 0,
                             due |-> now + LoanTicks[level[r]]])
  /\ copy' = [copy EXCEPT ![c] = "on_loan"]
  /\ holds' = Without(holds, HeldFor(r, c))
  /\ UNCHANGED <<now, titles, deskVars, balance, pulled>>

(* borrow by copy id or barcode.                                              *)
BorrowCopy_AnyReserved(r, c) ==
  /\ Borrowable(r)
  /\ copy[c] \in {"available", "reserved"}
  /\ Lend(r, c)
BorrowCopy(r, c) ==
  /\ Borrowable(r)
  /\ copy[c] = "available" \/ (copy[c] = "reserved" /\ HeldFor(r, c) # {})
  /\ Lend(r, c)

(* borrow by title: a copy from the shelf, else the copy that is kept for the
   reader.  The status of that copy is not looked at.                         *)
BorrowTitle(r, b) ==
  /\ Borrowable(r)
  /\ \E c \in CopiesOf(b) :
       /\ copy[c] = "available" \/ (Available(b) = {} /\ HeldFor(r, c) # {})
       /\ Lend(r, c)

(* _release_or_hold: the copy goes to the shelf, or is kept for the head of the
   queue.  closed holds the position of a reservation that ends in the same
   unit of work.                                                              *)
ReleaseOrHold_ForgetsTheCopy(c, closed) ==
  LET b == BookOf[c]
  IN IF Waiting(b) = {}
       THEN /\ copy' = [copy EXCEPT ![c] = "available"]
            /\ holds' = Without(holds, closed)
       ELSE /\ UNCHANGED copy
            /\ holds' = Without([holds EXCEPT ![NextWaiting(b)].status = "ready",
                                              ![NextWaiting(b)].copy = c], closed)
ReleaseOrHold(c, closed) ==
  LET b == BookOf[c]
  IN IF Waiting(b) = {}
       THEN /\ copy' = [copy EXCEPT ![c] = "available"]
            /\ holds' = Without(holds, closed)
       ELSE /\ copy' = [copy EXCEPT ![c] = "reserved"]
            /\ holds' = Without([holds EXCEPT ![NextWaiting(b)].status = "ready",
                                              ![NextWaiting(b)].copy = c], closed)

(* A partial day is not yet a fine.                                           *)
FineFor(i) ==
  IF now <= loans[i].due THEN 0
  ELSE ((now - loans[i].due) \div TicksPerDay) * FinePerDay

(* return_copy closes the first active loan the query yields; a reader who is
   gone is charged nothing.                                                   *)
ReturnCopy(c) ==
  /\ \E i \in ActiveForCopy(c) :
       /\ loans' = Without(loans, {i})
       /\ balance' = [balance EXCEPT ![loans[i].reader] =
                        IF Exists(loans[i].reader) THEN @ + FineFor(i) ELSE @]
  /\ ReleaseOrHold(c, {})
  /\ UNCHANGED <<now, titles, deskVars, pulled>>

Renew(i) ==
  LET r == loans[i].reader
      lv == IF Exists(r) THEN level[r] ELSE DefaultLevel
  IN /\ loans[i].due >= now
     /\ loans[i].renews < MaxRenews
     /\ OpenHolds(BookOf[loans[i].copy]) = {}
     /\ loans' = [loans EXCEPT ![i].due = @ + LoanTicks[lv], ![i].renews = @ + 1]
     /\ UNCHANGED <<now, titles, deskVars, copy, balance, holds, pulled>>

Reserve(r, b) ==
  /\ reader[r] = "active" /\ b \in titles
  /\ OpenHoldsOf(r, b) = {}
  /\ Available(b) = {} /\ Stock(b) # {}
  /\ holds' = Append(holds, [book |-> b, reader |-> r, status |-> "waiting",
                             copy |-> NoCopy])
  /\ UNCHANGED <<now, titles, deskVars, copy, balance, loans, pulled>>

(* cancel_reservation; a kept copy that still is reserved moves on.           *)
CancelReservation(h) ==
  LET c == holds[h].copy
  IN /\ IF holds[h].status = "ready" /\ copy[c] = "reserved"
          THEN ReleaseOrHold(c, {h})
          ELSE holds' = Without(holds, {h}) /\ UNCHANGED copy
     /\ UNCHANGED <<now, titles, deskVars, balance, loans, pulled>>

Tick ==
  /\ now < MaxTime
  /\ now' = now + 1
  /\ UNCHANGED <<titles, deskVars, copy, balance, loans, holds, pulled>>

-----------------------------------------------------------------------------
Catalogue ==
  \/ \E b \in Books :
       \/ DeleteBook(b)
       \/ \E cs \in SUBSET CopiesOf(b) : CreateBook(b, cs) \/ AddCopies(b, cs)
  \/ \E c \in Copies, s \in StaffSettable : UpdateCopy(c, s)
Desk ==
  \E r \in Readers :
    \/ \E lv \in Levels : CreateReader(r, lv)
    \/ \E s \in {"active", "suspended"}, lv \in Levels : UpdateReader(r, s, lv)
    \/ \E byCard \in BOOLEAN : DeleteReader(r, byCard)
    \/ \E amount \in 1..(balance[r] + 1) : PayFine(r, amount)
Circulate ==
  \/ \E r \in Readers, c \in Copies : BorrowCopy(r, c)
  \/ \E r \in Readers, b \in Books : BorrowTitle(r, b) \/ Reserve(r, b)
  \/ \E c \in Copies : ReturnCopy(c)
  \/ \E i \in DOMAIN loans : Renew(i)
  \/ \E h \in DOMAIN holds : CancelReservation(h)

Next == Catalogue \/ Desk \/ Circulate \/ Tick

Spec == Init /\ [][Next]_vars

-----------------------------------------------------------------------------
(* Properties.                                                                *)

KeptFor(c) == {h \in DOMAIN holds : holds[h].status = "ready" /\ holds[h].copy = c}

(* A copy has one keeper: it is lent exactly while one loan of it is active,
   and kept exactly while one notified reader may collect it.  A copy staff
   took out of "reserved" by hand is excepted (update_copy does not tell the
   hold); the damage stays with that copy.                                    *)
OneKeeper ==
  \A c \in Copies \ pulled :
    /\ Cardinality(ActiveForCopy(c)) = (IF copy[c] = "on_loan" THEN 1 ELSE 0)
    /\ Cardinality(KeptFor(c)) = (IF copy[c] = "reserved" THEN 1 ELSE 0)

(* No copy is stranded "on_loan" with no loan record behind it (the docstring
   of loan/service.py), whatever staff did to it before.                      *)
OnLoanIsBacked ==
  \A c \in Copies : copy[c] = "on_loan" => ActiveForCopy(c) # {}

(* A reader has at most one open hold per title, so the first row find_open
   yields is the only one; no hold, loan or copy outlives its title, and a
   notified reader is always told of a copy the library owns.                 *)
OneOpenHold ==
  /\ \A b \in Books, r \in Readers : Cardinality(OpenHoldsOf(r, b)) <= 1
  /\ \A b \in Books \ titles : OpenHolds(b) = {} /\ Stock(b) = {}
  /\ \A i \in DOMAIN loans : copy[loans[i].copy] # "none"
  /\ \A h \in DOMAIN holds : holds[h].status = "ready" =>
       holds[h].copy \in Stock(holds[h].book)

(* The reservations of every title are served as a hold queue.                *)
ReadersOf(rows) == [i \in DOMAIN rows |-> rows[i].reader]
Queue == INSTANCE HoldQueue
  WITH Titles <- Books, People <- Readers,
       queue <- [b \in Books |->
         ReadersOf(Those(holds, Waiting(b)))],
       notified <- [b \in Books |->
         {holds[h].reader : h \in OpenHolds(b) \ Waiting(b)}]
FirstComeFirstServed == Queue!Spec

=============================================================================
