---------------------------- MODULE MCCirculation ----------------------------
(***************************************************************************)
(* Small instances of Circulation: one title.                              *)
(***************************************************************************)
EXTENDS Circulation

CONSTANTS k, c1, c2, r1, r2

OneTitle == [c \in Copies |-> k]
ShortLoans == [lv \in Levels |-> 1]
OneLoanEach == [lv \in Levels |-> 1]
TwoLoansEach == [lv \in Levels |-> 2]

Interchangeable == Permutations(Copies) \cup Permutations(Readers)

(* A loan is "one borrow-and-return cycle for a single copy" (models.py:106),
   so a copy is out on one loan at a time.  False: staff may shelve a reserved
   copy by hand, someone borrows it, and then the reader it had been kept for
   borrows it too, by title.                                                  *)
OneLoanPerCopy == \A c \in Copies : Cardinality(ActiveForCopy(c)) <= 1

(* A reader with loans cannot be deleted (reader/service.py:92).  False when
   the reader is named by card number.                                        *)
BorrowersExist == \A i \in DOMAIN loans : Exists(loans[i].reader)

=============================================================================
