-------------------------- MODULE CirculationProofs --------------------------
(***************************************************************************)
(* Theorems about Circulation, for any titles, copies, readers, levels,    *)
(* terms of loan and fines.                                                *)
(***************************************************************************)
EXTENDS Circulation, RowLemmas, TLAPS

(* The rows each property counts.                                             *)
LoanOf(c) == {l \in Loan : l.copy = c}
KeepingFor(c) == {h \in Hold : h.status = "ready" /\ h.copy = c}
AskedBy(r, b) == {h \in Hold : h.book = b /\ h.reader = r}
AboutBook(b) == {h \in Hold : h.book = b}
Misplaced == {h \in Hold : h.status = "ready" /\ ~(h.copy \in Copies /\ BookOf[h.copy] = h.book)}

(* The properties in terms of rows: one loan row per lent copy, one ready row
   per kept copy, and nothing about copies the library no longer has.         *)
LentOnce ==
  \A c \in Copies \ pulled : /\ AtMostOne(At(loans, LoanOf(c)))
                             /\ copy[c] = "on_loan" <=> At(loans, LoanOf(c)) # {}
KeptOnce ==
  \A c \in Copies \ pulled : /\ AtMostOne(At(holds, KeepingFor(c)))
                             /\ copy[c] = "reserved" <=> At(holds, KeepingFor(c)) # {}
Backed == \A c \in Copies : copy[c] = "on_loan" => At(loans, LoanOf(c)) # {}
AskedOnce == \A b \in Books, r \in Readers : AtMostOne(At(holds, AskedBy(r, b)))
NoTitleNoRows ==
  \A b \in Books \ titles : /\ At(holds, AboutBook(b)) = {}
                            /\ \A c \in Copies : BookOf[c] = b => copy[c] = "none"
NoCopyNoRows ==
  \A c \in Copies : copy[c] = "none" =>
    At(loans, LoanOf(c)) = {} /\ At(holds, KeepingFor(c)) = {}
WellPlaced == At(holds, Misplaced) = {}

HoldShape == KeptOnce /\ AskedOnce /\ NoTitleNoRows /\ WellPlaced
IInv == /\ TypeOK /\ LentOnce /\ Backed /\ NoCopyNoRows /\ HoldShape

-----------------------------------------------------------------------------
(* What the repositories select, as places of rows of a kind.                 *)
LEMMA RowsOf ==
  ASSUME TypeOK
  PROVE  /\ \A c \in Copies : ActiveForCopy(c) = At(loans, LoanOf(c))
         /\ \A c \in Copies : KeptFor(c) = At(holds, KeepingFor(c))
         /\ \A b \in Books : OpenHolds(b) = At(holds, AboutBook(b))
         /\ \A b \in Books, r \in Readers : OpenHoldsOf(r, b) = At(holds, AskedBy(r, b))
         /\ DOMAIN loans = 1..Len(loans) /\ Len(loans) \in Nat
         /\ DOMAIN holds = 1..Len(holds) /\ Len(holds) \in Nat
         /\ \A i \in DOMAIN loans : loans[i] \in Loan
         /\ \A h \in DOMAIN holds : holds[h] \in Hold
<1>1. /\ loans \in Seq(Loan) /\ holds \in Seq(Hold)
  BY DEF TypeOK
<1>2. /\ DOMAIN loans = 1..Len(loans) /\ Len(loans) \in Nat
      /\ DOMAIN holds = 1..Len(holds) /\ Len(holds) \in Nat
      /\ \A i \in DOMAIN loans : loans[i] \in Loan
      /\ \A h \in DOMAIN holds : holds[h] \in Hold
  BY <1>1, LenProperties, ElementOfSeq
<1>3. \A c \in Copies : ActiveForCopy(c) = At(loans, LoanOf(c))
  BY <1>2 DEF ActiveForCopy, At, LoanOf
<1>4. \A c \in Copies : KeptFor(c) = At(holds, KeepingFor(c))
  BY <1>2 DEF KeptFor, At, KeepingFor
<1>5. \A b \in Books : OpenHolds(b) = At(holds, AboutBook(b))
  BY <1>2 DEF OpenHolds, At, AboutBook
<1>6. \A b \in Books, r \in Readers : OpenHoldsOf(r, b) = At(holds, AskedBy(r, b))
  BY <1>2 DEF OpenHoldsOf, OpenHolds, At, AskedBy
<1>. QED
  BY <1>2, <1>3, <1>4, <1>5, <1>6

(* The invariant is what the runs check, no more and no less.                 *)
LEMMA InvariantIsChecked ==
  IInv <=> TypeOK /\ OneKeeper /\ OnLoanIsBacked /\ OneOpenHold
<1> SUFFICES ASSUME TypeOK
             PROVE  LentOnce /\ Backed /\ NoCopyNoRows /\ HoldShape
                      <=> OneKeeper /\ OnLoanIsBacked /\ OneOpenHold
  BY DEF IInv
<1>1. loans \in Seq(Loan) /\ holds \in Seq(Hold)
  BY DEF TypeOK
<1>2. OneKeeper <=> LentOnce /\ KeptOnce
  <2>1. ASSUME NEW c \in Copies
        PROVE  /\ Cardinality(ActiveForCopy(c)) = (IF copy[c] = "on_loan" THEN 1 ELSE 0)
                    <=> /\ AtMostOne(At(loans, LoanOf(c)))
                        /\ copy[c] = "on_loan" <=> At(loans, LoanOf(c)) # {}
               /\ Cardinality(KeptFor(c)) = (IF copy[c] = "reserved" THEN 1 ELSE 0)
                    <=> /\ AtMostOne(At(holds, KeepingFor(c)))
                        /\ copy[c] = "reserved" <=> At(holds, KeepingFor(c)) # {}
    <3> DEFINE A == At(loans, LoanOf(c))
               K == At(holds, KeepingFor(c))
    <3>1. ActiveForCopy(c) = A /\ KeptFor(c) = K
      BY RowsOf
    <3>2. A \subseteq DOMAIN loans /\ K \subseteq DOMAIN holds
      BY DEF At
    <3>3. AtMostOne({})
      BY DEF AtMostOne
    <3> HIDE DEF A, K
    <3>4. /\ Cardinality(A) = 0 <=> A = {}
          /\ Cardinality(A) = 1 <=> A # {} /\ AtMostOne(A)
      BY <1>1, <3>2, Counting
    <3>5. /\ Cardinality(K) = 0 <=> K = {}
          /\ Cardinality(K) = 1 <=> K # {} /\ AtMostOne(K)
      BY <1>1, <3>2, Counting
    <3>6. Cardinality(A) = (IF copy[c] = "on_loan" THEN 1 ELSE 0)
            <=> AtMostOne(A) /\ (copy[c] = "on_loan" <=> A # {})
      BY <3>3, <3>4
    <3>7. Cardinality(K) = (IF copy[c] = "reserved" THEN 1 ELSE 0)
            <=> AtMostOne(K) /\ (copy[c] = "reserved" <=> K # {})
      BY <3>3, <3>5
    <3>. QED
      BY <3>1, <3>6, <3>7 DEF A, K
  <2>. QED
    BY <2>1 DEF OneKeeper, LentOnce, KeptOnce
<1>3. OnLoanIsBacked <=> Backed
  BY RowsOf DEF OnLoanIsBacked, Backed
<1>4. AskedOnce <=> \A b \in Books, r \in Readers : Cardinality(OpenHoldsOf(r, b)) <= 1
  <2>1. ASSUME NEW b \in Books, NEW r \in Readers
        PROVE  Cardinality(OpenHoldsOf(r, b)) <= 1 <=> AtMostOne(At(holds, AskedBy(r, b)))
    <3>1. At(holds, AskedBy(r, b)) \subseteq DOMAIN holds
      BY DEF At
    <3>. QED
      BY <1>1, <3>1, RowsOf, Counting
  <2>. QED
    BY <2>1 DEF AskedOnce
<1>5. NoTitleNoRows <=> \A b \in Books \ titles : OpenHolds(b) = {} /\ Stock(b) = {}
  BY RowsOf DEF NoTitleNoRows, Stock, CopiesOf
<1>6. /\ \A i \in DOMAIN loans : copy[loans[i].copy] # "none"
      /\ \A h \in DOMAIN holds : holds[h].status = "ready" =>
           holds[h].copy \in Stock(holds[h].book)
      <=> NoCopyNoRows /\ WellPlaced
  <2>1. (\A i \in DOMAIN loans : copy[loans[i].copy] # "none")
          <=> \A c \in Copies : copy[c] = "none" => At(loans, LoanOf(c)) = {}
    BY RowsOf DEF At, LoanOf, Loan
  <2>2. (\A h \in DOMAIN holds : holds[h].status = "ready" =>
           holds[h].copy \in Stock(holds[h].book))
          <=> /\ \A c \in Copies : copy[c] = "none" => At(holds, KeepingFor(c)) = {}
              /\ WellPlaced
    <3>1. \A h \in DOMAIN holds : holds[h] \in Hold
      BY RowsOf
    <3>. QED
      BY <3>1 DEF At, KeepingFor, WellPlaced, Misplaced, Stock, CopiesOf
  <2>. QED
    BY <2>1, <2>2 DEF NoCopyNoRows
<1>. QED
  BY <1>2, <1>3, <1>4, <1>5, <1>6 DEF OneOpenHold, HoldShape

-----------------------------------------------------------------------------
(* An empty library.                                                          *)
LEMMA InitInvariant == Init => IInv
<1> SUFFICES ASSUME Init  PROVE IInv
  OBVIOUS
<1>1. TypeOK
  BY ConstantsAssumption DEF Init, TypeOK
<1>2. \A Q : At(loans, Q) = {} /\ At(holds, Q) = {}
  BY DEF Init, At
<1>3. \A c \in Copies : copy[c] = "none"
  BY DEF Init
<1>4. AtMostOne({})
  BY DEF AtMostOne
<1>. QED
  BY <1>1, <1>2, <1>3, <1>4 DEF IInv, HoldShape, LentOnce, KeptOnce, Backed, AskedOnce,
     NoTitleNoRows, NoCopyNoRows, WellPlaced

(* A step that writes no loan, hold or copy.                                  *)
LEMMA RowsUntouched ==
  ASSUME IInv, TypeOK', UNCHANGED <<titles, copy, loans, holds, pulled>>
  PROVE  IInv'
BY DEF IInv, HoldShape, LentOnce, KeptOnce, Backed, AskedOnce, NoTitleNoRows,
   NoCopyNoRows, WellPlaced

(* Rows that are written twice do not change what they are about.             *)
LEMMA RenewKeeps ==
  ASSUME IInv, NEW i \in DOMAIN loans, Renew(i)
  PROVE  IInv'
<1> DEFINE r == loans[i].reader
           lv == IF Exists(r) THEN level[r] ELSE DefaultLevel
           row == [copy |-> loans[i].copy, reader |-> r,
                   due |-> loans[i].due + LoanTicks[lv], renews |-> loans[i].renews + 1]
<1>1. TypeOK /\ loans \in Seq(Loan) /\ loans[i] \in Loan
  BY RowsOf DEF IInv, TypeOK
<1>2. lv \in Levels
  BY <1>1, ConstantsAssumption DEF TypeOK, Loan
<1> HIDE DEF lv
<1>3. LoanTicks[lv] \in Nat
  BY <1>2, ConstantsAssumption
<1>10. loans[i].renews < MaxRenews
  BY DEF Renew
<1>14. /\ loans[i].copy \in Copies /\ loans[i].reader \in Readers
       /\ loans[i].due \in Nat /\ loans[i].renews \in 0..MaxRenews
  BY <1>1 DEF Loan
<1>15. /\ loans[i].due + LoanTicks[lv] \in Nat
       /\ loans[i].renews + 1 \in 0..MaxRenews
  BY <1>3, <1>10, <1>14, ConstantsAssumption
<1>4. row \in Loan
  BY <1>14, <1>15 DEF Loan
<1>11. loans' = [loans EXCEPT ![i].due = @ + LoanTicks[lv], ![i].renews = @ + 1]
  BY DEF Renew, lv
<1>12. loans \in [DOMAIN loans -> Loan]
  BY <1>1, RowsOf
<1>5. /\ loans' \in [DOMAIN loans -> Loan]
      /\ \A j \in DOMAIN loans : loans'[j] = IF j = i THEN row ELSE loans[j]
  <2>1. DOMAIN loans' = DOMAIN loans /\ \A j \in DOMAIN loans : j # i => loans'[j] = loans[j]
    BY <1>11
  <2>2. loans'[i] = [loans[i] EXCEPT !.due = @ + LoanTicks[lv], !.renews = @ + 1]
    BY <1>11, <1>12
  <2>3. loans'[i] = row
    BY <1>1, <2>2 DEF Loan
  <2>4. loans' = [j \in DOMAIN loans |-> loans'[j]]
    BY <1>11
  <2>. QED
    BY <1>4, <1>12, <2>1, <2>3, <2>4
<1>13. row.copy = loans[i].copy
  OBVIOUS
<1> HIDE DEF row
<1>6. /\ loans' \in Seq(Loan)
      /\ \A Q : At(loans', Q) = (At(loans, Q) \ {i}) \cup (IF row \in Q THEN {i} ELSE {})
  BY <1>1, <1>4, <1>5, AtOverwritten
<1>7. \A c \in Copies : At(loans', LoanOf(c)) = At(loans, LoanOf(c))
  <2>1. \A c \in Copies : row \in LoanOf(c) <=> i \in At(loans, LoanOf(c))
    BY <1>1, <1>4, <1>13 DEF At, LoanOf
  <2>2. SUFFICES ASSUME NEW c \in Copies
                 PROVE  At(loans', LoanOf(c)) = At(loans, LoanOf(c))
    OBVIOUS
  <2> DEFINE A == At(loans, LoanOf(c))
  <2>3. A = (A \ {i}) \cup (IF row \in LoanOf(c) THEN {i} ELSE {})
    BY <2>1
  <2>. QED
    BY <1>6, <2>3
<1>8. UNCHANGED <<now, titles, deskVars, copy, balance, holds, pulled>>
  BY DEF Renew
<1>9. TypeOK'
  BY <1>1, <1>6, <1>8 DEF TypeOK, deskVars
<1>. QED
  BY <1>7, <1>8, <1>9 DEF IInv, HoldShape, LentOnce, KeptOnce, Backed, AskedOnce,
     NoTitleNoRows, NoCopyNoRows, WellPlaced

(* reserve: the new row is the only one its reader has for the title.         *)
LEMMA ReserveKeeps ==
  ASSUME IInv, NEW r \in Readers, NEW b \in Books, Reserve(r, b)
  PROVE  IInv'
<1> DEFINE row == [book |-> b, reader |-> r, status |-> "waiting", copy |-> NoCopy]
<1>1. TypeOK /\ holds \in Seq(Hold)
  BY DEF IInv, TypeOK
<1>2. /\ row \in Hold /\ row.status # "ready"
      /\ row.book = b /\ row.reader = r
  BY DEF Hold
<1>3. /\ holds' = Append(holds, row)
      /\ b \in titles /\ At(holds, AskedBy(r, b)) = {}
      /\ UNCHANGED <<now, titles, deskVars, copy, balance, loans, pulled>>
  BY <1>1, RowsOf DEF Reserve
<1> HIDE DEF row
<1>4. /\ holds' \in Seq(Hold)
      /\ \A Q : At(holds', Q) = IF row \in Q THEN At(holds, Q) \cup {Len(holds) + 1}
                                             ELSE At(holds, Q)
  BY <1>1, <1>2, <1>3, AtAppend
<1>5. TypeOK'
  BY <1>1, <1>3, <1>4 DEF TypeOK, deskVars
<1>6. /\ \A c \in Copies : At(holds', KeepingFor(c)) = At(holds, KeepingFor(c))
      /\ At(holds', Misplaced) = At(holds, Misplaced)
  BY <1>2, <1>4 DEF KeepingFor, Misplaced
<1>7. \A d \in Books \ titles : At(holds', AboutBook(d)) = At(holds, AboutBook(d))
  BY <1>2, <1>3, <1>4 DEF AboutBook
<1>8. \A d \in Books, p \in Readers : AtMostOne(At(holds', AskedBy(p, d)))
  <2>1. SUFFICES ASSUME NEW d \in Books, NEW p \in Readers
                 PROVE  AtMostOne(At(holds', AskedBy(p, d)))
    OBVIOUS
  <2>2. CASE d = b /\ p = r
    BY <1>3, <1>4, <2>2 DEF AtMostOne
  <2>3. CASE ~(d = b /\ p = r)
    <3>1. row \notin AskedBy(p, d)
      BY <1>2, <2>3 DEF AskedBy
    <3>. QED
      BY <1>4, <3>1 DEF IInv, HoldShape, AskedOnce
  <2>. QED
    BY <2>2, <2>3
<1>. QED
  BY <1>3, <1>5, <1>6, <1>7, <1>8 DEF IInv, HoldShape, LentOnce, KeptOnce, Backed,
     AskedOnce, NoTitleNoRows, NoCopyNoRows, WellPlaced

-----------------------------------------------------------------------------
(* The catalogue: new copies are copies nobody has, and what goes goes with
   its rows.                                                                  *)
LEMMA NewCopiesKeep ==
  ASSUME IInv, NEW b \in Books, NEW cs \in SUBSET CopiesOf(b),
         \A c \in cs : copy[c] = "none",
         titles' = titles \cup {b},
         copy' = [c \in Copies |-> IF c \in cs THEN "available" ELSE copy[c]],
         UNCHANGED <<now, deskVars, balance, loans, holds, pulled>>
  PROVE  IInv'
<1>1. TypeOK'
  BY DEF IInv, TypeOK, deskVars, CopyStates, StaffSettable
<1>2. \A c \in Copies : copy'[c] = IF c \in cs THEN "available" ELSE copy[c]
  OBVIOUS
<1>3. \A c \in cs : At(loans, LoanOf(c)) = {} /\ At(holds, KeepingFor(c)) = {}
  BY DEF IInv, NoCopyNoRows, CopiesOf
<1>4. LentOnce'
  BY <1>2, <1>3 DEF IInv, LentOnce
<1>5. KeptOnce'
  BY <1>2, <1>3 DEF IInv, HoldShape, KeptOnce
<1>6. Backed' /\ NoCopyNoRows' /\ AskedOnce' /\ WellPlaced'
  BY <1>2 DEF IInv, HoldShape, Backed, NoCopyNoRows, AskedOnce, WellPlaced
<1>7. NoTitleNoRows'
  BY <1>2 DEF IInv, HoldShape, NoTitleNoRows, CopiesOf
<1>. QED
  BY <1>1, <1>4, <1>5, <1>6, <1>7 DEF IInv, HoldShape

(* update_copy: a copy taken out of "reserved" is excepted from then on.      *)
LEMMA UpdateCopyKeeps ==
  ASSUME IInv, NEW c \in Copies, NEW status \in StaffSettable, UpdateCopy(c, status)
  PROVE  IInv'
<1>1. TypeOK'
  BY DEF UpdateCopy, IInv, TypeOK, deskVars, CopyStates
<1>2. /\ copy[c] \notin {"none", "on_loan"}
      /\ copy'[c] \in {"available", "aside"}
      /\ \A d \in Copies : d # c => copy'[d] = copy[d]
      /\ copy[c] = "reserved" => c \in pulled'
      /\ pulled \subseteq pulled'
      /\ UNCHANGED <<titles, loans, holds>>
  BY DEF UpdateCopy, IInv, TypeOK, StaffSettable
<1>3. LentOnce'
  BY <1>2 DEF IInv, LentOnce
<1>4. KeptOnce'
  BY <1>2 DEF IInv, HoldShape, KeptOnce
<1>5. Backed' /\ NoCopyNoRows' /\ AskedOnce' /\ WellPlaced'
  BY <1>2 DEF IInv, HoldShape, Backed, NoCopyNoRows, AskedOnce, WellPlaced
<1>6. NoTitleNoRows'
  BY <1>2 DEF IInv, HoldShape, NoTitleNoRows
<1>. QED
  BY <1>1, <1>3, <1>4, <1>5, <1>6 DEF IInv, HoldShape

(* delete_book: the rows of the title go with its copies.                     *)
LEMMA DeleteBookKeeps ==
  ASSUME IInv, NEW b \in Books, DeleteBook(b)
  PROVE  IInv'
<1> DEFINE lost == {i \in DOMAIN loans : BookOf[loans[i].copy] = b}
<1>1. TypeOK /\ loans \in Seq(Loan) /\ holds \in Seq(Hold)
  BY DEF IInv, TypeOK
<1>2. /\ loans' = Without(loans, lost) /\ holds' = Without(holds, At(holds, AboutBook(b)))
      /\ titles' = titles \ {b} /\ pulled' = pulled \ CopiesOf(b)
      /\ UNCHANGED <<now, deskVars, balance>>
  BY <1>1, RowsOf DEF DeleteBook
<1>3. \A c \in Copies : copy'[c] = IF BookOf[c] = b THEN "none" ELSE copy[c]
  BY DEF DeleteBook, CopiesOf
<1>4. /\ loans' \in Seq(Loan)
      /\ \A Q : At(loans', Q) = {} <=> At(loans, Q) \subseteq lost
      /\ \A Q : AtMostOne(At(loans, Q) \ lost) => AtMostOne(At(loans', Q))
  BY <1>1, <1>2, AtWithout
<1>5. /\ holds' \in Seq(Hold)
      /\ \A Q : At(holds', Q) = {} <=> At(holds, Q) \subseteq At(holds, AboutBook(b))
      /\ \A Q : AtMostOne(At(holds, Q) \ At(holds, AboutBook(b))) => AtMostOne(At(holds', Q))
  BY <1>1, <1>2, AtWithout
<1>6. TypeOK'
  <2>1. copy' \in [Copies -> CopyStates \cup {"none"}]
    BY <1>1 DEF DeleteBook, TypeOK
  <2>. QED
    BY <1>1, <1>2, <1>4, <1>5, <2>1 DEF TypeOK, deskVars
<1>7. ASSUME NEW c \in Copies
      PROVE  /\ BookOf[c] = b => At(loans', LoanOf(c)) = {} /\ At(holds', KeepingFor(c)) = {}
             /\ BookOf[c] # b => /\ At(loans', LoanOf(c)) = {} <=> At(loans, LoanOf(c)) = {}
                                 /\ At(holds', KeepingFor(c)) = {} <=> At(holds, KeepingFor(c)) = {}
             /\ AtMostOne(At(loans, LoanOf(c))) => AtMostOne(At(loans', LoanOf(c)))
             /\ AtMostOne(At(holds, KeepingFor(c))) => AtMostOne(At(holds', KeepingFor(c)))
  <2>1. \A i \in At(loans, LoanOf(c)) : i \in lost <=> BookOf[c] = b
    BY DEF At, LoanOf
  <2>2. \A h \in At(holds, KeepingFor(c)) : holds[h].book = BookOf[c]
    BY DEF IInv, HoldShape, WellPlaced, At, KeepingFor, Misplaced
  <2>3. \A h \in At(holds, KeepingFor(c)) : h \in At(holds, AboutBook(b)) <=> BookOf[c] = b
    BY <2>2 DEF At, KeepingFor, AboutBook
  <2>. QED
    BY <1>4, <1>5, <2>1, <2>3 DEF AtMostOne
<1>. AtMostOne({})
  BY DEF AtMostOne
<1>13. \A c \in Copies \ pulled' : BookOf[c] # b => c \notin pulled
  BY <1>2 DEF CopiesOf
<1>8. LentOnce'
  BY <1>3, <1>7, <1>13 DEF IInv, LentOnce
<1>9. KeptOnce'
  BY <1>3, <1>7, <1>13 DEF IInv, HoldShape, KeptOnce
<1>10. Backed' /\ NoCopyNoRows'
  BY <1>3, <1>7 DEF IInv, Backed, NoCopyNoRows
<1>11. AskedOnce'
  BY <1>5 DEF IInv, HoldShape, AskedOnce, AtMostOne
<1>12. NoTitleNoRows' /\ WellPlaced'
  BY <1>2, <1>3, <1>5 DEF IInv, HoldShape, NoTitleNoRows, WellPlaced
<1>. QED
  BY <1>6, <1>8, <1>9, <1>10, <1>11, <1>12 DEF IInv, HoldShape

-----------------------------------------------------------------------------
(* Circulation.  A copy that is lent had no loan (unless staff had interfered
   with it), and no hold on it stays ready.                                   *)
LEMMA LendKeeps ==
  ASSUME IInv, NEW r \in Readers, NEW c \in Copies,
         copy[c] = "available" \/ HeldFor(r, c) # {},
         Lend(r, c)
  PROVE  IInv'
<1> DEFINE row == [copy |-> c, reader |-> r, renews |-> 0, due |-> now + LoanTicks[level[r]]]
           gone == HeldFor(r, c)
<1>1. TypeOK /\ loans \in Seq(Loan) /\ holds \in Seq(Hold)
  BY DEF IInv, TypeOK
<1>2. row \in Loan /\ row.copy = c
  <2>1. now \in Nat /\ LoanTicks[level[r]] \in Nat /\ 0 \in 0..MaxRenews
    BY <1>1, ConstantsAssumption DEF TypeOK
  <2>2. now + LoanTicks[level[r]] \in Nat
    BY <2>1
  <2>. QED
    BY <2>1, <2>2 DEF Loan
<1>3. /\ loans' = Append(loans, row) /\ holds' = Without(holds, gone)
      /\ copy' = [copy EXCEPT ![c] = "on_loan"]
      /\ UNCHANGED <<now, titles, deskVars, balance, pulled>>
  BY DEF Lend
<1>4. gone \subseteq At(holds, KeepingFor(c))
  BY RowsOf, <1>1 DEF HeldFor, OpenHoldsOf, OpenHolds, At, KeepingFor
<1>16. copy[c] = "available" \/ gone # {}
  OBVIOUS
<1> HIDE DEF row, gone
<1>5. /\ loans' \in Seq(Loan)
      /\ \A Q : At(loans', Q) = IF row \in Q THEN At(loans, Q) \cup {Len(loans) + 1}
                                             ELSE At(loans, Q)
  BY <1>1, <1>2, <1>3, AtAppend
<1>6. /\ holds' \in Seq(Hold)
      /\ \A Q : At(holds', Q) = {} <=> At(holds, Q) \subseteq gone
      /\ \A Q : AtMostOne(At(holds, Q) \ gone) => AtMostOne(At(holds', Q))
  BY <1>1, <1>3, AtWithout
<1>7. copy'[c] = "on_loan" /\ \A d \in Copies : d # c => copy'[d] = copy[d]
  BY <1>1, <1>3 DEF TypeOK
<1>8. TypeOK'
  <2>1. copy' \in [Copies -> CopyStates \cup {"none"}]
    BY <1>1, <1>3 DEF TypeOK, CopyStates
  <2>. QED
    BY <1>1, <1>3, <1>5, <1>6, <2>1 DEF TypeOK, deskVars
<1>9. ASSUME NEW d \in Copies, d # c
      PROVE  /\ At(loans', LoanOf(d)) = At(loans, LoanOf(d))
             /\ At(holds', KeepingFor(d)) = {} <=> At(holds, KeepingFor(d)) = {}
             /\ AtMostOne(At(holds, KeepingFor(d))) => AtMostOne(At(holds', KeepingFor(d)))
  <2>1. row \notin LoanOf(d)
    BY <1>2, <1>9 DEF LoanOf
  <2>2. At(holds, KeepingFor(d)) \cap gone = {}
    BY <1>4, <1>9 DEF At, KeepingFor
  <2>3. At(holds, KeepingFor(d)) \ gone = At(holds, KeepingFor(d))
    BY <2>2
  <2>4. At(holds, KeepingFor(d)) \subseteq gone <=> At(holds, KeepingFor(d)) = {}
    BY <2>2
  <2>. QED
    BY <1>5, <1>6, <2>1, <2>3, <2>4
<1>10. At(loans', LoanOf(c)) = At(loans, LoanOf(c)) \cup {Len(loans) + 1}
  BY <1>2, <1>5 DEF LoanOf
<1>17. AtMostOne({})
  BY DEF AtMostOne
<1>11. c \notin pulled => /\ At(loans, LoanOf(c)) = {}
                          /\ At(holds, KeepingFor(c)) \subseteq gone
  <2>1. SUFFICES ASSUME c \in Copies \ pulled
                 PROVE  At(loans, LoanOf(c)) = {} /\ At(holds, KeepingFor(c)) \subseteq gone
    OBVIOUS
  <2>2. /\ AtMostOne(At(holds, KeepingFor(c)))
        /\ copy[c] = "reserved" <=> At(holds, KeepingFor(c)) # {}
        /\ copy[c] = "on_loan" <=> At(loans, LoanOf(c)) # {}
    BY <2>1 DEF IInv, HoldShape, KeptOnce, LentOnce
  <2>3. CASE copy[c] = "available"
    BY <2>2, <2>3
  <2>4. CASE gone # {}
    BY <1>4, <2>2, <2>4 DEF AtMostOne
  <2>. QED
    BY <1>16, <2>3, <2>4
<1>12. LentOnce'
  <2>1. ASSUME NEW d \in Copies \ pulled
        PROVE  /\ AtMostOne(At(loans', LoanOf(d)))
               /\ copy'[d] = "on_loan" <=> At(loans', LoanOf(d)) # {}
    <3>1. CASE d = c
      BY <1>7, <1>10, <1>11, <3>1 DEF AtMostOne
    <3>2. CASE d # c
      BY <1>7, <1>9, <3>2 DEF IInv, LentOnce
    <3>. QED BY <3>1, <3>2
  <2>. QED
    BY <1>3, <2>1 DEF LentOnce
<1>13. KeptOnce'
  <2>1. ASSUME NEW d \in Copies \ pulled
        PROVE  /\ AtMostOne(At(holds', KeepingFor(d)))
               /\ copy'[d] = "reserved" <=> At(holds', KeepingFor(d)) # {}
    <3>1. CASE d = c
      <4>1. At(holds', KeepingFor(c)) = {}
        BY <1>6, <1>11, <3>1
      <4>. QED
        BY <1>7, <1>17, <3>1, <4>1
    <3>2. CASE d # c
      BY <1>7, <1>9, <3>2 DEF IInv, HoldShape, KeptOnce
    <3>. QED BY <3>1, <3>2
  <2>. QED
    BY <1>3, <2>1 DEF KeptOnce
<1>14. Backed' /\ NoCopyNoRows'
  BY <1>7, <1>9, <1>10 DEF IInv, Backed, NoCopyNoRows
<1>15. AskedOnce' /\ NoTitleNoRows' /\ WellPlaced'
  <2>1. copy[c] # "none"
    BY <1>4, <1>16 DEF IInv, NoCopyNoRows
  <2>2. AskedOnce'
    BY <1>6 DEF IInv, HoldShape, AskedOnce, AtMostOne
  <2>3. NoTitleNoRows' /\ WellPlaced'
    BY <1>3, <1>6, <1>7, <2>1 DEF IInv, HoldShape, NoTitleNoRows, WellPlaced
  <2>. QED
    BY <2>2, <2>3
<1>. QED
  BY <1>8, <1>12, <1>13, <1>14, <1>15 DEF IInv, HoldShape

(* The head of a queue that has one is a waiting row, and the first of them.  *)
LEMMA HeadWaits ==
  ASSUME TypeOK, NEW b \in Books, Waiting(b) # {}
  PROVE  /\ NextWaiting(b) \in Waiting(b)
         /\ \A h \in Waiting(b) : NextWaiting(b) <= h
<1>1. Waiting(b) \in SUBSET Nat
  BY RowsOf DEF Waiting, OpenHolds
<1>2. \E w \in Waiting(b) : \A h \in Waiting(b) : w <= h
  BY <1>1, LeastPlace
<1>. QED
  BY <1>2 DEF NextWaiting, Min

(* The holds once the head of the queue is told that it may collect c.        *)
Notified(c) == [holds EXCEPT ![NextWaiting(BookOf[c])].status = "ready",
                             ![NextWaiting(BookOf[c])].copy = c]

(* Notifying the head of the queue: its row, and no other, now keeps c.       *)
LEMMA KeptForTheHead ==
  ASSUME TypeOK, WellPlaced, NEW c \in Copies, Waiting(BookOf[c]) # {}
  PROVE  /\ Notified(c) \in Seq(Hold) /\ DOMAIN Notified(c) = DOMAIN holds
         /\ NextWaiting(BookOf[c]) \in Waiting(BookOf[c])
         /\ \A i \in DOMAIN holds : /\ Notified(c)[i].book = holds[i].book
                                    /\ Notified(c)[i].reader = holds[i].reader
                                    /\ i # NextWaiting(BookOf[c]) => Notified(c)[i] = holds[i]
         /\ Notified(c)[NextWaiting(BookOf[c])].status = "ready"
         /\ At(Notified(c), KeepingFor(c)) = At(holds, KeepingFor(c)) \cup {NextWaiting(BookOf[c])}
         /\ \A d \in Copies : d # c => At(Notified(c), KeepingFor(d)) = At(holds, KeepingFor(d))
         /\ \A b \in Books, r \in Readers : At(Notified(c), AskedBy(r, b)) = At(holds, AskedBy(r, b))
         /\ \A b \in Books : At(Notified(c), AboutBook(b)) = At(holds, AboutBook(b))
         /\ At(Notified(c), Misplaced) = {}
<1> DEFINE w == NextWaiting(BookOf[c])
           row == [book |-> holds[w].book, reader |-> holds[w].reader,
                   status |-> "ready", copy |-> c]
<1>1. BookOf[c] \in Books
  BY ConstantsAssumption
<1>2. w \in Waiting(BookOf[c])
  BY <1>1, HeadWaits
<1> HIDE DEF w
<1>3. /\ w \in DOMAIN holds /\ holds[w].book = BookOf[c] /\ holds[w].status = "waiting"
  BY <1>2 DEF Waiting, OpenHolds
<1>4. holds \in Seq(Hold) /\ holds \in [DOMAIN holds -> Hold] /\ holds[w] \in Hold
  BY <1>3, RowsOf DEF TypeOK
<1>5. /\ row \in Hold /\ row.copy = c /\ row.status = "ready"
      /\ row.book = BookOf[c] /\ row.reader = holds[w].reader
  BY <1>3, <1>4 DEF Hold
<1>6. Notified(c) = [holds EXCEPT ![w].status = "ready", ![w].copy = c]
  BY DEF w, Notified
<1>7. /\ Notified(c) \in [DOMAIN holds -> Hold]
      /\ \A j \in DOMAIN holds : Notified(c)[j] = IF j = w THEN row ELSE holds[j]
  <2>1. DOMAIN Notified(c) = DOMAIN holds /\ \A j \in DOMAIN holds : j # w => Notified(c)[j] = holds[j]
    BY <1>6
  <2>2. Notified(c)[w] = [holds[w] EXCEPT !.status = "ready", !.copy = c]
    BY <1>3, <1>4, <1>6
  <2>5. holds[w] = [book |-> holds[w].book, reader |-> holds[w].reader,
                    status |-> holds[w].status, copy |-> holds[w].copy]
    BY <1>4 DEF Hold
  <2>3. Notified(c)[w] = row
    BY <2>2, <2>5
  <2>4. Notified(c) = [j \in DOMAIN holds |-> Notified(c)[j]]
    BY <1>6
  <2>. QED
    BY <1>4, <1>5, <2>1, <2>3, <2>4
<1> HIDE DEF row
<1>8. /\ Notified(c) \in Seq(Hold)
      /\ \A Q : At(Notified(c), Q) = (At(holds, Q) \ {w}) \cup (IF row \in Q THEN {w} ELSE {})
  <2>1. w \in DOMAIN holds /\ row \in Hold /\ holds \in Seq(Hold)
    BY <1>3, <1>4, <1>5
  <2>. QED
    BY <1>7, <2>1, AtOverwritten
<1>9. /\ DOMAIN Notified(c) = DOMAIN holds
      /\ \A i \in DOMAIN holds : /\ Notified(c)[i].book = holds[i].book
                                 /\ Notified(c)[i].reader = holds[i].reader
                                 /\ i # w => Notified(c)[i] = holds[i]
      /\ Notified(c)[w].status = "ready"
  BY <1>3, <1>5, <1>7
<1>10. At(Notified(c), KeepingFor(c)) = At(holds, KeepingFor(c)) \cup {w}
  <2>1. row \in KeepingFor(c)
    BY <1>5 DEF KeepingFor
  <2>. QED
    BY <1>8, <2>1
<1>11. ASSUME NEW d \in Copies, d # c  PROVE At(Notified(c), KeepingFor(d)) = At(holds, KeepingFor(d))
  <2>1. row \notin KeepingFor(d) /\ w \notin At(holds, KeepingFor(d))
    BY <1>3, <1>5, <1>11 DEF KeepingFor, At
  <2>2. At(Notified(c), KeepingFor(d)) = At(holds, KeepingFor(d)) \ {w}
    BY <1>8, <2>1
  <2>. QED
    BY <2>1, <2>2
<1>12. ASSUME NEW Q, row \in Q <=> w \in At(holds, Q)  PROVE At(Notified(c), Q) = At(holds, Q)
  <2>1. At(holds, Q) = (At(holds, Q) \ {w}) \cup (IF row \in Q THEN {w} ELSE {})
    BY <1>12
  <2>. QED
    BY <1>8, <2>1
<1>13. ASSUME NEW b \in Books, NEW r \in Readers
       PROVE  At(Notified(c), AskedBy(r, b)) = At(holds, AskedBy(r, b))
  <2>1. row \in AskedBy(r, b) <=> w \in At(holds, AskedBy(r, b))
    BY <1>3, <1>4, <1>5 DEF AskedBy, At
  <2>. QED
    BY <1>12, <2>1
<1>14. ASSUME NEW b \in Books  PROVE At(Notified(c), AboutBook(b)) = At(holds, AboutBook(b))
  <2>1. row \in AboutBook(b) <=> w \in At(holds, AboutBook(b))
    BY <1>3, <1>4, <1>5 DEF AboutBook, At
  <2>. QED
    BY <1>12, <2>1
<1>15. At(Notified(c), Misplaced) = {}
  <2>1. row \notin Misplaced
    BY <1>5 DEF Misplaced
  <2>. QED
    BY <1>8, <2>1 DEF WellPlaced
<1>. QED
  BY <1>2, <1>8, <1>9, <1>10, <1>11, <1>13, <1>14, <1>15 DEF w

(* _release_or_hold: a copy that nobody else is kept waiting for ends up either
   free or kept for one reader.                                               *)
LEMMA Released ==
  ASSUME IInv, NEW c \in Copies, copy[c] # "none", NEW closed,
         closed \subseteq At(holds, KeepingFor(c)),
         c \notin pulled => At(holds, KeepingFor(c)) \subseteq closed,
         ReleaseOrHold(c, closed), UNCHANGED <<titles, pulled>>
  PROVE  /\ copy' \in [Copies -> CopyStates \cup {"none"}] /\ holds' \in Seq(Hold)
         /\ copy'[c] \in {"available", "reserved"}
         /\ \A d \in Copies : d # c => /\ copy'[d] = copy[d]
                                       /\ At(holds', KeepingFor(d)) = {}
                                            <=> At(holds, KeepingFor(d)) = {}
         /\ HoldShape'
<1> DEFINE b == BookOf[c]
           w == NextWaiting(b)
           mid == IF Waiting(b) = {} THEN holds ELSE Notified(c)
           extra == IF Waiting(b) = {} THEN {} ELSE {w}
<1>1. TypeOK /\ holds \in Seq(Hold) /\ WellPlaced /\ b \in Books
  BY ConstantsAssumption DEF IInv, TypeOK, HoldShape
<1>2. copy' = [copy EXCEPT ![c] = IF extra = {} THEN "available" ELSE "reserved"]
      /\ holds' = Without(mid, closed)
  BY DEF ReleaseOrHold, Notified
<1>3. /\ mid \in Seq(Hold)
      /\ At(mid, KeepingFor(c)) = At(holds, KeepingFor(c)) \cup extra
      /\ \A d \in Copies : d # c => At(mid, KeepingFor(d)) = At(holds, KeepingFor(d))
      /\ \A d \in Books, r \in Readers : At(mid, AskedBy(r, d)) = At(holds, AskedBy(r, d))
      /\ \A d \in Books : At(mid, AboutBook(d)) = At(holds, AboutBook(d))
      /\ At(mid, Misplaced) = {}
  <2>1. CASE Waiting(b) = {}
    BY <1>1, <2>1 DEF WellPlaced
  <2>2. CASE Waiting(b) # {}
    <3>1. mid = Notified(c) /\ extra = {w}
      BY <2>2
    <3> HIDE DEF mid, extra
    <3>2. /\ mid \in Seq(Hold)
          /\ At(mid, KeepingFor(c)) = At(holds, KeepingFor(c)) \cup {w}
          /\ \A d \in Copies : d # c => At(mid, KeepingFor(d)) = At(holds, KeepingFor(d))
          /\ \A d \in Books, r \in Readers : At(mid, AskedBy(r, d)) = At(holds, AskedBy(r, d))
          /\ \A d \in Books : At(mid, AboutBook(d)) = At(holds, AboutBook(d))
          /\ At(mid, Misplaced) = {}
      BY <1>1, <2>2, <3>1, KeptForTheHead
    <3>. QED
      BY <3>1, <3>2
  <2>. QED
    BY <2>1, <2>2
<1>4. extra \cap closed = {} /\ AtMostOne(extra)
  <2>1. CASE Waiting(b) = {}
    BY <2>1 DEF AtMostOne
  <2>2. CASE Waiting(b) # {}
    <3>1. w \in Waiting(b)
      BY <1>1, <2>2, HeadWaits
    <3>2. w \notin At(holds, KeepingFor(c))
      BY <3>1 DEF Waiting, At, KeepingFor
    <3>. QED
      BY <2>2, <3>2 DEF AtMostOne
  <2>. QED
    BY <2>1, <2>2
<1> HIDE DEF mid, extra, w
<1>5. /\ holds' \in Seq(Hold)
      /\ \A Q : At(holds', Q) = {} <=> At(mid, Q) \subseteq closed
      /\ \A Q : AtMostOne(At(mid, Q) \ closed) => AtMostOne(At(holds', Q))
  BY <1>2, <1>3, AtWithout
<1>6. /\ copy' \in [Copies -> CopyStates \cup {"none"}]
      /\ copy'[c] = (IF extra = {} THEN "available" ELSE "reserved")
      /\ \A d \in Copies : d # c => copy'[d] = copy[d]
  BY <1>1, <1>2 DEF TypeOK, CopyStates, StaffSettable
<1>7. ASSUME NEW d \in Copies, d # c
      PROVE  /\ At(holds', KeepingFor(d)) = {} <=> At(holds, KeepingFor(d)) = {}
             /\ AtMostOne(At(holds, KeepingFor(d))) => AtMostOne(At(holds', KeepingFor(d)))
  <2>1. At(holds, KeepingFor(d)) \cap closed = {}
    BY <1>7 DEF At, KeepingFor
  <2>2. At(holds, KeepingFor(d)) \ closed = At(holds, KeepingFor(d))
    BY <2>1
  <2>3. At(holds, KeepingFor(d)) \subseteq closed <=> At(holds, KeepingFor(d)) = {}
    BY <2>1
  <2>4. At(mid, KeepingFor(d)) = At(holds, KeepingFor(d))
    BY <1>3, <1>7
  <2>. QED
    BY <1>5, <2>2, <2>3, <2>4
<1>8. KeptOnce'
  <2>1. SUFFICES ASSUME NEW d \in Copies \ pulled
                 PROVE  /\ AtMostOne(At(holds', KeepingFor(d)))
                        /\ copy'[d] = "reserved" <=> At(holds', KeepingFor(d)) # {}
    BY DEF KeptOnce
  <2>2. CASE d # c
    BY <1>6, <1>7, <2>2 DEF IInv, HoldShape, KeptOnce
  <2>3. CASE d = c
    <3>1. At(mid, KeepingFor(c)) \ closed = extra
      BY <1>3, <1>4, <2>3
    <3>2. At(mid, KeepingFor(c)) \subseteq closed <=> extra = {}
      BY <3>1
    <3>. QED
      BY <1>4, <1>5, <1>6, <2>3, <3>1, <3>2
  <2>. QED
    BY <2>2, <2>3
<1>9. AskedOnce'
  <2>1. SUFFICES ASSUME NEW d \in Books, NEW r \in Readers
                 PROVE  AtMostOne(At(holds', AskedBy(r, d)))
    BY DEF AskedOnce
  <2>2. AtMostOne(At(holds, AskedBy(r, d)) \ closed)
    BY DEF IInv, HoldShape, AskedOnce, AtMostOne
  <2>. QED
    BY <1>3, <1>5, <2>2
<1>10. NoTitleNoRows'
  <2>1. SUFFICES ASSUME NEW d \in Books \ titles
                 PROVE  /\ At(holds', AboutBook(d)) = {}
                        /\ \A e \in Copies : BookOf[e] = d => copy'[e] = "none"
    BY DEF NoTitleNoRows
  <2>2. /\ At(holds, AboutBook(d)) = {}
        /\ \A e \in Copies : BookOf[e] = d => copy[e] = "none"
    BY DEF IInv, HoldShape, NoTitleNoRows
  <2>. QED
    BY <1>3, <1>5, <1>6, <2>2
<1>11. WellPlaced'
  BY <1>3, <1>5 DEF WellPlaced
<1>. QED
  BY <1>5, <1>6, <1>7, <1>8, <1>9, <1>10, <1>11 DEF HoldShape

(* A fine is a number of cents.                                               *)
LEMMA FineIsNat ==
  ASSUME TypeOK, NEW i \in DOMAIN loans
  PROVE  FineFor(i) \in Nat
<1>1. now \in Nat /\ loans[i].due \in Nat
  <2>1. loans[i] \in Loan
    BY RowsOf
  <2>. QED
    BY <2>1, ConstantsAssumption DEF TypeOK, Loan
<1>2. TicksPerDay \in Nat \ {0} /\ FinePerDay \in Nat
  BY ConstantsAssumption
<1>3. ASSUME ~(now <= loans[i].due)
      PROVE  ((now - loans[i].due) \div TicksPerDay) * FinePerDay \in Nat
  <2>1. now - loans[i].due \in Nat
    BY <1>1, <1>3
  <2>2. (now - loans[i].due) \div TicksPerDay \in Nat
    BY <1>2, <2>1
  <2>. QED
    BY <1>2, <2>2
<1>. QED
  BY <1>3 DEF FineFor

(* return_copy: the loan is closed, so the copy may be given to the next.     *)
LEMMA ReturnKeeps ==
  ASSUME IInv, NEW c \in Copies, ReturnCopy(c)
  PROVE  IInv'
<1>1. TypeOK /\ loans \in Seq(Loan) /\ holds \in Seq(Hold)
  BY DEF IInv, TypeOK
<1>2. PICK i \in At(loans, LoanOf(c)) :
        /\ loans' = Without(loans, {i})
        /\ balance' = [balance EXCEPT ![loans[i].reader] =
                         IF Exists(loans[i].reader) THEN @ + FineFor(i) ELSE @]
  BY <1>1, RowsOf DEF ReturnCopy
<1>3. ReleaseOrHold(c, {}) /\ UNCHANGED <<now, titles, deskVars, pulled>>
  BY DEF ReturnCopy
<1>4. i \in DOMAIN loans /\ loans[i] \in Loan /\ loans[i].copy = c
  BY <1>1, RowsOf DEF At, LoanOf
<1>5. balance' \in [Readers -> Nat]
  <2>1. FineFor(i) \in Nat
    BY <1>1, <1>4, FineIsNat
  <2>2. \A r \in Readers : balance[r] + FineFor(i) \in Nat
    BY <1>1, <2>1 DEF TypeOK
  <2>. QED
    BY <1>1, <1>2, <2>2 DEF TypeOK
<1>6. /\ loans' \in Seq(Loan)
      /\ \A Q : At(loans', Q) = {} <=> At(loans, Q) \subseteq {i}
      /\ \A Q : AtMostOne(At(loans, Q) \ {i}) => AtMostOne(At(loans', Q))
  BY <1>1, <1>2, AtWithout
<1>7. copy[c] # "none"
  BY <1>2 DEF IInv, NoCopyNoRows
<1>8. c \notin pulled => /\ At(loans, LoanOf(c)) = {i}
                         /\ At(holds, KeepingFor(c)) \subseteq {}
  BY <1>2 DEF IInv, HoldShape, LentOnce, KeptOnce, AtMostOne
<1>9. /\ copy' \in [Copies -> CopyStates \cup {"none"}] /\ holds' \in Seq(Hold)
      /\ copy'[c] \in {"available", "reserved"}
      /\ \A d \in Copies : d # c => /\ copy'[d] = copy[d]
                                    /\ At(holds', KeepingFor(d)) = {}
                                         <=> At(holds, KeepingFor(d)) = {}
      /\ HoldShape'
  BY <1>3, <1>7, <1>8, Released
<1>10. ASSUME NEW d \in Copies, d # c
       PROVE  /\ At(loans', LoanOf(d)) = {} <=> At(loans, LoanOf(d)) = {}
              /\ AtMostOne(At(loans, LoanOf(d))) => AtMostOne(At(loans', LoanOf(d)))
  <2>1. i \notin At(loans, LoanOf(d))
    BY <1>4, <1>10 DEF At, LoanOf
  <2>2. At(loans, LoanOf(d)) \ {i} = At(loans, LoanOf(d))
    BY <2>1
  <2>. QED
    BY <1>6, <2>1, <2>2
<1>11. LentOnce'
  <2>1. SUFFICES ASSUME NEW d \in Copies \ pulled
                 PROVE  /\ AtMostOne(At(loans', LoanOf(d)))
                        /\ copy'[d] = "on_loan" <=> At(loans', LoanOf(d)) # {}
    BY <1>3 DEF LentOnce
  <2>2. CASE d # c
    BY <1>9, <1>10, <2>2 DEF IInv, LentOnce
  <2>3. CASE d = c
    <3>1. At(loans', LoanOf(d)) = {}
      BY <1>6, <1>8, <2>3
    <3>2. copy'[d] # "on_loan"
      BY <1>9, <2>3
    <3>. QED
      BY <3>1, <3>2 DEF AtMostOne
  <2>. QED
    BY <2>2, <2>3
<1>14. copy'[c] # "none" /\ copy'[c] # "on_loan"
  BY <1>9
<1>15. Backed'
  BY <1>9, <1>10, <1>14 DEF IInv, Backed
<1>12. NoCopyNoRows'
  BY <1>9, <1>10, <1>14 DEF IInv, NoCopyNoRows
<1>13. TypeOK'
  BY <1>1, <1>3, <1>5, <1>6, <1>9 DEF TypeOK, deskVars
<1>. QED
  BY <1>9, <1>11, <1>12, <1>13, <1>15 DEF IInv

(* cancel_reservation: a waiting row only leaves the queue; a ready one frees
   the copy it kept, if that copy still is reserved.                          *)
LEMMA CancelKeeps ==
  ASSUME IInv, NEW h \in DOMAIN holds, CancelReservation(h)
  PROVE  IInv'
<1> DEFINE c == holds[h].copy
<1>1. TypeOK /\ holds \in Seq(Hold) /\ holds[h] \in Hold
  BY RowsOf DEF IInv, TypeOK
<1>2. UNCHANGED <<now, titles, deskVars, balance, loans, pulled>>
  BY DEF CancelReservation
<1>3. holds[h].status = "ready" => c \in Copies /\ h \in At(holds, KeepingFor(c))
  <2>1. holds[h] \notin Misplaced
    BY DEF IInv, HoldShape, WellPlaced, At
  <2>. QED
    BY <1>1, <2>1 DEF Misplaced, At, KeepingFor
<1> HIDE DEF c
<1>4. CASE holds[h].status = "ready" /\ copy[c] = "reserved"
  <2>1. c \in Copies /\ h \in At(holds, KeepingFor(c))
    BY <1>3, <1>4
  <2>2. ReleaseOrHold(c, {h})
    BY <1>4 DEF CancelReservation, c
  <2>3. c \notin pulled => At(holds, KeepingFor(c)) \subseteq {h}
    BY <2>1 DEF IInv, HoldShape, KeptOnce, AtMostOne
  <2>4. /\ copy' \in [Copies -> CopyStates \cup {"none"}] /\ holds' \in Seq(Hold)
        /\ copy'[c] \in {"available", "reserved"}
        /\ \A d \in Copies : d # c => /\ copy'[d] = copy[d]
                                      /\ At(holds', KeepingFor(d)) = {}
                                           <=> At(holds, KeepingFor(d)) = {}
        /\ HoldShape'
    BY <1>2, <1>4, <2>1, <2>2, <2>3, Released
  <2>5. TypeOK'
    BY <1>1, <1>2, <2>4 DEF TypeOK, deskVars
  <2>6. copy'[c] # "none" /\ copy'[c] # "on_loan" /\ copy[c] # "on_loan"
    BY <1>4, <2>4
  <2>7. LentOnce' /\ Backed'
    BY <1>2, <2>4, <2>6 DEF IInv, LentOnce, Backed
  <2>8. NoCopyNoRows'
    BY <1>2, <2>4, <2>6 DEF IInv, NoCopyNoRows
  <2>. QED
    BY <2>4, <2>5, <2>7, <2>8 DEF IInv
<1>5. CASE ~(holds[h].status = "ready" /\ copy[c] = "reserved")
  <2>1. holds' = Without(holds, {h}) /\ UNCHANGED copy
    BY <1>5 DEF CancelReservation, c
  <2>2. /\ holds' \in Seq(Hold)
        /\ \A Q : At(holds', Q) = {} <=> At(holds, Q) \subseteq {h}
        /\ \A Q : AtMostOne(At(holds, Q) \ {h}) => AtMostOne(At(holds', Q))
    BY <1>1, <2>1, AtWithout
  <2>3. \A Q : AtMostOne(At(holds, Q)) => AtMostOne(At(holds', Q))
    BY <2>2 DEF AtMostOne
  <2>4. TypeOK'
    BY <1>1, <1>2, <2>1, <2>2 DEF TypeOK, deskVars
  <2>5. KeptOnce'
    <3>1. ASSUME NEW d \in Copies \ pulled  PROVE h \notin At(holds, KeepingFor(d))
      <4>1. SUFFICES ASSUME h \in At(holds, KeepingFor(d))  PROVE FALSE
        OBVIOUS
      <4>2. holds[h].status = "ready" /\ c = d
        BY <4>1 DEF At, KeepingFor, c
      <4>3. copy[d] = "reserved"
        BY <3>1, <4>1 DEF IInv, HoldShape, KeptOnce
      <4>. QED
        BY <1>5, <4>2, <4>3
    <3>. QED
      BY <1>2, <2>1, <2>2, <2>3, <3>1 DEF IInv, HoldShape, KeptOnce
  <2>6. LentOnce' /\ Backed' /\ NoCopyNoRows' /\ AskedOnce' /\ NoTitleNoRows' /\ WellPlaced'
    BY <1>2, <2>1, <2>2, <2>3 DEF IInv, HoldShape, LentOnce, Backed, NoCopyNoRows,
       AskedOnce, NoTitleNoRows, WellPlaced
  <2>. QED
    BY <2>4, <2>5, <2>6 DEF IInv, HoldShape
<1>. QED
  BY <1>4, <1>5

-----------------------------------------------------------------------------
(* One case per operation.                                                    *)
LEMMA InvariantStep == IInv /\ [Next]_vars => IInv'
<1> SUFFICES ASSUME IInv, [Next]_vars  PROVE IInv'
  OBVIOUS
<1>1. TypeOK
  BY DEF IInv
<1>2. ASSUME NEW b \in Books, DeleteBook(b)  PROVE IInv'
  BY <1>2, DeleteBookKeeps
<1>3. ASSUME NEW b \in Books, NEW cs \in SUBSET CopiesOf(b), CreateBook(b, cs)  PROVE IInv'
  <2>1. \A c \in cs : copy[c] = "none"
    BY <1>3 DEF CreateBook, CopiesOf, IInv, HoldShape, NoTitleNoRows
  <2>. QED
    BY <1>3, <2>1, NewCopiesKeep DEF CreateBook
<1>4. ASSUME NEW b \in Books, NEW cs \in SUBSET CopiesOf(b), AddCopies(b, cs)  PROVE IInv'
  <2>1. titles' = titles \cup {b} /\ \A c \in cs : copy[c] = "none"
    BY <1>4 DEF AddCopies, CopiesOf, Stock
  <2>. QED
    BY <1>4, <2>1, NewCopiesKeep DEF AddCopies
<1>5. ASSUME NEW c \in Copies, NEW s \in StaffSettable, UpdateCopy(c, s)  PROVE IInv'
  BY <1>5, UpdateCopyKeeps
<1>6. CASE Desk
  <2>1. UNCHANGED <<now, titles, copy, loans, holds, pulled>>
    BY <1>6 DEF Desk, CreateReader, UpdateReader, DeleteReader, PayFine
  <2>2. PICK r \in Readers :
          \/ \E lv \in Levels : CreateReader(r, lv)
          \/ \E s \in {"active", "suspended"}, lv \in Levels : UpdateReader(r, s, lv)
          \/ \E byCard \in BOOLEAN : DeleteReader(r, byCard)
          \/ \E amount \in 1..(balance[r] + 1) : PayFine(r, amount)
    BY <1>6 DEF Desk
  <2>3. ASSUME NEW lv \in Levels, CreateReader(r, lv)  PROVE TypeOK'
    BY <1>1, <2>1, <2>3 DEF CreateReader, TypeOK
  <2>4. ASSUME NEW s \in {"active", "suspended"}, NEW lv \in Levels, UpdateReader(r, s, lv)
        PROVE  TypeOK'
    BY <1>1, <2>1, <2>4 DEF UpdateReader, TypeOK
  <2>5. ASSUME NEW byCard \in BOOLEAN, DeleteReader(r, byCard)  PROVE TypeOK'
    BY <1>1, <2>1, <2>5 DEF DeleteReader, TypeOK
  <2>6. ASSUME NEW amount \in 1..(balance[r] + 1), PayFine(r, amount)  PROVE TypeOK'
    <3>1. balance \in [Readers -> Nat] /\ balance' = [balance EXCEPT ![r] = balance[r] - amount]
      BY <1>1, <2>6 DEF PayFine, TypeOK
    <3>2. balance[r] - amount \in Nat
      BY <2>6, <3>1 DEF PayFine
    <3>3. balance' \in [Readers -> Nat]
      BY <3>1, <3>2
    <3>. QED
      BY <1>1, <2>1, <2>6, <3>3 DEF PayFine, TypeOK, deskVars
  <2>7. TypeOK'
    BY <2>2, <2>3, <2>4, <2>5, <2>6
  <2>. QED
    BY <2>1, <2>7, RowsUntouched
<1>7. ASSUME NEW r \in Readers, NEW c \in Copies, BorrowCopy(r, c)  PROVE IInv'
  <2>1. Lend(r, c) /\ (copy[c] = "available" \/ HeldFor(r, c) # {})
    BY <1>7 DEF BorrowCopy
  <2>. QED
    BY <2>1, LendKeeps
<1>8. ASSUME NEW r \in Readers, NEW b \in Books, BorrowTitle(r, b)  PROVE IInv'
  <2>1. PICK c \in Copies : Lend(r, c) /\ (copy[c] = "available" \/ HeldFor(r, c) # {})
    BY <1>8 DEF BorrowTitle, CopiesOf
  <2>. QED
    BY <2>1, LendKeeps
<1>9. ASSUME NEW r \in Readers, NEW b \in Books, Reserve(r, b)  PROVE IInv'
  BY <1>9, ReserveKeeps
<1>10. ASSUME NEW c \in Copies, ReturnCopy(c)  PROVE IInv'
  BY <1>10, ReturnKeeps
<1>11. ASSUME NEW i \in DOMAIN loans, Renew(i)  PROVE IInv'
  BY <1>11, RenewKeeps
<1>12. ASSUME NEW h \in DOMAIN holds, CancelReservation(h)  PROVE IInv'
  BY <1>12, CancelKeeps
<1>13. CASE Tick
  <2>1. now' \in 0..MaxTime
    BY <1>1, <1>13, ConstantsAssumption DEF Tick, TypeOK
  <2>2. TypeOK' /\ UNCHANGED <<titles, copy, loans, holds, pulled>>
    BY <1>1, <1>13, <2>1 DEF Tick, TypeOK, deskVars
  <2>. QED
    BY <2>2, RowsUntouched
<1>14. CASE UNCHANGED vars
  <2>1. TypeOK' /\ UNCHANGED <<titles, copy, loans, holds, pulled>>
    BY <1>1, <1>14 DEF vars, deskVars, TypeOK
  <2>. QED
    BY <2>1, RowsUntouched
<1>15. CASE Catalogue
  BY <1>2, <1>3, <1>4, <1>5, <1>15 DEF Catalogue
<1>16. CASE Circulate
  BY <1>7, <1>8, <1>9, <1>10, <1>11, <1>12, <1>16 DEF Circulate
<1>. QED
  BY <1>6, <1>13, <1>14, <1>15, <1>16 DEF Next

(* The invariant holds in every reachable state.                              *)
LEMMA Invariant == Spec => []IInv
<1>. QED
  BY InitInvariant, InvariantStep, PTL DEF Spec

(* Whatever readers and staff do, every row and every status has its type and
   no balance becomes negative.                                               *)
THEOREM CirculationTypeCorrect == Spec => []TypeOK
<1>1. IInv => TypeOK
  BY DEF IInv
<1>. QED
  BY Invariant, <1>1, PTL

(* A copy is lent exactly while one active loan names it and kept exactly while
   one notified reader may collect it, through borrowing, returning, cancelling
   and whatever the catalogue does; only a copy staff took out of "reserved" by
   hand is excepted.                                                          *)
THEOREM CopiesHaveOneKeeper == Spec => []OneKeeper
<1>1. IInv => OneKeeper
  BY InvariantIsChecked
<1>. QED
  BY Invariant, <1>1, PTL

(* No copy is ever stranded "on_loan" without a loan row, pulled or not.      *)
THEOREM NoCopyIsStranded == Spec => []OnLoanIsBacked
<1>1. IInv => OnLoanIsBacked
  BY InvariantIsChecked
<1>. QED
  BY Invariant, <1>1, PTL

(* A reader never has two open holds on a title, and no row outlives the title
   or the copy it is about.                                                   *)
THEOREM OneOpenHoldPerReader == Spec => []OneOpenHold
<1>1. IInv => OneOpenHold
  BY InvariantIsChecked
<1>. QED
  BY Invariant, <1>1, PTL

-----------------------------------------------------------------------------
(* The hold queue.  What a list of reservations says about a title: who waits,
   in order, and whom a copy is kept for.                                     *)
WaitingFor(b) == {h \in Hold : h.book = b /\ h.status = "waiting"}
ToldOf(b) == {h \in Hold : h.book = b /\ h.status # "waiting"}
QueueIn(rows, b) == ReadersOf(Those(rows, At(rows, WaitingFor(b))))
ToldIn(rows, b) == {rows[h].reader : h \in At(rows, ToldOf(b))}

(* ReadersOf lists the reader of each row.                                    *)
LEMMA ReadersOfRows ==
  ASSUME NEW s \in Seq(Hold)
  PROVE  /\ ReadersOf(s) \in Seq(Readers) /\ Len(ReadersOf(s)) = Len(s)
         /\ \A k \in 1..Len(s) : ReadersOf(s)[k] = s[k].reader
<1>1. Len(s) \in Nat /\ DOMAIN s = 1..Len(s) /\ \A k \in 1..Len(s) : s[k] \in Hold
  BY LenProperties, ElementOfSeq
<1>2. ReadersOf(s) = [k \in 1..Len(s) |-> s[k].reader]
  BY <1>1 DEF ReadersOf
<1>3. \A k \in 1..Len(s) : s[k].reader \in Readers
  BY <1>1 DEF Hold
<1>. QED
  BY <1>1, <1>2, <1>3

(* It commutes with what the operations do to a queue.                        *)
LEMMA ReadersOfAppend ==
  ASSUME NEW s \in Seq(Hold), NEW x \in Hold
  PROVE  ReadersOf(Append(s, x)) = Append(ReadersOf(s), x.reader)
<1>1. x.reader \in Readers
  BY DEF Hold
<1>2. /\ ReadersOf(s) \in Seq(Readers) /\ Len(ReadersOf(s)) = Len(s) /\ Len(s) \in Nat
      /\ \A k \in 1..Len(s) : ReadersOf(s)[k] = s[k].reader
  BY ReadersOfRows, LenProperties
<1>3. /\ Append(s, x) \in Seq(Hold) /\ Len(Append(s, x)) = Len(s) + 1
      /\ \A k \in 1..Len(s) : Append(s, x)[k] = s[k]
      /\ Append(s, x)[Len(s) + 1] = x
  BY AppendProperties
<1>4. /\ Append(ReadersOf(s), x.reader) \in Seq(Readers)
      /\ Len(Append(ReadersOf(s), x.reader)) = Len(s) + 1
      /\ \A k \in 1..Len(s) : Append(ReadersOf(s), x.reader)[k] = s[k].reader
      /\ Append(ReadersOf(s), x.reader)[Len(s) + 1] = x.reader
  BY <1>1, <1>2, AppendProperties
<1>5. /\ ReadersOf(Append(s, x)) \in Seq(Readers) /\ Len(ReadersOf(Append(s, x))) = Len(s) + 1
      /\ \A k \in 1..(Len(s) + 1) : ReadersOf(Append(s, x))[k] = Append(s, x)[k].reader
  BY <1>3, ReadersOfRows
<1>6. \A k \in 1..(Len(s) + 1) : k \in 1..Len(s) \/ k = Len(s) + 1
  BY <1>2
<1>7. \A k \in 1..(Len(s) + 1) :
        ReadersOf(Append(s, x))[k] = Append(ReadersOf(s), x.reader)[k]
  BY <1>3, <1>4, <1>5, <1>6
<1>. QED
  BY <1>4, <1>5, <1>7, SameRows

LEMMA ReadersOfTail ==
  ASSUME NEW s \in Seq(Hold), s # <<>>
  PROVE  /\ ReadersOf(s) # <<>> /\ Head(ReadersOf(s)) = Head(s).reader
         /\ ReadersOf(Tail(s)) = Tail(ReadersOf(s))
<1>1. /\ Tail(s) \in Seq(Hold) /\ Len(Tail(s)) = Len(s) - 1 /\ Head(s) = s[1]
      /\ \A k \in 1..(Len(s) - 1) : Tail(s)[k] = s[k + 1]
      /\ Len(s) \in Nat /\ Len(s) # 0
  BY HeadTailProperties, EmptySeq, LenProperties
<1>2. /\ ReadersOf(s) \in Seq(Readers) /\ Len(ReadersOf(s)) = Len(s)
      /\ \A k \in 1..Len(s) : ReadersOf(s)[k] = s[k].reader
  BY ReadersOfRows
<1>3. ReadersOf(s) # <<>>
  BY <1>1, <1>2, EmptySeq
<1>4. /\ Tail(ReadersOf(s)) \in Seq(Readers) /\ Len(Tail(ReadersOf(s))) = Len(s) - 1
      /\ Head(ReadersOf(s)) = ReadersOf(s)[1]
      /\ \A k \in 1..(Len(s) - 1) : Tail(ReadersOf(s))[k] = ReadersOf(s)[k + 1]
  BY <1>2, <1>3, HeadTailProperties
<1>5. /\ ReadersOf(Tail(s)) \in Seq(Readers) /\ Len(ReadersOf(Tail(s))) = Len(s) - 1
      /\ \A k \in 1..(Len(s) - 1) : ReadersOf(Tail(s))[k] = Tail(s)[k].reader
  BY <1>1, ReadersOfRows
<1>6. 1 \in 1..Len(s) /\ \A k \in 1..(Len(s) - 1) : k + 1 \in 1..Len(s)
  BY <1>1
<1>7. \A k \in 1..(Len(s) - 1) : ReadersOf(Tail(s))[k] = Tail(ReadersOf(s))[k]
  BY <1>1, <1>2, <1>4, <1>5, <1>6
<1>8. ReadersOf(Tail(s)) = Tail(ReadersOf(s))
  BY <1>4, <1>5, <1>7, SameRows
<1>. QED
  BY <1>1, <1>2, <1>3, <1>4, <1>6, <1>8

LEMMA ReadersOfWithout ==
  ASSUME NEW s \in Seq(Hold), NEW gone
  PROVE  ReadersOf(Without(s, gone)) = Without(ReadersOf(s), gone)
<1> DEFINE kept == DOMAIN s \ gone
           n == Len(Those(s, kept))
           t == ReadersOf(s)
<1>1. kept \subseteq DOMAIN s
  OBVIOUS
<1>2. DOMAIN s = 1..Len(s) /\ Without(s, gone) = Those(s, kept)
  BY LenProperties DEF Without
<1> HIDE DEF kept
<1>3. PICK f : /\ Ascending(f, n, kept)
               /\ Those(s, kept) \in Seq(Hold)
               /\ \A k \in 1..n : Those(s, kept)[k] = s[f[k]]
  BY <1>1, ThoseRows
<1>4. n \in Nat
  BY <1>3, LenProperties
<1>5. \A k \in 1..n : f[k] \in 1..Len(s)
  BY <1>1, <1>2, <1>3 DEF Ascending
<1>6. /\ t \in Seq(Readers) /\ DOMAIN t = DOMAIN s
      /\ \A k \in 1..Len(s) : t[k] = s[k].reader
  BY <1>2, ReadersOfRows, LenProperties
<1>7. Without(t, gone) = Those(t, kept) /\ kept \subseteq DOMAIN t
  BY <1>1, <1>6 DEF Without, kept
<1>8. /\ ReadersOf(Those(s, kept)) \in Seq(Readers)
      /\ Len(ReadersOf(Those(s, kept))) = n
      /\ \A k \in 1..n : ReadersOf(Those(s, kept))[k] = Those(s, kept)[k].reader
  BY <1>3, ReadersOfRows
<1> HIDE DEF n, t
<1>9. /\ Those(t, kept) \in Seq(Readers) /\ Len(Those(t, kept)) = n
      /\ \A k \in 1..n : Those(t, kept)[k] = t[f[k]]
  BY <1>3, <1>4, <1>6, <1>7, ThoseUnique
<1>10. \A k \in 1..n : ReadersOf(Those(s, kept))[k] = Those(t, kept)[k]
  BY <1>3, <1>5, <1>6, <1>8, <1>9
<1>11. ReadersOf(Those(s, kept)) = Those(t, kept)
  BY <1>8, <1>9, <1>10, SameRows
<1>. QED
  BY <1>2, <1>7, <1>11 DEF t

(* Deleted reservations leave the queue and the notified, and only they do.   *)
LEMMA QueueWithout ==
  ASSUME NEW rows \in Seq(Hold), NEW gone, NEW b
  PROVE  /\ QueueIn(Without(rows, gone), b)
              = ReadersOf(Those(rows, At(rows, WaitingFor(b)) \ gone))
         /\ ToldIn(Without(rows, gone), b)
              = {rows[i].reader : i \in At(rows, ToldOf(b)) \ gone}
<1> DEFINE new == Without(rows, gone)
<1>1. /\ Those(new, At(new, WaitingFor(b))) = Those(rows, At(rows, WaitingFor(b)) \ gone)
      /\ {new[k] : k \in At(new, ToldOf(b))} = {rows[i] : i \in At(rows, ToldOf(b)) \ gone}
  BY ThoseWithout
<1> HIDE DEF new
<1>2. ToldIn(new, b) = {rows[i].reader : i \in At(rows, ToldOf(b)) \ gone}
  <2>1. ToldIn(new, b) = {h.reader : h \in {new[k] : k \in At(new, ToldOf(b))}}
    BY DEF ToldIn
  <2>2. @ = {h.reader : h \in {rows[i] : i \in At(rows, ToldOf(b)) \ gone}}
    BY <1>1
  <2>. QED
    BY <2>1, <2>2
<1>. QED
  BY <1>1, <1>2 DEF QueueIn, new

(* What the queue of HoldQueue stands for, and that only the rows decide it.  *)
TheQueue == [b \in Books |-> ReadersOf(Those(holds, Waiting(b)))]
TheNotified == [b \in Books |-> {holds[h].reader : h \in OpenHolds(b) \ Waiting(b)}]

SameViews ==
  /\ TheQueue = [b \in Books |-> QueueIn(holds, b)]
  /\ TheNotified = [b \in Books |-> ToldIn(holds, b)]

(* The mapping reads the rows of the title and nothing else.                  *)
LEMMA Views == TypeOK => SameViews
<1> SUFFICES ASSUME TypeOK  PROVE SameViews
  OBVIOUS
<1>1. \A h \in DOMAIN holds : holds[h] \in Hold
  BY RowsOf
<1>2. ASSUME NEW b \in Books
      PROVE  /\ Waiting(b) = At(holds, WaitingFor(b))
             /\ OpenHolds(b) \ Waiting(b) = At(holds, ToldOf(b))
  BY <1>1 DEF Waiting, OpenHolds, At, WaitingFor, ToldOf
<1>3. \A b \in Books : /\ ReadersOf(Those(holds, Waiting(b))) = QueueIn(holds, b)
                       /\ {holds[h].reader : h \in OpenHolds(b) \ Waiting(b)} = ToldIn(holds, b)
  BY <1>2 DEF QueueIn, ToldIn
<1>. QED
  BY <1>3 DEF SameViews, TheQueue, TheNotified

(* A step that only concerns title b, in the terms of HoldQueue.              *)
Elsewhere(b) ==
  \A d \in Books : d # b => /\ QueueIn(holds', d) = QueueIn(holds, d)
                            /\ ToldIn(holds', d) = ToldIn(holds, d)

(* Such a step changes the entry of b and no other.                           *)
LEMMA ThisTitle ==
  ASSUME TypeOK, TypeOK', NEW b \in Books, Elsewhere(b)
  PROVE  /\ TheQueue' = [TheQueue EXCEPT ![b] = QueueIn(holds', b)]
         /\ TheNotified' = [TheNotified EXCEPT ![b] = ToldIn(holds', b)]
         /\ TheQueue[b] = QueueIn(holds, b) /\ TheNotified[b] = ToldIn(holds, b)
<1>1. SameViews
  BY Views
<1>2. TypeOK' => SameViews'
  BY Views, PTL
<1>. QED
  BY <1>1, <1>2 DEF Elsewhere, SameViews

(* Nothing changes for any title.                                             *)
LEMMA QueueStutters ==
  ASSUME TypeOK, TypeOK',
         \A d \in Books : /\ QueueIn(holds', d) = QueueIn(holds, d)
                          /\ ToldIn(holds', d) = ToldIn(holds, d)
  PROVE  UNCHANGED Queue!vars
<1>1. SameViews
  BY Views
<1>2. TypeOK' => SameViews'
  BY Views, PTL
<1>3. TheQueue' = TheQueue /\ TheNotified' = TheNotified
  BY <1>1, <1>2 DEF SameViews
<1>. QED
  BY <1>3 DEF Queue!vars, TheQueue, TheNotified

(* The steps of HoldQueue, in terms of the rows of one title.                 *)
LEMMA QueueDissolves ==
  ASSUME TypeOK, TypeOK', NEW b \in Books, Elsewhere(b),
         QueueIn(holds', b) = <<>>, ToldIn(holds', b) = {}
  PROVE  Queue!Next
<1>1. /\ TheQueue' = [TheQueue EXCEPT ![b] = <<>>]
      /\ TheNotified' = [TheNotified EXCEPT ![b] = {}]
  BY ThisTitle
<1>2. Queue!Dissolve(b)
  BY <1>1 DEF Queue!Dissolve, TheQueue, TheNotified
<1>. QED
  BY <1>2 DEF Queue!Next

LEMMA QueueLoses ==
  ASSUME TypeOK, TypeOK', NEW b \in Books, NEW p \in Readers, Elsewhere(b),
         QueueIn(holds', b) = QueueIn(holds, b), p \in ToldIn(holds, b),
         ToldIn(holds', b) = ToldIn(holds, b) \ {p}
  PROVE  Queue!Next
<1>1. /\ TheQueue' = [TheQueue EXCEPT ![b] = TheQueue[b]]
      /\ TheNotified' = [TheNotified EXCEPT ![b] = TheNotified[b] \ {p}]
      /\ p \in TheNotified[b]
  BY ThisTitle
<1>2. TheQueue' = TheQueue
  BY <1>1 DEF TheQueue
<1>3. Queue!Leave(b, p)
  BY <1>1, <1>2 DEF Queue!Leave, TheQueue, TheNotified
<1>. QED
  BY <1>3 DEF Queue!Next

LEMMA QueueIsJoined ==
  ASSUME TypeOK, TypeOK', NEW b \in Books, NEW p \in Readers, Elsewhere(b),
         \A k \in DOMAIN QueueIn(holds, b) : QueueIn(holds, b)[k] # p,
         p \notin ToldIn(holds, b),
         QueueIn(holds', b) = Append(QueueIn(holds, b), p),
         ToldIn(holds', b) = ToldIn(holds, b)
  PROVE  Queue!Next
<1>1. /\ TheQueue' = [TheQueue EXCEPT ![b] = Append(TheQueue[b], p)]
      /\ TheNotified' = [TheNotified EXCEPT ![b] = TheNotified[b]]
      /\ p \notin TheNotified[b]
      /\ \A k \in DOMAIN TheQueue[b] : TheQueue[b][k] # p
  BY ThisTitle
<1>2. TheNotified' = TheNotified
  BY <1>1 DEF TheNotified
<1>3. p \notin Queue!ToSet(TheQueue[b]) \cup TheNotified[b]
  BY <1>1 DEF Queue!ToSet
<1>4. Queue!Join(b, p)
  BY <1>1, <1>2, <1>3 DEF Queue!Join, TheQueue, TheNotified
<1>. QED
  BY <1>4 DEF Queue!Next

(* The instance's queries are these queries.                                  *)
LEMMA SameQueries == \A rows, gone : Queue!Without(rows, gone) = Without(rows, gone)
BY DEF Queue!Without, Queue!Those, Queue!Rank, Queue!Cardinality, Queue!IsFiniteSet,
   Without, Those, Rank, Cardinality, IsFiniteSet

LEMMA QueueIsLeft ==
  ASSUME TypeOK, TypeOK', NEW b \in Books, NEW p \in Readers, Elsewhere(b),
         NEW k \in DOMAIN QueueIn(holds, b), QueueIn(holds, b)[k] = p,
         QueueIn(holds', b) = Without(QueueIn(holds, b), {k}),
         ToldIn(holds', b) = ToldIn(holds, b)
  PROVE  Queue!Next
<1>1. /\ TheQueue' = [TheQueue EXCEPT ![b] = Queue!Without(TheQueue[b], {k})]
      /\ TheNotified' = [TheNotified EXCEPT ![b] = TheNotified[b]]
      /\ k \in DOMAIN TheQueue[b] /\ TheQueue[b][k] = p
  BY ThisTitle, SameQueries
<1>2. TheNotified' = TheNotified
  BY <1>1 DEF TheNotified
<1>3. Queue!GiveUp(b, p)
  BY <1>1, <1>2 DEF Queue!GiveUp, TheQueue, TheNotified
<1>. QED
  BY <1>3 DEF Queue!Next

LEMMA QueueMovesUp ==
  ASSUME TypeOK, TypeOK', NEW b \in Books, Elsewhere(b),
         QueueIn(holds, b) # <<>>, QueueIn(holds', b) = Tail(QueueIn(holds, b)),
         \/ ToldIn(holds', b) = ToldIn(holds, b) \cup {Head(QueueIn(holds, b))}
         \/ \E p \in Readers \cap ToldIn(holds, b) :
              ToldIn(holds', b) = (ToldIn(holds, b) \ {p}) \cup {Head(QueueIn(holds, b))}
  PROVE  Queue!Next
<1>1. TheQueue' = [TheQueue EXCEPT ![b] = Tail(TheQueue[b])] /\ TheQueue[b] # <<>>
  BY ThisTitle
<1>2. CASE ToldIn(holds', b) = ToldIn(holds, b) \cup {Head(QueueIn(holds, b))}
  <2>1. TheNotified' = [TheNotified EXCEPT ![b] = TheNotified[b] \cup {Head(TheQueue[b])}]
    BY <1>2, ThisTitle
  <2>2. Queue!Notify(b)
    BY <1>1, <2>1 DEF Queue!Notify, TheQueue, TheNotified
  <2>. QED
    BY <2>2 DEF Queue!Next
<1>3. ASSUME NEW p \in Readers, p \in ToldIn(holds, b),
             ToldIn(holds', b) = (ToldIn(holds, b) \ {p}) \cup {Head(QueueIn(holds, b))}
      PROVE  Queue!Next
  <2>1. /\ TheNotified' = [TheNotified EXCEPT
                             ![b] = (TheNotified[b] \ {p}) \cup {Head(TheQueue[b])}]
        /\ p \in TheNotified[b]
    BY <1>3, ThisTitle
  <2>2. Queue!PassOn(b, p)
    BY <1>1, <2>1 DEF Queue!PassOn, TheQueue, TheNotified
  <2>. QED
    BY <2>2 DEF Queue!Next
<1>. QED
  BY <1>2, <1>3

-----------------------------------------------------------------------------
(* Each operation is one step of the hold queue, or none.                     *)
LEMMA HoldsUntouched ==
  ASSUME TypeOK, TypeOK', UNCHANGED holds
  PROVE  UNCHANGED Queue!vars
<1>1. \A d \in Books : /\ QueueIn(holds', d) = QueueIn(holds, d)
                       /\ ToldIn(holds', d) = ToldIn(holds, d)
  OBVIOUS
<1>. QED
  BY <1>1, QueueStutters

(* Who asked for b is in its queue or was told; nobody else is.               *)
LEMMA WhoAsked ==
  ASSUME TypeOK, NEW b \in Books
  PROVE  /\ holds \in Seq(Hold)
         /\ At(holds, WaitingFor(b)) = Waiting(b)
         /\ At(holds, WaitingFor(b)) \cup At(holds, ToldOf(b)) = At(holds, AboutBook(b))
         /\ At(holds, WaitingFor(b)) \cap At(holds, ToldOf(b)) = {}
         /\ At(holds, WaitingFor(b)) \subseteq DOMAIN holds
         /\ \A p \in ToldIn(holds, b) : \E h \in At(holds, ToldOf(b)) : holds[h].reader = p
         /\ \A k \in DOMAIN QueueIn(holds, b) :
              \E h \in At(holds, WaitingFor(b)) : holds[h].reader = QueueIn(holds, b)[k]
<1>1. holds \in Seq(Hold) /\ \A h \in DOMAIN holds : holds[h] \in Hold
  BY RowsOf DEF TypeOK
<1>2. /\ At(holds, WaitingFor(b)) = Waiting(b)
      /\ At(holds, WaitingFor(b)) \cup At(holds, ToldOf(b)) = At(holds, AboutBook(b))
      /\ At(holds, WaitingFor(b)) \cap At(holds, ToldOf(b)) = {}
      /\ At(holds, WaitingFor(b)) \subseteq DOMAIN holds
  BY <1>1 DEF Waiting, OpenHolds, At, WaitingFor, ToldOf, AboutBook
<1>3. \A p \in ToldIn(holds, b) : \E h \in At(holds, ToldOf(b)) : holds[h].reader = p
  BY DEF ToldIn
<1> DEFINE W == At(holds, WaitingFor(b))
           q == Those(holds, W)
<1> HIDE DEF W
<1>4. W \subseteq DOMAIN holds
  BY <1>2 DEF W
<1>5. PICK f : /\ Ascending(f, Len(q), W)
               /\ q \in Seq(Hold)
               /\ \A k \in 1..Len(q) : q[k] = holds[f[k]]
  BY <1>1, <1>4, ThoseRows
<1> HIDE DEF q
<1>6. /\ ReadersOf(q) \in Seq(Readers) /\ Len(ReadersOf(q)) = Len(q)
      /\ \A k \in 1..Len(q) : ReadersOf(q)[k] = q[k].reader
  BY <1>5, ReadersOfRows
<1>7. DOMAIN ReadersOf(q) = 1..Len(q)
  BY <1>6, LenProperties
<1>8. \A k \in DOMAIN ReadersOf(q) : \E h \in W : holds[h].reader = ReadersOf(q)[k]
  BY <1>5, <1>6, <1>7 DEF Ascending
<1>. QED
  BY <1>1, <1>2, <1>3, <1>8 DEF QueueIn, q, W

(* reserve: the reader joins at the end.                                      *)
LEMMA ReserveQueues ==
  ASSUME TypeOK, TypeOK', NEW r \in Readers, NEW b \in Books, Reserve(r, b)
  PROVE  Queue!Next
<1> DEFINE row == [book |-> b, reader |-> r, status |-> "waiting", copy |-> NoCopy]
<1>1. /\ row \in Hold /\ row.reader = r /\ row.book = b /\ row.status = "waiting"
      /\ holds' = Append(holds, row) /\ holds \in Seq(Hold)
      /\ At(holds, AskedBy(r, b)) = {}
  BY RowsOf DEF Reserve, Hold, TypeOK
<1> HIDE DEF row
<1>2. \A d \in Books : row \notin ToldOf(d) /\ (row \in WaitingFor(d) <=> d = b)
  BY <1>1 DEF ToldOf, WaitingFor
<1>3. \A h \in At(holds, AboutBook(b)) : holds[h].reader # r
  BY <1>1 DEF At, AboutBook, AskedBy
<1>4. ASSUME NEW d \in Books  PROVE ToldIn(holds', d) = ToldIn(holds, d)
  <2>1. At(holds', ToldOf(d)) = At(holds, ToldOf(d))
    BY <1>1, <1>2, AtAppend
  <2>2. \A h \in At(holds, ToldOf(d)) : holds'[h] = holds[h]
    BY <1>1, AppendProperties, LenProperties DEF At
  <2>. QED
    BY <2>1, <2>2 DEF ToldIn
<1>5. ASSUME NEW d \in Books, d # b  PROVE QueueIn(holds', d) = QueueIn(holds, d)
  BY <1>1, <1>2, <1>5, ThoseAppend DEF QueueIn
<1>6. QueueIn(holds', b) = Append(QueueIn(holds, b), r)
  <2>1. Those(holds', At(holds', WaitingFor(b)))
          = Append(Those(holds, At(holds, WaitingFor(b))), row)
    BY <1>1, <1>2, ThoseAppend
  <2>2. Those(holds, At(holds, WaitingFor(b))) \in Seq(Hold)
    BY <1>1, WhoAsked, ThoseRows
  <2>. QED
    BY <1>1, <2>1, <2>2, ReadersOfAppend DEF QueueIn
<1>7. /\ \A k \in DOMAIN QueueIn(holds, b) : QueueIn(holds, b)[k] # r
      /\ r \notin ToldIn(holds, b)
  BY <1>3, WhoAsked
<1>8. Elsewhere(b)
  BY <1>4, <1>5 DEF Elsewhere
<1>. QED
  BY <1>4, <1>6, <1>7, <1>8, QueueIsJoined

(* An empty queue.                                                            *)
LEMMA NobodyWaits ==
  ASSUME NEW rows \in Seq(Hold)
  PROVE  ReadersOf(Those(rows, {})) = <<>>
<1> DEFINE none == Those(rows, {})
<1>1. {} \subseteq DOMAIN rows
  OBVIOUS
<1>2. PICK f : Ascending(f, Len(none), {}) /\ none \in Seq(Hold)
  BY <1>1, ThoseRows
<1> HIDE DEF none
<1>3. Len(none) = 0
  <2>1. Len(none) \in Nat /\ ~(1 \in 1..Len(none))
    BY <1>2, LenProperties DEF Ascending
  <2>. QED
    BY <2>1
<1>4. ReadersOf(none) \in Seq(Readers) /\ Len(ReadersOf(none)) = 0
  BY <1>2, <1>3, ReadersOfRows
<1>. QED
  BY <1>4, EmptySeq DEF none

(* A title is withdrawn with its whole queue.                                 *)
LEMMA DeleteBookDissolves ==
  ASSUME TypeOK, TypeOK', NEW b \in Books, DeleteBook(b)
  PROVE  Queue!Next
<1> DEFINE gone == At(holds, AboutBook(b))
<1>1. holds' = Without(holds, gone) /\ holds \in Seq(Hold)
  BY RowsOf DEF DeleteBook, TypeOK
<1>2. ASSUME NEW d \in Books
      PROVE  /\ QueueIn(holds', d) = ReadersOf(Those(holds, At(holds, WaitingFor(d)) \ gone))
             /\ ToldIn(holds', d) = {holds[i].reader : i \in At(holds, ToldOf(d)) \ gone}
  BY <1>1, QueueWithout
<1>3. ASSUME NEW d \in Books, d # b
      PROVE  /\ At(holds, WaitingFor(d)) \ gone = At(holds, WaitingFor(d))
             /\ At(holds, ToldOf(d)) \ gone = At(holds, ToldOf(d))
  BY <1>3 DEF At, WaitingFor, ToldOf, AboutBook
<1>4. /\ At(holds, WaitingFor(b)) \ gone = {}
      /\ At(holds, ToldOf(b)) \ gone = {}
  BY WhoAsked
<1> HIDE DEF gone
<1>5. Elsewhere(b)
  BY <1>2, <1>3 DEF Elsewhere, QueueIn, ToldIn
<1>6. ToldIn(holds', b) = {}
  BY <1>2, <1>4
<1>7. QueueIn(holds', b) = <<>>
  BY <1>1, <1>2, <1>4, NobodyWaits
<1>. QED
  BY <1>5, <1>6, <1>7, QueueDissolves

(* A reader is told at most once, so the row that goes is all of them.        *)
LEMMA ToldLess ==
  ASSUME TypeOK, AskedOnce, NEW b \in Books, NEW h \in At(holds, ToldOf(b))
  PROVE  /\ holds[h].reader \in Readers /\ holds[h].reader \in ToldIn(holds, b)
         /\ {holds[i].reader : i \in At(holds, ToldOf(b)) \ {h}}
              = ToldIn(holds, b) \ {holds[h].reader}
<1>1. /\ \A i \in At(holds, ToldOf(b)) : holds[i].reader \in Readers
      /\ \A i \in At(holds, ToldOf(b)) : i \in At(holds, AskedBy(holds[i].reader, b))
  BY RowsOf DEF At, ToldOf, AskedBy, Hold
<1>2. \A i \in At(holds, ToldOf(b)) \ {h} : holds[i].reader # holds[h].reader
  BY <1>1 DEF AskedOnce, AtMostOne
<1>. QED
  BY <1>1, <1>2 DEF ToldIn

(* Rows of one title that are not waiting disappear: no queue changes.        *)
LEMMA OnlyTold ==
  ASSUME TypeOK, NEW b \in Books, NEW closed, closed \subseteq At(holds, ToldOf(b)),
         NEW d \in Books
  PROVE  /\ At(holds, WaitingFor(d)) \ closed = At(holds, WaitingFor(d))
         /\ d # b => At(holds, ToldOf(d)) \ closed = At(holds, ToldOf(d))
BY DEF At, WaitingFor, ToldOf

(* A notified reader's row goes, and nobody is told instead.                  *)
LEMMA ToldLeaves ==
  ASSUME IInv, TypeOK', NEW b \in Books, NEW h \in At(holds, ToldOf(b)),
         holds' = Without(holds, {h})
  PROVE  Queue!Next
<1>1. TypeOK /\ AskedOnce /\ holds \in Seq(Hold) /\ {h} \subseteq At(holds, ToldOf(b))
  BY DEF IInv, HoldShape, TypeOK
<1>2. ASSUME NEW d \in Books
      PROVE  /\ QueueIn(holds', d) = ReadersOf(Those(holds, At(holds, WaitingFor(d)) \ {h}))
             /\ ToldIn(holds', d) = {holds[i].reader : i \in At(holds, ToldOf(d)) \ {h}}
  BY <1>1, QueueWithout
<1>3. \A d \in Books : /\ At(holds, WaitingFor(d)) \ {h} = At(holds, WaitingFor(d))
                       /\ d # b => At(holds, ToldOf(d)) \ {h} = At(holds, ToldOf(d))
  BY <1>1, OnlyTold
<1>4. Elsewhere(b) /\ QueueIn(holds', b) = QueueIn(holds, b)
  BY <1>2, <1>3 DEF Elsewhere, QueueIn, ToldIn
<1>5. /\ holds[h].reader \in Readers /\ holds[h].reader \in ToldIn(holds, b)
      /\ ToldIn(holds', b) = ToldIn(holds, b) \ {holds[h].reader}
  BY <1>1, <1>2, ToldLess
<1>. QED
  BY <1>1, <1>4, <1>5, QueueLoses

(* Deleting no row is no step.                                                *)
LEMMA NoneLeaves ==
  ASSUME TypeOK, TypeOK', holds' = Without(holds, {})
  PROVE  UNCHANGED Queue!vars
<1>1. holds \in Seq(Hold)
  BY DEF TypeOK
<1>2. \A T : T \ {} = T
  OBVIOUS
<1>3. \A d \in Books : /\ QueueIn(holds', d) = QueueIn(holds, d)
                       /\ ToldIn(holds', d) = ToldIn(holds, d)
  <2>1. SUFFICES ASSUME NEW d \in Books
                 PROVE  /\ QueueIn(holds', d) = QueueIn(holds, d)
                        /\ ToldIn(holds', d) = ToldIn(holds, d)
    OBVIOUS
  <2>2. /\ QueueIn(holds', d) = ReadersOf(Those(holds, At(holds, WaitingFor(d)) \ {}))
        /\ ToldIn(holds', d) = {holds[i].reader : i \in At(holds, ToldOf(d)) \ {}}
    BY <1>1, QueueWithout
  <2>. QED
    BY <1>2, <2>2 DEF QueueIn, ToldIn
<1>. QED
  BY <1>3, QueueStutters

(* The head of the queue is told, in the place of the row in closed if there is
   one.                                                                       *)
LEMMA HeadIsTold ==
  ASSUME IInv, TypeOK', NEW c \in Copies, Waiting(BookOf[c]) # {},
         NEW closed, closed \subseteq At(holds, ToldOf(BookOf[c])),
         closed = {} \/ \E h : closed = {h},
         holds' = Without(Notified(c), closed)
  PROVE  Queue!Next
<1> DEFINE b == BookOf[c]
           w == NextWaiting(b)
           mid == Notified(c)
           W == At(holds, WaitingFor(b))
           T == At(holds, ToldOf(b))
<1>1. TypeOK /\ WellPlaced /\ AskedOnce /\ holds \in Seq(Hold) /\ b \in Books
  BY ConstantsAssumption DEF IInv, HoldShape, TypeOK
<1>2. /\ mid \in Seq(Hold) /\ DOMAIN mid = DOMAIN holds
      /\ \A i \in DOMAIN holds : /\ mid[i].book = holds[i].book
                                 /\ mid[i].reader = holds[i].reader
                                 /\ i # w => mid[i] = holds[i]
      /\ mid[w].status = "ready"
  BY <1>1, KeptForTheHead
<1>3. W = Waiting(b) /\ w \in W /\ W \cap T = {} /\ W \subseteq DOMAIN holds
  BY <1>1, HeadWaits, WhoAsked
<1>4. \A i \in W : w <= i
  BY <1>1, <1>3, HeadWaits
<1> HIDE DEF mid, w
<1>5. \A i \in DOMAIN holds : holds[i] \in Hold /\ mid[i] \in Hold
  BY <1>1, <1>2, ElementOfSeq, LenProperties
<1>6. ASSUME NEW d \in Books
      PROVE  /\ At(mid, WaitingFor(d)) = At(holds, WaitingFor(d)) \ {w}
             /\ At(mid, ToldOf(d)) = IF d = b THEN T \cup {w} ELSE At(holds, ToldOf(d))
  <2>1. w \in DOMAIN holds /\ holds[w].book = b /\ holds[w].status = "waiting"
    BY <1>3 DEF At, WaitingFor
  <2>2. At(mid, WaitingFor(d)) = At(holds, WaitingFor(d)) \ {w}
    BY <1>2, <1>5, <2>1 DEF At, WaitingFor
  <2>3. d = b => At(mid, ToldOf(d)) = T \cup {w}
    BY <1>2, <1>5, <2>1 DEF At, ToldOf
  <2>4. d # b => At(mid, ToldOf(d)) = At(holds, ToldOf(d))
    BY <1>2, <1>5, <2>1 DEF At, ToldOf
  <2>. QED
    BY <2>2, <2>3, <2>4
<1>7. ASSUME NEW d \in Books
      PROVE  /\ QueueIn(holds', d) = ReadersOf(Those(mid, At(mid, WaitingFor(d)) \ closed))
             /\ ToldIn(holds', d) = {mid[i].reader : i \in At(mid, ToldOf(d)) \ closed}
  BY <1>2, QueueWithout DEF mid
<1>8. ASSUME NEW d \in Books
      PROVE  /\ At(mid, WaitingFor(d)) \ closed = At(holds, WaitingFor(d)) \ {w}
             /\ d # b => At(mid, ToldOf(d)) \ closed = At(holds, ToldOf(d))
             /\ d # b => At(holds, WaitingFor(d)) \ {w} = At(holds, WaitingFor(d))
  <2>1. /\ At(holds, WaitingFor(d)) \ closed = At(holds, WaitingFor(d))
        /\ d # b => At(holds, ToldOf(d)) \ closed = At(holds, ToldOf(d))
    BY DEF At, WaitingFor, ToldOf
  <2>2. d # b => w \notin At(holds, WaitingFor(d))
    BY <1>3 DEF At, WaitingFor
  <2>. QED
    BY <1>6, <2>1, <2>2
<1>9. ASSUME NEW d \in Books
      PROVE  Those(mid, At(holds, WaitingFor(d)) \ {w}) = Those(holds, At(holds, WaitingFor(d)) \ {w})
  <2> DEFINE places == At(holds, WaitingFor(d)) \ {w}
  <2>1. /\ places \subseteq DOMAIN mid /\ places \subseteq DOMAIN holds
        /\ \A i \in places : mid[i] = holds[i]
    BY <1>2 DEF At
  <2> HIDE DEF places
  <2>2. Those(mid, places) = Those(holds, places)
    BY <1>1, <1>2, <2>1, ThoseReadOnly
  <2>. QED
    BY <2>2 DEF places
<1>10. Elsewhere(b)
  <2>1. SUFFICES ASSUME NEW d \in Books, d # b
                 PROVE  /\ QueueIn(holds', d) = QueueIn(holds, d)
                        /\ ToldIn(holds', d) = ToldIn(holds, d)
    BY DEF Elsewhere
  <2>2. QueueIn(holds', d) = QueueIn(holds, d)
    BY <1>7, <1>8, <1>9, <2>1 DEF QueueIn
  <2>3. \A i \in At(holds, ToldOf(d)) : mid[i].reader = holds[i].reader
    BY <1>2 DEF At
  <2>5. ToldIn(holds', d) = {mid[i].reader : i \in At(holds, ToldOf(d))}
    BY <1>7, <1>8, <2>1
  <2>4. ToldIn(holds', d) = ToldIn(holds, d)
    BY <2>3, <2>5 DEF ToldIn
  <2>. QED
    BY <2>2, <2>4
<1>11. /\ QueueIn(holds, b) # <<>> /\ QueueIn(holds', b) = Tail(QueueIn(holds, b))
       /\ Head(QueueIn(holds, b)) = holds[w].reader
  <2> HIDE DEF W
  <2>1. /\ Those(holds, W) # <<>> /\ Head(Those(holds, W)) = holds[w]
        /\ Those(holds, W \ {w}) = Tail(Those(holds, W))
    BY <1>1, <1>3, <1>4, ThoseTail
  <2>2. Those(holds, W) \in Seq(Hold)
    BY <1>1, <1>3, ThoseRows
  <2>3. /\ ReadersOf(Those(holds, W)) # <<>>
        /\ Head(ReadersOf(Those(holds, W))) = holds[w].reader
        /\ ReadersOf(Those(holds, W \ {w})) = Tail(ReadersOf(Those(holds, W)))
    BY <2>1, <2>2, ReadersOfTail
  <2>4. QueueIn(holds', b) = ReadersOf(Those(holds, W \ {w}))
    BY <1>1, <1>7, <1>8, <1>9 DEF W
  <2>. QED
    BY <2>3, <2>4 DEF QueueIn, W
<1>12. ToldIn(holds', b) = {holds[i].reader : i \in T \ closed} \cup {holds[w].reader}
  <2>1. At(mid, ToldOf(b)) \ closed = (T \ closed) \cup {w}
    BY <1>1, <1>3, <1>6
  <2>2. w \in DOMAIN holds /\ T \subseteq DOMAIN holds
    BY <1>3 DEF At
  <2> DEFINE told == (T \ closed) \cup {w}
  <2>3. \A i \in told : mid[i].reader = holds[i].reader
    BY <1>2, <2>2
  <2>4. ToldIn(holds', b) = {mid[i].reader : i \in told}
    BY <1>1, <1>7, <2>1
  <2>5. {holds[i].reader : i \in told}
          = {holds[i].reader : i \in T \ closed} \cup {holds[w].reader}
    OBVIOUS
  <2> HIDE DEF told
  <2>. QED
    BY <2>3, <2>4, <2>5
<1>13. CASE closed = {}
  <2>1. ToldIn(holds', b) = ToldIn(holds, b) \cup {holds[w].reader}
    BY <1>12, <1>13 DEF ToldIn
  <2>. QED
    BY <1>1, <1>10, <1>11, <2>1, QueueMovesUp
<1>14. ASSUME NEW h, closed = {h}  PROVE Queue!Next
  <2>1. h \in T
    BY <1>14
  <2>2. /\ holds[h].reader \in Readers \cap ToldIn(holds, b)
        /\ {holds[i].reader : i \in T \ {h}} = ToldIn(holds, b) \ {holds[h].reader}
    BY <1>1, <2>1, ToldLess
  <2>3. ToldIn(holds', b) = (ToldIn(holds, b) \ {holds[h].reader}) \cup {Head(QueueIn(holds, b))}
    BY <1>11, <1>12, <1>14, <2>2
  <2>. QED
    BY <1>1, <1>10, <1>11, <2>2, <2>3, QueueMovesUp
<1>. QED
  BY <1>13, <1>14

(* Ready rows for a copy are rows of its title.                               *)
LEMMA KeepingIsTold ==
  ASSUME IInv, NEW c \in Copies
  PROVE  At(holds, KeepingFor(c)) \subseteq At(holds, ToldOf(BookOf[c]))
BY DEF IInv, HoldShape, WellPlaced, At, KeepingFor, ToldOf, Misplaced

(* borrow: a notified reader collects, or the queue is not concerned.         *)
LEMMA LendQueues ==
  ASSUME IInv, TypeOK', NEW r \in Readers, NEW c \in Copies, Lend(r, c)
  PROVE  Queue!Next \/ UNCHANGED Queue!vars
<1>1. TypeOK /\ AskedOnce /\ BookOf[c] \in Books
  BY ConstantsAssumption DEF IInv, HoldShape
<1>2. holds' = Without(holds, HeldFor(r, c))
  BY DEF Lend
<1>3. /\ HeldFor(r, c) \subseteq At(holds, KeepingFor(c))
      /\ HeldFor(r, c) \subseteq At(holds, AskedBy(r, BookOf[c]))
  BY RowsOf, <1>1 DEF HeldFor, OpenHoldsOf, OpenHolds, At, KeepingFor, AskedBy
<1>4. CASE HeldFor(r, c) = {}
  BY <1>1, <1>2, <1>4, NoneLeaves
<1>5. ASSUME NEW h \in HeldFor(r, c)  PROVE Queue!Next
  <2>1. HeldFor(r, c) = {h}
    BY <1>1, <1>3, <1>5 DEF AskedOnce, AtMostOne
  <2>2. h \in At(holds, ToldOf(BookOf[c]))
    BY <1>3, <1>5, KeepingIsTold
  <2>. QED
    BY <1>1, <1>2, <2>1, <2>2, ToldLeaves
<1>. QED
  BY <1>4, <1>5

(* _release_or_hold: the head of the queue is told, if there is one.          *)
LEMMA ReleaseQueues ==
  ASSUME IInv, TypeOK', NEW c \in Copies, NEW closed,
         closed \subseteq At(holds, KeepingFor(c)),
         closed = {} \/ \E h : closed = {h},
         ReleaseOrHold(c, closed)
  PROVE  Queue!Next \/ UNCHANGED Queue!vars
<1>1. TypeOK /\ BookOf[c] \in Books /\ closed \subseteq At(holds, ToldOf(BookOf[c]))
  BY ConstantsAssumption, KeepingIsTold DEF IInv
<1>2. CASE Waiting(BookOf[c]) # {}
  <2>1. holds' = Without(Notified(c), closed)
    BY <1>2 DEF ReleaseOrHold, Notified
  <2>. QED
    BY <1>1, <1>2, <2>1, HeadIsTold
<1>3. CASE Waiting(BookOf[c]) = {}
  <2>1. holds' = Without(holds, closed)
    BY <1>3 DEF ReleaseOrHold
  <2>2. CASE closed = {}
    BY <1>1, <2>1, <2>2, NoneLeaves
  <2>3. ASSUME NEW h, closed = {h}  PROVE Queue!Next
    BY <1>1, <2>1, <2>3, ToldLeaves
  <2>. QED
    BY <2>2, <2>3
<1>. QED
  BY <1>2, <1>3

(* cancel_reservation: the reader gives up a place, leaves, or passes it on.  *)
LEMMA CancelQueues ==
  ASSUME IInv, TypeOK', NEW h \in DOMAIN holds, CancelReservation(h)
  PROVE  Queue!Next \/ UNCHANGED Queue!vars
<1> DEFINE c == holds[h].copy
           b == holds[h].book
<1>1. TypeOK /\ holds \in Seq(Hold) /\ holds[h] \in Hold /\ b \in Books
  BY RowsOf DEF IInv, TypeOK, Hold
<1>2. CASE holds[h].status = "ready" /\ copy[c] = "reserved"
  <2>1. c \in Copies /\ {h} \subseteq At(holds, KeepingFor(c))
    BY <1>1, <1>2 DEF IInv, HoldShape, WellPlaced, At, Misplaced, KeepingFor
  <2>2. ReleaseOrHold(c, {h})
    BY <1>2 DEF CancelReservation
  <2> HIDE DEF c
  <2>. QED
    BY <2>1, <2>2, ReleaseQueues
<1>3. CASE ~(holds[h].status = "ready" /\ copy[c] = "reserved")
  <2>1. holds' = Without(holds, {h})
    BY <1>3 DEF CancelReservation
  <2>2. CASE holds[h].status # "waiting"
    <3>1. h \in At(holds, ToldOf(b))
      BY <1>1, <2>2 DEF At, ToldOf
    <3>. QED
      BY <1>1, <2>1, <3>1, ToldLeaves
  <2>3. CASE holds[h].status = "waiting"
    <3> DEFINE W == At(holds, WaitingFor(b))
               q == Those(holds, W)
    <3> HIDE DEF b
    <3>1. h \in W /\ W \subseteq DOMAIN holds
      BY <1>1, <2>3 DEF At, WaitingFor, b
    <3>2. ASSUME NEW d \in Books
          PROVE  /\ QueueIn(holds', d) = ReadersOf(Those(holds, At(holds, WaitingFor(d)) \ {h}))
                 /\ ToldIn(holds', d) = {holds[i].reader : i \in At(holds, ToldOf(d)) \ {h}}
      BY <1>1, <2>1, QueueWithout
    <3>3. ASSUME NEW d \in Books
          PROVE  /\ At(holds, ToldOf(d)) \ {h} = At(holds, ToldOf(d))
                 /\ d # b => At(holds, WaitingFor(d)) \ {h} = At(holds, WaitingFor(d))
      BY <1>1, <2>3 DEF At, WaitingFor, ToldOf, b
    <3>4. Elsewhere(b) /\ ToldIn(holds', b) = ToldIn(holds, b)
      BY <1>1, <3>2, <3>3 DEF Elsewhere, QueueIn, ToldIn
    <3> HIDE DEF W
    <3>5. PICK k \in DOMAIN q : q[k] = holds[h] /\ Those(holds, W \ {h}) = Without(q, {k})
      BY <1>1, <3>1, ThoseMinus
    <3>6. q \in Seq(Hold)
      BY <1>1, <3>1, ThoseRows
    <3> HIDE DEF q
    <3>7. k \in DOMAIN ReadersOf(q) /\ ReadersOf(q)[k] = holds[h].reader
      BY <3>5, <3>6 DEF ReadersOf
    <3>8. ReadersOf(Without(q, {k})) = Without(ReadersOf(q), {k})
      BY <3>6, ReadersOfWithout
    <3>9. QueueIn(holds, b) = ReadersOf(q)
      BY DEF QueueIn, q, W
    <3>10. QueueIn(holds', b) = Without(QueueIn(holds, b), {k})
      BY <1>1, <3>2, <3>5, <3>8, <3>9 DEF W
    <3>11. holds[h].reader \in Readers
      BY <1>1 DEF Hold
    <3>. QED
      BY <1>1, <3>4, <3>7, <3>9, <3>10, <3>11, QueueIsLeft
  <2>. QED
    BY <2>2, <2>3
<1>. QED
  BY <1>2, <1>3

(* Nobody waits for anything at first.                                        *)
LEMMA QueueInit == Init => Queue!Init
<1> SUFFICES ASSUME Init  PROVE Queue!Init
  OBVIOUS
<1>1. TypeOK /\ holds = <<>>
  BY InitInvariant DEF IInv, Init
<1>2. \A Q : At(holds, Q) = {}
  BY <1>1 DEF At
<1>3. \A b \in Books : QueueIn(holds, b) = <<>> /\ ToldIn(holds, b) = {}
  <2>1. holds \in Seq(Hold)
    BY <1>1 DEF TypeOK
  <2>. QED
    BY <1>2, <2>1, NobodyWaits DEF QueueIn, ToldIn
<1>4. TheQueue = [b \in Books |-> <<>>] /\ TheNotified = [b \in Books |-> {}]
  BY <1>1, <1>3, Views DEF SameViews
<1>. QED
  BY <1>4 DEF Queue!Init, TheQueue, TheNotified

(* Every step of the circulation is a step of the queue of one title, or none. *)
LEMMA QueueStep == IInv /\ [Next]_vars => [Queue!Next]_(Queue!vars)
<1> SUFFICES ASSUME IInv, [Next]_vars  PROVE Queue!Next \/ UNCHANGED Queue!vars
  OBVIOUS
<1>1. TypeOK /\ TypeOK'
  BY InvariantStep DEF IInv
<1>2. ASSUME UNCHANGED holds  PROVE UNCHANGED Queue!vars
  BY <1>1, <1>2, HoldsUntouched
<1>3. ASSUME NEW b \in Books, DeleteBook(b)  PROVE Queue!Next
  BY <1>1, <1>3, DeleteBookDissolves
<1>4. ASSUME NEW r \in Readers, NEW c \in Copies, Lend(r, c)
      PROVE  Queue!Next \/ UNCHANGED Queue!vars
  BY <1>1, <1>4, LendQueues
<1>5. ASSUME NEW r \in Readers, NEW b \in Books, Reserve(r, b)  PROVE Queue!Next
  BY <1>1, <1>5, ReserveQueues
<1>6. ASSUME NEW c \in Copies, ReturnCopy(c)  PROVE Queue!Next \/ UNCHANGED Queue!vars
  <2>1. ReleaseOrHold(c, {})
    BY <1>6 DEF ReturnCopy
  <2>. QED
    BY <1>1, <2>1, ReleaseQueues
<1>7. ASSUME NEW h \in DOMAIN holds, CancelReservation(h)
      PROVE  Queue!Next \/ UNCHANGED Queue!vars
  BY <1>1, <1>7, CancelQueues
<1>8. CASE Catalogue
  BY <1>2, <1>3, <1>8 DEF Catalogue, CreateBook, AddCopies, UpdateCopy
<1>9. CASE Desk
  BY <1>2, <1>9 DEF Desk, CreateReader, UpdateReader, DeleteReader, PayFine
<1>10. CASE Circulate
  BY <1>2, <1>4, <1>5, <1>6, <1>7, <1>10 DEF Circulate, BorrowCopy, BorrowTitle, CopiesOf, Renew
<1>11. CASE Tick \/ UNCHANGED vars
  BY <1>2, <1>11 DEF Tick, vars
<1>. QED
  BY <1>8, <1>9, <1>10, <1>11 DEF Next

(* The reservations of every title are a hold queue: readers wait in the order
   they asked, a copy that comes free goes to the head of the queue and to
   nobody else, and a reader who leaves changes nobody's place.               *)
THEOREM HoldsAreFirstComeFirstServed == Spec => FirstComeFirstServed
<1>. QED
  BY Invariant, QueueInit, QueueStep, PTL DEF Spec, FirstComeFirstServed, Queue!Spec

=============================================================================
