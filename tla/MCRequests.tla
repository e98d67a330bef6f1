----------------------------- MODULE MCRequests -----------------------------
(***************************************************************************)
(* Small instances of Requests: one title with one copy, three readers, a  *)
(* catalogue card with two passages, a conversation of one turn.           *)
(***************************************************************************)
EXTENDS Requests

CONSTANTS q1, q2, r1, r2, r3

C == <<"copy", "c">>
R(r) == <<"reader", r>>
Late == <<"loan", "old">>
First == <<"hold", "first">>
Second == <<"hold", "second">>
Card == <<"doc", "card">>
Chat == <<"chat", "old">>

Card1 == <<<<2>>, <<3, 1>>>>
Bodies == {<<>>, <<<<1>>>>}

Owed == [k \in {R(r1), R(r2), R(r3)} |-> IF k = R(r1) THEN 1 ELSE 0]
Shelved(status) ==
  (C :> [status |-> status]) @@ (Book :> [table |-> "books"])
  @@ [k \in DOMAIN Owed |-> [balance |-> Owed[k]]]
HoldOf(r, status, c, at) == [reader |-> R(r), status |-> status, copy |-> c, at |-> at]
Filed ==
  (Card :> [source |-> "catalog", text |-> CardText, status |-> "indexed",
            chunks |-> Len(Split(CardText))])
  @@ [k \in {<<"chunk", "card", i>> : i \in DOMAIN Split(CardText)} |->
        [doc |-> Card, piece |-> Split(CardText)[k[3]]]]
Talk ==
  (Chat :> [messages |-> "some"])
  @@ [k \in {<<"message", "old", role>> : role \in {"user", "assistant"}} |->
        [chat |-> Chat, role |-> k[3], sources |-> {}]]

LoanTo(r) == [copy |-> C, reader |-> R(r), status |-> "active", late |-> TRUE, fine |-> 0]

(* The shelf: the copy is there; it is out, late, and two readers wait; it is
   kept for one of them and the other waits.                                  *)
Shelves ==
  {Shelved("available"),
   Shelved("on_loan") @@ (Late :> LoanTo(r1))
     @@ (First :> HoldOf(r2, "waiting", NoCopy, 1))
     @@ (Second :> HoldOf(r3, "waiting", NoCopy, 2)),
   Shelved("on_loan") @@ (Late :> LoanTo(r1)),
   Shelved("reserved")
     @@ (First :> HoldOf(r2, "ready", C, 1))
     @@ (Second :> HoldOf(r3, "waiting", NoCopy, 2))}
AllStores == {shelf @@ Filed @@ Talk : shelf \in Shelves}

(* Jobs that touch common rows are asked for together; withdrawing the title
   goes with the loans and with the documents.                                *)
DeskJobs ==
  {[op |-> "borrow", reader |-> r, copy |-> "c"] : r \in {r1, r2, r3}}
  \cup {[op |-> "return", copy |-> "c"], [op |-> "read"]}
  \cup {[op |-> "reserve", reader |-> r1], [op |-> "pay", reader |-> r1, amount |-> 1]}
  \cup {[op |-> "cancel", hold |-> h] : h \in {First, Second}}
Withdrawal == [op |-> "delete_book"]
FilingJobs ==
  {[op |-> "index_text", text |-> t] : t \in Bodies}
  \cup {[op |-> "reindex", doc |-> Card], [op |-> "delete_doc", doc |-> Card]}
  \cup {[op |-> "index_book"], Withdrawal}
TalkJobs ==
  {[op |-> "ask", chat |-> Chat], [op |-> "delete_session", chat |-> Chat],
   [op |-> "create_session"], [op |-> "reindex", doc |-> Card]}
AllMixes == {DeskJobs \cup {Withdrawal}, FilingJobs, TalkJobs}
DeskOnly == {DeskJobs}

(* What the theorems rest on holds of these databases and texts.              *)
ASSUME FiledAssumption == FoundFiled
ASSUME SpokenAssumption == FoundSpoken
ASSUME OrderAssumption == FoundInOrder

(* The chunker, for every text of up to two paragraphs of up to two sentences
   (test_rag.py:38-55).                                             *)
SmallTexts == BoundedSeq(BoundedSeq(1..4, 2), 2)
ASSUME ChunkerAssumption == \A text \in SmallTexts : Passages(text, Split(text))

=============================================================================
