----------------------------- MODULE HoldQueue -----------------------------
(***************************************************************************)
(* What the hold queue of a title promises (src/library/README.md:187):    *)
(* readers wait in the order they asked, the head of the queue is the next *)
(* to be notified, nobody else is; whoever waits or was notified may leave.*)
(***************************************************************************)
EXTENDS Rows, SequencesExt

CONSTANTS Titles, People

VARIABLES queue,    (* the readers who wait for a title, oldest first         *)
          notified  (* the readers a copy of a title is kept for              *)

vars == <<queue, notified>>

Init ==
  /\ queue = [t \in Titles |-> <<>>]
  /\ notified = [t \in Titles |-> {}]

Join(t, p) ==
  /\ p \notin ToSet(queue[t]) \cup notified[t]
  /\ queue' = [queue EXCEPT ![t] = Append(@, p)]
  /\ UNCHANGED notified

Notify(t) ==
  /\ queue[t] # <<>>
  /\ queue' = [queue EXCEPT ![t] = Tail(@)]
  /\ notified' = [notified EXCEPT ![t] = @ \cup {Head(queue[t])}]

(* A reader gives up waiting.                                                 *)
GiveUp(t, p) ==
  /\ \E i \in DOMAIN queue[t] :
       /\ queue[t][i] = p
       /\ queue' = [queue EXCEPT ![t] = Without(@, {i})]
  /\ UNCHANGED notified

(* A notified reader collects the copy, or no longer wants it.                *)
Leave(t, p) ==
  /\ p \in notified[t]
  /\ notified' = [notified EXCEPT ![t] = @ \ {p}]
  /\ UNCHANGED queue

(* The copy a notified reader no longer wants goes to the head of the queue.  *)
PassOn(t, p) ==
  /\ p \in notified[t] /\ queue[t] # <<>>
  /\ notified' = [notified EXCEPT ![t] = (@ \ {p}) \cup {Head(queue[t])}]
  /\ queue' = [queue EXCEPT ![t] = Tail(@)]

(* The title is withdrawn.                                                    *)
Dissolve(t) ==
  /\ queue' = [queue EXCEPT ![t] = <<>>]
  /\ notified' = [notified EXCEPT ![t] = {}]

Next == \E t \in Titles :
  \/ Notify(t) \/ Dissolve(t)
  \/ \E p \in People : Join(t, p) \/ GiveUp(t, p) \/ Leave(t, p) \/ PassOn(t, p)

Spec == Init /\ [][Next]_vars

=============================================================================
