--------------------------- MODULE IntakeContract ---------------------------
(***************************************************************************)
(* What the pipeline promises about a submitted batch, without lanes,      *)
(* queues or consumers.  A batch is accepted (202) or refused by a full    *)
(* lane (429) while the door is open.  An accepted batch is tried, retried *)
(* only while the door is open and attempts are left, and ends in one of   *)
(* three verdicts; "abandoned" is a verdict of a shutdown only.  What      *)
(* still waits when the process goes down is dropped by the next start,    *)
(* and by nothing else.                                                    *)
(***************************************************************************)
EXTENDS Naturals

CONSTANTS Jobs, MaxAttempts

VARIABLES door,    (* "open", "closed" (stopping) or "down"                   *)
          status,  (* what became of each batch                               *)
          tries    (* how often it was tried                                  *)

vars == <<door, status, tries>>

Init ==
  /\ door = "down"
  /\ status = [j \in Jobs |-> "new"]
  /\ tries = [j \in Jobs |-> 0]

Move(j, from, to) ==
  /\ status[j] = from
  /\ status' = [status EXCEPT ![j] = to]

Answer(j) ==
  /\ door = "open"
  /\ Move(j, "new", "queued") \/ Move(j, "new", "refused")
  /\ UNCHANGED <<door, tries>>

(* A batch without rows is done as soon as it is begun.                       *)
Begin(j) ==
  /\ door # "down"
  /\ Move(j, "queued", "running") \/ Move(j, "queued", "done")
  /\ tries' = [tries EXCEPT ![j] = @ + 1]
  /\ UNCHANGED door

Settle(j) ==
  /\ door # "down"
  /\ Move(j, "running", "done") \/ Move(j, "running", "failed")
  /\ UNCHANGED <<door, tries>>

Retry(j) ==
  /\ door = "open" /\ tries[j] < MaxAttempts
  /\ Move(j, "running", "queued")
  /\ UNCHANGED <<door, tries>>

Abandon(given) ==
  /\ door = "closed"
  /\ \A j \in given : status[j] = "running"
  /\ status' = [j \in Jobs |-> IF j \in given THEN "abandoned" ELSE status[j]]
  /\ UNCHANGED <<door, tries>>

Close == door = "open" /\ door' = "closed" /\ UNCHANGED <<status, tries>>

Halt ==
  /\ door = "closed"
  /\ \A j \in Jobs : status[j] # "running"
  /\ door' = "down"
  /\ UNCHANGED <<status, tries>>

(* A start, which may fail and leave the process down.                        *)
Reopen ==
  /\ door = "down"
  /\ door' \in {"open", "down"}
  /\ status' = [j \in Jobs |-> IF status[j] = "queued" THEN "dropped" ELSE status[j]]
  /\ UNCHANGED tries

Next ==
  \/ \E j \in Jobs : Answer(j) \/ Begin(j) \/ Settle(j) \/ Retry(j)
  \/ \E given \in SUBSET Jobs : Abandon(given)
  \/ Close \/ Halt \/ Reopen

Spec == Init /\ [][Next]_vars

=============================================================================
