----------------------------- MODULE MCPipeline -----------------------------
(***************************************************************************)
(* Small instances of Pipeline.                                            *)
(***************************************************************************)
EXTENDS Pipeline

CONSTANTS f1, f2, b1, a, b, bad

TwoFastOneBulk == (f1 :> Fast) @@ (f2 :> Fast) @@ (b1 :> Bulk)
OneFast == (f1 :> Fast)

(* An empty batch, one row, a bad row before a good one (long: bulk).         *)
SmallBatches == {<<>>, <<a>>, <<bad, a, b>>}

LongBatch == {<<bad, a>>}
TwoBatches == {<<a>>, <<bad, a>>}
AcrossAccounts == {<<a, b>>}

(* What a finished job reports as posted is what it left in the ledger: the
   tests assert it of every job they finish (test_shutdown.py:55-57).  A retry
   posts the rows before the frozen one again, so it is false.                *)
PostedAgreesWithLedger ==
  \A j \in Jobs : state[j] = "done" => posted[j] = FoldFunction(+, 0, postings[j])

(* A job the book lists as "queued" (jobs.py:15, "waiting in line") stands in
   its lane's queue while the process serves.  A job refused with 429 is in
   the book but in no queue, so it is false.                                  *)
QueuedJobsWait ==
  phase = "serving" =>
    \A j \in Jobs : state[j] = "queued" => j \in Queued(lane[j])

=============================================================================
