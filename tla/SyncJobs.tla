------------------------------ MODULE SyncJobs ------------------------------
(***************************************************************************)
(* The outbox between the admin handlers and the 3x-ui panel: the          *)
(* "sync_jobs" table (internal/sync/sync.go, Store) and the single         *)
(* goroutine that drains it (internal/sync/worker.go, Worker).             *)
(*                                                                         *)
(* One action per Store call.  The Worker's Tick is split at the points    *)
(* where the admin handlers, the clock or the end of the process can come  *)
(* between two of its calls: ReapStale, ClaimBatch, and for every claimed  *)
(* job the panel request and then the Mark call, and at last Prune.        *)
(*                                                                         *)
(* Time is abstracted to one bit per row, membership in `waited`: the      *)
(* moment the row is waiting for has come.  For a pending row that is      *)
(* next_attempt_at, for a row in progress updated_at + 5 minutes, for a    *)
(* successful one updated_at + 7 days.                                     *)
(***************************************************************************)
EXTENDS Naturals, FiniteSets

CONSTANTS
  Users,         \* values of sync_jobs.user_id
  Rows,          \* what Enqueue stores: records with at least user and inbound
  NoRow,         \* content of a row id not handed out yet
  BatchSize,     \* Worker.batchSize (20 in the code)
  MaxAttempts,   \* Worker.maxAttempts (8 in the code)
  MaxJobs,       \* bound: rows ever inserted
  MaxRetries,    \* bound: manual retries of one row
  MaxFaults      \* bound: crashes, shutdowns and failing Store calls together

ASSUME SyncJobsAssumption ==
  /\ NoRow \notin Rows
  /\ \A r \in Rows : r.user \in Users
  /\ BatchSize \in Nat \ {0}
  /\ MaxAttempts \in Nat \ {0}
  /\ MaxJobs \in Nat
  /\ MaxRetries \in Nat
  /\ MaxFaults \in Nat

VARIABLES
  lastId,     \* AUTOINCREMENT: the last row id handed out
  row,        \* row[j]: user, inbound (and op, payload) of row j
  status,     \* row[j]'s status column; "absent" when there is no such row
  attempts,   \* row[j]'s attempts column
  waited,     \* rows whose next_attempt_at / age limit has come
  proc,       \* the process: "up", "stopping" (context cancelled) or "down"
  wstep,      \* where the Worker's Tick is
  batch,      \* claimed jobs not marked yet: id -> attempts as read by ClaimBatch
  outcome,    \* what dispatch returned for the job about to be marked
  pushes,     \* history: dispatches of j that took effect on the panel
  retries,    \* history: manual retries of j
  faults      \* history: crashes, shutdowns and failing Store calls

table == <<lastId, row, status, attempts, waited>>
worker == <<proc, wstep, batch, outcome>>
jobVars == <<lastId, row, status, attempts, waited, proc, wstep, batch,
             outcome, pushes, retries, faults>>

JobId == 1..MaxJobs
Unsettled == {"pending", "in_progress"}
Status == Unsettled \cup {"success", "failed", "absent"}

TypeOK ==
  /\ lastId \in 0..MaxJobs
  /\ row \in [JobId -> Rows \cup {NoRow}]
  /\ status \in [JobId -> Status]
  /\ attempts \in [JobId -> Nat]
  /\ waited \in SUBSET JobId
  /\ proc \in {"up", "stopping", "down"}
  /\ wstep \in {"idle", "claim", "work", "mark"}
  /\ DOMAIN batch \subseteq JobId
  /\ \A j \in DOMAIN batch : batch[j] \in Nat
  /\ outcome \in {"none", "ok", "err"}
  /\ pushes \in [JobId -> Nat]
  /\ retries \in [JobId -> Nat]
  /\ faults \in 0..MaxFaults

NoBatch == [j \in {} |-> 0]

Init ==
  /\ lastId = 0
  /\ row = [j \in JobId |-> NoRow]
  /\ status = [j \in JobId |-> "absent"]
  /\ attempts = [j \in JobId |-> 0]
  /\ waited = {}
  /\ proc = "up"
  /\ wstep = "idle"
  /\ batch = NoBatch
  /\ outcome = "none"
  /\ pushes = [j \in JobId |-> 0]
  /\ retries = [j \in JobId |-> 0]
  /\ faults = 0

-----------------------------------------------------------------------------
(* The admin handlers' side of the Store.                                  *)

Alive == proc # "down"

\* A Store call failed or the process was disturbed; the budget bounds it.
Fault == faults < MaxFaults /\ faults' = faults + 1

\* Enqueue: a new row, pending and due at once.
Enqueue(r) ==
  /\ Alive
  /\ lastId < MaxJobs
  /\ lastId' = lastId + 1
  /\ row' = [row EXCEPT ![lastId + 1] = r]
  /\ status' = [status EXCEPT ![lastId + 1] = "pending"]
  /\ waited' = waited \cup {lastId + 1}
  /\ UNCHANGED <<attempts, worker, pushes, retries, faults>>

\* Mutant of Retriable: the UPDATE without its "AND status = ?".
RetriableAnyRow(j) == status[j] # "absent"

Retriable(j) == status[j] = "failed"

\* Retry: the UPDATE is guarded by status = 'failed'; attempts stay as they are.
Retry(j) ==
  /\ Alive
  /\ Retriable(j)
  /\ retries[j] < MaxRetries
  /\ status' = [status EXCEPT ![j] = "pending"]
  /\ waited' = waited \cup {j}
  /\ retries' = [retries EXCEPT ![j] = @ + 1]
  /\ UNCHANGED <<lastId, row, attempts, worker, pushes, faults>>

-----------------------------------------------------------------------------
(* The Worker's Tick.                                                      *)

\* Mutant of Stale: the age compared the wrong way round.
StaleTooYoung(j) == status[j] = "in_progress" /\ j \notin waited

Stale(j) == status[j] = "in_progress" /\ j \in waited

\* ReapStale: rows in progress for too long become pending and due.  A
\* failing UPDATE is logged and the Tick goes on.
Reap ==
  /\ Alive
  /\ wstep = "idle"
  /\ wstep' = "claim"
  /\ \/ /\ status' = [j \in JobId |->
                        IF Stale(j) THEN "pending" ELSE status[j]]
        /\ UNCHANGED faults
     \/ Fault /\ UNCHANGED status
  /\ UNCHANGED <<lastId, row, attempts, waited, proc, batch, outcome, pushes, retries>>

Due == {j \in JobId : status[j] = "pending" /\ j \in waited}

\* Mutant of FirstDue: ORDER BY id DESC.
LastDue(B) ==
  /\ B \subseteq Due
  /\ \A j \in B, k \in Due \ B : j > k
  /\ \/ B = Due
     \/ Cardinality(B) = BatchSize /\ Cardinality(Due) > BatchSize
  /\ Cardinality(B) <= BatchSize

\* The SELECT of ClaimBatch: ORDER BY id LIMIT BatchSize.
FirstDue(B) ==
  /\ B \subseteq Due
  /\ \A j \in B, k \in Due \ B : j < k
  /\ \/ B = Due
     \/ Cardinality(B) = BatchSize /\ Cardinality(Due) > BatchSize
  /\ Cardinality(B) <= BatchSize

\* ClaimBatch: one transaction; if it fails the Tick ends without a Prune.
Claim ==
  /\ Alive
  /\ wstep = "claim"
  /\ \/ \E B \in SUBSET Due :
          /\ FirstDue(B)
          /\ batch' = [j \in B |-> attempts[j]]
          /\ status' = [j \in JobId |-> IF j \in B THEN "in_progress" ELSE status[j]]
          /\ waited' = waited \ B
          /\ wstep' = "work"
          /\ UNCHANGED faults
     \/ Fault /\ wstep' = "idle" /\ UNCHANGED <<batch, status, waited>>
  /\ UNCHANGED <<lastId, row, attempts, proc, outcome, pushes, retries>>

\* The loop over the batch goes in id order.
IsNext(j) == \A k \in DOMAIN batch : j <= k

\* How the panel requests of one job can end: answered with success, refused or
\* never arrived ("err"), or carried out with the answer lost on the way.
Answer == {"ok", "err", "lost"}

\* dispatch: with the context cancelled every request returns an error.
Dispatch(j, answer) ==
  /\ Alive
  /\ wstep = "work"
  /\ j \in DOMAIN batch
  /\ IsNext(j)
  /\ proc = "stopping" => answer # "ok"
  /\ outcome' = IF answer = "ok" THEN "ok" ELSE "err"
  /\ pushes' = [pushes EXCEPT ![j] = IF answer = "err" THEN @ ELSE @ + 1]
  /\ wstep' = "mark"
  /\ UNCHANGED <<table, proc, batch, retries, faults>>

MarkSuccess(j) ==
  /\ outcome = "ok"
  /\ status' = [status EXCEPT ![j] = "success"]
  /\ UNCHANGED attempts

\* Mutant of GiveUp: the limit compared before the failure is counted.
GiveUpLate(j) == batch[j] >= MaxAttempts

GiveUp(j) == batch[j] + 1 >= MaxAttempts

\* Mutant of MarkRetry: the UPDATE does not write the attempts column.
MarkRetryUncounted(j) ==
  /\ outcome = "err"
  /\ ~GiveUp(j)
  /\ status' = [status EXCEPT ![j] = "pending"]
  /\ UNCHANGED attempts

\* Mutant of MarkRetry: a status no query knows.
MarkRetryOtherStatus(j) ==
  /\ outcome = "err"
  /\ ~GiveUp(j)
  /\ status' = [status EXCEPT ![j] = "retrying"]
  /\ attempts' = [attempts EXCEPT ![j] = batch[j] + 1]

MarkRetry(j) ==
  /\ outcome = "err"
  /\ ~GiveUp(j)
  /\ status' = [status EXCEPT ![j] = "pending"]
  /\ attempts' = [attempts EXCEPT ![j] = batch[j] + 1]

MarkFailedTerminal(j) ==
  /\ outcome = "err"
  /\ GiveUp(j)
  /\ status' = [status EXCEPT ![j] = "failed"]
  /\ attempts' = [attempts EXCEPT ![j] = batch[j] + 1]

\* The rest of process: one Mark call, whose own failure is only logged and
\* leaves the row in progress.
Mark(j) ==
  /\ Alive
  /\ wstep = "mark"
  /\ j \in DOMAIN batch
  /\ IsNext(j)
  /\ \/ /\ MarkSuccess(j) \/ MarkRetry(j) \/ MarkFailedTerminal(j)
        /\ waited' = waited \ {j}
        /\ UNCHANGED faults
     \/ Fault /\ UNCHANGED <<status, attempts, waited>>
  /\ batch' = [k \in DOMAIN batch \ {j} |-> batch[k]]
  /\ wstep' = "work"
  /\ outcome' = "none"
  /\ UNCHANGED <<lastId, row, proc, pushes, retries>>

\* Mutant of Prunable: the age alone decides.
PrunableByAge(j) == status[j] # "in_progress" /\ j \in waited

Prunable(j) == status[j] = "success" /\ j \in waited

\* Prune: successful rows past their age limit leave the table.
Prune ==
  /\ Alive
  /\ wstep = "work"
  /\ DOMAIN batch = {}
  /\ wstep' = "idle"
  /\ \/ /\ status' = [j \in JobId |->
                        IF Prunable(j) THEN "absent" ELSE status[j]]
        /\ UNCHANGED faults
     \/ Fault /\ UNCHANGED status
  /\ UNCHANGED <<lastId, row, attempts, waited, proc, batch, outcome, pushes, retries>>

-----------------------------------------------------------------------------
(* The process and the clock.                                              *)

\* What a Tick holds in memory is gone with the process.
LoseMemory == wstep' = "idle" /\ batch' = NoBatch /\ outcome' = "none"

\* SIGTERM: the context of Run and of every panel request is cancelled.
Shutdown ==
  /\ proc = "up"
  /\ proc' = "stopping"
  /\ Fault
  /\ UNCHANGED <<table, wstep, batch, outcome, pushes, retries>>

\* main returns once the HTTP server is down, wherever the Worker is.
Exit ==
  /\ proc = "stopping"
  /\ proc' = "down"
  /\ LoseMemory
  /\ UNCHANGED <<table, pushes, retries, faults>>

Crash ==
  /\ proc = "up"
  /\ proc' = "down"
  /\ Fault
  /\ LoseMemory
  /\ UNCHANGED <<table, pushes, retries>>

Restart ==
  /\ proc = "down"
  /\ proc' = "up"
  /\ UNCHANGED <<table, wstep, batch, outcome, pushes, retries, faults>>

TimePasses(j) ==
  /\ status[j] \in Unsettled \cup {"success"}
  /\ j \notin waited
  /\ waited' = waited \cup {j}
  /\ UNCHANGED <<lastId, row, status, attempts, worker, pushes, retries, faults>>

-----------------------------------------------------------------------------
DispatchAny == \E j \in JobId, answer \in Answer : Dispatch(j, answer)

MarkAny == \E j \in JobId : Mark(j)

Tick == Reap \/ Claim \/ DispatchAny \/ MarkAny \/ Prune

Next ==
  \/ \E r \in Rows : Enqueue(r)
  \/ \E j \in JobId : Retry(j)
  \/ Tick
  \/ Shutdown \/ Exit \/ Crash \/ Restart
  \/ \E j \in JobId : TimePasses(j)

Spec == Init /\ [][Next]_jobVars

\* The ticker keeps firing while the process runs, a stopping process ends, a
\* stopped one is started again (systemd), and clocks do not stand still.
Fairness ==
  /\ WF_jobVars(Tick)
  /\ WF_jobVars(Exit)
  /\ WF_jobVars(Restart)
  /\ \A j \in JobId : WF_jobVars(TimePasses(j))

FairSpec == Spec /\ Fairness

-----------------------------------------------------------------------------
(* RollupStatusForUser: the latest row of each (user, inbound), and the     *)
(* status shown for the user in the admin's list.                           *)

RowsOf(u) == {j \in 1..lastId : status[j] # "absent" /\ row[j].user = u}

\* Mutant of LatestOf: ORDER BY id ASC.
EarliestOf(u) ==
  {j \in RowsOf(u) : \A k \in RowsOf(u) : row[k].inbound = row[j].inbound => k >= j}

LatestOf(u) ==
  {j \in RowsOf(u) : \A k \in RowsOf(u) : row[k].inbound = row[j].inbound => k <= j}

RollupStatus(u) ==
  LET shown == {status[j] : j \in LatestOf(u)}
  IN  CASE shown = {}                    -> "none"
        [] "failed" \in shown            -> "error"
        [] "failed" \notin shown /\ shown \cap Unsettled # {} -> "syncing"
        [] OTHER                         -> "synced"

-----------------------------------------------------------------------------
(* Safety.                                                                  *)

\* While the Worker holds a claimed job nobody else changes its row: not the
\* reaper, not a manual retry, not the pruner.  The attempts it adds one to
\* (worker.go, process: j.Attempts + 1) are the ones in the row.
WorkerOwnsItsBatch ==
  \A j \in DOMAIN batch : status[j] = "in_progress" /\ attempts[j] = batch[j]

\* A job is reported successful, and later pruned, only if the panel carried
\* it out: nothing leaves the outbox undone, whatever fails or crashes.
NothingLostUnpushed ==
  \A j \in 1..lastId : status[j] \in {"success", "absent"} => pushes[j] > 0

\* The attempts column and the status agree over any sequence of failures,
\* reaps and manual retries: a job is given up only after MaxAttempts recorded
\* failures, and since Retry does not reset the column each manual retry buys
\* exactly one more attempt.
RetryBudget ==
  \A j \in 1..lastId :
    /\ status[j] = "failed" => attempts[j] = MaxAttempts + retries[j]
    /\ status[j] \in Unsettled =>
         \/ retries[j] = 0 /\ attempts[j] < MaxAttempts
         \/ retries[j] > 0 /\ attempts[j] = MaxAttempts + retries[j] - 1

\* Delivery is at least once, and every repetition has a recorded cause: each
\* time beyond the first that a job takes effect on the panel there was a
\* failed attempt in its row, or a crash, shutdown or failing Store call.
RepeatsAccountedFor ==
  \A j \in JobId : pushes[j] <= attempts[j] + faults + 1

\* Jobs reach the panel in the order of their ids except after a failure: a
\* later job takes effect before an earlier one is settled only if the earlier
\* one has a failed attempt behind it, or the service was disturbed.
NoOvertakingWithoutFailure ==
  \A j, k \in 1..lastId :
    (j < k /\ pushes[k] > 0 /\ status[j] \in Unsettled) => attempts[j] > 0 \/ faults > 0

\* What the admin reads in the user list: with the service undisturbed, a user
\* shown "synced" has no job waiting, unless that job has failed before (the
\* rollup only looks at the latest row of each inbound).
SyncedMeansQuietUnlessRetrying ==
  \A u \in Users : RollupStatus(u) = "synced" =>
    \A j \in RowsOf(u) : status[j] \in Unsettled => attempts[j] > 0 \/ faults > 0

(* Liveness.                                                                *)

\* Every job ends: it is never left "in_progress" by a crash or by a failing
\* Mark call, and failures end in "failed" (sync.go, comment of ReapStale:
\* without it the job "would report "syncing" forever").
EverySyncSettles ==
  \A j \in JobId : status[j] \in Unsettled ~> status[j] \in {"success", "failed"}
=============================================================================
