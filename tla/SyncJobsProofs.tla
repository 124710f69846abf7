--------------------------- MODULE SyncJobsProofs ---------------------------
(***************************************************************************)
(* Theorems about SyncJobs, for every set of rows, every batch size, every *)
(* attempt limit and every number of jobs, retries and faults.             *)
(*                                                                         *)
(* The invariants are proved in layers: types, then who may touch a        *)
(* claimed row (BatchInv), then what each column says about the history.   *)
(* A later layer uses the earlier ones and never the other way round.      *)
(***************************************************************************)
EXTENDS SyncJobs, WellFoundedInduction, TLAPS

\* Rows that were never inserted have no history.
FreshIds ==
  \A j \in JobId : j > lastId =>
    status[j] = "absent" /\ attempts[j] = 0 /\ pushes[j] = 0 /\ retries[j] = 0

\* WorkerOwnsItsBatch with what makes it inductive: outside the loop over the
\* batch the Worker holds nothing, so the reaper runs with an empty batch.
BatchInv ==
  /\ FreshIds
  /\ WorkerOwnsItsBatch
  /\ wstep \in {"idle", "claim"} => DOMAIN batch = {}

\* The job whose outcome is known and whose row has not been marked yet.
BeingMarked(j) == wstep = "mark" /\ j \in DOMAIN batch /\ IsNext(j)

\* NothingLostUnpushed, and the outcome in memory is the truth about the panel.
LostInv ==
  /\ NothingLostUnpushed
  /\ \A j \in JobId : BeingMarked(j) /\ outcome = "ok" => pushes[j] > 0

\* RepeatsAccountedFor, with the one repetition not recorded yet located: it
\* belongs to a finished job, or to the one being marked.  A shutdown has
\* already been counted when the process ends by it.
PushInv ==
  /\ proc = "stopping" => faults > 0
  /\ \A j \in JobId :
       pushes[j] + (IF proc = "stopping" THEN 1 ELSE 0)
         <= attempts[j] + faults
            + (IF BeingMarked(j) \/ status[j] \in {"success", "absent"} THEN 1 ELSE 0)

\* Waiting for its first attempt, or in the middle of it.
Untried(j) == status[j] \in Unsettled /\ attempts[j] = 0

\* A row in progress is one the Worker holds.
ClaimedInv == \A j \in JobId : status[j] = "in_progress" => j \in DOMAIN batch

\* An untried job is due: Enqueue sets next_attempt_at to the time of the call.
DueInv == \A j \in JobId : status[j] = "pending" /\ attempts[j] = 0 => j \in waited

\* Nothing has happened to a job enqueued after an untried one.
QueueInv ==
  \A j, k \in 1..lastId : j < k /\ Untried(j) =>
    /\ Untried(k)
    /\ pushes[k] = 0
    /\ status[j] = "pending" => status[k] = "pending"

\* NoOvertakingWithoutFailure while nothing has disturbed the service: nothing
\* has happened to a job enqueued after an untried one, and it is not even
\* claimed while the earlier one is not.
OrderInv ==
  faults = 0 => ClaimedInv /\ DueInv /\ QueueInv

-----------------------------------------------------------------------------
(* Types.                                                                  *)

\* Every column, the Worker's memory and the history variables keep their types
\* under every action (the sync_jobs schema and the Status constants).
THEOREM TypeCorrect == Spec => []TypeOK
<1> USE SyncJobsAssumption DEF TypeOK, Status, Unsettled
<1>1. Init => TypeOK
  BY DEF Init, NoBatch
<1>2. TypeOK /\ [Next]_jobVars => TypeOK'
  <2> SUFFICES ASSUME TypeOK, [Next]_jobVars PROVE TypeOK'
    OBVIOUS
  <2>1. ASSUME NEW r \in Rows, Enqueue(r) PROVE TypeOK'
    <3>1. lastId + 1 \in JobId /\ lastId + 1 \in 0..MaxJobs
      BY <2>1 DEF Enqueue, JobId
    <3> QED
      BY <2>1, <3>1 DEF Enqueue, worker
  <2>2. ASSUME NEW j \in JobId, Retry(j) PROVE TypeOK'
    BY <2>2 DEF Retry, worker
  <2>3. CASE Reap
    BY <2>3 DEF Reap, Fault
  <2>4. CASE Claim
    <3>1. ASSUME NEW B \in SUBSET Due,
                 batch' = [j \in B |-> attempts[j]],
                 status' = [j \in JobId |-> IF j \in B THEN "in_progress" ELSE status[j]],
                 waited' = waited \ B, wstep' = "work", UNCHANGED faults
          PROVE  TypeOK'
      BY <2>4, <3>1 DEF Claim, Due
    <3>2. CASE Fault /\ wstep' = "idle" /\ UNCHANGED <<batch, status, waited>>
      BY <2>4, <3>2 DEF Claim, Fault
    <3> QED
      BY <2>4, <3>1, <3>2 DEF Claim
  <2>5. ASSUME NEW j \in JobId, NEW answer \in Answer, Dispatch(j, answer)
        PROVE  TypeOK'
    BY <2>5 DEF Dispatch, table
  <2>6. ASSUME NEW j \in JobId, Mark(j) PROVE TypeOK'
    BY <2>6 DEF Mark, MarkSuccess, MarkRetry, MarkFailedTerminal, Fault
  <2>7. CASE Prune
    BY <2>7 DEF Prune, Fault
  <2>8. CASE Shutdown \/ Exit \/ Crash \/ Restart
    BY <2>8 DEF Shutdown, Exit, Crash, Restart, Fault, LoseMemory, NoBatch, table
  <2>9. ASSUME NEW j \in JobId, TimePasses(j) PROVE TypeOK'
    BY <2>9 DEF TimePasses, worker
  <2>10. CASE UNCHANGED jobVars
    BY <2>10 DEF jobVars
  <2> QED
    BY <2>1, <2>2, <2>3, <2>4, <2>5, <2>6, <2>7, <2>8, <2>9, <2>10
       DEF Next, Tick, DispatchAny, MarkAny
<1> QED
  BY <1>1, <1>2, PTL DEF Spec

-----------------------------------------------------------------------------
(* Who may touch a claimed row.                                            *)

LEMMA JobIdNat == JobId \subseteq Nat
  BY SyncJobsAssumption DEF JobId

\* Enqueue hands out an id that exists and has no history yet.
LEMMA NewId ==
  ASSUME TypeOK, NEW r, Enqueue(r)
  PROVE  lastId + 1 \in JobId /\ lastId + 1 > lastId
  BY SyncJobsAssumption DEF TypeOK, Enqueue, JobId

\* No reaper, retry, pruner, crash or new row changes a row the Worker holds,
\* so the attempts it read in ClaimBatch are the row's when it marks it.
LEMMA BatchInvariant == Spec => []BatchInv
<1> USE JobIdNat DEF BatchInv, FreshIds, WorkerOwnsItsBatch
<1>1. Init => BatchInv
  BY DEF Init, NoBatch
<1>2. TypeOK /\ BatchInv /\ [Next]_jobVars => BatchInv'
  <2> SUFFICES ASSUME TypeOK, BatchInv, [Next]_jobVars PROVE BatchInv'
    OBVIOUS
  <2> USE DEF TypeOK
  <2>1. ASSUME NEW r \in Rows, Enqueue(r) PROVE BatchInv'
    <3>1. lastId + 1 \in JobId /\ lastId + 1 > lastId
      BY <2>1, NewId
    <3> QED
      BY <2>1, <3>1 DEF Enqueue, worker
  <2>2. ASSUME NEW j \in JobId, Retry(j) PROVE BatchInv'
    BY <2>2 DEF Retry, Retriable, worker
  <2>3. CASE Reap
    BY <2>3 DEF Reap, Stale
  <2>4. CASE Claim
    <3>1. ASSUME NEW B \in SUBSET Due,
                 batch' = [j \in B |-> attempts[j]],
                 status' = [j \in JobId |-> IF j \in B THEN "in_progress" ELSE status[j]],
                 wstep' = "work"
          PROVE  BatchInv'
      BY <2>4, <3>1 DEF Claim, Due
    <3>2. CASE wstep' = "idle" /\ UNCHANGED <<batch, status, waited>>
      BY <2>4, <3>2 DEF Claim
    <3> QED
      BY <2>4, <3>1, <3>2 DEF Claim
  <2>5. ASSUME NEW j \in JobId, NEW answer \in Answer, Dispatch(j, answer)
        PROVE  BatchInv'
    BY <2>5 DEF Dispatch, table
  <2>6. ASSUME NEW j \in JobId, Mark(j) PROVE BatchInv'
    BY <2>6 DEF Mark, MarkSuccess, MarkRetry, MarkFailedTerminal
  <2>7. CASE Prune
    BY <2>7 DEF Prune, Prunable
  <2>8. CASE Shutdown \/ Exit \/ Crash \/ Restart
    BY <2>8 DEF Shutdown, Exit, Crash, Restart, LoseMemory, NoBatch, table
  <2>9. ASSUME NEW j \in JobId, TimePasses(j) PROVE BatchInv'
    BY <2>9 DEF TimePasses, worker
  <2>10. CASE UNCHANGED jobVars
    BY <2>10 DEF jobVars
  <2> QED
    BY <2>1, <2>2, <2>3, <2>4, <2>5, <2>6, <2>7, <2>8, <2>9, <2>10
       DEF Next, Tick, DispatchAny, MarkAny
<1> QED
  BY <1>1, <1>2, TypeCorrect, PTL DEF Spec

\* While the Worker holds a claimed job nobody else changes its row.
THEOREM BatchOwned == Spec => []WorkerOwnsItsBatch
  BY BatchInvariant, PTL DEF BatchInv

-----------------------------------------------------------------------------
(* What the columns say about the history.                                 *)

\* The job about to be marked is the only one with an outcome in memory.
LEMMA BeingMarkedUnique ==
  ASSUME NEW j \in JobId, NEW k \in JobId, BeingMarked(j),
         k \in DOMAIN batch, IsNext(k)
  PROVE  k = j
  BY JobIdNat DEF BeingMarked, IsNext

\* What a dispatch adds to the history: one push of its own job at most, and
\* exactly one when the panel answered with success.
LEMMA DispatchPushes ==
  ASSUME pushes \in [JobId -> Nat], NEW j \in JobId, NEW answer, Dispatch(j, answer)
  PROVE  /\ pushes'[j] = pushes[j] \/ pushes'[j] = pushes[j] + 1
         /\ outcome' = "ok" => pushes'[j] = pushes[j] + 1
         /\ \A k \in JobId : k # j => pushes'[k] = pushes[k]
<1>1. CASE answer = "err"
  BY <1>1 DEF Dispatch
<1>2. CASE answer # "err"
  <2>1. pushes' = [pushes EXCEPT ![j] = pushes[j] + 1]
    BY <1>2 DEF Dispatch
  <2> QED
    BY <2>1
<1> QED
  BY <1>1, <1>2

\* A success recorded in the outbox, or a row pruned from it, means the panel
\* carried the operation out (process marks after dispatch, Prune only takes
\* successful rows).
LEMMA LostInvariant == Spec => []LostInv
<1> USE JobIdNat DEF LostInv, NothingLostUnpushed, BeingMarked
<1>1. Init => LostInv
  BY DEF Init
<1>2. TypeOK /\ BatchInv /\ LostInv /\ [Next]_jobVars => LostInv'
  <2> SUFFICES ASSUME TypeOK, BatchInv, LostInv, [Next]_jobVars PROVE LostInv'
    OBVIOUS
  <2> USE DEF TypeOK, BatchInv, FreshIds, WorkerOwnsItsBatch
  <2>0. 1..lastId \subseteq JobId
    BY SyncJobsAssumption DEF JobId
  <2>1. ASSUME NEW r \in Rows, Enqueue(r) PROVE LostInv'
    <3>1. lastId + 1 \in JobId /\ lastId + 1 > lastId
      BY <2>1, NewId
    <3>2. \A j \in 1..lastId' : j \in 1..lastId \/ j = lastId + 1
      BY <2>1 DEF Enqueue
    <3>3. \A j \in JobId : IsNext(j)' <=> IsNext(j)
      BY <2>1 DEF Enqueue, worker, IsNext
    <3> QED
      BY <2>0, <2>1, <3>1, <3>2, <3>3 DEF Enqueue, worker
  <2>2. ASSUME NEW j \in JobId, Retry(j) PROVE LostInv'
    BY <2>0, <2>2 DEF Retry, Retriable, worker, IsNext
  <2>3. CASE Reap
    BY <2>0, <2>3 DEF Reap, Stale
  <2>4. CASE Claim
    <3>1. ASSUME NEW B \in SUBSET Due,
                 status' = [j \in JobId |-> IF j \in B THEN "in_progress" ELSE status[j]],
                 wstep' = "work"
          PROVE  LostInv'
      BY <2>0, <2>4, <3>1 DEF Claim, Due
    <3>2. CASE wstep' = "idle" /\ UNCHANGED <<batch, status, waited>>
      BY <2>4, <3>2 DEF Claim
    <3> QED
      BY <2>4, <3>1, <3>2 DEF Claim
  <2>5. ASSUME NEW j \in JobId, NEW answer \in Answer, Dispatch(j, answer)
        PROVE  LostInv'
    <3>1. ASSUME NEW k \in JobId, BeingMarked(k)' PROVE k = j
      <4>1. k \in DOMAIN batch /\ \A i \in DOMAIN batch : k <= i
        BY <2>5, <3>1 DEF Dispatch, IsNext
      <4>2. j \in DOMAIN batch /\ \A i \in DOMAIN batch : j <= i
        BY <2>5 DEF Dispatch, IsNext
      <4>3. k <= j /\ j <= k
        BY <4>1, <4>2
      <4> QED
        BY <4>3
    <3>2. \A k \in JobId : pushes'[k] >= pushes[k]
      BY <2>5, DispatchPushes
    <3>3. outcome' = "ok" => pushes'[j] > 0
      BY <2>5, DispatchPushes
    <3>4. NothingLostUnpushed'
      BY <2>0, <2>5, <3>2 DEF Dispatch, table
    <3> QED
      BY <3>1, <3>3, <3>4
  <2>6. ASSUME NEW j \in JobId, Mark(j) PROVE LostInv'
    BY <2>0, <2>6 DEF Mark, MarkSuccess, MarkRetry, MarkFailedTerminal
  <2>7. CASE Prune
    BY <2>0, <2>7 DEF Prune, Prunable
  <2>8. CASE Shutdown \/ Exit \/ Crash \/ Restart
    BY <2>8 DEF Shutdown, Exit, Crash, Restart, LoseMemory, table, IsNext
  <2>9. ASSUME NEW j \in JobId, TimePasses(j) PROVE LostInv'
    BY <2>9 DEF TimePasses, worker, IsNext
  <2>10. CASE UNCHANGED jobVars
    BY <2>10 DEF jobVars, IsNext
  <2> QED
    BY <2>1, <2>2, <2>3, <2>4, <2>5, <2>6, <2>7, <2>8, <2>9, <2>10
       DEF Next, Tick, DispatchAny, MarkAny
<1> QED
  BY <1>1, <1>2, TypeCorrect, BatchInvariant, PTL DEF Spec

\* Nothing leaves the outbox undone, whatever fails or crashes.
THEOREM NothingLost == Spec => []NothingLostUnpushed
  BY LostInvariant, PTL DEF LostInv

\* A job is given up only after MaxAttempts recorded failures, and every manual
\* retry buys exactly one attempt.
THEOREM AttemptsBudgeted == Spec => []RetryBudget
<1> USE JobIdNat, SyncJobsAssumption DEF RetryBudget, Unsettled
<1>1. Init => RetryBudget
  BY DEF Init
<1>2. TypeOK /\ BatchInv /\ RetryBudget /\ [Next]_jobVars => RetryBudget'
  <2> SUFFICES ASSUME TypeOK, BatchInv, RetryBudget, [Next]_jobVars PROVE RetryBudget'
    OBVIOUS
  <2> USE DEF TypeOK, BatchInv, FreshIds, WorkerOwnsItsBatch
  <2>0. 1..lastId \subseteq JobId
    BY DEF JobId
  <2>1. ASSUME NEW r \in Rows, Enqueue(r) PROVE RetryBudget'
    <3>1. lastId + 1 \in JobId /\ lastId + 1 > lastId
      BY <2>1, NewId
    <3>2. \A j \in 1..lastId' : j \in 1..lastId \/ j = lastId + 1
      BY <2>1 DEF Enqueue
    <3>3. attempts[lastId + 1] = 0 /\ retries[lastId + 1] = 0
      BY <3>1
    <3> QED
      BY <2>0, <2>1, <3>1, <3>2, <3>3 DEF Enqueue, worker
  <2>2. ASSUME NEW j \in JobId, Retry(j) PROVE RetryBudget'
    <3>1. status[j] = "failed" /\ j \in 1..lastId
      BY <2>2 DEF Retry, Retriable
    <3>2. attempts[j] = MaxAttempts + retries[j] /\ retries'[j] = retries[j] + 1
      BY <2>2, <3>1 DEF Retry
    <3>3. attempts[j] = MaxAttempts + retries'[j] - 1 /\ retries'[j] > 0
      BY <3>2
    <3>4. \A k \in 1..lastId : k # j => status'[k] = status[k] /\ retries'[k] = retries[k]
      BY <2>0, <2>2 DEF Retry
    <3> QED
      BY <2>2, <3>1, <3>3, <3>4 DEF Retry
  <2>3. CASE Reap
    BY <2>0, <2>3 DEF Reap, Stale
  <2>4. CASE Claim
    <3>1. ASSUME NEW B \in SUBSET Due,
                 status' = [j \in JobId |-> IF j \in B THEN "in_progress" ELSE status[j]]
          PROVE  RetryBudget'
      BY <2>0, <2>4, <3>1 DEF Claim, Due
    <3>2. CASE UNCHANGED <<batch, status, waited>>
      BY <2>4, <3>2 DEF Claim
    <3> QED
      BY <2>4, <3>1, <3>2 DEF Claim
  <2>5. ASSUME NEW j \in JobId, NEW answer \in Answer, Dispatch(j, answer)
        PROVE  RetryBudget'
    BY <2>5 DEF Dispatch, table
  <2>6. ASSUME NEW j \in JobId, Mark(j) PROVE RetryBudget'
    <3>1. j \in DOMAIN batch /\ attempts[j] = batch[j] /\ status[j] = "in_progress"
      BY <2>6 DEF Mark
    <3>2. lastId' = lastId /\ retries' = retries
      BY <2>6 DEF Mark
    <3>3. CASE MarkSuccess(j)
      BY <2>0, <3>2, <3>3 DEF MarkSuccess
    <3>4. CASE MarkRetry(j)
      BY <2>0, <3>1, <3>2, <3>4 DEF MarkRetry, GiveUp
    <3>5. CASE MarkFailedTerminal(j)
      BY <2>0, <3>1, <3>2, <3>5 DEF MarkFailedTerminal, GiveUp
    <3>6. CASE UNCHANGED <<status, attempts, waited>>
      BY <3>2, <3>6
    <3> QED
      BY <2>6, <3>3, <3>4, <3>5, <3>6 DEF Mark
  <2>7. CASE Prune
    BY <2>0, <2>7 DEF Prune, Prunable
  <2>8. CASE Shutdown \/ Exit \/ Crash \/ Restart
    BY <2>8 DEF Shutdown, Exit, Crash, Restart, table
  <2>9. ASSUME NEW j \in JobId, TimePasses(j) PROVE RetryBudget'
    BY <2>9 DEF TimePasses
  <2>10. CASE UNCHANGED jobVars
    BY <2>10 DEF jobVars
  <2> QED
    BY <2>1, <2>2, <2>3, <2>4, <2>5, <2>6, <2>7, <2>8, <2>9, <2>10
       DEF Next, Tick, DispatchAny, MarkAny
<1> QED
  BY <1>1, <1>2, TypeCorrect, BatchInvariant, PTL DEF Spec

-----------------------------------------------------------------------------
(* Repetitions.                                                            *)

\* Every time beyond the first that a job takes effect has a recorded cause.
LEMMA PushInvariant == Spec => []PushInv
<1> USE JobIdNat, SyncJobsAssumption DEF PushInv
<1>1. Init => PushInv
  BY DEF Init
<1>2. TypeOK /\ BatchInv /\ PushInv /\ [Next]_jobVars => PushInv'
  <2> SUFFICES ASSUME TypeOK, BatchInv, PushInv, [Next]_jobVars PROVE PushInv'
    OBVIOUS
  <2> USE DEF TypeOK, BatchInv, FreshIds, WorkerOwnsItsBatch
  <2>1. ASSUME NEW r \in Rows, Enqueue(r) PROVE PushInv'
    <3>1. lastId + 1 \in JobId /\ lastId + 1 > lastId
      BY <2>1, NewId
    <3>2. pushes[lastId + 1] = 0
      BY <3>1
    <3> QED
      BY <2>1, <3>1, <3>2 DEF Enqueue, worker, BeingMarked, IsNext
  <2>2. ASSUME NEW j \in JobId, Retry(j) PROVE PushInv'
    BY <2>2 DEF Retry, Retriable, worker, BeingMarked, IsNext
  <2>3. CASE Reap
    BY <2>3 DEF Reap, Stale, BeingMarked, Fault
  <2>4. CASE Claim
    <3>1. ASSUME NEW B \in SUBSET Due,
                 status' = [j \in JobId |-> IF j \in B THEN "in_progress" ELSE status[j]],
                 wstep' = "work", UNCHANGED faults
          PROVE  PushInv'
      BY <2>4, <3>1 DEF Claim, Due, BeingMarked
    <3>2. CASE Fault /\ wstep' = "idle" /\ UNCHANGED <<batch, status, waited>>
      BY <2>4, <3>2 DEF Claim, Fault, BeingMarked
    <3> QED
      BY <2>4, <3>1, <3>2 DEF Claim
  <2>5. ASSUME NEW j \in JobId, NEW answer \in Answer, Dispatch(j, answer)
        PROVE  PushInv'
    <3>1. BeingMarked(j)' /\ ~BeingMarked(j) /\ status[j] = "in_progress"
      <4>1. BeingMarked(j)' /\ ~BeingMarked(j)
        BY <2>5 DEF Dispatch, BeingMarked, IsNext
      <4>2. status[j] = "in_progress"
        BY <2>5 DEF Dispatch
      <4> QED
        BY <4>1, <4>2
    <3>2. pushes'[j] = pushes[j] \/ pushes'[j] = pushes[j] + 1
      BY <2>5, DispatchPushes
    <3>3. ASSUME NEW k \in JobId, k # j
          PROVE  pushes'[k] = pushes[k] /\ ~BeingMarked(k)
      BY <2>5, <3>3 DEF Dispatch, BeingMarked
    <3> QED
      BY <2>5, <3>1, <3>2, <3>3 DEF Dispatch, table
  <2>6. ASSUME NEW j \in JobId, Mark(j) PROVE PushInv'
    <3> USE DEF Mark
    <3>1. BeingMarked(j) /\ attempts[j] = batch[j] /\ status[j] = "in_progress"
      BY <2>6 DEF BeingMarked
    <3>2. \A k \in JobId : ~BeingMarked(k)'
      BY <2>6 DEF BeingMarked
    <3>3. ASSUME NEW k \in JobId, k # j PROVE ~BeingMarked(k)
      BY <3>1, <3>3, BeingMarkedUnique DEF BeingMarked
    <3>4. pushes' = pushes /\ proc' = proc
      BY <2>6
    <3>5. CASE MarkSuccess(j) /\ UNCHANGED faults
      BY <3>1, <3>2, <3>3, <3>4, <3>5 DEF MarkSuccess
    <3>6. CASE MarkRetry(j) /\ UNCHANGED faults
      BY <3>1, <3>2, <3>3, <3>4, <3>6 DEF MarkRetry
    <3>7. CASE MarkFailedTerminal(j) /\ UNCHANGED faults
      BY <3>1, <3>2, <3>3, <3>4, <3>7 DEF MarkFailedTerminal
    <3>8. CASE Fault /\ UNCHANGED <<status, attempts, waited>>
      BY <3>1, <3>2, <3>3, <3>4, <3>8 DEF Fault
    <3> QED
      BY <2>6, <3>5, <3>6, <3>7, <3>8
  <2>7. CASE Prune
    BY <2>7 DEF Prune, Prunable, BeingMarked, Fault
  <2>8. CASE Shutdown
    BY <2>8 DEF Shutdown, table, BeingMarked, IsNext, Fault
  <2>9. CASE Exit
    <3>1. \A k \in JobId : ~BeingMarked(k)'
      BY <2>9 DEF Exit, LoseMemory, BeingMarked
    <3> QED
      BY <2>9, <3>1 DEF Exit, table
  <2>10. CASE Crash
    <3>1. \A k \in JobId : ~BeingMarked(k)'
      BY <2>10 DEF Crash, LoseMemory, BeingMarked
    <3> QED
      BY <2>10, <3>1 DEF Crash, table, Fault
  <2>11. CASE Restart
    BY <2>11 DEF Restart, table, BeingMarked, IsNext
  <2>12. ASSUME NEW j \in JobId, TimePasses(j) PROVE PushInv'
    BY <2>12 DEF TimePasses, worker, BeingMarked, IsNext
  <2>13. CASE UNCHANGED jobVars
    BY <2>13 DEF jobVars, BeingMarked, IsNext
  <2> QED
    BY <2>1, <2>2, <2>3, <2>4, <2>5, <2>6, <2>7, <2>8, <2>9, <2>10, <2>11, <2>12, <2>13
       DEF Next, Tick, DispatchAny, MarkAny
<1> QED
  BY <1>1, <1>2, TypeCorrect, BatchInvariant, PTL DEF Spec

\* Delivery is at least once, and every repetition is accounted for by a failed
\* attempt in the row or by a crash, shutdown or failing Store call.
THEOREM RepeatsBounded == Spec => []RepeatsAccountedFor
<1>1. TypeOK /\ PushInv => RepeatsAccountedFor
  BY SyncJobsAssumption DEF TypeOK, PushInv, RepeatsAccountedFor
<1> QED
  BY <1>1, TypeCorrect, PushInvariant, PTL

-----------------------------------------------------------------------------
(* Order.                                                                  *)

\* Undisturbed, ClaimBatch takes every untried job before any later one, because
\* an untried job is due from its first moment and the query goes by id.
LEMMA OrderInvariant == Spec => []OrderInv
<1> USE JobIdNat, SyncJobsAssumption DEF Untried, Unsettled
<1>1. Init => OrderInv
  BY DEF Init, OrderInv, ClaimedInv, DueInv, QueueInv
<1>2. TypeOK /\ BatchInv /\ PushInv /\ RetryBudget /\ OrderInv /\ [Next]_jobVars
      => OrderInv'
  <2> SUFFICES ASSUME TypeOK, BatchInv, PushInv, RetryBudget, OrderInv, [Next]_jobVars
               PROVE  OrderInv'
    OBVIOUS
  <2> USE DEF TypeOK, BatchInv, FreshIds, WorkerOwnsItsBatch
  <2>0. 1..lastId \subseteq JobId
    BY DEF JobId
  <2>a. ASSUME NEW j \in 1..lastId PROVE j \in JobId /\ j <= lastId
    BY <2>0
  <2>b. ASSUME NEW j \in JobId, status[j] # "absent" PROVE j \in 1..lastId
    BY <2>b DEF JobId
  <2>f. Fault => OrderInv'
    BY DEF Fault, OrderInv
  <2>1. ASSUME NEW r \in Rows, Enqueue(r) PROVE OrderInv'
    <3> DEFINE n == lastId + 1
    <3>1. n \in JobId /\ n > lastId
      BY <2>1, NewId
    <3>2. attempts[n] = 0 /\ pushes[n] = 0
      BY <3>1
    <3>3. /\ status'[n] = "pending" /\ n \in waited'
          /\ \A k \in JobId : k # n => status'[k] = status[k]
          /\ waited \subseteq waited' /\ lastId' = n
          /\ UNCHANGED <<attempts, pushes, faults, batch>>
      BY <2>1, <3>1 DEF Enqueue, worker
    <3>4. ClaimedInv /\ DueInv => ClaimedInv' /\ DueInv'
      BY <3>1, <3>3 DEF ClaimedInv, DueInv
    <3>5. QueueInv => QueueInv'
      <4> SUFFICES ASSUME QueueInv, NEW j \in 1..n, NEW k \in 1..n, j < k, Untried(j)'
                   PROVE  (Untried(k) /\ pushes[k] = 0
                             /\ (status[j] = "pending" => status[k] = "pending"))'
        BY <3>3 DEF QueueInv
      <4>1. j \in 1..lastId /\ j # n /\ j \in JobId
        BY <3>1, <2>0
      <4>2. CASE k = n
        BY <3>1, <3>2, <3>3, <4>1, <4>2
      <4>3. CASE k \in 1..lastId
        BY <2>a, <3>1, <3>3, <4>1, <4>3 DEF QueueInv
      <4> QED
        BY <4>2, <4>3
    <3> QED
      BY <3>3, <3>4, <3>5 DEF OrderInv
  <2>2. ASSUME NEW j \in JobId, Retry(j) PROVE OrderInv'
    <3>1. /\ status[j] = "failed" /\ j \in 1..lastId
          /\ status'[j] = "pending" /\ j \in waited' /\ waited \subseteq waited'
          /\ \A k \in JobId : k # j => status'[k] = status[k]
          /\ UNCHANGED <<lastId, attempts, pushes, faults, batch>>
      BY <2>2, <2>b DEF Retry, Retriable, worker
    <3>2. ClaimedInv /\ DueInv => ClaimedInv' /\ DueInv'
      BY <3>1 DEF ClaimedInv, DueInv
    <3>3. attempts[j] > 0
      BY <3>1 DEF RetryBudget
    <3>4. QueueInv => QueueInv'
      <4> SUFFICES ASSUME QueueInv, NEW i \in 1..lastId, NEW k \in 1..lastId,
                          i < k, Untried(i)'
                   PROVE  (Untried(k) /\ pushes[k] = 0
                             /\ (status[i] = "pending" => status[k] = "pending"))'
        BY <3>1 DEF QueueInv
      <4>1. i \in JobId /\ k \in JobId /\ i # j
        BY <2>a, <3>1, <3>3
      <4>2. Untried(k) /\ pushes[k] = 0 /\ (status[i] = "pending" => status[k] = "pending")
        BY <3>1, <4>1 DEF QueueInv
      <4> QED
        BY <3>1, <3>3, <4>1, <4>2
    <3> QED
      BY <3>1, <3>2, <3>4 DEF OrderInv
  <2>3. CASE Reap
    <3>1. ASSUME status' = [j \in JobId |-> IF Stale(j) THEN "pending" ELSE status[j]],
                 UNCHANGED faults, faults = 0, OrderInv
          PROVE  status' = status
      <4>1. \A j \in JobId : ~Stale(j)
        BY <2>3, <3>1 DEF Reap, Stale, OrderInv, ClaimedInv
      <4> QED
        BY <3>1, <4>1
    <3>2. UNCHANGED <<lastId, attempts, waited, batch, pushes>>
      BY <2>3 DEF Reap
    <3> QED
      BY <2>3, <2>f, <3>1, <3>2 DEF Reap, OrderInv, ClaimedInv, DueInv, QueueInv
  <2>4. CASE Claim
    <3>1. ASSUME NEW B \in SUBSET Due, FirstDue(B),
                 batch' = [j \in B |-> attempts[j]],
                 status' = [j \in JobId |-> IF j \in B THEN "in_progress" ELSE status[j]],
                 waited' = waited \ B, UNCHANGED faults
          PROVE  OrderInv'
      <4>1. UNCHANGED <<lastId, attempts, pushes>> /\ DOMAIN batch = {}
        BY <2>4 DEF Claim
      <4>2. \A j \in B : j \in JobId /\ status[j] = "pending"
        BY <3>1 DEF Due
      <4>3. ClaimedInv /\ DueInv => ClaimedInv' /\ DueInv'
        BY <3>1, <4>1, <4>2 DEF ClaimedInv, DueInv
      <4>4. DueInv /\ QueueInv => QueueInv'
        <5> SUFFICES ASSUME DueInv, QueueInv, NEW i \in 1..lastId, NEW k \in 1..lastId,
                            i < k, Untried(i)'
                     PROVE  (Untried(k) /\ pushes[k] = 0
                               /\ (status[i] = "pending" => status[k] = "pending"))'
          BY <4>1 DEF QueueInv
        <5>1. i \in JobId /\ k \in JobId
          BY <2>a
        <5>2. Untried(i)
          BY <3>1, <4>1, <4>2, <5>1
        <5>3. Untried(k) /\ pushes[k] = 0 /\ (status[i] = "pending" => status[k] = "pending")
          BY <5>2 DEF QueueInv
        <5>4. k \in B /\ status[i] = "pending" => i \in B
          BY <3>1, <5>1, <5>2 DEF FirstDue, Due, DueInv
        <5> QED
          BY <3>1, <4>1, <4>2, <5>1, <5>2, <5>3, <5>4
      <4> QED
        BY <3>1, <4>3, <4>4 DEF OrderInv
    <3> QED
      BY <2>4, <2>f, <3>1 DEF Claim
  <2>5. ASSUME NEW j \in JobId, NEW answer \in Answer, Dispatch(j, answer)
        PROVE  OrderInv'
    <3>1. /\ UNCHANGED <<lastId, status, attempts, waited, batch, faults>>
          /\ j \in DOMAIN batch /\ IsNext(j) /\ j \in 1..lastId
      BY <2>5, <2>b DEF Dispatch, table
    <3>2. ClaimedInv /\ DueInv => ClaimedInv' /\ DueInv'
      BY <3>1 DEF ClaimedInv, DueInv
    <3>3. ClaimedInv /\ QueueInv => QueueInv'
      <4> SUFFICES ASSUME ClaimedInv, QueueInv, NEW i \in 1..lastId, NEW k \in 1..lastId,
                          i < k, Untried(i)
                   PROVE  (Untried(k) /\ pushes[k] = 0
                             /\ (status[i] = "pending" => status[k] = "pending"))'
        BY <3>1 DEF QueueInv
      <4>1. Untried(k) /\ pushes[k] = 0 /\ (status[i] = "pending" => status[k] = "pending")
        BY DEF QueueInv
      <4>2. k # j
        <5>1. status[j] = "in_progress"
          BY <3>1
        <5>2. k = j => status[i] = "in_progress" /\ i \in JobId
          BY <2>a, <4>1, <5>1
        <5>3. k = j => i \in DOMAIN batch
          BY <5>2 DEF ClaimedInv
        <5> QED
          BY <3>1, <5>3 DEF IsNext
      <4> QED
        BY <2>a, <2>5, <3>1, <4>1, <4>2, DispatchPushes
    <3> QED
      BY <3>1, <3>2, <3>3 DEF OrderInv
  <2>6. ASSUME NEW j \in JobId, Mark(j) PROVE OrderInv'
    <3>1. /\ j \in DOMAIN batch /\ IsNext(j) /\ j \in 1..lastId
          /\ status[j] = "in_progress" /\ attempts[j] = batch[j]
          /\ DOMAIN batch' = DOMAIN batch \ {j}
          /\ UNCHANGED <<lastId, pushes>>
      BY <2>6, <2>b DEF Mark
    <3>2. ASSUME MarkSuccess(j) \/ MarkRetry(j) \/ MarkFailedTerminal(j),
                 waited' = waited \ {j}, UNCHANGED faults
          PROVE  OrderInv'
      <4>1. \A k \in JobId : k # j => attempts'[k] = attempts[k] /\ status'[k] = status[k]
        BY <3>2 DEF MarkSuccess, MarkRetry, MarkFailedTerminal
      <4>2. status'[j] # "in_progress"
        BY <3>2 DEF MarkSuccess, MarkRetry, MarkFailedTerminal
      <4>3. ~Untried(j)'
        <5>1. MarkSuccess(j) => status'[j] = "success"
          BY DEF MarkSuccess
        <5>2. MarkRetry(j) \/ MarkFailedTerminal(j) => attempts'[j] = attempts[j] + 1
          BY <3>1 DEF MarkRetry, MarkFailedTerminal
        <5> QED
          BY <3>2, <5>1, <5>2
      <4>4. ClaimedInv /\ DueInv => ClaimedInv' /\ DueInv'
        BY <3>1, <3>2, <4>1, <4>2, <4>3 DEF ClaimedInv, DueInv
      <4>5. ClaimedInv /\ QueueInv => QueueInv'
        <5> SUFFICES ASSUME ClaimedInv, QueueInv, NEW i \in 1..lastId, NEW k \in 1..lastId,
                            i < k, Untried(i)'
                     PROVE  (Untried(k) /\ pushes[k] = 0
                               /\ (status[i] = "pending" => status[k] = "pending"))'
          BY <3>1 DEF QueueInv
        <5>1. i \in JobId /\ k \in JobId /\ i # j
          BY <2>a, <4>3
        <5>2. Untried(i)
          BY <4>1, <5>1
        <5>3. Untried(k) /\ pushes[k] = 0 /\ (status[i] = "pending" => status[k] = "pending")
          BY <5>2 DEF QueueInv
        <5>4. k # j
          <6>1. k = j => status[i] = "in_progress"
            BY <3>1, <5>2, <5>3
          <6>2. k = j => i \in DOMAIN batch
            BY <5>1, <6>1 DEF ClaimedInv
          <6> QED
            BY <3>1, <6>2 DEF IsNext
        <5> QED
          BY <3>1, <4>1, <5>1, <5>3, <5>4
      <4> QED
        BY <3>2, <4>4, <4>5 DEF OrderInv
    <3> QED
      BY <2>6, <2>f, <3>2 DEF Mark
  <2>7. CASE Prune
    <3>1. UNCHANGED <<lastId, attempts, waited, batch, pushes>>
      BY <2>7 DEF Prune
    <3>2. ASSUME status' = [j \in JobId |-> IF Prunable(j) THEN "absent" ELSE status[j]],
                 UNCHANGED faults
          PROVE  OrderInv'
      <4>1. \A j \in JobId : status[j] \in Unsettled \/ status'[j] \in Unsettled
                               => status'[j] = status[j]
        BY <3>2 DEF Prunable
      <4>2. ClaimedInv /\ DueInv => ClaimedInv' /\ DueInv'
        BY <3>1, <4>1 DEF ClaimedInv, DueInv
      <4>3. QueueInv => QueueInv'
        BY <2>a, <3>1, <4>1 DEF QueueInv
      <4> QED
        BY <3>2, <4>2, <4>3 DEF OrderInv
    <3> QED
      BY <2>7, <2>f, <3>2 DEF Prune
  <2>8. CASE Shutdown \/ Crash
    BY <2>8, <2>f DEF Shutdown, Crash
  <2>9. CASE Exit
    <3>1. faults > 0 /\ UNCHANGED faults
      BY <2>9 DEF Exit, PushInv
    <3> QED
      BY <3>1 DEF OrderInv
  <2>10. CASE Restart
    BY <2>10 DEF Restart, table, OrderInv, ClaimedInv, DueInv, QueueInv
  <2>11. ASSUME NEW j \in JobId, TimePasses(j) PROVE OrderInv'
    BY <2>11 DEF TimePasses, worker, OrderInv, ClaimedInv, DueInv, QueueInv
  <2>12. CASE UNCHANGED jobVars
    BY <2>12 DEF jobVars, OrderInv, ClaimedInv, DueInv, QueueInv
  <2> QED
    BY <2>1, <2>2, <2>3, <2>4, <2>5, <2>6, <2>7, <2>8, <2>9, <2>10, <2>11, <2>12
       DEF Next, Tick, DispatchAny, MarkAny
<1> QED
  BY <1>1, <1>2, TypeCorrect, BatchInvariant, PushInvariant, AttemptsBudgeted, PTL DEF Spec

\* Jobs take effect on the panel in the order of their ids, except after a
\* failed attempt or a disturbance of the service.
THEOREM OrderKept == Spec => []NoOvertakingWithoutFailure
<1>1. TypeOK /\ OrderInv => NoOvertakingWithoutFailure
  <2> SUFFICES ASSUME TypeOK, OrderInv, NEW j \in 1..lastId, NEW k \in 1..lastId,
                      j < k, pushes[k] > 0, status[j] \in Unsettled
               PROVE  attempts[j] > 0 \/ faults > 0
    BY DEF NoOvertakingWithoutFailure
  <2>1. attempts[j] \in Nat /\ faults \in Nat
    BY SyncJobsAssumption DEF TypeOK, JobId
  <2>2. faults = 0 => ~Untried(j)
    BY DEF OrderInv, QueueInv
  <2> QED
    BY <2>1, <2>2 DEF Untried
<1> QED
  BY <1>1, TypeCorrect, OrderInvariant, PTL

-----------------------------------------------------------------------------
\* A set of jobs that is not empty has a latest one.
LEMMA LatestExists ==
  ASSUME TypeOK, NEW K \in SUBSET (1..lastId), K # {}
  PROVE  \E k \in K : \A j \in K : j <= k
<1>1. lastId \in Nat
  BY SyncJobsAssumption DEF TypeOK
<1> DEFINE below == {lastId - k : k \in K}
           less == OpToRel(<, Nat)
<1>2. below \subseteq Nat
  <2> SUFFICES ASSUME NEW k \in K PROVE lastId - k \in Nat
    OBVIOUS
  <2>1. k \in Int /\ k <= lastId
    BY <1>1
  <2> QED
    BY <1>1, <2>1
<1>2a. below # {}
  OBVIOUS
<1>2b. \A x, y \in Nat : x < y => <<x, y>> \in less
  BY DEF OpToRel
<1>2c. \E d \in below : \A e \in below : ~(<<e, d>> \in less)
  <2>1. IsWellFoundedOn(less, Nat)
    BY NatLessThanWellFounded
  <2> HIDE DEF below, less
  <2> QED
    BY <1>2, <1>2a, <2>1, WFMin
<1>3. PICK d \in below : \A e \in below : d <= e
  <2>1. PICK d \in below : \A e \in below : ~(<<e, d>> \in less)
    BY <1>2c
  <2>2. ASSUME NEW e \in below PROVE d <= e
    <3>1. d \in Nat /\ e \in Nat /\ ~(e < d)
      BY <1>2, <1>2b, <2>1, <2>2
    <3> QED
      BY <3>1
  <2> QED
    BY <2>2
<1>4. PICK k \in K : d = lastId - k
  BY <1>3
<1>5. ASSUME NEW j \in K PROVE j <= k
  <2>1. lastId - k <= lastId - j
    BY <1>3, <1>4, <1>5
  <2> QED
    BY <1>1, <1>5, <2>1
<1> QED
  BY <1>5

\* The admin's list, which looks at the latest row of each inbound only, says
\* "synced" of a user only if every job of that user that is not settled has a
\* failed attempt behind it, or the service was disturbed (RollupStatusForUser).
THEOREM SyncedIsQuiet == Spec => []SyncedMeansQuietUnlessRetrying
<1>1. TypeOK /\ NothingLostUnpushed /\ NoOvertakingWithoutFailure => SyncedMeansQuietUnlessRetrying
  <2> SUFFICES ASSUME TypeOK, NothingLostUnpushed, NoOvertakingWithoutFailure,
                      NEW u \in Users, RollupStatus(u) = "synced",
                      NEW j \in RowsOf(u), status[j] \in Unsettled
               PROVE  attempts[j] > 0 \/ faults > 0
    BY DEF SyncedMeansQuietUnlessRetrying
  <2> DEFINE rows == {k \in RowsOf(u) : row[k].inbound = row[j].inbound}
  <2>1. rows \in SUBSET (1..lastId) /\ j \in rows
    BY DEF RowsOf
  <2>2. PICK k \in rows : \A i \in rows : i <= k
    BY <2>1, LatestExists
  <2>3. k \in LatestOf(u) /\ k \in 1..lastId
    BY <2>1, <2>2 DEF LatestOf
  <2>4. status[k] \notin Unsettled /\ status[k] # "failed"
    BY <2>3 DEF RollupStatus
  <2>5. status[k] = "success"
    <3>1. 1..lastId \subseteq JobId
      BY SyncJobsAssumption DEF TypeOK, JobId
    <3>2. status[k] \in Status /\ status[k] # "absent"
      BY <2>2, <2>3, <3>1 DEF TypeOK, RowsOf
    <3> QED
      BY <2>4, <3>2 DEF Status
  <2>6. pushes[k] > 0
    BY <2>3, <2>5 DEF NothingLostUnpushed
  <2>7. j \in 1..lastId /\ j < k
    <3>1. j <= k /\ j # k
      BY <2>1, <2>2, <2>4
    <3> QED
      BY <2>1, <2>3, <3>1
  <2> QED
    BY <2>3, <2>6, <2>7 DEF NoOvertakingWithoutFailure
<1> QED
  BY <1>1, TypeCorrect, NothingLost, OrderKept, PTL
=============================================================================
