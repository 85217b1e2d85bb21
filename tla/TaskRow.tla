------------------------------ MODULE TaskRow ------------------------------
(***************************************************************************)
(* One row of the tasks table and the statements app/db/repo.py runs on it.*)
(* Every operator maps the row a transaction finds to the row it leaves.   *)
(*                                                                         *)
(* Times are kept only as far as the statements compare them with "now":   *)
(* lease_expires_at is "none" (NULL), "live" or "expired", and run_after   *)
(* is the flag delayed (it lies in the future).  Of result, error and      *)
(* failure_kind the row keeps what a task waits for, and whether it failed *)
(* for good at the step limit or for another reason.                       *)
(***************************************************************************)
EXTENDS Integers

CONSTANTS
    Workers,      \* worker identities (task_worker.worker_identity)
    NoWorker,     \* worker_id IS NULL
    MaxSteps,     \* Task.max_steps
    MaxRetries    \* Task.max_retries

ASSUME RowAssumption ==
    /\ NoWorker \notin Workers
    /\ MaxSteps \in Nat
    /\ MaxRetries \in Nat

Terminal == {"COMPLETED", "FAILED", "CANCELLED"}
Status   == {"PENDING", "RUNNING", "WAITING_FOR_USER"} \cup Terminal

Row ==
    [status  : Status,
     worker  : Workers \cup {NoWorker},
     lease   : {"none", "live", "expired"},
     delayed : BOOLEAN,
     step    : 0..MaxSteps,
     retries : Nat,
     wants   : {"nothing", "answer", "approval"},
     failure : {"none", "PERMANENT", "other"}]

\* repo.create_task
CreatedRow(delayed) ==
    [status |-> "PENDING", worker |-> NoWorker, lease |-> "none",
     delayed |-> delayed, step |-> 0, retries |-> 0,
     wants |-> "nothing", failure |-> "none"]

\* Faulty variants: a lease that is not looked at; leases never reclaimed.
Claimable_LeaseIgnored(r) == r.status \in {"PENDING", "RUNNING"} /\ ~r.delayed
Claimable_PendingOnly(r)  == r.status = "PENDING" /\ ~r.delayed

\* The WHERE clause of the SELECT in repo.claim_next_task.
Claimable(r) ==
    /\ \/ r.status = "PENDING"
       \/ r.status = "RUNNING" /\ r.lease = "expired"
    /\ ~r.delayed

\* Faulty variant: UPDATE ... WHERE id only.
LooksAsRead_IdOnly(r, status, worker) == TRUE

\* The WHERE clause of its UPDATE: the row against the status and worker_id
\* that the SELECT returned.
LooksAsRead(r, status, worker) ==
    r.status = status /\ r.worker \in {NoWorker, worker}

\* The values of that UPDATE.
ClaimedRow(r, w) ==
    [r EXCEPT !.status = "RUNNING", !.worker = w, !.lease = "live"]

\* repo.set_task_status: only a terminal status lets go of the lease.
WithStatus(r, status) ==
    IF status \in Terminal
    THEN [r EXCEPT !.status = status, !.worker = NoWorker, !.lease = "none"]
    ELSE [r EXCEPT !.status = status]

FailedRow(r, kind) == [WithStatus(r, "FAILED") EXCEPT !.failure = kind]

WaitingRow(r, what) == [WithStatus(r, "WAITING_FOR_USER") EXCEPT !.wants = what]

\* The update_task of the engine's loop: the step it counted, and RUNNING.
SteppedRow(r, step) == [r EXCEPT !.status = "RUNNING", !.step = step]

\* repo.requeue_task
RequeuedRow(r) ==
    [r EXCEPT !.status = "PENDING", !.worker = NoWorker, !.lease = "none",
              !.delayed = TRUE, !.retries = @ + 1]

\* Faulty variant: the lease is cleared, the status is not.
ReleasedRow_StillRunning(r) == [r EXCEPT !.worker = NoWorker, !.lease = "none"]

\* The update_task of a cancelled worker.
ReleasedRow(r) ==
    [r EXCEPT !.status = "PENDING", !.worker = NoWorker, !.lease = "none"]

\* Faulty variant: an UPDATE without its WHERE clause.
RecoveredRow_EveryRow(r) == ReleasedRow(r)

\* repo.recover_stale_running: every RUNNING row, whatever its lease says.
RecoveredRow(r) == IF r.status = "RUNNING" THEN ReleasedRow(r) ELSE r

\* Faulty variant: only run_after is reset.
ResumedRow_StatusKept(r, keepDelay) == [r EXCEPT !.delayed = keepDelay /\ @]

\* The update_task behind /reply and a decision; only the HTTP API's decision
\* leaves run_after as it is.
ResumedRow(r, keepDelay) ==
    [r EXCEPT !.status = "PENDING", !.delayed = keepDelay /\ @]
=============================================================================
