--------------------------- MODULE TaskLifecycle ---------------------------
(***************************************************************************)
(* The life of the rows of the tasks table: the worker loops that claim    *)
(* and run them (app/workers/task_worker.py), the engine's loop            *)
(* (app/agent/engine.py), the owner who cancels, answers and decides       *)
(* (app/telegram/bot.py, app/api.py), and a process that stops, crashes    *)
(* and restarts.  Every action is one database transaction, so between two *)
(* of a worker's actions anything else may happen to its row.              *)
(***************************************************************************)
EXTENDS TaskRow, FiniteSets

CONSTANTS
    Tasks,           \* task ids, numbered in order of created_at
    ClaimBatch,      \* LIMIT of the SELECT in claim_next_task (5)
    PersistForever,  \* settings.task_persist_forever
    MaxOwnerOps,     \* bound: owner commands in a behaviour
    MaxOutages,      \* bound: LLM failures
    MaxCrashes,      \* bound: crashes and orderly stops of the process
    MaxLost          \* bound: runs whose last transaction fails

ASSUME LifecycleAssumption ==
    /\ Tasks \subseteq Nat
    /\ ClaimBatch \in Nat \ {0}
    /\ PersistForever \in BOOLEAN
    /\ {MaxOwnerOps, MaxOutages, MaxCrashes, MaxLost} \subseteq Nat

NoTask == -1

VARIABLES
    row,       \* the tasks table
    approval,  \* per task, the state of its latest row in approvals
    proc,      \* "up", "stopping" (TaskWorker.stop) or "down"
    pc,        \* where each worker loop is
    cur,       \* the task it runs, or NoTask
    step,      \* the step it counts: current_step as it last read it, plus 1
    cand,      \* what its SELECT returned and it has not yet tried
    budget,    \* what is left of the bounds
    disturbed  \* history: tasks resumed under a live run, or whose run was lost

vars == <<row, approval, proc, pc, cur, step, cand, budget, disturbed>>

\* Places inside AgentEngine.run_task.  "load": about to read the row;
\* "giveup": it read step >= max_steps; "write": about to count the step;
\* "decide": waiting for the model or a tool; "park": the approval request is
\* out and the status is not yet WAITING_FOR_USER; "report": the run's last
\* status is committed, the owner's message and the reflection are not over.
Running == {"load", "giveup", "write", "decide", "park", "report"}

Candidate == [task : Tasks, status : Status, worker : Workers \cup {NoWorker}]

Runners(t) == {w \in Workers : cur[w] = t}
Held(t)    == \E w \in Workers : cur[w] = t

Spend(what) ==
    /\ budget[what] > 0
    /\ budget' = [budget EXCEPT ![what] = @ - 1]

Update(t, r) == row' = [row EXCEPT ![t] = r]

\* Worker w moves on to another place of the same run, or ends it.
Goto(w, place) == pc' = [pc EXCEPT ![w] = place] /\ UNCHANGED cur
EndRun(w)      == pc' = [pc EXCEPT ![w] = "idle"]
                  /\ cur' = [cur EXCEPT ![w] = NoTask]

Init ==
    /\ row \in [Tasks -> {CreatedRow(d) : d \in BOOLEAN}]
    /\ approval = [t \in Tasks |-> "none"]
    /\ proc = "up"
    /\ pc = [w \in Workers |-> "idle"]
    /\ cur = [w \in Workers |-> NoTask]
    /\ step = [w \in Workers |-> 0]
    /\ cand = [w \in Workers |-> {}]
    /\ budget = [owner |-> MaxOwnerOps, outage |-> MaxOutages,
                 crash |-> MaxCrashes, lost |-> MaxLost]
    /\ disturbed = {}
-----------------------------------------------------------------------------
(* repo.claim_next_task: a SELECT, then one UPDATE per row it returned.     *)

Runnable == {t \in Tasks : Claimable(row[t])}
Oldest   == {t \in Runnable :
                Cardinality({u \in Runnable : u < t}) < ClaimBatch}

ReadCandidates(w) ==
    /\ proc = "up" /\ pc[w] = "idle"
    /\ Runnable # {}
    /\ cand' = [cand EXCEPT ![w] =
            {[task |-> t, status |-> row[t].status, worker |-> row[t].worker] :
                t \in Oldest}]
    /\ pc' = [pc EXCEPT ![w] = "claim"]
    /\ UNCHANGED <<row, approval, proc, cur, step, budget, disturbed>>

FirstCandidate(w, c) ==
    /\ proc = "up" /\ pc[w] = "claim"
    /\ c \in cand[w]
    /\ \A d \in cand[w] : c.task <= d.task

Matches(c) == LooksAsRead(row[c.task], c.status, c.worker)

Claim(w) == \E c \in cand[w] :
    /\ FirstCandidate(w, c)
    /\ Matches(c)
    /\ Update(c.task, ClaimedRow(row[c.task], w))
    /\ pc' = [pc EXCEPT ![w] = "load"]
    /\ cur' = [cur EXCEPT ![w] = c.task]
    /\ cand' = [cand EXCEPT ![w] = {}]
    /\ UNCHANGED <<approval, proc, step, budget, disturbed>>

\* Another worker was faster: rowcount is 0, try the next candidate.
MissClaim(w) == \E c \in cand[w] :
    /\ FirstCandidate(w, c)
    /\ ~Matches(c)
    /\ cand' = [cand EXCEPT ![w] = @ \ {c}]
    /\ pc' = [pc EXCEPT ![w] = IF cand[w] = {c} THEN "idle" ELSE "claim"]
    /\ UNCHANGED <<row, approval, proc, cur, step, budget, disturbed>>
-----------------------------------------------------------------------------
(* AgentEngine.run_task: read the row, count a step, decide, act.           *)

InRun(w, place) == proc = "up" /\ pc[w] = place

\* The row is terminal: return without touching it.
FindTerminal(w) ==
    /\ InRun(w, "load")
    /\ row[cur[w]].status \in Terminal
    /\ EndRun(w)
    /\ UNCHANGED <<row, approval, proc, step, cand, budget, disturbed>>

\* Faulty variant: one step too many.
StepLimitReached_OffByOne(r) == r.step > MaxSteps

StepLimitReached(r) == r.step >= MaxSteps

ReadRow(w) ==
    /\ InRun(w, "load")
    /\ LET r == row[cur[w]] IN
        /\ r.status \notin Terminal
        /\ IF StepLimitReached(r)
           THEN Goto(w, "giveup") /\ UNCHANGED step
           ELSE Goto(w, "write") /\ step' = [step EXCEPT ![w] = r.step + 1]
    /\ UNCHANGED <<row, approval, proc, cand, budget, disturbed>>

\* _fail(PERMANENT) at the step limit.
GiveUp(w) ==
    /\ InRun(w, "giveup")
    /\ Update(cur[w], FailedRow(row[cur[w]], "PERMANENT"))
    /\ Goto(w, "report")
    /\ UNCHANGED <<approval, proc, step, cand, budget, disturbed>>

\* The step is committed whatever has become of the row since it was read.
CountStep(w) ==
    /\ InRun(w, "write")
    /\ Update(cur[w], SteppedRow(row[cur[w]], step[w]))
    /\ Goto(w, "decide")
    /\ UNCHANGED <<approval, proc, step, cand, budget, disturbed>>

\* A tool ran, the decision was not one, or the self-check refused "final".
Continue(w) ==
    /\ InRun(w, "decide")
    /\ Goto(w, "load")
    /\ UNCHANGED <<row, approval, proc, step, cand, budget, disturbed>>

Complete(w) ==
    /\ InRun(w, "decide")
    /\ Update(cur[w], WithStatus(row[cur[w]], "COMPLETED"))
    /\ Goto(w, "report")
    /\ UNCHANGED <<approval, proc, step, cand, budget, disturbed>>

WaitForUser(w) ==
    /\ InRun(w, "decide")
    /\ Update(cur[w], WaitingRow(row[cur[w]], "answer"))
    /\ Goto(w, "report")
    /\ UNCHANGED <<approval, proc, step, cand, budget, disturbed>>

\* Executor._approval_state: the request is committed and sent to the owner...
RequestApproval(w) ==
    /\ InRun(w, "decide")
    /\ approval' = [approval EXCEPT ![cur[w]] = "pending"]
    /\ Goto(w, "park")
    /\ UNCHANGED <<row, proc, step, cand, budget, disturbed>>

\* ... and only then the task is set to wait for it.
WaitForApproval(w) ==
    /\ InRun(w, "park")
    /\ Update(cur[w], WaitingRow(row[cur[w]], "approval"))
    /\ EndRun(w)
    /\ UNCHANGED <<approval, proc, step, cand, budget, disturbed>>

Retriable(r) == PersistForever \/ r.retries < MaxRetries

\* LLMError: _fail(TEMPORARY), which requeues the task or fails it.
LlmFails(w) ==
    /\ InRun(w, "decide")
    /\ Spend("outage")
    /\ LET r == row[cur[w]] IN
        \/ /\ Retriable(r)
           /\ Update(cur[w], RequeuedRow(r))
           /\ EndRun(w)
        \/ /\ ~Retriable(r)
           /\ Update(cur[w], FailedRow(r, "other"))
           /\ Goto(w, "report")
    /\ UNCHANGED <<approval, proc, step, cand, disturbed>>

\* The message is sent, the reflection done: run_task returns.
Return(w) ==
    /\ InRun(w, "report")
    /\ EndRun(w)
    /\ UNCHANGED <<row, approval, proc, step, cand, budget, disturbed>>
-----------------------------------------------------------------------------
(* TaskWorker._run_one: what ends a run from outside.                       *)

\* wait_for runs out, or run_task raises: FAILED, even over a result that is
\* committed and only waits for its message.
AbortRun(w) ==
    /\ proc = "up" /\ pc[w] \in Running
    /\ Update(cur[w], FailedRow(row[cur[w]], "other"))
    /\ EndRun(w)
    /\ UNCHANGED <<approval, proc, step, cand, budget, disturbed>>

\* The transaction that was to record the outcome fails as well, and _loop
\* only logs it: the row keeps what the run left there.
LoseRun(w) ==
    /\ proc = "up" /\ pc[w] \in Running
    /\ Spend("lost")
    /\ disturbed' = disturbed \cup {cur[w]}
    /\ EndRun(w)
    /\ UNCHANGED <<row, approval, proc, step, cand>>

\* CancelledError during a run: the task goes back to the queue.
Abandon(w) ==
    /\ proc = "stopping" /\ pc[w] # "off"
    /\ \/ /\ pc[w] \in Running
          /\ Update(cur[w], ReleasedRow(row[cur[w]]))
       \/ pc[w] \notin Running /\ UNCHANGED row
    /\ pc' = [pc EXCEPT ![w] = "off"]
    /\ cur' = [cur EXCEPT ![w] = NoTask]
    /\ UNCHANGED <<approval, proc, step, cand, budget, disturbed>>

\* A lease runs out only when nothing renews it: a run's heartbeat renews it
\* while worker_id is the runner's, and a lease is no shorter than the time a
\* run may take, should the heartbeat fail.
LeaseExpires(t) ==
    /\ row[t].lease = "live"
    /\ \A w \in Runners(t) : row[t].worker # w
    /\ Update(t, [row[t] EXCEPT !.lease = "expired"])
    /\ UNCHANGED <<approval, proc, pc, cur, step, cand, budget, disturbed>>

BackoffElapses(t) ==
    /\ row[t].delayed
    /\ Update(t, [row[t] EXCEPT !.delayed = FALSE])
    /\ UNCHANGED <<approval, proc, pc, cur, step, cand, budget, disturbed>>
-----------------------------------------------------------------------------
(* The process.                                                             *)

LoopsEnd ==
    /\ proc' = "down"
    /\ pc' = [w \in Workers |-> "off"]
    /\ cur' = [w \in Workers |-> NoTask]
    /\ cand' = [w \in Workers |-> {}]
    /\ UNCHANGED <<row, approval, step, disturbed>>

Crash == proc # "down" /\ Spend("crash") /\ LoopsEnd

Stop ==
    /\ proc = "up"
    /\ Spend("crash")
    /\ proc' = "stopping"
    /\ UNCHANGED <<row, approval, pc, cur, step, cand, disturbed>>

Exit ==
    /\ proc = "stopping"
    /\ \A w \in Workers : pc[w] = "off"
    /\ LoopsEnd
    /\ UNCHANGED budget

\* TaskWorker.start: recover() first, then the loops.
Restart ==
    /\ proc = "down"
    /\ proc' = "up"
    /\ row' = [t \in Tasks |-> RecoveredRow(row[t])]
    /\ pc' = [w \in Workers |-> "idle"]
    /\ UNCHANGED <<approval, cur, step, cand, budget, disturbed>>
-----------------------------------------------------------------------------
(* The owner.  Commands reach a process that is up.                         *)

Command == proc = "up" /\ Spend("owner")

\* /cancel and the task_cancel tool look at the status, the HTTP API does not.
Cancel(t, guarded) ==
    /\ Command
    /\ guarded => row[t].status \notin Terminal
    /\ Update(t, WithStatus(row[t], "CANCELLED"))
    /\ UNCHANGED <<approval, proc, pc, cur, step, cand, disturbed>>

\* A resumption is made whatever the task is doing.
Resume(t, keepDelay) ==
    /\ Update(t, ResumedRow(row[t], keepDelay))
    /\ disturbed' = IF Held(t) THEN disturbed \cup {t} ELSE disturbed
    /\ UNCHANGED <<proc, pc, cur, step, cand>>

Reply(t) == Command /\ Resume(t, FALSE) /\ UNCHANGED approval

\* repo.decide_approval: a request is decided once; one that is past its time
\* becomes EXPIRED instead.
DecideApproval(t, outcome) ==
    IF approval[t] = "pending"
    THEN outcome \in {"decided", "expired"}
    ELSE outcome = approval[t]

\* The bot resumes the task unless the request has expired; the HTTP API
\* resumes it in any case, and leaves run_after alone.
Decide(t, outcome, viaApi) ==
    /\ Command
    /\ approval[t] # "none"
    /\ DecideApproval(t, outcome)
    /\ approval' = [approval EXCEPT ![t] = outcome]
    /\ IF viaApi \/ outcome = "decided"
       THEN Resume(t, viaApi)
       ELSE UNCHANGED <<row, proc, pc, cur, step, cand, disturbed>>
-----------------------------------------------------------------------------
Progress(w) ==
    \/ ReadCandidates(w) \/ Claim(w) \/ MissClaim(w)
    \/ FindTerminal(w) \/ ReadRow(w) \/ GiveUp(w) \/ CountStep(w)
    \/ Continue(w) \/ Complete(w) \/ WaitForUser(w) \/ RequestApproval(w)
    \/ WaitForApproval(w) \/ LlmFails(w) \/ Return(w)

Owner(t) ==
    \/ \E guarded \in BOOLEAN : Cancel(t, guarded)
    \/ Reply(t)
    \/ \E outcome \in {"decided", "expired"}, viaApi \in BOOLEAN :
            Decide(t, outcome, viaApi)

Next ==
    \/ \E w \in Workers :
        \/ Progress(w) \/ AbortRun(w) \/ LoseRun(w) \/ Abandon(w)
    \/ \E t \in Tasks : LeaseExpires(t) \/ BackoffElapses(t) \/ Owner(t)
    \/ Crash \/ Stop \/ Exit \/ Restart

Spec == Init /\ [][Next]_vars

\* Loops keep polling, a run goes on to its end, time passes and the service
\* manager restarts a stopped process.  Owners, outages and crashes promise
\* nothing.
Fairness ==
    /\ \A w \in Workers : WF_vars(Progress(w)) /\ WF_vars(Abandon(w))
    /\ \A t \in Tasks : WF_vars(LeaseExpires(t)) /\ WF_vars(BackoffElapses(t))
    /\ WF_vars(Exit) /\ WF_vars(Restart)

FairSpec == Spec /\ Fairness
-----------------------------------------------------------------------------
(* Properties.                                                              *)

TypeOK ==
    /\ row \in [Tasks -> Row]
    /\ approval \in [Tasks -> {"none", "pending", "decided", "expired"}]
    /\ proc \in {"up", "stopping", "down"}
    /\ pc \in [Workers -> Running \cup {"idle", "claim", "off"}]
    /\ cur \in [Workers -> Tasks \cup {NoTask}]
    /\ step \in [Workers -> 0..MaxSteps]
    /\ cand \in [Workers -> SUBSET Candidate]
    /\ budget \in [{"owner", "outage", "crash", "lost"} -> Nat]
    /\ disturbed \subseteq Tasks

\* Two loops run one task only after the owner has resumed it under a live
\* run, or a run of it was lost: claims, leases, stops, crashes, restarts,
\* retries, timeouts and cancellations alone never make two.
SoleRunner ==
    \A t \in Tasks \ disturbed : \A v, w \in Runners(t) : v = w

\* A RUNNING row has a run behind it, except in a process that is down: no
\* path through the engine or the worker leaves one to wait for its lease.
RunningIsHeld ==
    proc # "down" =>
        \A t \in Tasks \ disturbed : row[t].status = "RUNNING" => Held(t)

\* A task that waits for an approval can be woken: its request is undecided,
\* or has lapsed.  The answer was never taken before the wait began.
WaitIsAnswerable ==
    \A t \in Tasks \ disturbed :
        row[t].status = "WAITING_FOR_USER" /\ row[t].wants = "approval"
            => approval[t] \in {"pending", "expired"}

\* A finished task that no run holds stays as it finished, through claims,
\* restarts and recovery: only the owner's own resumption reopens it.
FinishedStaysFinished ==
    [][\A t \in Tasks :
        row[t].status \in Terminal /\ ~Held(t) /\ row'[t].status \notin Terminal
            => Reply(t) \/ \E o \in {"decided", "expired"}, api \in BOOLEAN :
                                Decide(t, o, api)]_vars

\* A task that waits its turn or runs comes to rest: it finishes or waits for
\* the owner.
EveryTaskSettles ==
    \A t \in Tasks :
        row[t].status \in {"PENDING", "RUNNING"}
            ~> row[t].status \notin {"PENDING", "RUNNING"}

\* Every step of the lifecycle is a step of the store's protocol.
Protocol ==
    INSTANCE TaskProtocol WITH
        status  <- [t \in Tasks |-> row[t].status],
        holders <- [t \in Tasks |-> Runners(t)],
        loose   <- disturbed

\* Claims take only what waits its turn or is left behind by a lost run, and
\* only with no holder; statuses are changed by holders, by the owner and by
\* recovery, and by nothing else; a holder leaves nothing RUNNING behind.
FollowsProtocol == Protocol!Spec

\* "/cancel <id>  stop a task": a cancelled task does not go on running.
CancelStops ==
    [][\A t \in Tasks :
        row[t].status = "CANCELLED" => row'[t].status # "RUNNING"]_vars

\* With task_persist_forever no number of LLM outages makes the agent abandon
\* a task: one given up at the step limit has had a decision.
OutagesNeverAbandon ==
    PersistForever =>
        \A t \in Tasks :
            row[t].failure = "PERMANENT" => row[t].retries < row[t].step

\* "Reflect on a finished task.  Never allowed to break the task itself": what
\* ends a run after its last status is committed leaves that status alone.
ReflectionIsHarmless ==
    [][\A w \in Workers :
        pc[w] = "report" /\ row[cur[w]].status = "COMPLETED" /\ pc'[w] # "report"
            => row'[cur[w]].status = "COMPLETED"]_vars
=============================================================================
