------------------------------ MODULE Delivery ------------------------------
(***************************************************************************)
(* From what makes a task to what the owner is told of it: webhooks        *)
(* (src/app/integrations/inbound.py), the scheduler's tick                 *)
(* (src/app/workers/scheduler_worker.py), the announcement of an end       *)
(* (src/app/telegram/notifier.py) and the sweep at start                   *)
(* (task_worker.flush_notifications).                                      *)
(*                                                                         *)
(* A task's own run is kept as coarse as its announcement needs: running,  *)
(* reporting its end, or caught by the time limit; TaskLifecycle has the   *)
(* rest, and both implement TaskProtocol.  One action is one transaction,  *)
(* one call of Telegram, or the end of one of them.                        *)
(***************************************************************************)
EXTENDS Integers, FiniteSets

CONSTANTS
    Tasks,        \* ids that tasks may get
    Messages,     \* messages of the bridges, by channel and external id
    Jobs,
    Kind,         \* Kind[j]: "once" or "repeated" (interval or cron)
    MaxRuns,      \* MaxRuns[j]: max_runs, or NoLimit
    SweepLimit,   \* limit of unnotified_terminal_tasks
    MaxFaults,    \* bound on crashes, stops, time limits and failing calls
    MaxOwner      \* bound on the owner's requests, replies, cancellations, deletions

NoLimit == 0
Terminal == {"COMPLETED", "FAILED", "CANCELLED"}
Announced == {"COMPLETED", "FAILED"}
Status == {"PENDING", "RUNNING", "WAITING_FOR_USER"} \cup Terminal
Absent == "absent"   \* no such row

ASSUME DeliveryAssumption ==
    /\ IsFiniteSet(Tasks)
    /\ Kind \in [Jobs -> {"once", "repeated"}]
    /\ MaxRuns \in [Jobs -> Nat] /\ \A j \in Jobs : Kind[j] = "once" => MaxRuns[j] = 1
    /\ SweepLimit \in Nat /\ MaxFaults \in Nat /\ MaxOwner \in Nat

VARIABLES
    status, notified,   \* of each row in tasks
    origin,             \* what made the task: the n-th run of a job, a message, ...
    run,                \* "none", "running", "reporting" or "limit"
    notices,            \* handlers of the notifier under way
    keys,               \* notify:* keys in the operations ledger
    wanted,             \* messages inbound_auto_task makes tasks of: allowed senders
    inbound,            \* of each message: "new", "stored" or "handled"
    receiving,          \* messages stored whose handler has not returned
    job,                \* rows of scheduled_jobs
    tick,               \* what the scheduler's SELECT returned: job -> runs, or NotRead
    phase,              \* "up", "stopping", "down" or "sweeping"
    todo,               \* ends that the sweep has still to announce
    faults, owner,      \* count what MaxFaults and MaxOwner bound
    \* History: read by properties only.
    sent,      \* ends announced: how often Telegram took the message
    owed,      \* the end of a task that has not been announced
    excused,   \* tasks whose silence has a cause
    overtaken, \* tasks that the time limit caught while they reported an end
    dropped,   \* messages whose handler was cut off
    backlog    \* <<ends unannounced at the last start, handlers lost since>>

taskVars == <<status, notified, origin, run>>
inVars == <<wanted, inbound, receiving, dropped>>
jobVars == <<job, tick>>
noticeVars == <<notices, keys, sent>>
processVars == <<phase, todo, backlog>>
silence == <<owed, excused, overtaken>>
vars == <<taskVars, noticeVars, inVars, jobVars, processVars, faults, owner, silence>>

NotRead == -1
Job == [enabled : BOOLEAN, runs : Nat, next : {"never", "later", "due"}]
Deleted == [enabled |-> FALSE, runs |-> 0, next |-> "never"]
NewJob == [enabled |-> TRUE, runs |-> 0, next |-> "later"]

From(by, of, n) == [by |-> by, of |-> of, n |-> n]
Nothing == From("nobody", "nothing", 0)

Notice == [task : Tasks, event : Announced, by : {"run", "limit", "sweep"},
           pc : {"look", "mark", "key", "send"}]
NewNotice(t, event, by) == [task |-> t, event |-> event, by |-> by, pc |-> "look"]
InFlight(t, by) == \E n \in notices : n.task = t /\ n.by = by

Init ==
    /\ status = [t \in Tasks |-> Absent]
    /\ notified = [t \in Tasks |-> FALSE]
    /\ origin = [t \in Tasks |-> Nothing]
    /\ run = [t \in Tasks |-> "none"]
    /\ notices = {} /\ keys = {}
    /\ wanted \in SUBSET Messages
    /\ inbound = [m \in Messages |-> "new"] /\ receiving = {}
    /\ job = [j \in Jobs |-> NewJob]
    /\ tick = [j \in Jobs |-> NotRead]
    /\ phase = "up" /\ todo = {}
    /\ faults = 0 /\ owner = 0
    /\ sent = [t \in Tasks |-> [e \in Announced |-> 0]]
    /\ owed = [t \in Tasks |-> "none"]
    /\ excused = {} /\ overtaken = {} /\ dropped = {}
    /\ backlog = <<0, 0>>

Fault == faults < MaxFaults /\ faults' = faults + 1
ByOwner == phase = "up" /\ owner < MaxOwner /\ owner' = owner + 1
-----------------------------------------------------------------------------
(* repo.create_task, within the transaction of whoever needs the tasks:    *)
(* one row for each of the given origins.                                  *)
Creates(origins) ==
    \E id \in [origins -> {t \in Tasks : status[t] = Absent}] :
        /\ \A a, b \in origins : id[a] = id[b] => a = b
        /\ status' = [t \in Tasks |->
               IF \E a \in origins : id[a] = t THEN "PENDING" ELSE status[t]]
        /\ origin' = [t \in Tasks |->
               IF \E a \in origins : id[a] = t
               THEN CHOOSE a \in origins : id[a] = t ELSE origin[t]]
        /\ UNCHANGED <<notified, run>>

(* A task the owner asks for in the chat.                                  *)
Ask ==
    /\ ByOwner
    /\ Creates({From("owner", "chat", owner)})
    /\ UNCHANGED <<noticeVars, inVars, jobVars, processVars, faults, silence>>
-----------------------------------------------------------------------------
(* handle_inbound *)

\* Mutant: the unique key of a message is not looked at.
Deliver_NoKey(m) ==
    /\ phase = "up"
    /\ inbound' = [inbound EXCEPT ![m] = "stored"]
    /\ receiving' = receiving \cup {m}
    /\ UNCHANGED <<taskVars, noticeVars, jobVars, processVars, faults, owner, silence,
                   wanted, dropped>>

(* The first delivery is stored; any other finds it, or runs into the      *)
(* unique key, and changes nothing.                                        *)
Deliver(m) ==
    /\ phase = "up"
    /\ inbound[m] = "new"
    /\ inbound' = [inbound EXCEPT ![m] = "stored"]
    /\ receiving' = receiving \cup {m}
    /\ UNCHANGED <<taskVars, noticeVars, jobVars, processVars, faults, owner, silence,
                   wanted, dropped>>

(* Its task and the mark that it is handled commit together.               *)
MakeTask(m) ==
    /\ m \in receiving \cap wanted
    /\ Creates({From("message", m, 0)})
    /\ inbound' = [inbound EXCEPT ![m] = "handled"]
    /\ receiving' = receiving \ {m}
    /\ UNCHANGED <<noticeVars, jobVars, processVars, faults, owner, silence, wanted,
                   dropped>>

(* No task is wanted: the owner is told of the message, or it is left in   *)
(* the inbox.                                                              *)
LeaveInInbox(m) ==
    /\ m \in receiving \ wanted
    /\ receiving' = receiving \ {m}
    /\ UNCHANGED <<taskVars, noticeVars, jobVars, processVars, faults, owner, silence,
                   wanted, inbound, dropped>>

(* The transaction fails, the bridge gives up or hands the message again.  *)
ReceiveFails(m) ==
    /\ m \in receiving /\ Fault
    /\ receiving' = receiving \ {m}
    /\ dropped' = dropped \cup {m}
    /\ UNCHANGED <<taskVars, noticeVars, jobVars, processVars, owner, silence, wanted,
                   inbound>>
-----------------------------------------------------------------------------
(* SchedulerRunner.tick: one transaction that reads the due jobs, creates  *)
(* their tasks and updates the rows.                                       *)

TimeComes(j) ==
    /\ job[j].next = "later"
    /\ job' = [job EXCEPT ![j].next = "due"]
    /\ UNCHANGED <<taskVars, noticeVars, inVars, tick, processVars, faults, owner, silence>>

Due(j) == job[j].enabled /\ job[j].next = "due"
Read == {j \in Jobs : tick[j] # NotRead}
Unread == [j \in Jobs |-> NotRead]

TickRead ==
    /\ phase = "up" /\ Read = {}
    /\ \E j \in Jobs : Due(j)
    /\ tick' = [j \in Jobs |-> IF Due(j) THEN job[j].runs ELSE NotRead]
    /\ UNCHANGED <<taskVars, noticeVars, inVars, job, processVars, faults, owner, silence>>

\* Mutant: the run that reaches the limit does not end the job.
Fired_OneMore(j, runs) ==
    IF MaxRuns[j] # NoLimit /\ runs > MaxRuns[j]
    THEN [enabled |-> FALSE, runs |-> runs, next |-> "never"]
    ELSE [enabled |-> TRUE, runs |-> runs, next |-> "later"]

(* The row after its n-th run.                                             *)
Fired(j, runs) ==
    IF \/ MaxRuns[j] # NoLimit /\ runs >= MaxRuns[j]
       \/ Kind[j] = "once"
    THEN [enabled |-> FALSE, runs |-> runs, next |-> "never"]
    ELSE [enabled |-> TRUE, runs |-> runs, next |-> "later"]

(* A row deleted since it was read is not updated; its task is created.    *)
TickCommit ==
    /\ phase = "up" /\ Read # {}
    /\ Creates({From("job", j, tick[j] + 1) : j \in Read})
    /\ job' = [j \in Jobs |->
           IF j \in Read /\ job[j] # Deleted THEN Fired(j, tick[j] + 1) ELSE job[j]]
    /\ tick' = Unread
    /\ UNCHANGED <<noticeVars, inVars, processVars, faults, owner, silence>>

(* Any error rolls back the whole tick; its jobs stay due.                 *)
TickFails ==
    /\ phase = "up" /\ Read # {} /\ Fault
    /\ tick' = Unread
    /\ UNCHANGED <<taskVars, noticeVars, inVars, job, processVars, owner, silence>>

DeleteJob(j) ==
    /\ ByOwner /\ job[j] # Deleted
    /\ job' = [job EXCEPT ![j] = Deleted]
    /\ UNCHANGED <<taskVars, noticeVars, inVars, tick, processVars, faults, silence>>
-----------------------------------------------------------------------------
(* The run of a task, as far as its end is concerned.                      *)

RunStep(t, st, place) ==
    /\ status' = [status EXCEPT ![t] = st]
    /\ run' = [run EXCEPT ![t] = place]
    /\ UNCHANGED <<notified, origin>>

Take(t) ==
    /\ phase = "up" /\ status[t] = "PENDING" /\ run[t] = "none"
    /\ RunStep(t, "RUNNING", "running")
    /\ UNCHANGED <<noticeVars, inVars, jobVars, processVars, faults, owner, silence>>

(* A step counted: RUNNING, whatever the owner has set meanwhile.          *)
CountStep(t) ==
    /\ run[t] = "running" /\ status[t] # "RUNNING"
    /\ RunStep(t, "RUNNING", "running")
    /\ UNCHANGED <<noticeVars, inVars, jobVars, processVars, faults, owner, silence>>

(* _wait_for_user, requeue_task, or a status found terminal.               *)
Park(t) ==
    /\ run[t] = "running"
    /\ \E st \in {"WAITING_FOR_USER", "PENDING"} \cup ({status[t]} \cap Terminal) :
          RunStep(t, st, "none")
    /\ UNCHANGED <<noticeVars, inVars, jobVars, processVars, faults, owner, silence>>

Ends(t, st) ==
    /\ owed' = [owed EXCEPT ![t] = st]
    /\ excused' = IF notified[t] THEN excused \cup {t} ELSE excused

(* _complete and _fail, up to the shielded call of the notifier.           *)
Finish(t, st) ==
    /\ run[t] = "running"
    /\ RunStep(t, st, "reporting")
    /\ notices' = notices \cup {NewNotice(t, st, "run")}
    /\ Ends(t, st)
    /\ UNCHANGED <<keys, sent, overtaken, inVars, jobVars, processVars, faults, owner>>

(* The time limit of _run_one, or an error that left the run: FAILED,      *)
(* whatever the run has set, and told.  What was shielded goes on.         *)
TimeLimit(t) ==
    /\ run[t] \in {"running", "reporting"} /\ Fault
    /\ RunStep(t, "FAILED", "limit")
    /\ notices' = notices \cup {NewNotice(t, "FAILED", "limit")}
    /\ overtaken' = IF run[t] = "reporting" THEN overtaken \cup {t} ELSE overtaken
    /\ owed' = [owed EXCEPT ![t] = "FAILED"]
    /\ excused' = IF notified[t] \/ run[t] = "reporting" THEN excused \cup {t}
                                                        ELSE excused
    /\ UNCHANGED <<keys, sent, inVars, jobVars, processVars, owner>>

\* Mutant: the run returns while its message is on the way, and is not awaited.
Release_Early(t) ==
    /\ run[t] \in {"reporting", "limit"}
    /\ RunStep(t, status[t], "none")
    /\ notices' = {n \in notices : n.task # t}
    /\ UNCHANGED <<keys, sent, inVars, jobVars, processVars, faults, owner, silence>>

(* The run returns once it has reported and reflected.                     *)
Release(t) ==
    /\ \/ run[t] = "reporting" /\ ~InFlight(t, "run")
       \/ run[t] = "limit" /\ ~InFlight(t, "limit")
    /\ RunStep(t, status[t], "none")
    /\ UNCHANGED <<noticeVars, inVars, jobVars, processVars, faults, owner, silence>>

(* /cancel; /reply, in whatever state the task is; a decision.  A reply to *)
(* a task that runs, which lets a second run of it begin, is left to       *)
(* TaskLifecycle.                                                          *)
Cancel(t) ==
    /\ ByOwner /\ status[t] \notin Terminal \cup {Absent}
    /\ RunStep(t, "CANCELLED", run[t])
    /\ UNCHANGED <<noticeVars, inVars, jobVars, processVars, faults, silence>>

Reply(t) ==
    /\ ByOwner /\ status[t] # Absent /\ run[t] = "none"
    /\ RunStep(t, "PENDING", "none")
    /\ UNCHANGED <<noticeVars, inVars, jobVars, processVars, faults, silence>>
-----------------------------------------------------------------------------
(* task_completed and task_failed, and Notifier.send below them. *)

Alive == phase \in {"up", "stopping", "sweeping"}
At(n, pc) == Alive /\ n \in notices /\ n.pc = pc
Moves(n, pc) == notices' = (notices \ {n}) \cup {[n EXCEPT !.pc = pc]}
Drops(n) == notices' = notices \ {n}

\* Mutant: notified is not looked at.
Look_Unasked(n) ==
    /\ At(n, "look")
    /\ Moves(n, "mark")
    /\ UNCHANGED <<taskVars, keys, sent, inVars, jobVars, processVars, faults, owner,
                   silence>>

(* The row is read ...                                                     *)
Look(n) ==
    /\ At(n, "look")
    /\ IF notified[n.task] THEN Drops(n) ELSE Moves(n, "mark")
    /\ UNCHANGED <<taskVars, keys, sent, inVars, jobVars, processVars, faults, owner,
                   silence>>

(* ... and marked as announced, in one transaction but not in one step.    *)
Mark(n) ==
    /\ At(n, "mark")
    /\ notified' = [notified EXCEPT ![n.task] = TRUE]
    /\ Moves(n, "key")
    /\ UNCHANGED <<status, origin, run, keys, sent, inVars, jobVars, processVars, faults,
                   owner, silence>>

\* Mutant: the ledger is not asked.
Key_Unasked(n) ==
    /\ At(n, "key")
    /\ keys' = keys \cup {<<n.event, n.task>>}
    /\ Moves(n, "send")
    /\ UNCHANGED <<taskVars, sent, inVars, jobVars, processVars, faults, owner, silence>>

Key(n) ==
    /\ At(n, "key")
    /\ keys' = keys \cup {<<n.event, n.task>>}
    /\ IF <<n.event, n.task>> \in keys THEN Drops(n) ELSE Moves(n, "send")
    /\ UNCHANGED <<taskVars, sent, inVars, jobVars, processVars, faults, owner, silence>>

Send(n) ==
    /\ At(n, "send")
    /\ sent' = [sent EXCEPT ![n.task][n.event] = @ + 1]
    /\ Drops(n)
    /\ owed' = IF owed[n.task] = n.event THEN [owed EXCEPT ![n.task] = "none"] ELSE owed
    /\ UNCHANGED <<taskVars, keys, excused, overtaken, inVars, jobVars, processVars, faults,
                   owner>>

(* Telegram or the database fails: logged, not tried again.                *)
NoticeFails(n) ==
    /\ Alive /\ n \in notices /\ Fault
    /\ Drops(n)
    /\ excused' = IF n.pc \in {"key", "send"} THEN excused \cup {n.task} ELSE excused
    /\ backlog' = <<backlog[1], backlog[2] + 1>>
    /\ UNCHANGED <<taskVars, keys, sent, owed, overtaken, inVars, jobVars, phase, todo,
                   owner>>
-----------------------------------------------------------------------------
(* The process.  A stop ends each run (Abandon), then the process; a crash *)
(* ends everything at once.                                                *)

Stop ==
    /\ phase = "up" /\ Fault
    /\ phase' = "stopping"
    /\ tick' = Unread
    /\ UNCHANGED <<taskVars, noticeVars, inVars, job, todo, backlog, owner, silence>>

Cut(lost) ==
    excused' = excused \cup {n.task : n \in {x \in lost : x.pc \in {"key", "send"}}}

(* A cancelled run puts its task back - a finished one too; the message of *)
(* the time limit is not shielded.                                         *)
Abandon(t) ==
    LET lost == {n \in notices : n.task = t /\ n.by = "limit"}
    IN  /\ phase = "stopping" /\ run[t] # "none"
        /\ RunStep(t, IF run[t] = "limit" THEN status[t] ELSE "PENDING", "none")
        /\ notices' = notices \ lost
        /\ Cut(lost)
        /\ UNCHANGED <<keys, sent, owed, overtaken, inVars, jobVars, processVars, faults,
                       owner>>

Ceases ==
    /\ phase' = "down"
    /\ notices' = {} /\ Cut(notices)
    /\ receiving' = {} /\ dropped' = dropped \cup receiving
    /\ tick' = Unread /\ todo' = {}
    /\ UNCHANGED <<keys, sent, owed, overtaken, wanted, inbound, job, backlog, owner>>

Exit ==
    /\ phase = "stopping" /\ \A t \in Tasks : run[t] = "none"
    /\ Ceases
    /\ UNCHANGED <<taskVars, faults>>

Crash ==
    /\ Alive /\ Fault
    /\ Ceases
    /\ run' = [t \in Tasks |-> "none"]
    /\ UNCHANGED <<status, notified, origin>>

\* Mutant: the sweep finds cancelled tasks too.
Unannounced_Terminal == {t \in Tasks : status[t] \in Terminal /\ ~notified[t]}

Unannounced == {t \in Tasks : status[t] \in Announced /\ ~notified[t]}

\* Mutant: only failures are swept.
Batches_Failed ==
    {{t \in Unannounced : status[t] = "FAILED"}}

(* The rows that SELECT may return: SweepLimit of them, or all.            *)
Batches ==
    {S \in SUBSET Unannounced :
        \/ Cardinality(S) = SweepLimit
        \/ S = Unannounced /\ Cardinality(S) < SweepLimit}

\* Mutant: rows left RUNNING are taken for failed.
Recovered_Failed(st) == IF st = "RUNNING" THEN "FAILED" ELSE st

Recovered(st) == IF st = "RUNNING" THEN "PENDING" ELSE st

(* recover_stale_running, then the sweep's SELECT: the oldest SweepLimit.  *)
Restart ==
    /\ phase = "down" /\ phase' = "sweeping"
    /\ status' = [t \in Tasks |-> Recovered(status[t])]
    /\ todo' \in Batches
    /\ backlog' = <<Cardinality(Unannounced), 0>>
    /\ UNCHANGED <<notified, origin, run, noticeVars, inVars, jobVars, faults, owner,
                   silence>>

Sweeps(t) == NewNotice(t, status[t], "sweep")

SweepNext(t) ==
    /\ phase = "sweeping" /\ notices = {} /\ t \in todo
    /\ notices' = {Sweeps(t)}
    /\ todo' = todo \ {t}
    /\ UNCHANGED <<taskVars, keys, sent, inVars, jobVars, phase, backlog, faults, owner,
                   silence>>

SweepEnd ==
    /\ phase = "sweeping" /\ notices = {} /\ todo = {}
    /\ phase' = "up"
    /\ UNCHANGED <<taskVars, noticeVars, inVars, jobVars, todo, backlog, faults, owner,
                   silence>>
-----------------------------------------------------------------------------
Task(t) ==
    \/ Take(t) \/ CountStep(t) \/ Park(t)
    \/ \E st \in Announced : Finish(t, st)
    \/ TimeLimit(t) \/ Release(t) \/ Cancel(t) \/ Reply(t) \/ Abandon(t) \/ SweepNext(t)

Announce(n) == Look(n) \/ Mark(n) \/ Key(n) \/ Send(n) \/ NoticeFails(n)
Inbox(m) == Deliver(m) \/ MakeTask(m) \/ LeaveInInbox(m) \/ ReceiveFails(m)
Schedule == TickRead \/ TickCommit \/ TickFails \/ \E j \in Jobs : TimeComes(j) \/ DeleteJob(j)
Process == Stop \/ Exit \/ Crash \/ Restart \/ SweepEnd

Next ==
    \/ \E t \in Tasks : Task(t)
    \/ \E n \in notices : Announce(n)
    \/ \E m \in Messages : Inbox(m)
    \/ Ask \/ Schedule \/ Process

Spec == Init /\ [][Next]_vars
-----------------------------------------------------------------------------
Origins ==
    {Nothing} \cup [by : {"owner"}, of : {"chat"}, n : Nat]
        \cup [by : {"message"}, of : Messages, n : {0}] \cup [by : {"job"}, of : Jobs, n : Nat]

TypeOK ==
    /\ status \in [Tasks -> Status \cup {Absent}]
    /\ notified \in [Tasks -> BOOLEAN]
    /\ origin \in [Tasks -> Origins]
    /\ run \in [Tasks -> {"none", "running", "reporting", "limit"}]
    /\ notices \subseteq Notice /\ keys \subseteq Announced \X Tasks
    /\ inbound \in [Messages -> {"new", "stored", "handled"}]
    /\ wanted \subseteq Messages /\ receiving \subseteq Messages /\ dropped \subseteq Messages
    /\ job \in [Jobs -> Job] /\ tick \in [Jobs -> Nat \cup {NotRead}]
    /\ phase \in {"up", "stopping", "down", "sweeping"} /\ todo \subseteq Tasks
    /\ faults \in 0..MaxFaults /\ owner \in 0..MaxOwner
    /\ sent \in [Tasks -> [Announced -> Nat]]
    /\ owed \in [Tasks -> Announced \cup {"none"}]
    /\ excused \subseteq Tasks /\ overtaken \subseteq Tasks
    /\ backlog \in Nat \X Nat

(* "Every notification is idempotency-guarded so a restart cannot double-   *)
(* notify": no end is announced twice, whoever announces it - the run, the  *)
(* time limit or the sweep - and however often the task ends.               *)
ToldOnce == \A t \in Tasks, e \in Announced : sent[t][e] <= 1

(* "A finished task always reaches the owner" - unless the message failed   *)
(* or was cut off after the task was marked, the task had been marked at an *)
(* earlier end, or the time limit overtook its report.  Otherwise it has    *)
(* been announced, is being, or is still unmarked for the next sweep.       *)
SilenceHasCause ==
    \A t \in Tasks :
        status[t] \in Announced /\ owed[t] # "none" /\ notified[t] =>
            t \in excused \/ \E n \in notices : n.task = t

(* The owner is told that a task completed and that it failed only if the   *)
(* time limit caught it while it reported.                                  *)
NoContradiction ==
    \A t \in Tasks : sent[t]["COMPLETED"] > 0 /\ sent[t]["FAILED"] > 0 => t \in overtaken

(* A message makes at most one task, however often it is delivered, and     *)
(* none only while its handler is at work or after it was cut off.          *)
OneTaskPerMessage ==
    \A m \in Messages :
        /\ \A t, u \in Tasks :
              origin[t] = From("message", m, 0) /\ origin[u] = origin[t] => t = u
        /\ m \in wanted /\ inbound[m] # "new" =>
              \/ \E t \in Tasks : origin[t] = From("message", m, 0)
              \/ m \in receiving \cup dropped

(* A job runs at most max_runs times, nor is a tick about to run it once    *)
(* more, and each run has one task: through failing ticks, restarts and a   *)
(* deletion under the tick.                                                 *)
RunsAreCounted ==
    /\ \A j \in Read : MaxRuns[j] # NoLimit => tick[j] < MaxRuns[j]
    /\ \A t, u \in Tasks :
          origin[t].by = "job" =>
              /\ MaxRuns[origin[t].of] # NoLimit => origin[t].n <= MaxRuns[origin[t].of]
              /\ origin[u] = origin[t] => t = u

(* When a start is over, no end is left unannounced but those beyond the    *)
(* sweep's limit and those whose handler failed.                            *)
SweepIsThorough ==
    [][phase = "sweeping" /\ phase' = "up" =>
          \/ Cardinality(Unannounced) <= backlog[2]
          \/ Cardinality(Unannounced) <= backlog[1] - SweepLimit + backlog[2]]_vars

Protocol == INSTANCE TaskProtocol WITH
    Workers <- {"loop"},
    status <- [t \in Tasks |-> IF status[t] = Absent THEN "PENDING" ELSE status[t]],
    holders <- [t \in Tasks |-> IF run[t] = "none" THEN {} ELSE {"loop"}],
    loose <- {}

(* What this module lets a run, the owner and the process do to a task is   *)
(* what the store's protocol allows - as is what TaskLifecycle does.        *)
FollowsProtocol == Protocol!Spec
=============================================================================
