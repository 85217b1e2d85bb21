---------------------------- MODULE Conversation ----------------------------
(***************************************************************************)
(* One chat and the tasks it is about: routing a message to an answer, a   *)
(* new task, the running task or a continuation of a finished one          *)
(* (src/app/agent/conversation.py), /reply and uploads                     *)
(* (src/app/telegram/bot.py, src/app/api.py), the chat_sessions row        *)
(* (src/app/db/repo.py), and a run as far as it reads the request and      *)
(* releases the session (src/app/agent/engine.py).                         *)
(*                                                                         *)
(* Telegram's updates and the dashboard's requests are handled at the same *)
(* time, and the database isolates transactions no further than READ       *)
(* COMMITTED.  So an action is a transaction, or one half of a transaction *)
(* that writes back what it read, and between the snapshot and what is     *)
(* made of it there may be minutes of waiting for a model.                 *)
(***************************************************************************)
EXTENDS Naturals

CONSTANTS
    Tasks, Messages, Uploads,
    Threads,   \* ids of threads; a fresh one is one that no message is in
    Home,      \* the thread the chat is in at first
    MaxEvents, \* bound on what the owner does beside messages, and on faults
    None

ASSUME ConversationAssumption ==
    /\ Home \in Threads
    /\ MaxEvents \in Nat
    /\ None \notin Tasks \cup Messages \cup Uploads

VARIABLES
    session,   \* active_task_id, context["pending_upload"] and current_thread_id
    status,    \* of each row in tasks
    request,   \* messages that user_request is made of
    maker,     \* the message that made the task
    parent,    \* parent_task_id
    run,       \* how far a run of the task is
    seen,      \* user_request as the run read it last
    desk,      \* how far each message is handled
    takers,    \* of each upload: tasks it is attached to
    events,    \* counts what MaxEvents bounds
    \* History: read by properties only.
    told,       \* the task that the owner was told the message was added to
    unread,     \* messages added to a task since its run last read user_request
    overlapped, \* messages added while another was about to be added as well
    uploaded,   \* files the owner has sent
    forgone,    \* uploads replaced, cleared, left behind in a thread, or sent
                \* while a message that takes an upload was handled
    shared,     \* uploads that were taken while another message had them, too
    overtaken,  \* messages during whose handling the thread changed
    newest,     \* the task the chat made last
    parted,     \* tasks the chat has ceased to be about
    forked      \* tasks that two messages were about to continue at a time

rows == <<status, request, maker, parent>>
runs == <<run, seen>>
noteHistory == <<told, unread, overlapped>>
uploadHistory == <<uploaded, forgone, shared>>
chatHistory == <<overtaken, newest, parted, forked>>
vars == <<session, rows, runs, desk, takers, events, noteHistory, uploadHistory, chatHistory>>

Terminal == {"COMPLETED", "FAILED", "CANCELLED"}
Absent == "absent"   \* no such row
Status == {Absent, "PENDING", "RUNNING", "WAITING_FOR_USER"} \cup Terminal

\* A message: the snapshot's thread, its active task (or the task of a reply),
\* its pending upload; then what a transaction has read and will write back.
Desk == [pc : {"unsent", "deciding", "adding", "continuing", "creating", "replying", "done"},
         thread : Threads, task : Tasks \cup {None}, upload : Uploads \cup {None},
         request : SUBSET Messages, context : Uploads \cup {None}]
Unsent == [pc |-> "unsent", thread |-> Home, task |-> None, upload |-> None,
           request |-> {}, context |-> None]

\* What a run does, and when it ends: as what, and whether the chat is about it.
Run == [pc : {"none", "reading", "deciding", "ending"}, outcome : {"none", "COMPLETED", "FAILED"},
        active : BOOLEAN]
NoRun == [pc |-> "none", outcome |-> "none", active |-> FALSE]

Init ==
    /\ session = [active |-> None, upload |-> None, thread |-> Home]
    /\ status = [t \in Tasks |-> Absent]
    /\ request = [t \in Tasks |-> {}]
    /\ maker = [t \in Tasks |-> None]
    /\ parent = [t \in Tasks |-> None]
    /\ run = [t \in Tasks |-> NoRun]
    /\ seen = [t \in Tasks |-> {}]
    /\ desk = [m \in Messages |-> Unsent]
    /\ takers = [u \in Uploads |-> {}]
    /\ events = 0
    /\ told = [m \in Messages |-> None]
    /\ unread = [t \in Tasks |-> {}]
    /\ overlapped = {}
    /\ uploaded = {} /\ forgone = {} /\ shared = {}
    /\ overtaken = {} /\ newest = None /\ parted = {} /\ forked = {}

Event == events < MaxEvents /\ events' = events + 1
Open(m) == desk[m].pc \notin {"unsent", "done"}
At(m, pc) == desk[m].pc = pc
Others(m) == {n \in Messages \ {m} : Open(n)}
Finished == [Unsent EXCEPT !.pc = "done"]
Done(m) == desk' = [desk EXCEPT ![m] = Finished]
-----------------------------------------------------------------------------
(* A message is routed: handle_message.                                     *)

(* What the session says is read once, before the model is asked.           *)
Snapshot(m) ==
    /\ At(m, "unsent")
    /\ desk' = [desk EXCEPT ![m] =
           [Unsent EXCEPT !.pc = "deciding", !.thread = session.thread,
                          !.task = session.active, !.upload = session.upload]]
    /\ UNCHANGED <<events, session, rows, runs, takers, noteHistory, uploadHistory, chatHistory>>

(* CHAT or CONTROL: answered, and nothing of what is modelled changes.      *)
Answer(m) ==
    /\ At(m, "deciding")
    /\ Done(m)
    /\ UNCHANGED <<events, session, rows, runs, takers, noteHistory, uploadHistory, chatHistory>>

(* FOLLOW_UP: only if the snapshot had an active task, and to that task.    *)
FollowUp(m) ==
    LET t == desk[m].task IN
    /\ At(m, "deciding") /\ t # None
    /\ desk' = [desk EXCEPT ![m] =
           IF status[t] \in Terminal
           THEN [@ EXCEPT !.pc = "continuing", !.upload = None]
           ELSE [@ EXCEPT !.pc = "adding", !.upload = None, !.request = request[t]]]
    /\ UNCHANGED <<events, session, rows, runs, takers, noteHistory, uploadHistory, chatHistory>>

\* Mutant: the message replaces what the owner has asked for so far.
Appended_Replaces(m) == {m}

(* user_request as it was read, and the message after it.                   *)
Appended(m) == desk[m].request \cup {m}

\* A message added to t while another is about to be.
Overlapped(m, t) == \E n \in Others(m) : desk[n].task = t /\ desk[n].pc \in {"adding", "replying"}

AddTo(t, m) ==
    /\ request' = [request EXCEPT ![t] = Appended(m)]
    /\ told' = [told EXCEPT ![m] = t]
    /\ unread' = [unread EXCEPT ![t] = @ \cup {m}]
    /\ overlapped' = IF Overlapped(m, t) THEN overlapped \cup {m} ELSE overlapped
    /\ UNCHANGED <<maker, parent>>

(* "Added to the running job", whatever the job has done since it was read. *)
Add(m) ==
    /\ At(m, "adding")
    /\ AddTo(desk[m].task, m)
    /\ Done(m)
    /\ UNCHANGED <<events, session, status, runs, takers, uploadHistory, chatHistory>>

\* The task that a message makes, in the transaction that makes the chat
\* follow it.
Make(t, m, from) ==
    /\ status[t] = Absent
    /\ status' = [status EXCEPT ![t] = "PENDING"]
    /\ request' = [request EXCEPT ![t] = {m}]
    /\ maker' = [maker EXCEPT ![t] = m]
    /\ parent' = [parent EXCEPT ![t] = from]
    /\ desk' = [desk EXCEPT ![m] = [Finished EXCEPT !.thread = desk[m].thread]]
    /\ newest' = t
    /\ parted' = IF \E s \in Tasks : run[s].pc = "ending" /\ run[s].active
                 THEN parted \cup {t} ELSE parted
    /\ UNCHANGED <<runs, noteHistory, uploaded, forgone, overtaken>>

\* Mutant: a continuation of a continuation names the first of them.
Origin_First(m) == LET t == desk[m].task IN IF parent[t] = None THEN t ELSE parent[t]

(* The task that a message continues.                                       *)
Origin(m) == desk[m].task

(* "Continuing from the last job": a task that names it as its parent.      *)
Continue(m, t) ==
    /\ At(m, "continuing")
    /\ Make(t, m, Origin(m))
    /\ session' = [session EXCEPT !.active = t]
    /\ forked' = IF \E n \in Others(m) : desk[n].task = desk[m].task
                                         /\ desk[n].pc \in {"deciding", "continuing"}
                 THEN forked \cup {desk[m].task} ELSE forked
    /\ UNCHANGED <<events, takers, shared>>

\* Mutants: the upload is dropped whether or not the message takes it; or kept.
Remaining_Dropped(m) == None
Remaining_Kept(m) == session.upload

(* The session's context without the upload, if the snapshot had one.       *)
Remaining(m) == IF desk[m].upload # None THEN None ELSE session.upload

(* TASK: the context is read...                                             *)
NewTask(m) ==
    /\ At(m, "deciding")
    /\ desk' = [desk EXCEPT ![m].pc = "creating", ![m].task = None,
                            ![m].context = Remaining(m)]
    /\ UNCHANGED <<events, session, rows, runs, takers, noteHistory, uploadHistory, chatHistory>>

\* A file is attached to t; two tasks may get it only if another message has it.
Attach(u, t, m) ==
    /\ takers' = [v \in Uploads |-> IF v = u THEN takers[v] \cup {t} ELSE takers[v]]
    /\ shared' = IF \E n \in Others(m) : u \in {desk[n].upload, desk[n].context}
                 THEN shared \cup ({u} \ {None}) ELSE shared

(* ... and written back.                                                    *)
Create(m, t) ==
    /\ At(m, "creating")
    /\ Make(t, m, None)
    /\ Attach(desk[m].upload, t, m)
    /\ session' = [session EXCEPT !.active = t, !.upload = desk[m].context]
    /\ UNCHANGED <<events, forked>>
-----------------------------------------------------------------------------
(* What else writes the session.                                            *)

(* /reply: the task and the session are read, then both written.  A run in  *)
(* progress goes on; that another run may start beside it is left to        *)
(* TaskLifecycle.                                                           *)
Reply(m, t) ==
    /\ At(m, "unsent") /\ status[t] # Absent
    /\ desk' = [desk EXCEPT ![m] =
           [Unsent EXCEPT !.pc = "replying", !.task = t,
                          !.upload = session.upload, !.request = request[t]]]
    /\ UNCHANGED <<events, session, rows, runs, takers, noteHistory, uploadHistory, chatHistory>>

Resumed(m) ==
    LET t == desk[m].task IN
    /\ At(m, "replying")
    /\ AddTo(t, m)
    /\ status' = [status EXCEPT ![t] = "PENDING"]
    /\ Attach(desk[m].upload, t, m)
    /\ session' = IF desk[m].upload # None THEN [session EXCEPT !.upload = None] ELSE session
    /\ Done(m)
    /\ UNCHANGED <<events, runs, uploaded, forgone, chatHistory>>

(* A file sent to the chat waits for the next instruction, in the place of  *)
(* one that waits already.                                                  *)
Upload(u) ==
    /\ Event
    /\ u \notin uploaded
    /\ uploaded' = uploaded \cup {u}
    /\ session' = [session EXCEPT !.upload = u]
    /\ forgone' = forgone \cup ({session.upload} \ {None})
           \cup IF \E m \in Messages : Open(m) /\ (desk[m].upload # None \/ At(m, "creating"))
                THEN {u} ELSE {}
    /\ UNCHANGED <<rows, runs, desk, takers, noteHistory, shared, chatHistory>>

ClearUpload ==
    /\ Event
    /\ session' = [session EXCEPT !.upload = None]
    /\ forgone' = forgone \cup ({session.upload} \ {None})
    /\ UNCHANGED <<rows, runs, desk, takers, noteHistory, uploaded, shared, chatHistory>>

\* Mutant: the active task goes along into the other thread.
Elsewhere_SameTask(th) == [session EXCEPT !.thread = th, !.upload = None]

(* repo.reset_session and switch_thread: a thread begins with no task and   *)
(* no upload.                                                               *)
Elsewhere(th) == [active |-> None, upload |-> None, thread |-> th]

(* /new, /history <id>, their requests of the dashboard, the OTP thread.    *)
ChangeThread(th) ==
    /\ Event
    /\ session' = Elsewhere(th)
    /\ forgone' = forgone \cup ({session.upload} \ {None})
    /\ parted' = parted \cup ({session.active} \ {None})
    /\ overtaken' = overtaken \cup {m \in Messages : Open(m) /\ desk[m].thread # th}
    /\ UNCHANGED <<rows, runs, desk, takers, noteHistory, uploaded, shared, newest, forked>>
-----------------------------------------------------------------------------
(* A task's run.                                                            *)

InRun(t, pc) == run[t].pc = pc
Goto(t, pc) == run' = [run EXCEPT ![t].pc = pc]
EndRun(t) == run' = [run EXCEPT ![t] = NoRun] /\ seen' = [seen EXCEPT ![t] = {}]
Becomes(t, st) == status' = [status EXCEPT ![t] = st]
runOnly == <<request, maker, parent, desk, takers, told, overlapped, uploadHistory,
             overtaken, newest, forked>>

Take(t) ==
    /\ status[t] = "PENDING" /\ InRun(t, "none")
    /\ Becomes(t, "RUNNING")
    /\ run' = [run EXCEPT ![t].pc = "reading"]
    /\ seen' = [seen EXCEPT ![t] = {}]
    /\ UNCHANGED <<events, runOnly, session, unread, parted>>

\* Mutant: the request is read when the run begins, and not again.
ReadAgain_Once(t) == IF seen[t] = {} THEN request[t] ELSE seen[t]

(* The snapshot of the task that a step of the loop decides on.             *)
ReadAgain(t) == request[t]

Read(t) ==
    /\ InRun(t, "reading") /\ status[t] \notin Terminal
    /\ seen' = [seen EXCEPT ![t] = ReadAgain(t)]
    /\ unread' = [unread EXCEPT ![t] = {}]
    /\ Becomes(t, "RUNNING")
    /\ Goto(t, "deciding")
    /\ UNCHANGED <<events, runOnly, session, parted>>

FindTerminal(t) ==
    /\ InRun(t, "reading") /\ status[t] \in Terminal
    /\ EndRun(t)
    /\ UNCHANGED <<events, runOnly, session, status, unread, parted>>

\* A tool ran, or the check refused the answer.
NextStep(t) ==
    /\ InRun(t, "deciding")
    /\ Goto(t, "reading")
    /\ UNCHANGED <<events, runOnly, session, status, seen, unread, parted>>

(* ask_user, or a tool that needs an approval.                              *)
Wait(t) ==
    /\ InRun(t, "deciding")
    /\ Becomes(t, "WAITING_FOR_USER")
    /\ EndRun(t)
    /\ UNCHANGED <<events, runOnly, session, unread, parted>>

(* _complete and _fail look whether the chat is about the task...           *)
End(t, outcome) ==
    /\ InRun(t, "deciding") \/ (InRun(t, "reading") /\ outcome = "FAILED")
    /\ run' = [run EXCEPT ![t] =
           [pc |-> "ending", outcome |-> outcome, active |-> session.active = t]]
    /\ UNCHANGED <<events, runOnly, session, status, seen, unread, parted>>

\* Mutant: whatever the chat is about.
Releases_Any(t) == TRUE

Releases(t) == run[t].active

(* ... and then it is about none.                                           *)
Ended(t) ==
    /\ InRun(t, "ending")
    /\ Becomes(t, run[t].outcome)
    /\ session' = IF Releases(t) THEN [session EXCEPT !.active = None] ELSE session
    /\ parted' = IF run[t].active THEN parted \cup {t} ELSE parted
    /\ run' = [run EXCEPT ![t] = NoRun]
    /\ UNCHANGED <<events, runOnly, seen, unread>>

(* An LLM that does not answer, a stop, or a crash and the recovery.        *)
Requeue(t) ==
    /\ Event
    /\ ~InRun(t, "none")
    /\ Becomes(t, "PENDING")
    /\ EndRun(t)
    /\ UNCHANGED <<runOnly, session, unread, parted>>

\* Mutant: a status of its own.
TimeLimit_Own(t) ==
    /\ Event
    /\ ~InRun(t, "none")
    /\ Becomes(t, "TIMED_OUT")
    /\ EndRun(t)
    /\ UNCHANGED <<runOnly, session, unread, parted>>

(* The global timeout fails the task, and the chat goes on to be about it.  *)
TimeLimit(t) ==
    /\ Event
    /\ ~InRun(t, "none")
    /\ Becomes(t, "FAILED")
    /\ EndRun(t)
    /\ UNCHANGED <<runOnly, session, unread, parted>>

(* So does /cancel.                                                         *)
Cancel(t) ==
    /\ Event
    /\ status[t] \notin Terminal \cup {Absent}
    /\ Becomes(t, "CANCELLED")
    /\ UNCHANGED <<runOnly, session, runs, unread, parted>>

(* The approval it waits for is decided.                                   *)
Resume(t) ==
    /\ Event
    /\ status[t] = "WAITING_FOR_USER"
    /\ Becomes(t, "PENDING")
    /\ UNCHANGED <<runOnly, session, runs, unread, parted>>

(* A crash cuts off a message as well; what it had not committed is gone.   *)
CutOff(m) ==
    /\ Event
    /\ Open(m)
    /\ Done(m)
    /\ UNCHANGED <<session, rows, runs, takers, noteHistory, uploadHistory, chatHistory>>
-----------------------------------------------------------------------------
Handling(m) ==
    \/ Snapshot(m) \/ Answer(m) \/ FollowUp(m) \/ Add(m) \/ NewTask(m) \/ Resumed(m) \/ CutOff(m)
    \/ \E t \in Tasks : Continue(m, t) \/ Create(m, t) \/ Reply(m, t)

Running(t) ==
    \/ Take(t) \/ Read(t) \/ FindTerminal(t) \/ NextStep(t) \/ Wait(t) \/ Ended(t)
    \/ Requeue(t) \/ TimeLimit(t) \/ Cancel(t) \/ Resume(t)
    \/ \E outcome \in {"COMPLETED", "FAILED"} : End(t, outcome)

Next ==
    \/ \E m \in Messages : Handling(m)
    \/ \E t \in Tasks : Running(t)
    \/ \E u \in Uploads : Upload(u)
    \/ ClearUpload
    \/ \E th \in Threads : ChangeThread(th)

Spec == Init /\ [][Next]_vars
-----------------------------------------------------------------------------
Session == [active : Tasks \cup {None}, upload : Uploads \cup {None}, thread : Threads]

(* Every column and every step of a message or a run has a value of its     *)
(* own.                                                                     *)
TypeOK ==
    /\ session \in Session
    /\ status \in [Tasks -> Status]
    /\ request \in [Tasks -> SUBSET Messages]
    /\ maker \in [Tasks -> Messages \cup {None}]
    /\ parent \in [Tasks -> Tasks \cup {None}]
    /\ run \in [Tasks -> Run]
    /\ seen \in [Tasks -> SUBSET Messages]
    /\ desk \in [Messages -> Desk]
    /\ takers \in [Uploads -> SUBSET Tasks] /\ events \in Nat
    /\ told \in [Messages -> Tasks \cup {None}]
    /\ unread \in [Tasks -> SUBSET Messages]
    /\ overlapped \subseteq Messages /\ overtaken \subseteq Messages
    /\ uploaded \subseteq Uploads /\ forgone \subseteq Uploads /\ shared \subseteq Uploads
    /\ newest \in Tasks \cup {None}
    /\ parted \subseteq Tasks /\ forked \subseteq Tasks

(* A message that the owner was told was added to a task stays in the       *)
(* task's request, unless another was about to be added when it was.        *)
FollowUpKept ==
    \A m \in Messages :
        told[m] # None => m \in request[told[m]] \/ m \in overlapped

(* A task that answers has read all that was added to it, except what came  *)
(* after its last look at the request or was lost to an overlap.            *)
FollowUpHeeded ==
    \A m \in Messages, t \in Tasks :
        told[m] = t /\ status[t] = "COMPLETED" =>
            m \in seen[t] \/ m \in unread[t] \/ m \in overlapped

(* A file the owner sent waits for an instruction or is attached to a task, *)
(* unless he replaced, cleared or left it behind, or sent it while a        *)
(* message that takes an upload was being handled.                          *)
UploadNotLost ==
    \A u \in uploaded : session.upload = u \/ takers[u] # {} \/ u \in forgone

(* A file is attached to one task, unless two messages had it at a time.    *)
AttachedOnce ==
    \A u \in Uploads : \A s, t \in takers[u] : s = t \/ u \in shared

(* The task a thread is about was asked for in that thread, unless the      *)
(* thread changed while its message was handled.                            *)
ThreadsStaySeparate ==
    LET m == maker[session.active] IN
        session.active # None => desk[m].thread = session.thread \/ m \in overtaken

(* The chat is about the task it made last until that task ends or the      *)
(* thread changes, unless another task ended while it was made.             *)
NewTaskIsFollowed ==
    newest # None /\ newest \notin parted => session.active = newest

(* A finished task is continued once: a follow-up never duplicates a job,   *)
(* unless two were about to continue it at a time.                          *)
OneContinuation ==
    \A s, t \in Tasks :
        parent[s] = parent[t] /\ parent[s] # None => s = t \/ parent[s] \in forked
=============================================================================
