------------------------------ MODULE Executor ------------------------------
(***************************************************************************)
(* From a decision to an effect (app/agent/executor.py): the approval gate *)
(* for risky calls, the operations ledger that keeps a call from being     *)
(* performed twice, and the retries of Tool.run (app/tools/base.py);       *)
(* beside them the owner at two desks, the bot and the dashboard, who      *)
(* decides on requests and sets the autonomy level.                        *)
(*                                                                         *)
(* Every action is one database transaction or one attempt of a tool.  The *)
(* calls are those that pass the checks made before the gate: the tool     *)
(* exists, is permitted to the task and accepts the arguments; all of them *)
(* have side effects, as every risky tool has.                             *)
(***************************************************************************)
EXTENDS Autonomy, Sequences, FiniteSets

CONSTANTS
    Workers,        \* worker loops
    NoCall,         \* a worker that executes nothing
    RequestWindow,  \* LIMIT of the search for a decision (5)
    MaxAttempts,    \* Tool.max_retries + 1
    MaxRequests,    \* bound: approval requests
    MaxOwnerOps,    \* bound: owner commands
    MaxFaults       \* bound: attempts that take effect and are reported failed,
                    \* runs cut off, and crashes of the process

ASSUME ExecutorAssumption ==
    /\ NoCall \notin Calls
    /\ {RequestWindow, MaxAttempts, MaxRequests} \subseteq Nat \ {0}
    /\ {MaxOwnerOps, MaxFaults} \subseteq Nat

Desks == {"bot", "api"}

VARIABLES
    requests,   \* the approvals table, in order of created_at
    pattern,    \* approval_patterns, per shape
    ledger,     \* the operations table: calls recorded as performed
    waiting,    \* tasks parked until the owner resumes them
    level,      \* the autonomy level: in memory, and as the owner stored it
    pc,         \* where each worker is in Executor.execute
    cur,        \* the call it executes, or NoCall
    tries,      \* attempts Tool.run has made
    desk,       \* the decision each desk is about to carry out
    budget,     \* what is left of the bounds
    effects,    \* history: how often each call took effect
    excused,    \* history: effects that could not be recorded
    granted,    \* history: calls the owner has approved
    yes,        \* history: approving commands, per shape
    unlearned,  \* history: shapes whose refusal was lost or forgotten
    levels      \* history: autonomy levels that were in force

db      == <<requests, pattern, ledger, waiting>>
run     == <<pc, cur, tries>>
history == <<effects, excused, granted, yes, unlearned, levels>>
vars    == <<db, level, run, desk, budget, history>>

RequestStatus == {"PENDING", "APPROVED", "REJECTED", "EXPIRED"}
Request == [call : Calls, status : RequestStatus, late : BOOLEAN]

FreeDesk == [at |-> "free"]

Spend(what) ==
    /\ budget[what] > 0
    /\ budget' = [budget EXCEPT ![what] = @ - 1]

Goto(w, place) == pc' = [pc EXCEPT ![w] = place] /\ UNCHANGED <<cur, tries>>
Finish(w) ==
    /\ pc' = [pc EXCEPT ![w] = "idle"]
    /\ cur' = [cur EXCEPT ![w] = NoCall]
    /\ tries' = [tries EXCEPT ![w] = 0]

Init ==
    /\ requests = <<>>
    /\ pattern = [s \in Shapes |-> NewPattern]
    /\ ledger = {}
    /\ waiting = {}
    /\ level = [live |-> DefaultLevel, stored |-> "unset"]
    /\ pc = [w \in Workers |-> "idle"]
    /\ cur = [w \in Workers |-> NoCall]
    /\ tries = [w \in Workers |-> 0]
    /\ desk = [d \in Desks |-> FreeDesk]
    /\ budget = [owner |-> MaxOwnerOps, fault |-> MaxFaults]
    /\ effects = [c \in Calls |-> 0]
    /\ excused = [c \in Calls |-> 0]
    /\ granted = {}
    /\ yes = [s \in Shapes |-> 0]
    /\ unlearned = {}
    /\ levels = {DefaultLevel}
-----------------------------------------------------------------------------
(* The approval gate.                                                       *)

\* Faulty variant: a task that another worker runs is run again.
Start_TaskTwice(w, c) ==
    /\ pc[w] = "idle"
    /\ c.task \notin waiting
    /\ pc' = [pc EXCEPT ![w] = IF c.gated THEN "judge" ELSE "lookup"]
    /\ cur' = [cur EXCEPT ![w] = c]
    /\ UNCHANGED <<db, level, tries, desk, budget, history>>

\* The engine decides on a call of a task no other worker runs.
Start(w, c) ==
    /\ pc[w] = "idle"
    /\ c.task \notin waiting
    /\ \A v \in Workers : cur[v] # NoCall => cur[v].task # c.task
    /\ pc' = [pc EXCEPT ![w] = IF c.gated THEN "judge" ELSE "lookup"]
    /\ cur' = [cur EXCEPT ![w] = c]
    /\ UNCHANGED <<db, level, tries, desk, budget, history>>

Judge(w) ==
    /\ pc[w] = "judge"
    /\ Goto(w, IF MayAct(cur[w], level.live, pattern[cur[w].shape])
               THEN "lookup" ELSE "look")
    /\ UNCHANGED <<db, level, desk, budget, history>>

Same(r, c)     == r.call.task = c.task /\ r.call.tool = c.tool
Indices        == 1..Len(requests)

\* The task's newest undecided request is for this tool, whatever its args.
Undecided(c) ==
    \E i \in Indices :
        /\ requests[i].status = "PENDING" /\ Same(requests[i], c)
        /\ \A j \in Indices : j > i =>
            ~(requests[j].status = "PENDING" /\ requests[j].call.task = c.task)

\* Faulty variant: any request of the tool answers for the call.
Answers_ToolOnly(r, c) == Same(r, c)

Answers(r, c) == r.call = c

\* Of the tool's newest requests the newest that is decided and is for c.
Decided(c, status) ==
    \E i \in Indices :
        /\ requests[i].status = status /\ Answers(requests[i], c)
        /\ Cardinality({j \in Indices : j > i /\ Same(requests[j], c)})
                < RequestWindow
        /\ \A j \in Indices :
            j > i /\ Answers(requests[j], c)
                => requests[j].status \notin {"APPROVED", "REJECTED"}

\* _approval_state finds a decision, or a request that still waits for one.
Look(w) ==
    /\ pc[w] = "look"
    /\ LET c == cur[w] IN
        \/ /\ Undecided(c)
           /\ waiting' = waiting \cup {c.task}
           /\ Finish(w)
        \/ /\ ~Undecided(c) /\ Decided(c, "APPROVED")
           /\ Goto(w, "lookup") /\ UNCHANGED waiting
        \/ /\ ~Undecided(c) /\ Decided(c, "REJECTED")
           /\ Finish(w) /\ UNCHANGED waiting
        \/ /\ ~Undecided(c)
           /\ ~Decided(c, "APPROVED") /\ ~Decided(c, "REJECTED")
           /\ Goto(w, "ask") /\ UNCHANGED waiting
    /\ UNCHANGED <<requests, pattern, ledger, level, desk, budget, history>>

\* It finds neither: it asks, and the task waits.
Ask(w) ==
    /\ pc[w] = "ask"
    /\ Len(requests) < MaxRequests
    /\ requests' = Append(requests,
            [call |-> cur[w], status |-> "PENDING", late |-> FALSE])
    /\ waiting' = waiting \cup {cur[w].task}
    /\ Finish(w)
    /\ UNCHANGED <<pattern, ledger, level, desk, budget, history>>
-----------------------------------------------------------------------------
(* The ledger and the tool.                                                 *)

\* Faulty variant: the ledger is not consulted.
Performed_Never(c) == FALSE

Performed(c) == c \in ledger

\* A recorded call is answered from the ledger.
Lookup(w) ==
    /\ pc[w] = "lookup"
    /\ IF Performed(cur[w]) THEN Finish(w) ELSE Goto(w, "act")
    /\ UNCHANGED <<db, level, desk, budget, history>>

Takes(c) == effects' = [effects EXCEPT ![c] = @ + 1]
Excuse(cs) ==
    excused' = [c \in Calls |-> IF c \in cs THEN excused[c] + 1 ELSE excused[c]]

Act(w) ==
    /\ pc[w] = "act"
    /\ Takes(cur[w])
    /\ Goto(w, "record")
    /\ UNCHANGED <<db, level, desk, budget>>
    /\ UNCHANGED <<excused, granted, yes, unlearned, levels>>

\* Faulty variant: one attempt too many.
TryAgain_OneMore(w) ==
    IF tries[w] < MaxAttempts
    THEN tries' = [tries EXCEPT ![w] = @ + 1] /\ UNCHANGED <<pc, cur>>
    ELSE Finish(w)

\* An attempt fails: a temporary failure is tried again.
TryAgain(w) ==
    IF tries[w] + 1 < MaxAttempts
    THEN tries' = [tries EXCEPT ![w] = @ + 1] /\ UNCHANGED <<pc, cur>>
    ELSE Finish(w)

Fail(w) ==
    /\ pc[w] = "act"
    /\ TryAgain(w) \/ Finish(w)
    /\ UNCHANGED <<db, level, desk, budget, history>>

\* It fails after it took effect: it timed out, or its result was not
\* accepted.
Slip(w) ==
    /\ pc[w] = "act"
    /\ Spend("fault")
    /\ Takes(cur[w]) /\ Excuse({cur[w]})
    /\ TryAgain(w) \/ Finish(w)
    /\ UNCHANGED <<db, level, desk>>
    /\ UNCHANGED <<granted, yes, unlearned, levels>>

Record(w) ==
    /\ pc[w] = "record"
    /\ ledger' = ledger \cup {cur[w]}
    /\ Finish(w)
    /\ UNCHANGED <<requests, pattern, waiting, level, desk, budget, history>>

Unrecorded(ws) == {cur[w] : w \in {v \in ws : pc[v] = "record"}}

\* The run is cut off: its time limit, a stop, an error of the database.
Cut(w) ==
    /\ pc[w] # "idle"
    /\ Spend("fault")
    /\ Excuse(Unrecorded({w}))
    /\ Finish(w)
    /\ UNCHANGED <<db, level, desk>>
    /\ UNCHANGED <<effects, granted, yes, unlearned, levels>>
-----------------------------------------------------------------------------
(* The owner at a desk: /approve and /reject, or the dashboard's form.      *)

\* repo.decide_approval reads the request ...
ReadRequest(d, i, approve) ==
    /\ desk[d] = FreeDesk
    /\ Spend("owner")
    /\ desk' = [desk EXCEPT ![d] =
            [at |-> "write", request |-> i, approve |-> approve,
             seen |-> requests[i].status, found |-> NewPattern]]
    /\ UNCHANGED <<db, level, run, history>>

Outcome(r, approve) ==
    IF r.late THEN "EXPIRED" ELSE IF approve THEN "APPROVED" ELSE "REJECTED"

\* ... and writes its status, whatever it has become since, if it was
\* undecided when read.  The bot resumes the task unless the request has
\* expired, the dashboard in any case.
Decide(d) ==
    /\ desk[d].at = "write"
    /\ LET i == desk[d].request
           r == requests[i]
           s == IF desk[d].seen = "PENDING" THEN Outcome(r, desk[d].approve)
                                            ELSE desk[d].seen
       IN  /\ requests' = IF desk[d].seen = "PENDING"
                          THEN [requests EXCEPT ![i].status = s]
                          ELSE requests
           /\ waiting' = IF d = "api" \/ s # "EXPIRED"
                         THEN waiting \ {r.call.task} ELSE waiting
           /\ granted' = IF s = "APPROVED" THEN granted \cup {r.call} ELSE granted
           /\ yes' = IF desk[d].approve
                     THEN [yes EXCEPT ![r.call.shape] = @ + 1] ELSE yes
    /\ desk' = [desk EXCEPT ![d] = [@ EXCEPT !.at = "recall"]]
    /\ UNCHANGED <<pattern, ledger, level, run, budget>>
    /\ UNCHANGED <<effects, excused, unlearned, levels>>

Shape(d) == requests[desk[d].request].call.shape

\* autonomy.remember_decision, also when the request had been decided before
\* or had expired, reads the row of the shape in a transaction of its own ...
Recall(d) ==
    /\ desk[d].at = "recall"
    /\ desk' = [desk EXCEPT ![d] = [@ EXCEPT !.at = "learn",
                                            !.found = pattern[Shape(d)]]]
    /\ UNCHANGED <<db, level, run, budget, history>>

\* ... and writes it.  Of two desks that find none and insert one, the second
\* fails, and its lesson is lost.
Learn(d) ==
    /\ desk[d].at = "learn"
    /\ LET s == Shape(d) IN
        \/ /\ desk[d].found # NewPattern \/ pattern[s] = NewPattern
           /\ pattern' = [pattern EXCEPT
                    ![s] = Recorded(desk[d].found, @, desk[d].approve)]
           /\ UNCHANGED unlearned
        \/ /\ desk[d].found = NewPattern /\ pattern[s] # NewPattern
           /\ unlearned' = IF desk[d].approve THEN unlearned
                                              ELSE unlearned \cup {s}
           /\ UNCHANGED pattern
    /\ desk' = [desk EXCEPT ![d] = FreeDesk]
    /\ UNCHANGED <<requests, ledger, waiting, level, run, budget>>
    /\ UNCHANGED <<effects, excused, granted, yes, levels>>

Overdue(i) ==
    /\ requests[i].status = "PENDING" /\ ~requests[i].late
    /\ requests' = [requests EXCEPT ![i].late = TRUE]
    /\ UNCHANGED <<pattern, ledger, waiting, level, run, desk, budget, history>>

\* /reply resumes a task without a decision.
Reply(t) ==
    /\ t \in waiting
    /\ Spend("owner")
    /\ waiting' = waiting \ {t}
    /\ UNCHANGED <<requests, pattern, ledger, level, run, desk, history>>

Learning(s) ==
    {d \in Desks : desk[d].at \in {"recall", "learn"} /\ Shape(d) = s}

\* /forgetrule deletes the row: a desk that has found it fails to write it.
Forget(s) ==
    /\ pattern[s] # NewPattern
    /\ Spend("owner")
    /\ pattern' = [pattern EXCEPT ![s] = NewPattern]
    /\ unlearned' = unlearned \cup {s}
    /\ desk' = [d \in Desks |->
            IF d \in Learning(s) /\ desk[d].found # NewPattern
            THEN FreeDesk ELSE desk[d]]
    /\ UNCHANGED <<requests, ledger, waiting, level, run>>
    /\ UNCHANGED <<effects, excused, granted, yes, levels>>

\* /autonomy, and the dashboard's form for it.
SetLevel(l) ==
    /\ Spend("owner")
    /\ level' = [live |-> l, stored |-> l]
    /\ levels' = levels \cup {l}
    /\ UNCHANGED <<db, run, desk>>
    /\ UNCHANGED <<effects, excused, granted, yes, unlearned>>

\* repo.get_setting returns only what was stored as an object; the level is
\* stored as a bare text, so nothing comes back.
GetSetting(stored) == "unset"

\* Application._restore_runtime_settings
RestoredLevel(stored) ==
    IF GetSetting(stored) \in Levels THEN GetSetting(stored) ELSE DefaultLevel

\* The process dies and starts again.
Crash ==
    /\ Spend("fault")
    /\ Excuse(Unrecorded(Workers))
    /\ pc' = [w \in Workers |-> "idle"]
    /\ cur' = [w \in Workers |-> NoCall]
    /\ tries' = [w \in Workers |-> 0]
    /\ desk' = [d \in Desks |-> FreeDesk]
    /\ unlearned' = unlearned \cup
            {s \in Shapes : \E d \in Learning(s) : ~desk[d].approve}
    /\ level' = [level EXCEPT !.live = RestoredLevel(level.stored)]
    /\ levels' = levels \cup {RestoredLevel(level.stored)}
    /\ UNCHANGED <<db, effects, granted, yes>>
-----------------------------------------------------------------------------
Execute(w) ==
    \/ \E c \in Calls : Start(w, c)
    \/ Judge(w) \/ Look(w) \/ Ask(w)
    \/ Lookup(w) \/ Act(w) \/ Fail(w) \/ Slip(w) \/ Record(w) \/ Cut(w)

AtDesk(d) ==
    \/ \E i \in Indices, approve \in BOOLEAN : ReadRequest(d, i, approve)
    \/ Decide(d) \/ Recall(d) \/ Learn(d)

Next ==
    \/ \E w \in Workers : Execute(w)
    \/ \E d \in Desks : AtDesk(d)
    \/ \E i \in Indices : Overdue(i)
    \/ \E t \in Tasks : Reply(t)
    \/ \E s \in Shapes : Forget(s)
    \/ \E l \in Levels : SetLevel(l)
    \/ Crash

Spec == Init /\ [][Next]_vars
-----------------------------------------------------------------------------
(* Properties.                                                              *)

TypeOK ==
    /\ requests \in Seq(Request)
    /\ pattern \in [Shapes -> Pattern]
    /\ ledger \subseteq Calls
    /\ waiting \subseteq Tasks
    /\ level \in [live : Levels, stored : Levels \cup {"unset"}]
    /\ pc \in [Workers ->
            {"idle", "judge", "look", "ask", "lookup", "act", "record"}]
    /\ cur \in [Workers -> Calls \cup {NoCall}]
    /\ tries \in [Workers -> 0..MaxAttempts - 1]
    /\ desk \in [Desks -> {FreeDesk} \cup
            [at : {"write", "recall", "learn"}, request : Nat,
             approve : BOOLEAN, seen : RequestStatus, found : Pattern]]
    /\ \A d \in Desks : desk[d] # FreeDesk => desk[d].request \in Indices
    /\ budget \in [{"owner", "fault"} -> Nat]
    /\ {effects, excused} \subseteq [Calls -> Nat]
    /\ granted \subseteq Calls
    /\ yes \in [Shapes -> Nat]
    /\ unlearned \subseteq Shapes
    /\ levels \subseteq Levels

\* What may let a risky call through: its own approval, or, outside protected
\* places, the owner's words, scratch space, a level that does not ask, or
\* enough approving commands for its shape.
Licensed(c) ==
    \/ c \in granted
    \/ /\ c.place # "protected"
       /\ \/ c.named \/ c.place = "scratch" \/ "high" \in levels
          \/ yes[c.shape] >= AutoApproveAfter

\* No risky call takes effect without a licence: an answer meant for other
\* arguments, another task or another tool never lets it through.
NoUnlicensedEffect ==
    \A c \in Calls : c.gated /\ effects[c] > 0 => Licensed(c)

\* A call takes effect again only when a run was cut off between the effect
\* and its record, or an attempt failed after it had taken effect.
RepeatsAreExcused == \A c \in Calls : effects[c] <= 1 + excused[c]

\* A refusal that stands makes its shape ask again once it is learned, unless
\* the lesson was lost, in a crash or to a desk that was learning the first
\* decision about the shape at the same time, or the owner had it forgotten.
RefusalIsLearned ==
    \A i \in Indices :
        LET s == requests[i].call.shape IN
        /\ requests[i].status = "REJECTED" /\ s \notin unlearned
        /\ Learning(s) = {}
        => ~Trusted(pattern[s])

\* The executor as the owner is to see it.
Gate ==
    INSTANCE EffectGate WITH
        done <- ledger,
        open <- Unrecorded(Workers)

\* Whatever the desks, the workers and crashes do, each single effect is of a
\* call that is licensed by then and that no run has performed before, unless
\* the earlier effect could not be recorded.
KeepsTheGate == Gate!Spec

\* Every approving command for shape s decided a request of its own.
OneYesPerRequest(s) ==
    yes[s] = Cardinality({i \in Indices : requests[i].status = "APPROVED"
                                          /\ requests[i].call.shape = s})

\* "A rejected action never executes": what the gate lets through has not
\* been refused, unless the owner set a level that does not ask, made the
\* agent forget, or approved what was decided already.
RefusedNeverPasses ==
    [][\A w \in Workers :
        /\ pc[w] \in {"judge", "look"} /\ pc'[w] = "lookup"
        /\ "high" \notin levels
        /\ cur[w].shape \notin unlearned /\ OneYesPerRequest(cur[w].shape)
        => ~Decided(cur[w], "REJECTED")]_vars

\* Choices the owner made are re-applied, they do not "silently revert to the
\* .env defaults on every restart".
LevelStands == level.stored # "unset" => level.live = level.stored
=============================================================================
