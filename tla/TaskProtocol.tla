---------------------------- MODULE TaskProtocol ----------------------------
(***************************************************************************)
(* What the task store promises the rest of the agent, without leases,     *)
(* steps, back-off or places in the code: who may take a task, who may     *)
(* change its status, and that one holder at a time does.                  *)
(***************************************************************************)
CONSTANTS Tasks, Workers, Status, Terminal

VARIABLES
    status,   \* status of each task
    holders,  \* the workers that run it
    loose     \* tasks whose exclusiveness was given up

vars == <<status, holders, loose>>

Init ==
    /\ status = [t \in Tasks |-> "PENDING"]
    /\ holders = [t \in Tasks |-> {}]
    /\ loose = {}

SetStatus(t, s) == status' = [status EXCEPT ![t] = s]

\* Only a task that waits its turn, or was left RUNNING, is taken, and only
\* when nobody holds it.
Take(t, w) ==
    /\ status[t] \in {"PENDING", "RUNNING"}
    /\ holders[t] = {} \/ t \in loose
    /\ SetStatus(t, "RUNNING")
    /\ holders' = [holders EXCEPT ![t] = @ \cup {w}]
    /\ UNCHANGED loose

\* A holder sets the status as it sees fit ...
Work(t, w) ==
    /\ w \in holders[t]
    /\ \E s \in Status : SetStatus(t, s)
    /\ UNCHANGED <<holders, loose>>

\* ... and lets go of a task it does not leave RUNNING.
LetGo(t, w) ==
    /\ w \in holders[t]
    /\ \E s \in Status \ {"RUNNING"} : SetStatus(t, s)
    /\ holders' = [holders EXCEPT ![t] = @ \ {w}]
    /\ UNCHANGED loose

\* A holder drops out and leaves the task as it is.
Drop(t, w) ==
    /\ w \in holders[t]
    /\ holders' = [holders EXCEPT ![t] = @ \ {w}]
    /\ loose' = loose \cup {t}
    /\ UNCHANGED status

Cancel(t) == SetStatus(t, "CANCELLED") /\ UNCHANGED <<holders, loose>>

\* The owner reopens a task; under a holder that costs its exclusiveness.
Reopen(t) ==
    /\ SetStatus(t, "PENDING")
    /\ loose' = IF holders[t] = {} THEN loose ELSE loose \cup {t}
    /\ UNCHANGED holders

Halt ==
    /\ holders' = [t \in Tasks |-> {}]
    /\ UNCHANGED <<status, loose>>

Recover ==
    /\ \A t \in Tasks : holders[t] = {}
    /\ status' = [t \in Tasks |->
            IF status[t] = "RUNNING" THEN "PENDING" ELSE status[t]]
    /\ UNCHANGED <<holders, loose>>

Next ==
    \/ \E t \in Tasks :
        \/ \E w \in Workers : Take(t, w) \/ Work(t, w) \/ LetGo(t, w) \/ Drop(t, w)
        \/ Cancel(t) \/ Reopen(t)
    \/ Halt \/ Recover

Spec == Init /\ [][Next]_vars
=============================================================================
