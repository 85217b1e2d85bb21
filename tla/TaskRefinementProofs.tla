------------------------ MODULE TaskRefinementProofs ------------------------
(***************************************************************************)
(* TaskLifecycle implements TaskProtocol: every step of a loop, of the     *)
(* owner or of the process is a step of the protocol or a stutter.         *)
(***************************************************************************)
EXTENDS TaskLifecycleProofs

statusOf  == [t \in Tasks |-> row[t].status]
holdersOf == [t \in Tasks |-> Runners(t)]

LEMMA SetsStatus ==
    ASSUME TypeOK, NEW t \in Tasks, NEW r, row' = [row EXCEPT ![t] = r]
    PROVE  statusOf' = [statusOf EXCEPT ![t] = r.status]
  BY DEF TypeOK, statusOf

LEMMA KeepsHolders ==
    ASSUME cur' = cur
    PROVE  holdersOf' = holdersOf
  BY DEF holdersOf, Runners

LEMMA GainsHolder ==
    ASSUME TypeOK, NEW w \in Workers, NEW t \in Tasks,
           cur[w] \notin Tasks, cur' = [cur EXCEPT ![w] = t]
    PROVE  holdersOf' = [holdersOf EXCEPT ![t] = @ \cup {w}]
<1>1. Runners(t)' = Runners(t) \cup {w}
  BY DEF TypeOK, Runners
<1>2. \A u \in Tasks \ {t} : Runners(u)' = Runners(u)
  BY DEF TypeOK, Runners
<1> QED
  BY <1>1, <1>2 DEF holdersOf

LEMMA LosesHolder ==
    ASSUME TypeOK, NEW w \in Workers, NEW t \in Tasks,
           cur[w] = t, cur' = [cur EXCEPT ![w] = NoTask]
    PROVE  holdersOf' = [holdersOf EXCEPT ![t] = @ \ {w}]
<1>1. Runners(t)' = Runners(t) \ {w}
  BY NoTaskIsNone DEF TypeOK, Runners
<1>2. \A u \in Tasks \ {t} : Runners(u)' = Runners(u)
  BY NoTaskIsNone DEF TypeOK, Runners
<1> QED
  BY <1>1, <1>2 DEF holdersOf

\* The steps of the protocol, in terms of the mapping.
LEMMA StepForms ==
    ASSUME NEW t \in Tasks, NEW w \in Workers
    PROVE  /\ /\ statusOf[t] \in {"PENDING", "RUNNING"}
              /\ holdersOf[t] = {} \/ t \in disturbed
              /\ statusOf' = [statusOf EXCEPT ![t] = "RUNNING"]
              /\ holdersOf' = [holdersOf EXCEPT ![t] = @ \cup {w}]
              /\ UNCHANGED disturbed
              => Protocol!Next
           /\ /\ w \in holdersOf[t]
              /\ \E s \in Status : statusOf' = [statusOf EXCEPT ![t] = s]
              /\ UNCHANGED <<holdersOf, disturbed>>
              => Protocol!Next
           /\ /\ w \in holdersOf[t]
              /\ \E s \in Status \ {"RUNNING"} :
                    statusOf' = [statusOf EXCEPT ![t] = s]
              /\ holdersOf' = [holdersOf EXCEPT ![t] = @ \ {w}]
              /\ UNCHANGED disturbed
              => Protocol!Next
           /\ /\ w \in holdersOf[t]
              /\ holdersOf' = [holdersOf EXCEPT ![t] = @ \ {w}]
              /\ disturbed' = disturbed \cup {t}
              /\ UNCHANGED statusOf
              => Protocol!Next
  BY DEF Protocol!Next, Protocol!Take, Protocol!Work, Protocol!LetGo, Protocol!Drop,
         Protocol!SetStatus, statusOf, holdersOf

LEMMA MapsInit == Init => Protocol!Init
  BY NoTaskIsNone DEF Init, Protocol!Init, CreatedRow, Runners

Stutters == UNCHANGED <<statusOf, holdersOf, disturbed>>

\* A runner that writes the row and goes on works; one that leaves it with
\* another status than RUNNING lets go.
LEMMA WritesMap ==
    ASSUME TypeOK, NEW w \in Workers, NEW t \in Tasks, cur[w] = t,
           NEW r, r.status \in Status, row' = [row EXCEPT ![t] = r],
           UNCHANGED disturbed,
           \/ cur' = cur
           \/ cur' = [cur EXCEPT ![w] = NoTask] /\ r.status # "RUNNING"
    PROVE  Protocol!Next
<1>1. w \in holdersOf[t]
  BY DEF holdersOf, Runners
<1>2. statusOf' = [statusOf EXCEPT ![t] = r.status]
  BY SetsStatus
<1>3. CASE cur' = cur
  <2>1. holdersOf' = holdersOf
    BY <1>3, KeepsHolders
  <2> QED
    BY <1>1, <1>2, <2>1, StepForms
<1>4. CASE cur' = [cur EXCEPT ![w] = NoTask] /\ r.status # "RUNNING"
  <2>1. holdersOf' = [holdersOf EXCEPT ![t] = @ \ {w}]
    BY <1>4, LosesHolder
  <2>2. r.status \in Status \ {"RUNNING"}
    BY <1>4
  <2> QED
    BY <1>1, <1>2, <2>1, <2>2, StepForms
<1> QED
  BY <1>3, <1>4

\* A worker's step: a Take, Work, LetGo or Drop of the task it runs.
LEMMA WorkerMaps ==
    ASSUME InOrder, NEW w \in Workers,
           Progress(w) \/ AbortRun(w) \/ LoseRun(w) \/ Abandon(w)
    PROVE  Protocol!Next \/ Stutters
<1> USE DEF InOrder, TypeOK, Places, Running, Stutters
<1>0. PICK t : t = cur[w]
  OBVIOUS
<1> USE <1>0
<1>1. t \in Tasks => w \in holdersOf[t] /\ row[t] \in Row /\ statusOf[t] = row[t].status
                     /\ statusOf = [statusOf EXCEPT ![t] = row[t].status]
                     /\ row[t].status \in Status
  BY DEF holdersOf, statusOf, Runners, Row
<1>2. CASE ReadCandidates(w) \/ MissClaim(w) \/ ReadRow(w) \/ Continue(w)
           \/ RequestApproval(w)
  <2>1. UNCHANGED <<row, cur, disturbed>>
    BY <1>2 DEF ReadCandidates, MissClaim, ReadRow, Continue, RequestApproval, Goto
  <2> QED
    BY <2>1, KeepsHolders DEF statusOf
<1>3. CASE Claim(w)
  <2>1. PICK c \in cand[w] :
          /\ Matches(c)
          /\ row' = [row EXCEPT ![c.task] = ClaimedRow(row[c.task], w)]
          /\ cur' = [cur EXCEPT ![w] = c.task]
          /\ UNCHANGED disturbed
          /\ pc[w] = "claim"
    BY <1>3 DEF Claim, FirstCandidate, Update
  <2>2. c.task \in Tasks /\ c.status \in {"PENDING", "RUNNING"}
    BY DEF Candidate
  <2>3. statusOf[c.task] \in {"PENDING", "RUNNING"}
    BY <2>1, <2>2 DEF Matches, LooksAsRead, statusOf
  <2>4. holdersOf[c.task] = {} \/ c.task \in disturbed
    <3>1. SUFFICES ASSUME c.task \notin disturbed PROVE Runners(c.task) = {}
      BY <2>2 DEF holdersOf
    <3>2. row[c.task].status = "PENDING"
      BY <2>1, <2>2, <3>1 DEF Orderly, Matches, LooksAsRead
    <3> QED
      BY <2>2, <3>1, <3>2 DEF Orderly, RunInOrder
  <2>5. ClaimedRow(row[c.task], w).status = "RUNNING"
    <3>1. row[c.task] \in Row
      BY <2>2
    <3> QED
      BY <3>1 DEF ClaimedRow, Row
  <2>6. statusOf' = [statusOf EXCEPT ![c.task] = "RUNNING"]
    BY <2>1, <2>2, <2>5 DEF statusOf
  <2>7. holdersOf' = [holdersOf EXCEPT ![c.task] = @ \cup {w}]
    BY <2>1, <2>2, GainsHolder
  <2> QED
    BY <2>1, <2>2, <2>3, <2>4, <2>6, <2>7, StepForms
<1>4. CASE GiveUp(w) \/ CountStep(w) \/ Complete(w) \/ WaitForUser(w)
  <2>1. t \in Tasks /\ UNCHANGED <<cur, disturbed>>
    BY <1>4 DEF GiveUp, CountStep, Complete, WaitForUser, InRun, Goto
  <2>2. PICK r \in {FailedRow(row[t], "PERMANENT"), SteppedRow(row[t], step[w]),
                    WithStatus(row[t], "COMPLETED"), WaitingRow(row[t], "answer")} :
            row' = [row EXCEPT ![t] = r]
    BY <1>4 DEF GiveUp, CountStep, Complete, WaitForUser, Update
  <2>3. r.status \in Status
    <3>1. r \in Row
      <4>1. row[t] \in Row /\ step[w] \in 0..MaxSteps /\ "COMPLETED" \in Status
        BY <1>1, <2>1 DEF Status, Terminal
      <4>2. FailedRow(row[t], "PERMANENT") \in Row /\ SteppedRow(row[t], step[w]) \in Row
        BY <4>1, RowOpsType
      <4>3. WithStatus(row[t], "COMPLETED") \in Row /\ WaitingRow(row[t], "answer") \in Row
        BY <4>1, RowOpsType
      <4> QED
        BY <2>2, <4>2, <4>3
    <3> QED
      BY <3>1 DEF Row
  <2> QED
    BY <2>1, <2>2, <2>3, WritesMap
<1>5. CASE FindTerminal(w)
  <2>1. /\ t \in Tasks /\ row[t].status \in Terminal /\ UNCHANGED <<row, disturbed>>
        /\ cur' = [cur EXCEPT ![w] = NoTask]
    BY <1>5 DEF FindTerminal, InRun, EndRun
  <2>2. row' = [row EXCEPT ![t] = row[t]] /\ row[t].status \in Status \ {"RUNNING"}
    BY <2>1 DEF Status, Terminal
  <2> QED
    BY ZenonT(60), <2>1, <2>2, WritesMap
<1>6. CASE Return(w)
  <2>1. /\ t \in Tasks /\ pc[w] = "report" /\ UNCHANGED <<row, disturbed>>
        /\ cur' = [cur EXCEPT ![w] = NoTask]
    BY <1>6 DEF Return, InRun, EndRun
  <2>2. CASE t \in disturbed
    <3>1. holdersOf' = [holdersOf EXCEPT ![t] = @ \ {w}]
      BY <2>1, LosesHolder
    <3>2. disturbed' = disturbed \cup {t} /\ statusOf' = statusOf
      BY <2>1, <2>2 DEF statusOf
    <3> QED
      BY <1>1, <2>1, <3>1, <3>2, StepForms
  <2>3. CASE t \notin disturbed
    <3>1. RunInOrder(t, w)
      BY <2>1, <2>3 DEF Orderly, Runners
    <3>2. row' = [row EXCEPT ![t] = row[t]]
      BY <2>1
    <3>3. row[t].status \in Status
      BY <1>1, <2>1
    <3>4. row[t].status # "RUNNING"
      BY <2>1, <3>1 DEF RunInOrder
    <3>5. PICK r : r = row[t]
      OBVIOUS
    <3>6. r.status \in Status /\ r.status # "RUNNING" /\ row' = [row EXCEPT ![t] = r]
      BY <3>2, <3>3, <3>4, <3>5
    <3> QED
      BY <2>1, <3>6, WritesMap
  <2> QED
    BY <2>2, <2>3
<1>7. CASE WaitForApproval(w) \/ AbortRun(w)
  <2>1. /\ t \in Tasks /\ UNCHANGED disturbed
        /\ cur' = [cur EXCEPT ![w] = NoTask]
    BY <1>7 DEF WaitForApproval, AbortRun, InRun, EndRun
  <2>2. PICK r \in {FailedRow(row[t], "other"), WaitingRow(row[t], "approval")} :
            row' = [row EXCEPT ![t] = r]
    BY <1>7 DEF WaitForApproval, AbortRun, Update
  <2>3. r.status \in Status \ {"RUNNING"}
    BY ZenonT(60), <1>1, <2>1 DEF FailedRow, WaitingRow, WithStatus, Status, Terminal, Row
  <2> QED
    BY <2>1, <2>2, <2>3, WritesMap
<1>8. CASE LlmFails(w)
  <2>1. t \in Tasks /\ UNCHANGED disturbed
    BY <1>8 DEF LlmFails, InRun
  <2>2. /\ RequeuedRow(row[t]).status = "PENDING"
        /\ FailedRow(row[t], "other").status = "FAILED"
    BY <1>1, <2>1 DEF RequeuedRow, FailedRow, WithStatus, Terminal, Row
  <2>3. \/ /\ row' = [row EXCEPT ![t] = RequeuedRow(row[t])]
           /\ cur' = [cur EXCEPT ![w] = NoTask]
        \/ /\ row' = [row EXCEPT ![t] = FailedRow(row[t], "other")]
           /\ cur' = cur
    BY <1>8 DEF LlmFails, Update, EndRun, Goto
  <2> QED
    BY <2>1, <2>2, <2>3, WritesMap DEF Status, Terminal
<1>9. CASE LoseRun(w)
  <2>1. /\ t \in Tasks /\ disturbed' = disturbed \cup {t} /\ row' = row
        /\ cur' = [cur EXCEPT ![w] = NoTask]
    BY <1>9 DEF LoseRun, EndRun
  <2>2. holdersOf' = [holdersOf EXCEPT ![t] = @ \ {w}] /\ statusOf' = statusOf
    BY <2>1, LosesHolder DEF statusOf
  <2> QED
    BY <1>1, <2>1, <2>2, StepForms
<1>10. CASE Abandon(w)
  <2>1. UNCHANGED disturbed /\ cur' = [cur EXCEPT ![w] = NoTask]
    BY <1>10 DEF Abandon
  <2>2. CASE pc[w] \in Running
    <3>1. t \in Tasks /\ row' = [row EXCEPT ![t] = ReleasedRow(row[t])]
      BY <1>10, <2>2 DEF Abandon, Update
    <3>2. ReleasedRow(row[t]).status = "PENDING"
      BY <1>1, <3>1 DEF ReleasedRow, Row
    <3> QED
      BY <2>1, <3>1, <3>2, WritesMap DEF Status
  <2>3. CASE pc[w] \notin Running
    <3>1. row' = row /\ cur[w] = NoTask
      BY <1>10, <2>3 DEF Abandon
    <3> QED
      BY <2>1, <3>1, KeepsHolders DEF statusOf
  <2> QED
    BY <2>2, <2>3
<1> QED
  BY <1>2, <1>3, <1>4, <1>5, <1>6, <1>7, <1>8, <1>9, <1>10 DEF Progress

\* What the owner does is a Cancel, a Reopen or nothing.
LEMMA OwnerMaps ==
    ASSUME InOrder, NEW t \in Tasks, Owner(t)
    PROVE  Protocol!Next \/ Stutters
<1>1. TypeOK /\ row[t] \in Row
  BY DEF InOrder, TypeOK
<1>2. ASSUME NEW guarded \in BOOLEAN, Cancel(t, guarded) PROVE Protocol!Next
  <2>1. /\ row' = [row EXCEPT ![t] = WithStatus(row[t], "CANCELLED")]
        /\ cur' = cur /\ disturbed' = disturbed
    BY <1>2 DEF Cancel, Update
  <2>2. WithStatus(row[t], "CANCELLED").status = "CANCELLED"
    BY <1>1 DEF WithStatus, Terminal, Row
  <2>3. statusOf' = [statusOf EXCEPT ![t] = "CANCELLED"] /\ holdersOf' = holdersOf
    BY <1>1, <2>1, <2>2, SetsStatus, KeepsHolders
  <2> QED
    BY <2>1, <2>3 DEF Protocol!Next, Protocol!Cancel, Protocol!SetStatus, statusOf, holdersOf
<1>3. ASSUME NEW keep \in BOOLEAN, Resume(t, keep) PROVE Protocol!Next
  <2>1. /\ row' = [row EXCEPT ![t] = ResumedRow(row[t], keep)] /\ cur' = cur
        /\ disturbed' = IF Held(t) THEN disturbed \cup {t} ELSE disturbed
    BY <1>3 DEF Resume, Update
  <2>2. ResumedRow(row[t], keep).status = "PENDING"
    BY <1>1 DEF ResumedRow, Row
  <2>3. statusOf' = [statusOf EXCEPT ![t] = "PENDING"] /\ holdersOf' = holdersOf
    BY <1>1, <2>1, <2>2, SetsStatus, KeepsHolders
  <2>4. Held(t) <=> holdersOf[t] # {}
    BY DEF Held, holdersOf, Runners
  <2> QED
    BY <2>1, <2>3, <2>4 DEF Protocol!Next, Protocol!Reopen, Protocol!SetStatus, statusOf, holdersOf
<1>4. CASE Reply(t)
  BY <1>3, <1>4 DEF Reply
<1>5. ASSUME NEW o \in {"decided", "expired"}, NEW api \in BOOLEAN, Decide(t, o, api)
      PROVE  Protocol!Next \/ Stutters
  <2>1. Resume(t, api) \/ UNCHANGED <<row, cur, disturbed>>
    BY <1>5 DEF Decide
  <2> QED
    BY <1>3, <2>1, KeepsHolders DEF Stutters, statusOf
<1> QED
  BY <1>2, <1>4, <1>5 DEF Owner

\* Time is invisible to the protocol; stops and crashes halt, a start recovers.
LEMMA RestMaps ==
    ASSUME InOrder,
           \/ \E t \in Tasks : LeaseExpires(t) \/ BackoffElapses(t)
           \/ Crash \/ Stop \/ Exit \/ Restart
    PROVE  Protocol!Next \/ Stutters
<1> USE DEF InOrder
<1>1. ASSUME NEW t \in Tasks, LeaseExpires(t) \/ BackoffElapses(t) PROVE Stutters
  <2>1. cur' = cur /\ disturbed' = disturbed
    BY <1>1 DEF LeaseExpires, BackoffElapses
  <2>2. PICK r \in {[row[t] EXCEPT !.lease = "expired"], [row[t] EXCEPT !.delayed = FALSE]} :
            row' = [row EXCEPT ![t] = r]
    BY <1>1 DEF LeaseExpires, BackoffElapses, Update
  <2>3. r.status = row[t].status
    BY <2>2 DEF TypeOK, Row
  <2> QED
    BY <2>1, <2>2, <2>3, KeepsHolders DEF Stutters, statusOf, TypeOK
<1>2. CASE Crash \/ Exit
  <2>1. UNCHANGED <<row, disturbed>> /\ \A w \in Workers : cur'[w] = NoTask
    BY <1>2 DEF Crash, Exit, LoopsEnd
  <2>2. holdersOf' = [t \in Tasks |-> {}]
    BY <2>1, NoTaskIsNone DEF holdersOf, Runners
  <2> QED
    BY <2>1, <2>2 DEF Protocol!Next, Protocol!Halt, holdersOf
<1>3. CASE Stop
  BY <1>3, KeepsHolders DEF Stop, Stutters, statusOf
<1>4. CASE Restart
  <2>1. /\ UNCHANGED <<cur, disturbed>>
        /\ row' = [t \in Tasks |-> RecoveredRow(row[t])]
        /\ \A w \in Workers : cur[w] \notin Tasks
    BY <1>4 DEF Restart, Places, Running
  <2>2. \A t \in Tasks : row'[t].status =
            IF row[t].status = "RUNNING" THEN "PENDING" ELSE row[t].status
    <3> SUFFICES ASSUME NEW t \in Tasks
                 PROVE  row'[t].status =
                    IF row[t].status = "RUNNING" THEN "PENDING" ELSE row[t].status
      OBVIOUS
    <3>1. row[t] \in Row
      BY DEF TypeOK
    <3> QED
      BY <2>1, <3>1 DEF RecoveredRow, ReleasedRow, Row
  <2>3. \A t \in Tasks : Runners(t) = {} /\ Runners(t)' = {}
    BY <2>1 DEF Runners
  <2> QED
    BY <2>1, <2>2, <2>3 DEF Protocol!Next, Protocol!Recover
<1> QED
  BY <1>1, <1>2, <1>3, <1>4

\* The lifecycle of tasks, with its leases, retries and restarts, does nothing
\* the protocol of the task store does not allow.
THEOREM ImplementsProtocol == Spec => FollowsProtocol
<1>1. InOrder /\ [Next]_vars => [Protocol!Next]_(Protocol!vars)
  <2> SUFFICES ASSUME InOrder, [Next]_vars PROVE Protocol!Next \/ UNCHANGED Protocol!vars
    OBVIOUS
  <2>1. Stutters => UNCHANGED Protocol!vars
    BY DEF Stutters, Protocol!vars, statusOf, holdersOf
  <2>2. CASE UNCHANGED vars
    BY <2>1, <2>2, KeepsHolders DEF vars, Stutters, statusOf
  <2>3. CASE Next
    BY <2>1, <2>3, WorkerMaps, OwnerMaps, RestMaps DEF Next
  <2> QED
    BY <2>2, <2>3
<1> QED
  BY <1>1, MapsInit, AlwaysInOrder, PTL DEF Spec, FollowsProtocol, Protocol!Spec
=============================================================================
