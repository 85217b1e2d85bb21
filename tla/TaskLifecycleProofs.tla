------------------------ MODULE TaskLifecycleProofs ------------------------
(***************************************************************************)
(* Theorems of TaskLifecycle, for any tasks, workers and bounds.           *)
(***************************************************************************)
EXTENDS TaskLifecycle, TLAPS


\* Row types survive every statement of app/db/repo.py.
LEMMA RowOpsType ==
    ASSUME NEW r \in Row
    PROVE  /\ \A d \in BOOLEAN : CreatedRow(d) \in Row
           /\ \A w \in Workers : ClaimedRow(r, w) \in Row
           /\ \A s \in Status : WithStatus(r, s) \in Row
           /\ \A k \in {"PERMANENT", "other"} : FailedRow(r, k) \in Row
           /\ \A a \in {"answer", "approval"} : WaitingRow(r, a) \in Row
           /\ \A n \in 0..MaxSteps : SteppedRow(r, n) \in Row
           /\ RequeuedRow(r) \in Row
           /\ ReleasedRow(r) \in Row
           /\ RecoveredRow(r) \in Row
           /\ \A keep \in BOOLEAN : ResumedRow(r, keep) \in Row
           /\ [r EXCEPT !.lease = "expired"] \in Row
           /\ [r EXCEPT !.delayed = FALSE] \in Row
<1> USE RowAssumption DEF Row, Status, Terminal
<1>1. \A d \in BOOLEAN : CreatedRow(d) \in Row
  BY DEF CreatedRow
<1>2. \A w \in Workers : ClaimedRow(r, w) \in Row
  BY DEF ClaimedRow
<1>3. \A s \in Status : WithStatus(r, s) \in Row
  BY DEF WithStatus
<1>4. \A k \in {"PERMANENT", "other"} : FailedRow(r, k) \in Row
  BY ZenonT(60) DEF FailedRow, WithStatus
<1>5. \A a \in {"answer", "approval"} : WaitingRow(r, a) \in Row
  BY ZenonT(60) DEF WaitingRow, WithStatus
<1>6. \A n \in 0..MaxSteps : SteppedRow(r, n) \in Row
  BY DEF SteppedRow
<1>7. RequeuedRow(r) \in Row
  <2>1. r.retries \in Nat /\ r.retries + 1 \in Nat
    OBVIOUS
  <2> QED
    BY <2>1 DEF RequeuedRow
<1>8. ReleasedRow(r) \in Row
  BY DEF ReleasedRow
<1>9. RecoveredRow(r) \in Row
  BY DEF RecoveredRow, ReleasedRow
<1>10. \A keep \in BOOLEAN : ResumedRow(r, keep) \in Row
  BY DEF ResumedRow
<1>11. [r EXCEPT !.lease = "expired"] \in Row
  OBVIOUS
<1>12. [r EXCEPT !.delayed = FALSE] \in Row
  OBVIOUS
<1> QED
  BY <1>1, <1>2, <1>3, <1>4, <1>5, <1>6, <1>7, <1>8, <1>9, <1>10, <1>11, <1>12
-----------------------------------------------------------------------------
(* Where a loop is and what it runs go together.                            *)
Places ==
    /\ \A w \in Workers : cur[w] \in Tasks <=> pc[w] \in Running
    /\ proc = "down" => \A w \in Workers : pc[w] = "off"

LEMMA NoTaskIsNone == NoTask \notin Tasks
  BY LifecycleAssumption DEF NoTask

LEMMA InitTyped == Init => TypeOK /\ Places
<1> SUFFICES ASSUME Init PROVE TypeOK /\ Places
  OBVIOUS
<1>1. row \in [Tasks -> Row]
  BY RowAssumption DEF Init, CreatedRow, Row, Status
<1>2. budget \in [{"owner", "outage", "crash", "lost"} -> Nat]
  BY LifecycleAssumption DEF Init
<1>3. step \in [Workers -> 0..MaxSteps]
  <2>1. step = [w \in Workers |-> 0]
    BY DEF Init
  <2>2. 0 \in 0..MaxSteps
    BY RowAssumption
  <2> QED
    BY <2>1, <2>2
<1> QED
  BY <1>1, <1>2, <1>3, NoTaskIsNone DEF Init, TypeOK, Places, Running

LEMMA SpendTyped ==
    ASSUME TypeOK, NEW what \in {"owner", "outage", "crash", "lost"}, Spend(what)
    PROVE  budget' \in [{"owner", "outage", "crash", "lost"} -> Nat]
<1>1. budget[what] \in Nat /\ budget[what] - 1 \in Nat
  BY DEF TypeOK, Spend
<1> QED
  BY <1>1 DEF TypeOK, Spend

LEMMA UpdateTyped ==
    ASSUME TypeOK, NEW t \in Tasks, NEW r \in Row, Update(t, r)
    PROVE  row' \in [Tasks -> Row]
  BY DEF TypeOK, Update

LEMMA TypedStep ==
    ASSUME TypeOK, Places, [Next]_vars
    PROVE  TypeOK' /\ Places'
<1> USE NoTaskIsNone DEF TypeOK, Places, Running
<1>1. ASSUME NEW w \in Workers, Progress(w) \/ AbortRun(w) \/ LoseRun(w) \/ Abandon(w)
      PROVE  TypeOK' /\ Places'
  <2>1. CASE ReadCandidates(w)
    <3>1. {[task |-> t, status |-> row[t].status, worker |-> row[t].worker] :
                t \in Oldest} \subseteq Candidate
      <4>1. ASSUME NEW t \in Oldest
            PROVE  t \in Tasks /\ row[t].status \in Status
                   /\ row[t].worker \in Workers \cup {NoWorker}
        <5>1. t \in Tasks
          BY DEF Oldest, Runnable
        <5>2. row[t] \in Row
          BY <5>1
        <5> QED
          BY <5>1, <5>2 DEF Row
      <4>2. ASSUME NEW t \in Oldest
            PROVE  [task |-> t, status |-> row[t].status, worker |-> row[t].worker]
                        \in Candidate
        BY <4>1 DEF Candidate
      <4> QED
        BY <4>2
    <3> QED
      BY <2>1, <3>1 DEF ReadCandidates
  <2>2. CASE Claim(w)
    <3>1. PICK c \in cand[w] :
                /\ Update(c.task, ClaimedRow(row[c.task], w))
                /\ pc' = [pc EXCEPT ![w] = "load"]
                /\ cur' = [cur EXCEPT ![w] = c.task]
                /\ cand' = [cand EXCEPT ![w] = {}]
                /\ UNCHANGED <<approval, proc, step, budget, disturbed>>
                /\ proc = "up"
      BY <2>2 DEF Claim, FirstCandidate
    <3>2. c \in Candidate
      OBVIOUS
    <3>3. c.task \in Tasks
      BY <3>2 DEF Candidate
    <3>4. row' \in [Tasks -> Row]
      BY <3>1, <3>3, RowOpsType, UpdateTyped
    <3> QED
      BY <3>1, <3>3, <3>4
  <2>3. CASE MissClaim(w)
    <3>1. cand' \in [Workers -> SUBSET Candidate]
      BY <2>3 DEF MissClaim
    <3>2. proc = "up" /\ pc[w] = "claim"
      BY <2>3 DEF MissClaim, FirstCandidate
    <3>3. pc' \in [Workers -> Running \cup {"idle", "claim", "off"}]
      BY <2>3 DEF MissClaim
    <3> QED
      BY <2>3, <3>1, <3>2, <3>3 DEF MissClaim
  <2>4. CASE FindTerminal(w)
    BY <2>4, RowOpsType DEF FindTerminal, InRun, EndRun
  <2>5. CASE ReadRow(w)
    <3>1. /\ proc = "up" /\ pc[w] = "load" /\ cur[w] \in Tasks
          /\ UNCHANGED <<row, approval, proc, cand, budget, disturbed, cur>>
      BY <2>5 DEF ReadRow, InRun, Goto
    <3>2. row[cur[w]].step \in 0..MaxSteps
      BY <3>1 DEF Row
    <3>3. CASE Goto(w, "giveup") /\ UNCHANGED step
      BY <3>1, <3>3 DEF Goto
    <3>4. CASE /\ ~StepLimitReached(row[cur[w]])
               /\ Goto(w, "write")
               /\ step' = [step EXCEPT ![w] = row[cur[w]].step + 1]
      <4>1. row[cur[w]].step + 1 \in 0..MaxSteps
        BY <3>2, <3>4, RowAssumption DEF StepLimitReached
      <4> QED
        BY <3>1, <3>4, <4>1 DEF Goto
    <3> QED
      BY <2>5, <3>3, <3>4 DEF ReadRow
  <2>6. CASE GiveUp(w)
    BY <2>6, RowOpsType DEF GiveUp, InRun, Goto, Update
  <2>7. CASE CountStep(w)
    BY <2>7, RowOpsType DEF CountStep, InRun, Goto, Update
  <2>8. CASE Continue(w)
    BY <2>8, RowOpsType DEF Continue, InRun, Goto
  <2>9. CASE Complete(w)
    BY <2>9, RowOpsType DEF Complete, InRun, Goto, Update, Status, Terminal
  <2>10. CASE WaitForUser(w)
    BY <2>10, RowOpsType DEF WaitForUser, InRun, Goto, Update
  <2>11. CASE RequestApproval(w)
    BY <2>11, RowOpsType DEF RequestApproval, InRun, Goto
  <2>12. CASE WaitForApproval(w)
    BY <2>12, RowOpsType DEF WaitForApproval, InRun, EndRun, Update
  <2>13. CASE LlmFails(w)
    <3>1. /\ proc = "up" /\ pc[w] = "decide" /\ cur[w] \in Tasks
          /\ Spend("outage")
          /\ UNCHANGED <<approval, proc, step, cand, disturbed>>
      BY <2>13 DEF LlmFails, InRun
    <3>2. budget' \in [{"owner", "outage", "crash", "lost"} -> Nat]
      BY <3>1, SpendTyped
    <3>3. CASE Update(cur[w], RequeuedRow(row[cur[w]])) /\ EndRun(w)
      <4>1. row' \in [Tasks -> Row]
        BY <3>1, <3>3, RowOpsType, UpdateTyped
      <4> QED
        BY <3>1, <3>2, <3>3, <4>1 DEF EndRun
    <3>4. CASE Update(cur[w], FailedRow(row[cur[w]], "other")) /\ Goto(w, "report")
      <4>1. row' \in [Tasks -> Row]
        BY <3>1, <3>4, RowOpsType, UpdateTyped
      <4> QED
        BY <3>1, <3>2, <3>4, <4>1 DEF Goto
    <3> QED
      BY <2>13, <3>3, <3>4 DEF LlmFails
  <2>14. CASE Return(w)
    BY <2>14, RowOpsType DEF Return, InRun, EndRun
  <2>15. CASE AbortRun(w)
    BY <2>15, RowOpsType DEF AbortRun, EndRun, Update
  <2>16. CASE LoseRun(w)
    BY <2>16, RowOpsType DEF LoseRun, Spend, EndRun
  <2>17. CASE Abandon(w)
    <3>1. row' \in [Tasks -> Row]
      BY <2>17, RowOpsType, UpdateTyped DEF Abandon
    <3> QED
      BY <2>17, <3>1 DEF Abandon
  <2> QED
    BY <1>1, <2>1, <2>2, <2>3, <2>4, <2>5, <2>6, <2>7, <2>8, <2>9, <2>10, <2>11, <2>12, <2>13, <2>14, <2>15, <2>16, <2>17 DEF Progress
<1>2. ASSUME NEW t \in Tasks, LeaseExpires(t) \/ BackoffElapses(t)
      PROVE  TypeOK' /\ Places'
  <2>1. row' \in [Tasks -> Row]
    BY <1>2, RowOpsType, UpdateTyped DEF LeaseExpires, BackoffElapses
  <2> QED
    BY <1>2, <2>1 DEF LeaseExpires, BackoffElapses
<1>3. ASSUME NEW t \in Tasks, Owner(t)
      PROVE  TypeOK' /\ Places'
  <2>1. budget' \in [{"owner", "outage", "crash", "lost"} -> Nat]
    <3>1. Spend("owner")
      BY <1>3 DEF Owner, Cancel, Reply, Decide, Command
    <3> QED
      BY <3>1, SpendTyped
  <2>2. ASSUME NEW guarded \in BOOLEAN, Cancel(t, guarded)
        PROVE  TypeOK' /\ Places'
    <3>1. row' \in [Tasks -> Row]
      BY <2>2, RowOpsType, UpdateTyped DEF Cancel, Status, Terminal
    <3> QED
      BY <2>1, <2>2, <3>1 DEF Cancel, Command
  <2>3. CASE Reply(t)
    <3>1. row' \in [Tasks -> Row]
      BY <2>3, RowOpsType, UpdateTyped DEF Reply, Resume
    <3>2. disturbed' \subseteq Tasks
      BY <2>3 DEF Reply, Resume
    <3> QED
      BY <2>1, <2>3, <3>1, <3>2 DEF Reply, Resume, Command
  <2>4. ASSUME NEW o \in {"decided", "expired"}, NEW api \in BOOLEAN, Decide(t, o, api)
        PROVE  TypeOK' /\ Places'
    <3>1. row' \in [Tasks -> Row]
      BY <2>4, RowOpsType, UpdateTyped DEF Decide, Resume
    <3>2. disturbed' \subseteq Tasks
      BY <2>4 DEF Decide, Resume
    <3>3. approval' \in [Tasks -> {"none", "pending", "decided", "expired"}]
      BY <2>4 DEF Decide
    <3>4. UNCHANGED <<proc, pc, cur, step, cand>>
      BY <2>4 DEF Decide, Resume
    <3> QED
      BY <2>1, <3>1, <3>2, <3>3, <3>4
  <2> QED
    BY <1>3, <2>2, <2>3, <2>4 DEF Owner
<1>4. CASE Crash \/ Exit
  <2>1. budget' \in [{"owner", "outage", "crash", "lost"} -> Nat]
    BY <1>4, SpendTyped DEF Crash, Exit
  <2> QED
    BY <1>4, <2>1 DEF Crash, Exit, LoopsEnd
<1>5. CASE Stop
  BY <1>5, SpendTyped DEF Stop
<1>6. CASE Restart
  BY <1>6, RowOpsType DEF Restart
<1>7. CASE UNCHANGED vars
  BY <1>7 DEF vars
<1> QED
  BY <1>1, <1>2, <1>3, <1>4, <1>5, <1>6, <1>7 DEF Next

\* Every reachable state has the declared types.
THEOREM TypeCorrect == Spec => []TypeOK
<1>1. TypeOK /\ Places /\ [Next]_vars => TypeOK' /\ Places'
  BY TypedStep
<1> QED
  BY InitTyped, <1>1, PTL DEF Spec
-----------------------------------------------------------------------------
(* The inductive invariant behind the safety theorems.  A lease belongs to  *)
(* somebody, and every task whose runs were not disturbed is in order: the  *)
(* one run it has holds its lease or was cut off by a cancellation, and     *)
(* nobody is about to claim it on the strength of an expired lease.         *)

Leased(r) == r.worker = NoWorker => r.lease = "none"

RunInOrder(t, w) ==
    /\ row[t].status # "PENDING"
    /\ row[t].lease # "expired"
    /\ row[t].worker \in {w, NoWorker}
    /\ pc[w] = "park" => approval[t] \in {"pending", "expired"}
    /\ pc[w] = "report" => row[t].status # "RUNNING"

RowInOrder(t) ==
    /\ proc # "down" /\ row[t].status = "RUNNING" => Held(t)
    /\ row[t].status = "WAITING_FOR_USER" /\ row[t].wants = "approval"
            => approval[t] \in {"pending", "expired"}

Orderly(t) ==
    /\ \A v, w \in Runners(t) : v = w
    /\ \A w \in Runners(t) : RunInOrder(t, w)
    /\ RowInOrder(t)
    /\ \A w \in Workers : \A c \in cand[w] : c.task = t => c.status = "PENDING"

InOrder ==
    /\ TypeOK
    /\ Places
    /\ \A w \in Workers : \A c \in cand[w] : c.status \in {"PENDING", "RUNNING"}
    /\ \A t \in Tasks : Leased(row[t])
    /\ \A t \in Tasks \ disturbed : Orderly(t)

\* A step that leaves a task's row, approval and runs alone leaves it in order.
LEMMA Frame ==
    ASSUME NEW t \in Tasks, Orderly(t),
           row'[t] = row[t], approval'[t] = approval[t],
           \A v \in Workers : cur'[v] = t <=> cur[v] = t,
           \A v \in Runners(t) : pc'[v] = pc[v],
           \A v \in Workers : cand'[v] \subseteq cand[v],
           proc = "down" => proc' = "down"
    PROVE  Orderly(t)'
<1>1. Runners(t)' = Runners(t) /\ (Held(t)' <=> Held(t))
  BY DEF Runners, Held
<1>2. RowInOrder(t)'
  BY <1>1 DEF Orderly, RowInOrder
<1>3. \A w \in Runners(t) : RunInOrder(t, w)'
  BY DEF Orderly, RunInOrder
<1> QED
  BY <1>1, <1>2, <1>3 DEF Orderly

\* The one runner of a task goes on with it ...
LEMMA RunGoesOn ==
    ASSUME NEW t \in Tasks, NEW w \in Workers, Orderly(t),
           cur[w] = t, cur' = cur, cand' = cand,
           RunInOrder(t, w)', RowInOrder(t)'
    PROVE  Orderly(t)'
<1>1. Runners(t) = {w} /\ Runners(t)' = {w}
  BY DEF Orderly, Runners
<1> QED
  BY <1>1 DEF Orderly

\* ... or lets go of it.
LEMMA RunEnds ==
    ASSUME NEW t \in Tasks, NEW w \in Workers, Orderly(t), TypeOK,
           cur[w] = t, cur' = [cur EXCEPT ![w] = NoTask], cand' = cand, RowInOrder(t)'
    PROVE  Orderly(t)'
<1>1. Runners(t) = {w}
  BY DEF Orderly, Runners
<1>2. Runners(t)' = {}
  BY <1>1, NoTaskIsNone DEF Runners, TypeOK
<1> QED
  BY <1>1, <1>2 DEF Orderly

\* No statement leaves a lease that belongs to nobody.
LEMMA RowOpsLeased ==
    ASSUME NEW r \in Row, Leased(r)
    PROVE  /\ \A d \in BOOLEAN : Leased(CreatedRow(d))
           /\ \A w \in Workers : Leased(ClaimedRow(r, w))
           /\ \A s \in Status : Leased(WithStatus(r, s))
           /\ \A k \in {"PERMANENT", "other"} : Leased(FailedRow(r, k))
           /\ \A a \in {"answer", "approval"} : Leased(WaitingRow(r, a))
           /\ \A n \in 0..MaxSteps : Leased(SteppedRow(r, n))
           /\ Leased(RequeuedRow(r))
           /\ Leased(ReleasedRow(r))
           /\ Leased(RecoveredRow(r))
           /\ \A keep \in BOOLEAN : Leased(ResumedRow(r, keep))
<1> USE RowAssumption DEF Row, Status, Terminal, Leased
<1>1. \A d \in BOOLEAN : Leased(CreatedRow(d))
  BY DEF CreatedRow
<1>2. \A w \in Workers : Leased(ClaimedRow(r, w))
  BY DEF ClaimedRow
<1>3. \A s \in Status : Leased(WithStatus(r, s))
  BY DEF WithStatus
<1>4. \A k \in {"PERMANENT", "other"} : Leased(FailedRow(r, k))
  BY DEF FailedRow, WithStatus
<1>5. \A a \in {"answer", "approval"} : Leased(WaitingRow(r, a))
  BY DEF WaitingRow, WithStatus
<1>6. \A n \in 0..MaxSteps : Leased(SteppedRow(r, n))
  BY DEF SteppedRow
<1>7. Leased(RequeuedRow(r)) /\ Leased(ReleasedRow(r)) /\ Leased(RecoveredRow(r))
  BY DEF RequeuedRow, ReleasedRow, RecoveredRow
<1>8. \A keep \in BOOLEAN : Leased(ResumedRow(r, keep))
  BY DEF ResumedRow
<1> QED
  BY <1>1, <1>2, <1>3, <1>4, <1>5, <1>6, <1>7, <1>8 DEF FailedRow

\* A step of the runner of a task touches no other task.
LEMMA RunnerStep ==
    ASSUME InOrder, TypeOK', Places', NEW w \in Workers, NEW t \in Tasks,
           cur[w] = t,
           cur' = cur \/ cur' = [cur EXCEPT ![w] = NoTask],
           \A v \in Workers \ {w} : pc'[v] = pc[v],
           \A u \in Tasks \ {t} : row'[u] = row[u] /\ approval'[u] = approval[u],
           cand' = cand, proc = "down" => proc' = "down", disturbed \subseteq disturbed',
           Leased(row[t])',
           t \notin disturbed' => Orderly(t)'
    PROVE  InOrder'
<1>1. \A u \in Tasks : Leased(row[u])'
  BY DEF InOrder
<1>2. ASSUME NEW u \in Tasks \ disturbed' PROVE Orderly(u)'
  <2>1. CASE u = t
    BY <2>1
  <2>2. CASE u # t
    <3>1. Orderly(u) /\ row'[u] = row[u] /\ approval'[u] = approval[u]
      BY <2>2 DEF InOrder
    <3>2. \A v \in Workers : cur'[v] = u <=> cur[v] = u
      BY <2>2, NoTaskIsNone DEF InOrder, TypeOK
    <3>3. \A v \in Runners(u) : pc'[v] = pc[v]
      BY <2>2 DEF Runners
    <3> QED
      BY <3>1, <3>2, <3>3, Frame
  <2> QED
    BY <2>1, <2>2
<1> QED
  BY <1>1, <1>2 DEF InOrder

\* Claims keep order: the claimed task is in nobody's hands.
LEMMA ClaimInOrder ==
    ASSUME InOrder, TypeOK', Places', NEW w \in Workers, Claim(w)
    PROVE  InOrder'
<1> USE DEF InOrder
<1>1. PICK c \in cand[w] :
        /\ Matches(c)
        /\ Update(c.task, ClaimedRow(row[c.task], w))
        /\ pc' = [pc EXCEPT ![w] = "load"]
        /\ cur' = [cur EXCEPT ![w] = c.task]
        /\ cand' = [cand EXCEPT ![w] = {}]
        /\ UNCHANGED <<approval, proc, step, budget, disturbed>>
        /\ pc[w] = "claim"
  BY DEF Claim, FirstCandidate
<1>2. c \in Candidate /\ c.task \in Tasks
  BY DEF TypeOK, Candidate
<1>3. \A v \in Workers : cand'[v] \subseteq cand[v]
  BY <1>1 DEF TypeOK
<1>4. \A u \in Tasks : Leased(row[u])'
  <2>1. Leased(ClaimedRow(row[c.task], w))
    BY <1>2, RowOpsLeased DEF TypeOK
  <2> QED
    BY <1>1, <1>2, <2>1 DEF Update, TypeOK
<1>5. cur[w] \notin Tasks
  BY <1>1 DEF Places, Running
<1>6. ASSUME NEW u \in Tasks \ disturbed PROVE Orderly(u)'
  <2>1. CASE u = c.task
    <3>1. row[u].status = "PENDING"
      BY <1>1, <2>1 DEF Orderly, Matches, LooksAsRead
    <3>2. Runners(u) = {}
      BY <3>1 DEF Orderly, RunInOrder
    <3>3. Runners(u)' = {w}
      BY <1>1, <2>1, <3>2 DEF Runners, TypeOK
    <3>4. row'[u] = ClaimedRow(row[u], w) /\ row[u] \in Row
      BY <1>1, <2>1 DEF Update, TypeOK
    <3>5. row'[u].status = "RUNNING" /\ row'[u].lease = "live" /\ row'[u].worker = w
      BY <3>4 DEF ClaimedRow, Row
    <3>6. pc'[w] = "load"
      BY <1>1 DEF TypeOK
    <3>7. RunInOrder(u, w)'
      BY <3>5, <3>6 DEF RunInOrder
    <3>8. RowInOrder(u)'
      BY <3>3, <3>5 DEF RowInOrder, Held, Runners
    <3>9. \A v \in Workers : \A d \in cand'[v] : d.task = u => d.status = "PENDING"
      BY <1>3 DEF Orderly
    <3> QED
      BY <3>3, <3>7, <3>8, <3>9 DEF Orderly
  <2>2. CASE u # c.task
    <3>1. Orderly(u) /\ row'[u] = row[u] /\ approval'[u] = approval[u]
      BY <1>1, <2>2 DEF Update, TypeOK
    <3>2. \A v \in Workers : cur'[v] = u <=> cur[v] = u
      BY <1>1, <1>5, <2>2 DEF TypeOK
    <3>3. \A v \in Runners(u) : pc'[v] = pc[v]
      BY <1>1, <1>5 DEF Runners, TypeOK
    <3> QED
      BY <1>1, <1>3, <3>1, <3>2, <3>3, Frame
  <2> QED
    BY <2>1, <2>2
<1> QED
  BY <1>1, <1>3, <1>4, <1>6

\* What a worker does inside a run keeps order, and so does a look at the queue.
LEMMA WorkInOrder ==
    ASSUME InOrder, TypeOK', Places', NEW w \in Workers,
           Progress(w) \/ AbortRun(w) \/ LoseRun(w) \/ Abandon(w)
    PROVE  InOrder'
<1> USE DEF InOrder, TypeOK, Places, Running
<1>0. PICK t : t = cur[w]
  OBVIOUS
<1> USE <1>0
<1>1. ASSUME t \in Tasks
      PROVE  Leased(row[t]) /\ row[t] \in Row /\ (t \notin disturbed => Orderly(t))
             /\ (t \notin disturbed => RunInOrder(t, w) /\ RowInOrder(t))
  BY <1>1 DEF Orderly, Runners
<1>2. CASE ReadCandidates(w)
  <2>1. /\ UNCHANGED <<row, approval, proc, cur, disturbed>>
        /\ proc = "up" /\ cur[w] \notin Tasks
        /\ pc' = [pc EXCEPT ![w] = "claim"]
        /\ cand' = [cand EXCEPT ![w] =
              {[task |-> u, status |-> row[u].status, worker |-> row[u].worker] :
                    u \in Oldest}]
    BY <1>2 DEF ReadCandidates
  <2>2. ASSUME NEW v \in Workers, NEW c \in cand'[v], c \notin cand[v]
        PROVE  c.task \in Tasks /\ c.status = row[c.task].status
               /\ Claimable(row[c.task])
    <3>1. c \in {[task |-> u, status |-> row[u].status, worker |-> row[u].worker] :
                    u \in Oldest}
      BY <2>1, <2>2
    <3>2. PICK u \in Oldest :
            c = [task |-> u, status |-> row[u].status, worker |-> row[u].worker]
      BY <3>1
    <3>3. u \in Tasks /\ Claimable(row[u])
      BY DEF Oldest, Runnable
    <3> QED
      BY <3>2, <3>3
  <2>3. \A v \in Workers : \A c \in cand'[v] : c.status \in {"PENDING", "RUNNING"}
    BY <2>2 DEF Claimable
  <2>4. ASSUME NEW u \in Tasks \ disturbed PROVE Orderly(u)'
    <3>1. Orderly(u)
      OBVIOUS
    <3>2. Runners(u)' = Runners(u) /\ (Held(u)' <=> Held(u))
          /\ \A v \in Runners(u) : v # w
      BY <2>1 DEF Runners, Held
    <3>3. RowInOrder(u)'
      BY <2>1, <3>1, <3>2 DEF Orderly, RowInOrder
    <3>4. \A v \in Runners(u)' : RunInOrder(u, v)'
      BY <2>1, <3>1, <3>2 DEF Orderly, RunInOrder
    <3>5. Claimable(row[u]) => row[u].status = "PENDING"
      BY <2>1, <3>1 DEF Orderly, RowInOrder, RunInOrder, Held, Runners, Claimable
    <3>6. \A v \in Workers : \A c \in cand'[v] : c.task = u => c.status = "PENDING"
      BY <2>2, <3>1, <3>5 DEF Orderly
    <3> QED
      BY <3>1, <3>2, <3>3, <3>4, <3>6 DEF Orderly
  <2> QED
    BY <2>1, <2>3, <2>4
<1>3. CASE Claim(w)
  BY <1>3, ClaimInOrder
<1>4. CASE MissClaim(w)
  <2>1. /\ UNCHANGED <<row, approval, proc, cur, disturbed>>
        /\ cur[w] \notin Tasks
        /\ \A v \in Workers : cand'[v] \subseteq cand[v]
        /\ \A v \in Workers \ {w} : pc'[v] = pc[v]
    BY <1>4 DEF MissClaim, FirstCandidate
  <2>2. ASSUME NEW u \in Tasks \ disturbed PROVE Orderly(u)'
    <3>1. \A v \in Runners(u) : pc'[v] = pc[v]
      BY <2>1 DEF Runners
    <3> QED
      BY <2>1, <3>1, Frame
  <2> QED
    BY <2>1, <2>2
<1>5. CASE FindTerminal(w)
  <2>1. /\ t \in Tasks /\ cur' = [cur EXCEPT ![w] = NoTask]
        /\ UNCHANGED <<row, approval, proc, cand, disturbed>>
        /\ \A v \in Workers \ {w} : pc'[v] = pc[v]
        /\ row[t].status \in Terminal
    BY <1>5 DEF FindTerminal, InRun, EndRun
  <2>2. t \notin disturbed => RowInOrder(t)'
    BY <1>1, <2>1 DEF RowInOrder, Terminal
  <2> QED
    BY <1>1, <2>1, <2>2, RunEnds, RunnerStep
<1>6. CASE ReadRow(w) \/ Continue(w)
  <2>1. /\ t \in Tasks /\ cur' = cur
        /\ UNCHANGED <<row, approval, proc, cand, disturbed>>
        /\ \A v \in Workers \ {w} : pc'[v] = pc[v]
        /\ pc'[w] \in {"load", "write", "giveup"}
    BY <1>6 DEF ReadRow, Continue, InRun, Goto
  <2>2. t \notin disturbed => RunInOrder(t, w)'
    BY <1>1, <2>1 DEF RunInOrder
  <2>3. t \notin disturbed => RowInOrder(t)'
    BY <1>1, <2>1 DEF RowInOrder, Held
  <2> QED
    BY <1>1, <2>1, <2>2, <2>3, RunGoesOn, RunnerStep
<1>7. CASE GiveUp(w)
  <2>1. /\ t \in Tasks /\ pc[w] = "giveup" /\ cur' = cur
        /\ UNCHANGED <<approval, proc, cand, disturbed>>
        /\ pc' = [pc EXCEPT ![w] = "report"]
        /\ row' = [row EXCEPT ![t] = FailedRow(row[t], "PERMANENT")]
    BY <1>7 DEF GiveUp, InRun, Goto, Update
  <2>2. row'[t] = FailedRow(row[t], "PERMANENT")
    BY <2>1
  <2>3. row'[t].status = "FAILED" /\ row'[t].worker = NoWorker /\ row'[t].lease = "none"
    BY <1>1, <2>1, <2>2 DEF FailedRow, WithStatus, Row, Terminal
  <2>4. Leased(row[t])'
    BY <1>1, <2>1, <2>3 DEF Leased
  <2>5. t \notin disturbed => RunInOrder(t, w)'
    BY <1>1, <2>1, <2>3 DEF RunInOrder
  <2>6. t \notin disturbed => RowInOrder(t)'
    BY <1>1, <2>1, <2>3 DEF RowInOrder, Held
  <2> QED
    BY <1>1, <2>1, <2>4, <2>5, <2>6, RunGoesOn, RunnerStep
<1>8. CASE CountStep(w)
  <2>1. /\ t \in Tasks /\ pc[w] = "write" /\ cur' = cur
        /\ UNCHANGED <<approval, proc, cand, disturbed>>
        /\ pc' = [pc EXCEPT ![w] = "decide"]
        /\ row' = [row EXCEPT ![t] = SteppedRow(row[t], step[w])]
    BY <1>8 DEF CountStep, InRun, Goto, Update
  <2>2. row'[t] = SteppedRow(row[t], step[w])
    BY <2>1
  <2>3. row'[t].status = "RUNNING" /\ row'[t].worker = row[t].worker /\ row'[t].lease = row[t].lease
    BY <1>1, <2>1, <2>2 DEF SteppedRow, Row
  <2>4. Leased(row[t])'
    BY <1>1, <2>1, <2>3 DEF Leased
  <2>5. t \notin disturbed => RunInOrder(t, w)'
    BY <1>1, <2>1, <2>3 DEF RunInOrder
  <2>6. t \notin disturbed => RowInOrder(t)'
    BY <1>1, <2>1, <2>3 DEF RowInOrder, Held
  <2> QED
    BY <1>1, <2>1, <2>4, <2>5, <2>6, RunGoesOn, RunnerStep
<1>9. CASE Complete(w)
  <2>1. /\ t \in Tasks /\ pc[w] = "decide" /\ cur' = cur
        /\ UNCHANGED <<approval, proc, cand, disturbed>>
        /\ pc' = [pc EXCEPT ![w] = "report"]
        /\ row' = [row EXCEPT ![t] = WithStatus(row[t], "COMPLETED")]
    BY <1>9 DEF Complete, InRun, Goto, Update
  <2>2. row'[t] = WithStatus(row[t], "COMPLETED")
    BY <2>1
  <2>3. row'[t].status = "COMPLETED" /\ row'[t].worker = NoWorker /\ row'[t].lease = "none"
    BY <1>1, <2>1, <2>2 DEF WithStatus, Row, Terminal
  <2>4. Leased(row[t])'
    BY <1>1, <2>1, <2>3 DEF Leased
  <2>5. t \notin disturbed => RunInOrder(t, w)'
    BY <1>1, <2>1, <2>3 DEF RunInOrder
  <2>6. t \notin disturbed => RowInOrder(t)'
    BY <1>1, <2>1, <2>3 DEF RowInOrder, Held
  <2> QED
    BY <1>1, <2>1, <2>4, <2>5, <2>6, RunGoesOn, RunnerStep
<1>10. CASE WaitForUser(w)
  <2>1. /\ t \in Tasks /\ pc[w] = "decide" /\ cur' = cur
        /\ UNCHANGED <<approval, proc, cand, disturbed>>
        /\ pc' = [pc EXCEPT ![w] = "report"]
        /\ row' = [row EXCEPT ![t] = WaitingRow(row[t], "answer")]
    BY <1>10 DEF WaitForUser, InRun, Goto, Update
  <2>2. row'[t] = WaitingRow(row[t], "answer")
    BY <2>1
  <2>3. row'[t].status = "WAITING_FOR_USER" /\ row'[t].wants = "answer"
        /\ row'[t].worker = row[t].worker /\ row'[t].lease = row[t].lease
    BY <1>1, <2>1, <2>2 DEF WaitingRow, WithStatus, Row, Terminal
  <2>4. Leased(row[t])'
    BY <1>1, <2>1, <2>3 DEF Leased
  <2>5. t \notin disturbed => RunInOrder(t, w)'
    BY <1>1, <2>1, <2>3 DEF RunInOrder
  <2>6. t \notin disturbed => RowInOrder(t)'
    BY <1>1, <2>1, <2>3 DEF RowInOrder, Held
  <2> QED
    BY <1>1, <2>1, <2>4, <2>5, <2>6, RunGoesOn, RunnerStep
<1>11. CASE RequestApproval(w)
  <2>1. /\ t \in Tasks /\ cur' = cur
        /\ UNCHANGED <<row, proc, cand, disturbed>>
        /\ pc' = [pc EXCEPT ![w] = "park"]
        /\ approval' = [approval EXCEPT ![t] = "pending"]
    BY <1>11 DEF RequestApproval, InRun, Goto
  <2>2. t \notin disturbed => RunInOrder(t, w)'
    BY <1>1, <2>1 DEF RunInOrder
  <2>3. t \notin disturbed => RowInOrder(t)'
    BY <1>1, <2>1 DEF RowInOrder, Held
  <2> QED
    BY <1>1, <2>1, <2>2, <2>3, RunGoesOn, RunnerStep
<1>12. CASE WaitForApproval(w)
  <2>1. /\ t \in Tasks /\ pc[w] = "park" /\ cur' = [cur EXCEPT ![w] = NoTask]
        /\ UNCHANGED <<approval, proc, cand, disturbed>>
        /\ pc' = [pc EXCEPT ![w] = "idle"]
        /\ row' = [row EXCEPT ![t] = WaitingRow(row[t], "approval")]
    BY <1>12 DEF WaitForApproval, InRun, EndRun, Update
  <2>2. row'[t] = WaitingRow(row[t], "approval")
    BY <2>1
  <2>3. row'[t].status = "WAITING_FOR_USER" /\ Leased(row[t])'
    BY <1>1, <2>1, <2>2 DEF WaitingRow, WithStatus, Row, Terminal, Leased
  <2>4. t \notin disturbed => RowInOrder(t)'
    BY <1>1, <2>1, <2>3 DEF RowInOrder, RunInOrder
  <2> QED
    BY <1>1, <2>1, <2>3, <2>4, RunEnds, RunnerStep
<1>13. CASE LlmFails(w)
  <2>1. /\ t \in Tasks /\ UNCHANGED <<approval, proc, cand, disturbed>>
        /\ \/ /\ row' = [row EXCEPT ![t] = RequeuedRow(row[t])]
              /\ EndRun(w)
           \/ /\ row' = [row EXCEPT ![t] = FailedRow(row[t], "other")]
              /\ Goto(w, "report")
    BY <1>13 DEF LlmFails, InRun, Update
  <2>2. CASE row' = [row EXCEPT ![t] = RequeuedRow(row[t])] /\ EndRun(w)
    <3>1. row'[t] = RequeuedRow(row[t])
      BY <2>1, <2>2
    <3>2. row'[t].status = "PENDING" /\ row'[t].lease = "none"
      BY <1>1, <2>1, <3>1 DEF RequeuedRow, Row
    <3>3. Leased(row[t])' /\ RowInOrder(t)'
      BY <3>2 DEF Leased, RowInOrder
    <3>4. /\ cur' = [cur EXCEPT ![w] = NoTask] /\ \A v \in Workers \ {w} : pc'[v] = pc[v]
          /\ \A u \in Tasks \ {t} : row'[u] = row[u] /\ approval'[u] = approval[u]
          /\ t \in Tasks /\ UNCHANGED <<proc, cand, disturbed>>
      BY <2>1, <2>2 DEF EndRun
    <3>5. t \notin disturbed' => Orderly(t)'
      BY <1>1, <3>3, <3>4, RunEnds DEF InOrder
    <3> QED
      BY <1>1, <3>3, <3>4, <3>5, RunnerStep
  <2>3. CASE row' = [row EXCEPT ![t] = FailedRow(row[t], "other")] /\ Goto(w, "report")
    <3>1. row'[t] = FailedRow(row[t], "other")
      BY <2>1, <2>3
    <3>2. /\ row'[t].status = "FAILED" /\ row'[t].lease = "none"
          /\ row'[t].worker = NoWorker
      BY <1>1, <2>1, <3>1 DEF FailedRow, WithStatus, Row, Terminal
    <3>3. Leased(row[t])' /\ RowInOrder(t)'
      BY <3>2 DEF Leased, RowInOrder
    <3>4. RunInOrder(t, w)'
      BY <2>3, <3>2 DEF RunInOrder, Goto
    <3> QED
      BY <1>1, <2>1, <2>3, <3>3, <3>4, RunGoesOn, RunnerStep DEF Goto
  <2> QED
    BY <2>1, <2>2, <2>3
<1>14. CASE Return(w)
  <2>1. /\ t \in Tasks /\ pc[w] = "report" /\ cur' = [cur EXCEPT ![w] = NoTask]
        /\ UNCHANGED <<row, approval, proc, cand, disturbed>>
        /\ \A v \in Workers \ {w} : pc'[v] = pc[v]
    BY <1>14 DEF Return, InRun, EndRun
  <2>2. t \notin disturbed => RowInOrder(t)'
    BY <1>1, <2>1 DEF RowInOrder, RunInOrder
  <2> QED
    BY <1>1, <2>1, <2>2, RunEnds, RunnerStep
<1>15. CASE AbortRun(w)
  <2>1. /\ t \in Tasks /\ cur' = [cur EXCEPT ![w] = NoTask]
        /\ UNCHANGED <<approval, proc, cand, disturbed>>
        /\ pc' = [pc EXCEPT ![w] = "idle"]
        /\ row' = [row EXCEPT ![t] = FailedRow(row[t], "other")]
    BY <1>15 DEF AbortRun, EndRun, Update
  <2>2. row'[t] = FailedRow(row[t], "other")
    BY <2>1
  <2>3. row'[t].status = "FAILED" /\ row'[t].lease = "none"
    BY <1>1, <2>1, <2>2 DEF FailedRow, WithStatus, Row, Terminal
  <2>4. Leased(row[t])' /\ RowInOrder(t)'
    BY <2>3 DEF Leased, RowInOrder
  <2> QED
    BY <1>1, <2>1, <2>4, RunEnds, RunnerStep
<1>16. CASE LoseRun(w)
  <2>1. /\ t \in Tasks /\ cur' = [cur EXCEPT ![w] = NoTask]
        /\ UNCHANGED <<row, approval, proc, cand>>
        /\ pc' = [pc EXCEPT ![w] = "idle"]
        /\ disturbed' = disturbed \cup {t}
    BY <1>16 DEF LoseRun, EndRun
  <2>2. t \in disturbed' /\ Leased(row[t])'
    BY <1>1, <2>1
  <2> QED
    BY <2>1, <2>2, RunnerStep
<1>17. CASE Abandon(w)
  <2>1. /\ proc = "stopping" /\ UNCHANGED <<approval, proc, cand, disturbed>>
        /\ cur' = [cur EXCEPT ![w] = NoTask]
        /\ \A v \in Workers \ {w} : pc'[v] = pc[v]
    BY <1>17 DEF Abandon
  <2>2. CASE pc[w] \in Running
    <3>1. t \in Tasks /\ row' = [row EXCEPT ![t] = ReleasedRow(row[t])]
      BY <1>17, <2>2 DEF Abandon, Update
    <3>2. row'[t] = ReleasedRow(row[t])
      BY <3>1
    <3>3. row'[t].status = "PENDING" /\ row'[t].lease = "none"
      BY <1>1, <3>1, <3>2 DEF ReleasedRow, Row
    <3>4. Leased(row[t])' /\ RowInOrder(t)'
      BY <3>3 DEF Leased, RowInOrder
    <3> QED
      BY <1>1, <2>1, <3>1, <3>4, RunEnds, RunnerStep
  <2>3. CASE pc[w] \notin Running
    <3>1. UNCHANGED row /\ cur[w] \notin Tasks
      BY <1>17, <2>3 DEF Abandon
    <3>2. ASSUME NEW u \in Tasks \ disturbed PROVE Orderly(u)'
      <4>1. \A v \in Workers : cur'[v] = u <=> cur[v] = u
        BY <2>1, <3>1, NoTaskIsNone
      <4>2. \A v \in Runners(u) : pc'[v] = pc[v]
        BY <2>1, <3>1 DEF Runners
      <4> QED
        BY <2>1, <3>1, <4>1, <4>2, Frame
    <3> QED
      BY <2>1, <3>1, <3>2
  <2> QED
    BY <2>2, <2>3
<1> QED
  BY <1>2, <1>3, <1>4, <1>5, <1>6, <1>7, <1>8, <1>9, <1>10, <1>11, <1>12, <1>13, <1>14, <1>15, <1>16, <1>17 DEF Progress

\* Resuming a task nobody runs leaves it waiting its turn; resuming one under
\* a run gives its order up.
LEMMA ResumeInOrder ==
    ASSUME InOrder, TypeOK', Places', NEW t \in Tasks, NEW keep \in BOOLEAN,
           Resume(t, keep),
           \A u \in Tasks \ {t} : approval'[u] = approval[u]
    PROVE  InOrder'
<1> USE DEF InOrder, TypeOK
<1>1. /\ UNCHANGED <<proc, pc, cur, cand>>
      /\ row' = [row EXCEPT ![t] = ResumedRow(row[t], keep)]
      /\ disturbed \subseteq disturbed'
      /\ Held(t) => t \in disturbed'
  BY DEF Resume, Update
<1>2. row'[t] = ResumedRow(row[t], keep) /\ row[t] \in Row
  BY <1>1
<1>3. row'[t].status = "PENDING" /\ Leased(row[t])'
  BY <1>2 DEF ResumedRow, Row, Leased
<1>4. ASSUME NEW u \in Tasks \ disturbed' PROVE Orderly(u)'
  <2>1. Orderly(u) /\ Runners(u)' = Runners(u)
    BY <1>1 DEF Runners
  <2>2. CASE u = t
    <3>1. Runners(u) = {}
      BY <1>1, <2>2 DEF Runners, Held
    <3>2. RowInOrder(u)'
      BY <1>3, <2>2 DEF RowInOrder
    <3> QED
      BY <1>1, <2>1, <3>1, <3>2 DEF Orderly
  <2>3. CASE u # t
    BY <1>1, <2>1, <2>3, Frame
  <2> QED
    BY <2>2, <2>3
<1> QED
  BY <1>1, <1>3, <1>4

LEMMA OwnerInOrder ==
    ASSUME InOrder, TypeOK', Places', NEW t \in Tasks, Owner(t)
    PROVE  InOrder'
<1> USE DEF InOrder, TypeOK
<1>1. ASSUME NEW guarded \in BOOLEAN, Cancel(t, guarded) PROVE InOrder'
  <2>1. /\ UNCHANGED <<approval, proc, pc, cur, cand, disturbed>>
        /\ row' = [row EXCEPT ![t] = WithStatus(row[t], "CANCELLED")]
    BY <1>1 DEF Cancel, Update
  <2>2. row'[t] = WithStatus(row[t], "CANCELLED")
    BY <2>1
  <2>3. /\ row'[t].status = "CANCELLED"
        /\ row'[t].worker = NoWorker /\ row'[t].lease = "none"
    BY <2>2 DEF WithStatus, Row, Terminal
  <2>4. Leased(row[t])' /\ RowInOrder(t)'
    BY <2>3 DEF Leased, RowInOrder
  <2>5. ASSUME NEW u \in Tasks \ disturbed PROVE Orderly(u)'
    <3>1. Orderly(u) /\ Runners(u)' = Runners(u)
      BY <2>1 DEF Runners
    <3>2. CASE u = t
      <4>1. \A w \in Runners(u) : RunInOrder(u, w)'
        BY <2>1, <2>3, <3>1, <3>2 DEF Orderly, RunInOrder
      <4> QED
        BY <2>1, <2>4, <3>1, <3>2, <4>1 DEF Orderly
    <3>3. CASE u # t
      BY <2>1, <3>1, <3>3, Frame
    <3> QED
      BY <3>2, <3>3
  <2> QED
    BY <2>1, <2>4, <2>5
<1>2. CASE Reply(t)
  BY <1>2, ResumeInOrder DEF Reply
<1>3. ASSUME NEW o \in {"decided", "expired"}, NEW api \in BOOLEAN, Decide(t, o, api)
      PROVE  InOrder'
  <2>1. approval' = [approval EXCEPT ![t] = o]
    BY <1>3 DEF Decide
  <2>2. CASE Resume(t, api)
    BY <2>1, <2>2, ResumeInOrder
  <2>3. CASE /\ o = "expired"
             /\ UNCHANGED <<row, proc, pc, cur, cand, disturbed>>
    <3>1. ASSUME NEW u \in Tasks \ disturbed PROVE Orderly(u)'
      <4>1. Orderly(u) /\ Runners(u)' = Runners(u) /\ (Held(u)' <=> Held(u))
        BY <2>3 DEF Runners, Held
      <4>2. approval'[u] = approval[u] \/ approval'[u] = "expired"
        BY <2>1, <2>3
      <4>3. RowInOrder(u)'
        BY <2>3, <4>1, <4>2 DEF Orderly, RowInOrder
      <4>4. \A w \in Runners(u) : RunInOrder(u, w)'
        BY <2>3, <4>1, <4>2 DEF Orderly, RunInOrder
      <4> QED
        BY <2>3, <4>1, <4>3, <4>4 DEF Orderly
    <3> QED
      BY <2>3, <3>1
  <2> QED
    BY <1>3, <2>2, <2>3 DEF Decide
<1> QED
  BY <1>1, <1>2, <1>3 DEF Owner

\* Time passes.
LEMMA TimeInOrder ==
    ASSUME InOrder, TypeOK', Places', NEW t \in Tasks,
           LeaseExpires(t) \/ BackoffElapses(t)
    PROVE  InOrder'
<1> USE DEF InOrder, TypeOK
<1>1. UNCHANGED <<approval, proc, pc, cur, cand, disturbed>>
  BY DEF LeaseExpires, BackoffElapses
<1>2. row[t] \in Row /\ (\A u \in Tasks \ {t} : row'[u] = row[u])
  BY DEF LeaseExpires, BackoffElapses, Update
<1>3. /\ row'[t].status = row[t].status
      /\ row'[t].worker = row[t].worker
      /\ row'[t].wants = row[t].wants
  BY <1>2 DEF LeaseExpires, BackoffElapses, Update, Row
<1>4. \/ row'[t].lease = row[t].lease
      \/ row[t].lease = "live" /\ (\A w \in Runners(t) : row[t].worker # w)
  BY <1>2 DEF LeaseExpires, BackoffElapses, Update, Row
<1>5. Leased(row[t])'
  BY <1>2, <1>3, <1>4 DEF Leased
<1>6. ASSUME NEW u \in Tasks \ disturbed PROVE Orderly(u)'
  <2>1. Orderly(u) /\ Runners(u)' = Runners(u) /\ (Held(u)' <=> Held(u))
    BY <1>1 DEF Runners, Held
  <2>2. CASE u = t
    <3>1. RowInOrder(u)'
      BY <1>1, <1>3, <2>1, <2>2 DEF Orderly, RowInOrder
    <3>2. \A w \in Runners(u) : RunInOrder(u, w)'
      BY <1>1, <1>3, <1>4, <2>1, <2>2 DEF Orderly, RunInOrder, Leased
    <3> QED
      BY <1>1, <2>1, <3>1, <3>2 DEF Orderly
  <2>3. CASE u # t
    BY <1>1, <1>2, <2>1, <2>3, Frame
  <2> QED
    BY <2>2, <2>3
<1> QED
  BY <1>1, <1>2, <1>5, <1>6

\* The process stops, dies and comes back.
LEMMA ProcessInOrder ==
    ASSUME InOrder, TypeOK', Places', Crash \/ Stop \/ Exit \/ Restart
    PROVE  InOrder'
<1> USE DEF InOrder, TypeOK
<1>1. CASE Crash \/ Exit
  <2>1. /\ UNCHANGED <<row, approval, disturbed>> /\ proc' = "down"
        /\ \A w \in Workers : cur'[w] = NoTask /\ cand'[w] = {}
    BY <1>1 DEF Crash, Exit, LoopsEnd
  <2>2. ASSUME NEW u \in Tasks \ disturbed PROVE Orderly(u)'
    <3>1. Runners(u)' = {}
      BY <2>1, NoTaskIsNone DEF Runners
    <3>2. RowInOrder(u)'
      BY <2>1 DEF Orderly, RowInOrder
    <3> QED
      BY <2>1, <3>1, <3>2 DEF Orderly
  <2> QED
    BY <2>1, <2>2
<1>2. CASE Stop
  <2>1. /\ UNCHANGED <<row, approval, pc, cur, cand, disturbed>>
        /\ proc # "down"
    BY <1>2 DEF Stop
  <2> QED
    BY <2>1, Frame
<1>3. CASE Restart
  <2>1. /\ UNCHANGED <<approval, cur, cand, disturbed>>
        /\ \A t \in Tasks : row'[t] = RecoveredRow(row[t])
        /\ \A w \in Workers : cur[w] \notin Tasks
    BY <1>3 DEF Restart, Places, Running
  <2>2. \A t \in Tasks : Leased(row[t])'
    BY <2>1, RowOpsLeased
  <2>3. ASSUME NEW u \in Tasks \ disturbed PROVE Orderly(u)'
    <3>1. Runners(u)' = {}
      BY <2>1 DEF Runners
    <3>2. row'[u].status # "RUNNING"
          /\ (row'[u].status = "WAITING_FOR_USER" => row'[u] = row[u])
      <4>1. row[u] \in Row /\ row'[u] = RecoveredRow(row[u])
        BY <2>1
      <4> QED
        BY <4>1 DEF RecoveredRow, ReleasedRow, Row
    <3>3. RowInOrder(u)'
      BY <2>1, <3>2 DEF Orderly, RowInOrder
    <3> QED
      BY <2>1, <3>1, <3>3 DEF Orderly
  <2> QED
    BY <2>1, <2>2, <2>3
<1> QED
  BY <1>1, <1>2, <1>3

LEMMA InitInOrder == Init => InOrder
<1> SUFFICES ASSUME Init PROVE InOrder
  OBVIOUS
<1>1. \A t \in Tasks : row[t].status = "PENDING" /\ row[t].lease = "none"
  BY DEF Init, CreatedRow
<1>2. \A t \in Tasks : Runners(t) = {}
  BY NoTaskIsNone DEF Init, Runners
<1>3. \A w \in Workers : cand[w] = {}
  BY DEF Init
<1>4. \A t \in Tasks : Orderly(t)
  BY <1>1, <1>2, <1>3 DEF Orderly, RowInOrder
<1> QED
  BY <1>1, <1>3, <1>4, InitTyped DEF InOrder, Leased

LEMMA StepInOrder ==
    ASSUME InOrder, [Next]_vars
    PROVE  InOrder'
<1>1. TypeOK' /\ Places'
  BY TypedStep DEF InOrder
<1>2. ASSUME NEW w \in Workers, Progress(w) \/ AbortRun(w) \/ LoseRun(w) \/ Abandon(w)
      PROVE  InOrder'
  BY <1>1, <1>2, WorkInOrder
<1>3. ASSUME NEW t \in Tasks, LeaseExpires(t) \/ BackoffElapses(t) \/ Owner(t)
      PROVE  InOrder'
  BY <1>1, <1>3, TimeInOrder, OwnerInOrder
<1>4. CASE Crash \/ Stop \/ Exit \/ Restart
  BY <1>1, <1>4, ProcessInOrder
<1>5. CASE UNCHANGED vars
  BY <1>5 DEF vars, InOrder, TypeOK, Places, Orderly, RunInOrder, RowInOrder, Runners, Held
<1> QED
  BY <1>2, <1>3, <1>4, <1>5 DEF Next

\* Every reachable state is in order.
THEOREM AlwaysInOrder == Spec => []InOrder
  BY InitInOrder, StepInOrder, PTL DEF Spec

\* At most one loop runs a task that the owner did not resume under a run and
\* no run of which was lost.
THEOREM OneRunner == Spec => []SoleRunner
<1>1. InOrder => SoleRunner
  BY DEF InOrder, Orderly, SoleRunner
<1> QED
  BY <1>1, AlwaysInOrder, PTL

\* The engine and the worker leave no such task RUNNING without a run.
THEOREM NoneLeftRunning == Spec => []RunningIsHeld
<1>1. InOrder => RunningIsHeld
  BY DEF InOrder, Orderly, RowInOrder, RunningIsHeld
<1> QED
  BY <1>1, AlwaysInOrder, PTL

\* Nor does any such task wait for an approval that is already decided.
THEOREM WaitsAreAnswerable == Spec => []WaitIsAnswerable
<1>1. InOrder => WaitIsAnswerable
  BY DEF InOrder, Orderly, RowInOrder, WaitIsAnswerable
<1> QED
  BY <1>1, AlwaysInOrder, PTL
-----------------------------------------------------------------------------
(* Steps that could reopen a finished task.                                 *)

\* Claims never take a finished row: what the SELECT returned was unfinished,
\* and the UPDATE compares the status.
LEMMA ClaimsUnfinished ==
    ASSUME InOrder, NEW w \in Workers, Claim(w), NEW t \in Tasks,
           row[t].status \in Terminal
    PROVE  row'[t] = row[t]
<1>1. PICK c \in cand[w] : Matches(c) /\ Update(c.task, ClaimedRow(row[c.task], w))
  BY DEF Claim
<1>2. c.status \in {"PENDING", "RUNNING"}
  BY DEF InOrder
<1>3. c.task # t
  BY <1>1, <1>2 DEF Matches, LooksAsRead, Terminal
<1> QED
  BY <1>1, <1>3 DEF Update, InOrder, TypeOK

LEMMA OnlyOwnerReopens ==
    ASSUME InOrder, [Next]_vars, NEW t \in Tasks,
           row[t].status \in Terminal, ~Held(t), row'[t].status \notin Terminal
    PROVE  Reply(t) \/ \E o \in {"decided", "expired"}, api \in BOOLEAN :
                            Decide(t, o, api)
<1> USE DEF InOrder, TypeOK
<1>1. ASSUME NEW w \in Workers, Progress(w) \/ AbortRun(w) \/ LoseRun(w) \/ Abandon(w)
      PROVE  row'[t] = row[t]
  <2>1. CASE Claim(w)
    BY <2>1, ClaimsUnfinished
  <2>2. CASE ReadCandidates(w) \/ MissClaim(w) \/ FindTerminal(w) \/ ReadRow(w)
             \/ Continue(w) \/ RequestApproval(w) \/ Return(w) \/ LoseRun(w)
    BY <2>2 DEF ReadCandidates, MissClaim, FindTerminal, ReadRow, Continue,
                RequestApproval, Return, LoseRun
  <2>3. CASE GiveUp(w) \/ CountStep(w) \/ Complete(w) \/ WaitForUser(w)
             \/ WaitForApproval(w) \/ LlmFails(w)
    <3>1. \E r : row' = [row EXCEPT ![cur[w]] = r]
      BY <2>3 DEF GiveUp, CountStep, Complete, WaitForUser, WaitForApproval, LlmFails,
                  Update
    <3>2. cur[w] # t
      BY DEF Held
    <3> QED
      BY <3>1, <3>2
  <2>4. CASE AbortRun(w) \/ Abandon(w)
    <3>1. UNCHANGED row \/ \E r : row' = [row EXCEPT ![cur[w]] = r]
      BY <2>4 DEF AbortRun, Abandon, Update
    <3>2. cur[w] # t
      BY DEF Held
    <3> QED
      BY <3>1, <3>2
  <2> QED
    BY <1>1, <2>1, <2>2, <2>3, <2>4 DEF Progress
<1>2. ASSUME NEW u \in Tasks, LeaseExpires(u) \/ BackoffElapses(u)
      PROVE  row'[t].status = row[t].status
  <2>1. \/ row' = [row EXCEPT ![u] = [row[u] EXCEPT !.lease = "expired"]]
        \/ row' = [row EXCEPT ![u] = [row[u] EXCEPT !.delayed = FALSE]]
    BY <1>2 DEF LeaseExpires, BackoffElapses, Update
  <2>2. row[u] \in Row
    OBVIOUS
  <2> QED
    BY <2>1, <2>2 DEF Row
<1>3. ASSUME NEW u \in Tasks, Owner(u), u # t
      PROVE  row'[t] = row[t]
  <2>1. UNCHANGED row \/ \E r : row' = [row EXCEPT ![u] = r]
    BY <1>3 DEF Owner, Cancel, Reply, Decide, Resume, Update
  <2> QED
    BY <1>3, <2>1
<1>4. ASSUME NEW guarded \in BOOLEAN, Cancel(t, guarded)
      PROVE  row'[t].status \in Terminal
  <2>1. row'[t] = WithStatus(row[t], "CANCELLED") /\ row[t] \in Row
    BY <1>4 DEF Cancel, Update
  <2> QED
    BY <2>1 DEF WithStatus, Row, Terminal
<1>5. CASE Crash \/ Stop \/ Exit
  BY <1>5 DEF Crash, Stop, Exit, LoopsEnd
<1>6. CASE Restart
  BY <1>6 DEF Restart, RecoveredRow, Terminal
<1>7. CASE UNCHANGED vars
  BY <1>7 DEF vars
<1> QED
  BY <1>1, <1>2, <1>3, <1>4, <1>5, <1>6, <1>7 DEF Next, Owner

\* A finished task nobody runs is reopened by the owner alone.
THEOREM FinishedStays == Spec => FinishedStaysFinished
<1>1. InOrder /\ [Next]_vars =>
        [\A t \in Tasks :
            row[t].status \in Terminal /\ ~Held(t) /\ row'[t].status \notin Terminal
                => Reply(t) \/ \E o \in {"decided", "expired"}, api \in BOOLEAN :
                                    Decide(t, o, api)]_vars
  BY OnlyOwnerReopens
<1> QED
  BY <1>1, AlwaysInOrder, PTL DEF Spec, FinishedStaysFinished
-----------------------------------------------------------------------------
(* Who writes a row, and what.                                              *)

ByRun(t, w) ==
    \/ CountStep(w) /\ row'[t] = SteppedRow(row[t], step[w])
    \/ GiveUp(w) /\ row'[t] = FailedRow(row[t], "PERMANENT")
    \/ Complete(w) /\ row'[t] = WithStatus(row[t], "COMPLETED")
    \/ WaitForUser(w) /\ row'[t] = WaitingRow(row[t], "answer")
    \/ WaitForApproval(w) /\ row'[t] = WaitingRow(row[t], "approval")
    \/ LlmFails(w) /\ Retriable(row[t]) /\ row'[t] = RequeuedRow(row[t])
    \/ LlmFails(w) /\ row'[t] = FailedRow(row[t], "other")
    \/ AbortRun(w) /\ row'[t] = FailedRow(row[t], "other")
    \/ Abandon(w) /\ row'[t] = ReleasedRow(row[t])

ByOthers(t) ==
    \/ \E w \in Workers :
            /\ Claim(w) /\ row[t].status \notin Terminal
            /\ row'[t] = ClaimedRow(row[t], w)
    \/ \E guarded \in BOOLEAN :
            Cancel(t, guarded) /\ row'[t] = WithStatus(row[t], "CANCELLED")
    \/ \E keep \in BOOLEAN : row'[t] = ResumedRow(row[t], keep)
    \/ Restart /\ row'[t] = RecoveredRow(row[t])
    \/ row'[t] = [row[t] EXCEPT !.lease = "expired"]
    \/ row'[t] = [row[t] EXCEPT !.delayed = FALSE]

\* Each change of a row is one statement of one run, of a claim, of the owner,
\* of recovery, or time passing.
LEMMA RowIsWritten ==
    ASSUME InOrder, [Next]_vars, NEW t \in Tasks, row'[t] # row[t]
    PROVE  (\E w \in Runners(t) : ByRun(t, w)) \/ ByOthers(t)
<1> USE DEF InOrder, TypeOK
<1>1. ASSUME NEW w \in Workers, Claim(w) PROVE ByOthers(t)
  <2>1. PICK c \in cand[w] : Matches(c) /\ Update(c.task, ClaimedRow(row[c.task], w))
    BY <1>1 DEF Claim
  <2>2. c.task = t
    BY <2>1 DEF Update
  <2>3. row'[t] = ClaimedRow(row[t], w)
    BY <2>1, <2>2 DEF Update
  <2>4. row[t].status \notin Terminal
    BY <1>1, ClaimsUnfinished
  <2> QED
    BY <1>1, <2>3, <2>4 DEF ByOthers
<1>2. ASSUME NEW w \in Workers,
             \/ GiveUp(w) \/ CountStep(w) \/ Complete(w) \/ WaitForUser(w)
             \/ WaitForApproval(w) \/ LlmFails(w) \/ AbortRun(w) \/ Abandon(w)
      PROVE  w \in Runners(t) /\ ByRun(t, w)
  <2>1. PICK r : row' = [row EXCEPT ![cur[w]] = r]
    BY <1>2 DEF GiveUp, CountStep, Complete, WaitForUser, WaitForApproval, LlmFails,
                AbortRun, Abandon, Update
  <2>2. cur[w] = t
    BY <2>1
  <2>3. row'[t] = r /\ w \in Runners(t)
    BY <2>1, <2>2 DEF Runners
  <2>4. row \in [Tasks -> Row] /\ row'[t] # row[t]
    OBVIOUS
  <2> HIDE DEF InOrder, TypeOK
  <2>5. CASE CountStep(w)
    <3>1. row' = [row EXCEPT ![t] = SteppedRow(row[t], step[w])]
      BY Zenon, <2>2, <2>5 DEF CountStep, Update
    <3>2. row'[t] = SteppedRow(row[t], step[w])
      BY <2>4, <3>1
    <3> QED
      BY Zenon, <2>3, <2>5, <3>2 DEF ByRun
  <2>6. CASE GiveUp(w)
    <3>1. row' = [row EXCEPT ![t] = FailedRow(row[t], "PERMANENT")]
      BY Zenon, <2>2, <2>6 DEF GiveUp, Update
    <3>2. row'[t] = FailedRow(row[t], "PERMANENT")
      BY <2>4, <3>1
    <3> QED
      BY Zenon, <2>3, <2>6, <3>2 DEF ByRun
  <2>7. CASE Complete(w)
    <3>1. row' = [row EXCEPT ![t] = WithStatus(row[t], "COMPLETED")]
      BY Zenon, <2>2, <2>7 DEF Complete, Update
    <3>2. row'[t] = WithStatus(row[t], "COMPLETED")
      BY <2>4, <3>1
    <3> QED
      BY Zenon, <2>3, <2>7, <3>2 DEF ByRun
  <2>8. CASE WaitForUser(w)
    <3>1. row' = [row EXCEPT ![t] = WaitingRow(row[t], "answer")]
      BY Zenon, <2>2, <2>8 DEF WaitForUser, Update
    <3>2. row'[t] = WaitingRow(row[t], "answer")
      BY <2>4, <3>1
    <3> QED
      BY Zenon, <2>3, <2>8, <3>2 DEF ByRun
  <2>9. CASE WaitForApproval(w)
    <3>1. row' = [row EXCEPT ![t] = WaitingRow(row[t], "approval")]
      BY Zenon, <2>2, <2>9 DEF WaitForApproval, Update
    <3>2. row'[t] = WaitingRow(row[t], "approval")
      BY <2>4, <3>1
    <3> QED
      BY Zenon, <2>3, <2>9, <3>2 DEF ByRun
  <2>10. CASE AbortRun(w)
    <3>1. row' = [row EXCEPT ![t] = FailedRow(row[t], "other")]
      BY Zenon, <2>2, <2>10 DEF AbortRun, Update
    <3>2. row'[t] = FailedRow(row[t], "other")
      BY <2>4, <3>1
    <3> QED
      BY Zenon, <2>3, <2>10, <3>2 DEF ByRun
  <2>11. CASE Abandon(w)
    <3>1. row' = [row EXCEPT ![t] = ReleasedRow(row[t])] \/ row' = row
      BY Zenon, <2>2, <2>11 DEF Abandon, Update
    <3>2. row'[t] = ReleasedRow(row[t])
      BY <2>4, <3>1
    <3> QED
      BY Zenon, <2>3, <2>11, <3>2 DEF ByRun
  <2>12. CASE LlmFails(w)
    <3>1. \/ Retriable(row[t]) /\ row' = [row EXCEPT ![t] = RequeuedRow(row[t])]
          \/ row' = [row EXCEPT ![t] = FailedRow(row[t], "other")]
      BY Zenon, <2>2, <2>12 DEF LlmFails, Update
    <3>2. \/ Retriable(row[t]) /\ row'[t] = RequeuedRow(row[t])
          \/ row'[t] = FailedRow(row[t], "other")
      BY <2>4, <3>1
    <3> QED
      BY Zenon, <2>3, <2>12, <3>2 DEF ByRun
  <2> QED
    BY Zenon, <1>2, <2>5, <2>6, <2>7, <2>8, <2>9, <2>10, <2>11, <2>12
<1>3. ASSUME NEW u \in Tasks, LeaseExpires(u) \/ BackoffElapses(u) PROVE ByOthers(t)
  <2>1. \/ row' = [row EXCEPT ![u] = [row[u] EXCEPT !.lease = "expired"]]
        \/ row' = [row EXCEPT ![u] = [row[u] EXCEPT !.delayed = FALSE]]
    BY <1>3 DEF LeaseExpires, BackoffElapses, Update
  <2>2. u = t
    BY <2>1
  <2>3. \/ row'[t] = [row[t] EXCEPT !.lease = "expired"]
        \/ row'[t] = [row[t] EXCEPT !.delayed = FALSE]
    BY <2>1, <2>2
  <2> QED
    BY Zenon, <2>3 DEF ByOthers
<1>4. ASSUME NEW u \in Tasks, Owner(u) PROVE ByOthers(t)
  <2>1. PICK r : row' = [row EXCEPT ![u] = r]
    BY <1>4 DEF Owner, Cancel, Reply, Decide, Resume, Update
  <2>2. u = t
    BY <2>1
  <2>3. CASE \E guarded \in BOOLEAN : Cancel(u, guarded)
    BY <2>2, <2>3 DEF Cancel, Update, ByOthers
  <2>4. CASE \E keep \in BOOLEAN : Resume(u, keep)
    BY <2>2, <2>4 DEF Resume, Update, ByOthers
  <2>5. \E keep \in BOOLEAN : Resume(u, keep) \/ Cancel(u, keep)
    BY <1>4 DEF Owner, Reply, Decide
  <2> QED
    BY <2>3, <2>4, <2>5
<1>5. CASE Restart
  BY <1>5 DEF Restart, ByOthers
<1>6. \/ \E w \in Workers : Claim(w)
      \/ \E w \in Workers :
            \/ GiveUp(w) \/ CountStep(w) \/ Complete(w) \/ WaitForUser(w)
            \/ WaitForApproval(w) \/ LlmFails(w) \/ AbortRun(w) \/ Abandon(w)
      \/ \E u \in Tasks : LeaseExpires(u) \/ BackoffElapses(u)
      \/ \E u \in Tasks : Owner(u)
      \/ Restart
  BY DEF Next, Progress, ReadCandidates, MissClaim, FindTerminal, ReadRow, Continue,
         RequestApproval, Return, LoseRun, Crash, Stop, Exit, LoopsEnd, vars
<1> QED
  BY <1>1, <1>2, <1>3, <1>4, <1>5, <1>6
-----------------------------------------------------------------------------
(* What the statements do to a row's accounts: the steps and retries it has *)
(* used, and whether it was given up.                                       *)

SameWork(r, q) == q.step = r.step /\ q.retries = r.retries
SameEnd(r, q)  == SameWork(r, q) /\ q.failure = r.failure

LEMMA RowOpsKeep ==
    ASSUME NEW r \in Row
    PROVE  /\ \A n : /\ SteppedRow(r, n).step = n
                     /\ SteppedRow(r, n).retries = r.retries
                     /\ SteppedRow(r, n).failure = r.failure
           /\ \A k : SameWork(r, FailedRow(r, k)) /\ FailedRow(r, k).failure = k
           /\ \A s : SameEnd(r, WithStatus(r, s))
           /\ \A a : SameEnd(r, WaitingRow(r, a))
           /\ \A w : SameEnd(r, ClaimedRow(r, w))
           /\ \A keep : SameEnd(r, ResumedRow(r, keep))
           /\ SameEnd(r, ReleasedRow(r)) /\ SameEnd(r, RecoveredRow(r))
           /\ SameEnd(r, [r EXCEPT !.lease = "expired"])
           /\ SameEnd(r, [r EXCEPT !.delayed = FALSE])
           /\ RequeuedRow(r).step = r.step
           /\ RequeuedRow(r).failure = r.failure
           /\ RequeuedRow(r).retries = r.retries + 1
<1> USE DEF Row, SameWork, SameEnd
<1>1. \A n : /\ SteppedRow(r, n).step = n
             /\ SteppedRow(r, n).retries = r.retries
             /\ SteppedRow(r, n).failure = r.failure
  BY DEF SteppedRow
<1>2. ASSUME NEW s PROVE SameEnd(r, WithStatus(r, s))
  BY DEF WithStatus
<1>3. ASSUME NEW k PROVE SameWork(r, FailedRow(r, k)) /\ FailedRow(r, k).failure = k
  BY DEF FailedRow, WithStatus
<1>4. ASSUME NEW a PROVE SameEnd(r, WaitingRow(r, a))
  BY DEF WaitingRow, WithStatus
<1>5. ASSUME NEW w PROVE SameEnd(r, ClaimedRow(r, w))
  BY DEF ClaimedRow
<1>6. ASSUME NEW keep PROVE SameEnd(r, ResumedRow(r, keep))
  BY DEF ResumedRow
<1>7. SameEnd(r, ReleasedRow(r)) /\ SameEnd(r, RecoveredRow(r))
  BY DEF ReleasedRow, RecoveredRow
<1>8. SameEnd(r, [r EXCEPT !.lease = "expired"]) /\ SameEnd(r, [r EXCEPT !.delayed = FALSE])
  OBVIOUS
<1>9. /\ RequeuedRow(r).step = r.step
      /\ RequeuedRow(r).failure = r.failure
      /\ RequeuedRow(r).retries = r.retries + 1
  BY DEF RequeuedRow
<1> HIDE DEF Row, SameWork, SameEnd
<1> QED
  BY <1>1, <1>2, <1>3, <1>4, <1>5, <1>6, <1>7, <1>8, <1>9

Accounted(t) ==
    /\ \/ row'[t].step = row[t].step
       \/ \E w \in Runners(t) : CountStep(w) /\ row'[t].step = step[w]
    /\ \/ row'[t].retries = row[t].retries
       \/ Retriable(row[t]) /\ row'[t].retries = row[t].retries + 1
    /\ row'[t].failure = "PERMANENT" =>
            \/ row[t].failure = "PERMANENT"
            \/ \E w \in Runners(t) : GiveUp(w)

\* Only counting a step changes the steps used, only a requeue below the limit
\* the retries, and only the step limit gives a task up for good.
LEMMA AccountsChange ==
    ASSUME InOrder, [Next]_vars, NEW t \in Tasks
    PROVE  Accounted(t)
<1>1. row[t] \in Row
  BY DEF InOrder, TypeOK
<1>2. CASE row'[t] = row[t]
  BY <1>2 DEF Accounted
<1>3. ASSUME NEW w \in Runners(t), ByRun(t, w) PROVE Accounted(t)
  <2>1. CASE CountStep(w) /\ row'[t] = SteppedRow(row[t], step[w])
    <3>1. /\ SteppedRow(row[t], step[w]).step = step[w]
          /\ SteppedRow(row[t], step[w]).retries = row[t].retries
          /\ SteppedRow(row[t], step[w]).failure = row[t].failure
      BY <1>1, RowOpsKeep
    <3> QED
      BY <2>1, <3>1 DEF Accounted
  <2>2. CASE GiveUp(w) /\ row'[t] = FailedRow(row[t], "PERMANENT")
    <3>1. SameWork(row[t], FailedRow(row[t], "PERMANENT"))
      BY <1>1, RowOpsKeep
    <3> QED
      BY <2>2, <3>1 DEF Accounted, SameWork
  <2>3. CASE row'[t] = FailedRow(row[t], "other")
    <3>1. SameWork(row[t], FailedRow(row[t], "other"))
      BY <1>1, RowOpsKeep
    <3>2. FailedRow(row[t], "other").failure = "other"
      BY <1>1, RowOpsKeep
    <3> QED
      BY <2>3, <3>1, <3>2 DEF Accounted, SameWork
  <2>4. CASE Retriable(row[t]) /\ row'[t] = RequeuedRow(row[t])
    <3>1. /\ RequeuedRow(row[t]).step = row[t].step
          /\ RequeuedRow(row[t]).failure = row[t].failure
          /\ RequeuedRow(row[t]).retries = row[t].retries + 1
      BY <1>1, RowOpsKeep
    <3> QED
      BY <2>4, <3>1 DEF Accounted
  <2>5. CASE \/ row'[t] = WithStatus(row[t], "COMPLETED")
             \/ row'[t] = WaitingRow(row[t], "answer")
             \/ row'[t] = WaitingRow(row[t], "approval")
             \/ row'[t] = ReleasedRow(row[t])
    <3>1. /\ SameEnd(row[t], WithStatus(row[t], "COMPLETED"))
          /\ SameEnd(row[t], WaitingRow(row[t], "answer"))
          /\ SameEnd(row[t], WaitingRow(row[t], "approval"))
          /\ SameEnd(row[t], ReleasedRow(row[t]))
      BY <1>1, RowOpsKeep
    <3> QED
      BY <2>5, <3>1 DEF Accounted, SameEnd, SameWork
  <2> QED
    BY <1>3, <2>1, <2>2, <2>3, <2>4, <2>5 DEF ByRun
<1>4. CASE ByOthers(t)
  <2>1. \/ \E w : row'[t] = ClaimedRow(row[t], w)
        \/ row'[t] = WithStatus(row[t], "CANCELLED")
        \/ \E keep : row'[t] = ResumedRow(row[t], keep)
        \/ row'[t] = RecoveredRow(row[t])
        \/ row'[t] = [row[t] EXCEPT !.lease = "expired"]
        \/ row'[t] = [row[t] EXCEPT !.delayed = FALSE]
    BY <1>4 DEF ByOthers
  <2>2. /\ \A w : SameEnd(row[t], ClaimedRow(row[t], w))
        /\ \A keep : SameEnd(row[t], ResumedRow(row[t], keep))
        /\ SameEnd(row[t], WithStatus(row[t], "CANCELLED"))
        /\ SameEnd(row[t], RecoveredRow(row[t]))
        /\ SameEnd(row[t], [row[t] EXCEPT !.lease = "expired"])
        /\ SameEnd(row[t], [row[t] EXCEPT !.delayed = FALSE])
    BY <1>1, RowOpsKeep
  <2>3. SameEnd(row[t], row'[t])
    BY <2>1, <2>2
  <2> QED
    BY <2>3 DEF Accounted, SameEnd, SameWork
<1> QED
  BY <1>2, <1>3, <1>4, RowIsWritten

\* Unless it is told to persist for ever, the engine puts a task back at most
\* max_retries times, whoever resumes it and however many runs it has.
RetriesBounded ==
    PersistForever \/ \A t \in Tasks : row[t].retries <= MaxRetries

\* _fail compares retries and writes retries + 1 in one transaction.
THEOREM RetriesStayBounded == Spec => []RetriesBounded
<1>1. Init => RetriesBounded
  BY RowAssumption DEF Init, CreatedRow, RetriesBounded
<1>2. ASSUME InOrder, RetriesBounded, [Next]_vars PROVE RetriesBounded'
  <2>1. SUFFICES ASSUME ~PersistForever, NEW t \in Tasks
                 PROVE  row'[t].retries <= MaxRetries
    BY DEF RetriesBounded
  <2>2. row[t].retries \in Nat /\ row[t].retries <= MaxRetries
    BY <1>2, <2>1 DEF InOrder, TypeOK, Row, RetriesBounded
  <2>3. CASE row'[t].retries = row[t].retries
    BY <2>2, <2>3
  <2>4. CASE Retriable(row[t]) /\ row'[t].retries = row[t].retries + 1
    BY <2>1, <2>2, <2>4, RowAssumption DEF Retriable
  <2> QED
    BY <1>2, <2>3, <2>4, AccountsChange DEF Accounted
<1> QED
  BY <1>1, <1>2, AlwaysInOrder, PTL DEF Spec
-----------------------------------------------------------------------------
(* The steps of an undisturbed task are counted one by one.                 *)

Counting(t) ==
    /\ row[t].failure = "PERMANENT" => row[t].step = MaxSteps
    /\ \A w \in Runners(t) :
        /\ pc[w] = "write" => step[w] = row[t].step + 1
        /\ pc[w] = "giveup" => row[t].step = MaxSteps

AllCounted == \A t \in Tasks \ disturbed : Counting(t)

\* Only reading the row brings a run to where it counts a step or gives up.
LEMMA OnlyReadingArrives ==
    ASSUME TypeOK, [Next]_vars, NEW w \in Workers, pc'[w] \in {"write", "giveup"}
    PROVE  \/ ReadRow(w) /\ cur' = cur
           \/ pc'[w] = pc[w] /\ cur'[w] = cur[w] /\ step'[w] = step[w]
<1> USE DEF TypeOK, Goto, EndRun
<1>1. ASSUME NEW v \in Workers,
             \/ ReadCandidates(v) \/ Claim(v) \/ MissClaim(v) \/ FindTerminal(v)
             \/ GiveUp(v) \/ CountStep(v) \/ Continue(v) \/ Complete(v)
             \/ WaitForUser(v) \/ RequestApproval(v) \/ WaitForApproval(v)
             \/ LlmFails(v) \/ Return(v) \/ AbortRun(v) \/ LoseRun(v) \/ Abandon(v)
      PROVE  pc'[w] = pc[w] /\ cur'[w] = cur[w] /\ step'[w] = step[w]
  <2>1. /\ step' = step
        /\ \A u \in Workers \ {v} : pc'[u] = pc[u] /\ cur'[u] = cur[u]
        /\ pc'[v] \notin {"write", "giveup"}
    <3>1. CASE ReadCandidates(v) \/ FindTerminal(v) \/ GiveUp(v) \/ CountStep(v)
      BY <3>1 DEF ReadCandidates, FindTerminal, GiveUp, CountStep
    <3>2. CASE Claim(v)
      BY <3>2 DEF Claim
    <3>3. CASE MissClaim(v)
      BY <3>3 DEF MissClaim
    <3>4. CASE Continue(v) \/ Complete(v) \/ WaitForUser(v) \/ RequestApproval(v)
      BY <3>4 DEF Continue, Complete, WaitForUser, RequestApproval
    <3>5. CASE WaitForApproval(v) \/ LlmFails(v) \/ Return(v)
      BY <3>5 DEF WaitForApproval, LlmFails, Return
    <3>6. CASE AbortRun(v) \/ LoseRun(v) \/ Abandon(v)
      BY <3>6 DEF AbortRun, LoseRun, Abandon
    <3> QED
      BY <1>1, <3>1, <3>2, <3>3, <3>4, <3>5, <3>6
  <2> QED
    BY <2>1
<1>2. ASSUME NEW v \in Workers, ReadRow(v)
      PROVE  \/ ReadRow(w) /\ cur' = cur
             \/ pc'[w] = pc[w] /\ cur'[w] = cur[w] /\ step'[w] = step[w]
  BY <1>2 DEF ReadRow
<1>3. ASSUME NEW u \in Tasks, LeaseExpires(u) \/ BackoffElapses(u) \/ Owner(u)
      PROVE  pc' = pc /\ cur' = cur /\ step' = step
  BY <1>3 DEF LeaseExpires, BackoffElapses, Owner, Cancel, Reply, Decide, Resume
<1>4. CASE Crash \/ Stop \/ Exit \/ Restart \/ UNCHANGED vars
  BY <1>4 DEF Crash, Stop, Exit, Restart, LoopsEnd, vars
<1>5. \/ \E v \in Workers :
            \/ ReadCandidates(v) \/ Claim(v) \/ MissClaim(v) \/ FindTerminal(v)
            \/ GiveUp(v) \/ CountStep(v) \/ Continue(v) \/ Complete(v)
            \/ WaitForUser(v) \/ RequestApproval(v) \/ WaitForApproval(v)
            \/ LlmFails(v) \/ Return(v) \/ AbortRun(v) \/ LoseRun(v) \/ Abandon(v)
      \/ \E v \in Workers : ReadRow(v)
      \/ \E u \in Tasks : LeaseExpires(u) \/ BackoffElapses(u) \/ Owner(u)
      \/ Crash \/ Stop \/ Exit \/ Restart \/ UNCHANGED vars
  BY DEF Next, Progress
<1> QED
  BY <1>1, <1>2, <1>3, <1>4, <1>5

\* A disturbed task stays disturbed.
LEMMA DisturbedGrows == ASSUME [Next]_vars PROVE disturbed \subseteq disturbed'
  BY DEF Next, Progress, ReadCandidates, Claim, MissClaim, FindTerminal, ReadRow, GiveUp,
         CountStep, Continue, Complete, WaitForUser, RequestApproval, WaitForApproval,
         LlmFails, Return, AbortRun, LoseRun, Abandon, LeaseExpires, BackoffElapses,
         Owner, Cancel, Reply, Decide, Resume, Crash, Stop, Exit, Restart, LoopsEnd, vars

LEMMA CountingStep ==
    ASSUME InOrder, AllCounted, [Next]_vars
    PROVE  AllCounted'
<1>1. SUFFICES ASSUME NEW t \in Tasks, t \notin disturbed PROVE Counting(t)'
  BY DisturbedGrows DEF AllCounted
<1>2. Counting(t) /\ Accounted(t) /\ Orderly(t)
  BY <1>1, AccountsChange DEF AllCounted, InOrder
<1>3. row[t].step \in 0..MaxSteps /\ TypeOK /\ MaxSteps \in Nat
  BY RowAssumption DEF InOrder, TypeOK, Row
<1>4. ASSUME NEW v \in Runners(t), CountStep(v), row'[t].step = step[v]
      PROVE  Counting(t)'
  <2>1. pc[v] = "write" /\ v \in Workers /\ step[v] = row[t].step + 1
    BY <1>2, <1>4 DEF CountStep, InRun, Runners, Counting
  <2>2. \A w \in Runners(t) : w = v
    BY <1>2, <1>4 DEF Orderly
  <2>3. row'[t].failure # "PERMANENT"
    <3>1. step[v] \in 0..MaxSteps
      BY <1>3, <2>1 DEF TypeOK
    <3>2. row[t].failure # "PERMANENT"
      BY <1>2, <1>3, <2>1, <3>1 DEF Counting
    <3>3. \A w \in Runners(t) : ~GiveUp(w)
      BY <2>1, <2>2 DEF GiveUp, InRun
    <3> QED
      BY <1>2, <3>2, <3>3 DEF Accounted
  <2>4. pc'[v] = "decide" /\ Runners(t)' = {v}
    BY <1>3, <1>4, <2>1, <2>2 DEF CountStep, Goto, Runners, TypeOK
  <2> QED
    BY <2>3, <2>4 DEF Counting
<1>5. CASE row'[t].step = row[t].step
  <2>1. row'[t].failure = "PERMANENT" => row[t].step = MaxSteps
    BY <1>2 DEF Accounted, Counting, GiveUp, InRun
  <2>2. ASSUME NEW w \in Runners(t)', pc'[w] \in {"write", "giveup"}
        PROVE  /\ pc'[w] = "write" => step'[w] = row[t].step + 1
               /\ pc'[w] = "giveup" => row[t].step = MaxSteps
    <3>1. w \in Workers /\ cur'[w] = t
      BY <2>2 DEF Runners
    <3>2. CASE ReadRow(w) /\ cur' = cur
      BY <1>3, <3>1, <3>2 DEF ReadRow, StepLimitReached, Goto, TypeOK
    <3>3. CASE pc'[w] = pc[w] /\ cur'[w] = cur[w] /\ step'[w] = step[w]
      BY <1>2, <2>2, <3>1, <3>3 DEF Counting, Runners
    <3> QED
      BY <1>3, <2>2, <3>1, <3>2, <3>3, OnlyReadingArrives
  <2> QED
    BY <1>5, <2>1, <2>2 DEF Counting
<1> QED
  BY <1>2, <1>4, <1>5 DEF Accounted

\* A task is given up for good only with its steps used up: no outage, stop,
\* crash or cancellation makes the engine give up an undisturbed task early.
GivenUpAtLimit ==
    \A t \in Tasks \ disturbed :
        row[t].failure = "PERMANENT" => row[t].step = MaxSteps

LEMMA AlwaysCounted == Spec => []AllCounted
<1>1. Init => AllCounted
  BY NoTaskIsNone DEF Init, CreatedRow, AllCounted, Counting, Runners
<1>2. InOrder /\ AllCounted /\ [Next]_vars => AllCounted'
  BY CountingStep
<1> QED
  BY <1>1, <1>2, AlwaysInOrder, PTL DEF Spec

\* This is how far "never abandoned" holds: outages may use up the steps, but
\* nothing else than using them up gives a task up as PERMANENT.
THEOREM GivenUpOnlyAtLimit == Spec => []GivenUpAtLimit
<1>1. AllCounted => GivenUpAtLimit
  BY DEF AllCounted, Counting, GivenUpAtLimit
<1> QED
  BY <1>1, AlwaysCounted, PTL

\* A step of an undisturbed task is never counted twice, skipped or taken back,
\* whichever worker runs it and however often it changes hands.
CountsOneByOne ==
    \A t \in Tasks \ disturbed : row'[t].step \in {row[t].step, row[t].step + 1}

\* run_task reads current_step in one transaction and writes it in the next;
\* nothing comes between but for a task that was disturbed.
THEOREM StepsCountOneByOne == Spec => [][CountsOneByOne]_vars
<1>1. InOrder /\ AllCounted /\ [Next]_vars => [CountsOneByOne]_vars
  <2>1. SUFFICES ASSUME InOrder, AllCounted, [Next]_vars,
                        NEW t \in Tasks \ disturbed, row'[t].step # row[t].step
                 PROVE  row'[t].step = row[t].step + 1
    BY DEF CountsOneByOne
  <2>2. PICK w \in Runners(t) : CountStep(w) /\ row'[t].step = step[w]
    BY <2>1, AccountsChange DEF Accounted
  <2> QED
    BY <2>1, <2>2 DEF AllCounted, Counting, CountStep, InRun
<1> QED
  BY <1>1, AlwaysInOrder, AlwaysCounted, PTL DEF Spec
-----------------------------------------------------------------------------
(* How far the two action properties that fail do fail.                     *)

\* A cancelled task is set to run again by one thing only: a run of it that
\* read its row before the cancellation and counts its step after it.
OnlyACountRevives ==
    \A t \in Tasks :
        row[t].status = "CANCELLED" /\ row'[t].status = "RUNNING"
            => \E w \in Runners(t) : CountStep(w)

LEMMA RowOpsStatus ==
    ASSUME NEW r \in Row
    PROVE  /\ \A k : FailedRow(r, k).status # "RUNNING"
           /\ WithStatus(r, "COMPLETED").status # "RUNNING"
           /\ WithStatus(r, "CANCELLED").status # "RUNNING"
           /\ \A a : WaitingRow(r, a).status # "RUNNING"
           /\ \A keep : ResumedRow(r, keep).status # "RUNNING"
           /\ RequeuedRow(r).status # "RUNNING"
           /\ ReleasedRow(r).status # "RUNNING"
           /\ RecoveredRow(r).status # "RUNNING"
           /\ [r EXCEPT !.lease = "expired"].status = r.status
           /\ [r EXCEPT !.delayed = FALSE].status = r.status
<1> USE DEF Row, WithStatus
<1>1. ASSUME NEW k PROVE FailedRow(r, k).status # "RUNNING"
  BY DEF FailedRow
<1>2. ASSUME NEW a PROVE WaitingRow(r, a).status # "RUNNING"
  BY DEF WaitingRow
<1>3. ASSUME NEW keep PROVE ResumedRow(r, keep).status # "RUNNING"
  BY DEF ResumedRow
<1>4. /\ WithStatus(r, "COMPLETED").status # "RUNNING"
      /\ WithStatus(r, "CANCELLED").status # "RUNNING"
  OBVIOUS
<1>5. /\ RequeuedRow(r).status # "RUNNING"
      /\ ReleasedRow(r).status # "RUNNING"
      /\ RecoveredRow(r).status # "RUNNING"
  BY DEF RequeuedRow, ReleasedRow, RecoveredRow
<1>6. /\ [r EXCEPT !.lease = "expired"].status = r.status
      /\ [r EXCEPT !.delayed = FALSE].status = r.status
  OBVIOUS
<1> HIDE DEF Row, WithStatus
<1> QED
  BY <1>1, <1>2, <1>3, <1>4, <1>5, <1>6

\* This is how far "/cancel stops a task" fails: never by a claim, a retry, a
\* stop or a restart, only in the window between run_task's read and its write.
THEOREM CancelledRunsOnlyByCount == Spec => [][OnlyACountRevives]_vars
<1>1. InOrder /\ [Next]_vars => [OnlyACountRevives]_vars
  <2>1. SUFFICES ASSUME InOrder, [Next]_vars, NEW t \in Tasks,
                        row[t].status = "CANCELLED", row'[t].status = "RUNNING"
                 PROVE  \E w \in Runners(t) : CountStep(w)
    BY DEF OnlyACountRevives
  <2>2. row[t] \in Row /\ row'[t] # row[t]
    BY <2>1 DEF InOrder, TypeOK
  <2>3. ASSUME NEW w \in Runners(t), ByRun(t, w) PROVE CountStep(w)
    <3>1. /\ row'[t] # FailedRow(row[t], "PERMANENT")
          /\ row'[t] # FailedRow(row[t], "other")
          /\ row'[t] # WithStatus(row[t], "COMPLETED")
          /\ row'[t] # WaitingRow(row[t], "answer")
          /\ row'[t] # WaitingRow(row[t], "approval")
          /\ row'[t] # RequeuedRow(row[t])
          /\ row'[t] # ReleasedRow(row[t])
      BY <2>1, <2>2, RowOpsStatus
    <3> QED
      BY <2>3, <3>1 DEF ByRun
  <2>4. ~ByOthers(t)
    <3>1. /\ row'[t] # WithStatus(row[t], "CANCELLED")
          /\ \A keep : row'[t] # ResumedRow(row[t], keep)
          /\ row'[t] # RecoveredRow(row[t])
      BY <2>1, <2>2, RowOpsStatus
    <3>2. /\ row'[t] # [row[t] EXCEPT !.lease = "expired"]
          /\ row'[t] # [row[t] EXCEPT !.delayed = FALSE]
      BY <2>1, <2>2, RowOpsStatus
    <3>3. row[t].status \in Terminal
      BY <2>1 DEF Terminal
    <3> QED
      BY <3>1, <3>2, <3>3 DEF ByOthers
  <2> QED
    BY <2>1, <2>2, <2>3, <2>4, RowIsWritten
<1> QED
  BY <1>1, AlwaysInOrder, PTL DEF Spec

\* A result that is committed is lost at the end of its run only if the run is
\* cut off from outside: by its time limit or an exception, or by a stop.
OnlyACutUndoes ==
    \A w \in Workers :
        /\ pc[w] = "report" /\ pc'[w] # "report"
        /\ row[cur[w]].status = "COMPLETED" /\ row'[cur[w]].status # "COMPLETED"
        => AbortRun(w) \/ Abandon(w)

\* This is how far "never allowed to break the task" fails: neither the owner's
\* message nor the reflection changes the row of a run that returns by itself.
THEOREM ResultsLostOnlyByCuts == Spec => [][OnlyACutUndoes]_vars
<1>1. InOrder /\ [Next]_vars => [OnlyACutUndoes]_vars
  <2>1. SUFFICES ASSUME InOrder, [Next]_vars, NEW w \in Workers,
                        pc[w] = "report", pc'[w] # "report", row' # row
                 PROVE  AbortRun(w) \/ Abandon(w)
    BY DEF OnlyACutUndoes
  <2> USE <2>1 DEF InOrder, TypeOK, Goto, EndRun, InRun
  <2>2. ASSUME NEW v \in Workers,
               \/ Claim(v) \/ GiveUp(v) \/ CountStep(v) \/ Complete(v)
               \/ WaitForUser(v) \/ WaitForApproval(v) \/ LlmFails(v)
        PROVE  FALSE
    <3>1. pc[v] # "report" /\ \E place : pc' = [pc EXCEPT ![v] = place]
      BY <2>2 DEF Claim, FirstCandidate, GiveUp, CountStep, Complete, WaitForUser,
                  WaitForApproval, LlmFails
    <3> QED
      BY <3>1
  <2>3. ASSUME NEW v \in Workers, AbortRun(v) \/ Abandon(v)
        PROVE  AbortRun(w) \/ Abandon(w)
    <3>1. \E place : pc' = [pc EXCEPT ![v] = place]
      BY <2>3 DEF AbortRun, Abandon
    <3>2. v = w
      BY <3>1
    <3> QED
      BY <2>3, <3>2
  <2>4. ASSUME NEW u \in Tasks, LeaseExpires(u) \/ BackoffElapses(u) \/ Owner(u)
        PROVE  FALSE
    BY <2>4 DEF LeaseExpires, BackoffElapses, Owner, Cancel, Reply, Decide, Resume
  <2>5. CASE Restart
    BY <2>5 DEF Restart, Places
  <2>6. \/ \E v \in Workers :
              \/ Claim(v) \/ GiveUp(v) \/ CountStep(v) \/ Complete(v)
              \/ WaitForUser(v) \/ WaitForApproval(v) \/ LlmFails(v)
        \/ \E v \in Workers : AbortRun(v) \/ Abandon(v)
        \/ \E u \in Tasks : LeaseExpires(u) \/ BackoffElapses(u) \/ Owner(u)
        \/ Restart
    BY DEF Next, Progress, ReadCandidates, MissClaim, FindTerminal, ReadRow, Continue,
           RequestApproval, Return, LoseRun, Crash, Stop, Exit, LoopsEnd, vars
  <2> QED
    BY <2>2, <2>3, <2>4, <2>5, <2>6
<1> QED
  BY <1>1, AlwaysInOrder, PTL DEF Spec
=============================================================================
