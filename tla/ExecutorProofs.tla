--------------------------- MODULE ExecutorProofs ---------------------------
(***************************************************************************)
(* Theorems of Executor, for any calls, workers and bounds.                *)
(***************************************************************************)
EXTENDS Executor, SequenceTheorems, TLAPS

Steps == {"idle", "judge", "look", "ask", "lookup", "act", "record"}
Busy  == Steps \ {"idle"}

\* What TypeOK says of the runs; and a worker that is busy holds a call.
RunTyped ==
    /\ \A w \in Workers : pc[w] = "idle" <=> cur[w] = NoCall
    /\ pc \in [Workers -> Steps]
    /\ cur \in [Workers -> Calls \cup {NoCall}]
    /\ tries \in [Workers -> 0..MaxAttempts - 1]

\* What it says of the desks.
Decision == [at : {"write", "recall", "learn"}, request : Nat,
             approve : BOOLEAN, seen : RequestStatus, found : Pattern]
DesksTyped ==
    /\ desk \in [Desks -> {FreeDesk} \cup Decision]
    /\ \A d \in Desks : desk[d] # FreeDesk => desk[d].request \in Indices

\* A run moves on or ends.
LEMMA RunMoves ==
    ASSUME RunTyped, NEW w \in Workers, pc[w] # "idle",
           \/ \E place \in Busy : Goto(w, place)
           \/ Finish(w) \/ TryAgain(w) \/ UNCHANGED run
    PROVE  RunTyped'
<1>1. ASSUME NEW place \in Busy, Goto(w, place) PROVE RunTyped'
  BY <1>1 DEF Goto, RunTyped, Busy, Steps
<1>2. 0 \in 0..MaxAttempts - 1
  BY ExecutorAssumption
<1>3. ASSUME Finish(w) PROVE RunTyped'
  BY <1>2, <1>3 DEF Finish, RunTyped, Steps
<1>4. ASSUME TryAgain(w) PROVE RunTyped'
  <2>1. CASE tries[w] + 1 < MaxAttempts
    <3>1. tries[w] + 1 \in 0..MaxAttempts - 1
      BY <2>1, ExecutorAssumption DEF RunTyped
    <3> QED
      BY <1>4, <2>1, <3>1 DEF TryAgain, RunTyped
  <2>2. CASE ~(tries[w] + 1 < MaxAttempts)
    BY <1>3, <1>4, <2>2 DEF TryAgain
  <2> QED
    BY <2>1, <2>2
<1>5. ASSUME UNCHANGED run PROVE RunTyped'
  BY <1>5 DEF run, RunTyped
<1> QED
  BY <1>1, <1>3, <1>4, <1>5

\* Whoever executes a call holds one.
LEMMA HeldCall ==
    ASSUME RunTyped, NEW w \in Workers, pc[w] # "idle"
    PROVE  cur[w] \in Calls /\ cur[w].shape \in Shapes /\ cur[w].task \in Tasks
BY DEF RunTyped, Shapes, Tasks

LEMMA RequestTyped ==
    ASSUME TypeOK, NEW i \in Indices
    PROVE  /\ requests[i] \in Request
           /\ requests[i].call.shape \in Shapes
           /\ requests[i].call.task \in Tasks
<1>1. requests \in Seq(Request) /\ i \in 1..Len(requests)
  BY DEF TypeOK, Indices
<1>2. requests[i] \in Request
  BY <1>1, ElementOfSeq
<1> QED
  BY <1>2 DEF Request, Shapes, Tasks

LEMMA BusyDesk ==
    ASSUME TypeOK, NEW d \in Desks, desk[d].at \in {"write", "recall", "learn"}
    PROVE  /\ desk[d] \in Decision /\ desk[d] # FreeDesk
           /\ desk[d].request \in Indices
           /\ Shape(d) \in Shapes
<1>1. desk[d] # FreeDesk
  BY DEF FreeDesk
<1>2. desk[d] \in Decision /\ desk[d].request \in Indices
  BY <1>1 DEF TypeOK, Decision
<1> QED
  BY <1>1, <1>2, RequestTyped DEF Shape

LEMMA SpendTyped ==
    ASSUME budget \in [{"owner", "fault"} -> Nat],
           NEW what \in {"owner", "fault"}, Spend(what)
    PROVE  budget' \in [{"owner", "fault"} -> Nat]
BY DEF Spend

LEMMA TakesTyped ==
    ASSUME effects \in [Calls -> Nat], NEW c \in Calls, Takes(c)
    PROVE  effects' \in [Calls -> Nat]
BY DEF Takes

LEMMA ExcuseTyped ==
    ASSUME excused \in [Calls -> Nat], NEW cs, Excuse(cs)
    PROVE  excused' \in [Calls -> Nat]
BY DEF Excuse

LEMMA RecordedTyped ==
    ASSUME NEW found \in Pattern, NEW now \in Pattern, NEW approve \in BOOLEAN
    PROVE  Recorded(found, now, approve) \in Pattern
BY DEF Recorded, Pattern

LEMMA PatternTyped ==
    ASSUME pattern \in [Shapes -> Pattern], NEW s \in Shapes, NEW p \in Pattern,
           pattern' = [pattern EXCEPT ![s] = p]
    PROVE  pattern' \in [Shapes -> Pattern]
OBVIOUS

\* A desk may change while the requests keep their places.
LEMMA DeskMoves ==
    ASSUME DesksTyped, Indices \subseteq Indices', NEW d \in Desks, NEW e,
           e = FreeDesk \/ (e \in Decision /\ e.request \in Indices),
           desk' = [desk EXCEPT ![d] = e]
    PROVE  DesksTyped'
<1>1. desk' \in [Desks -> {FreeDesk} \cup Decision]
  BY DEF DesksTyped
<1>2. ASSUME NEW f \in Desks, desk'[f] # FreeDesk
      PROVE  desk'[f].request \in Indices'
  BY <1>2 DEF DesksTyped
<1> QED
  BY <1>1, <1>2 DEF DesksTyped

\* What it says of the tables, the level, and the history.
TablesTyped ==
    /\ requests \in Seq(Request)
    /\ pattern \in [Shapes -> Pattern]
    /\ ledger \subseteq Calls
    /\ waiting \subseteq Tasks
    /\ level \in [live : Levels, stored : Levels \cup {"unset"}]
HistoryTyped ==
    /\ budget \in [{"owner", "fault"} -> Nat]
    /\ effects \in [Calls -> Nat] /\ excused \in [Calls -> Nat]
    /\ granted \subseteq Calls
    /\ yes \in [Shapes -> Nat]
    /\ unlearned \subseteq Shapes
    /\ levels \subseteq Levels

\* The type invariant, strengthened to be inductive.
Typed == RunTyped /\ DesksTyped /\ TablesTyped /\ HistoryTyped

LEMMA TypeParts == Typed => TypeOK
BY DEF Typed, TypeOK, RunTyped, DesksTyped, TablesTyped, HistoryTyped, Steps, Decision

LEMMA InitTyped == Init => Typed
<1> SUFFICES ASSUME Init PROVE Typed
  OBVIOUS
<1>1. RunTyped
  BY ExecutorAssumption DEF Init, RunTyped, Steps
<1>2. DesksTyped
  BY DEF Init, DesksTyped
<1>3. TablesTyped
  <2>1. <<>> \in Seq(Request)
    OBVIOUS
  <2> QED
    BY <2>1, AutonomyAssumption DEF Init, TablesTyped, NewPattern, Pattern
<1>4. HistoryTyped
  BY ExecutorAssumption, AutonomyAssumption DEF Init, HistoryTyped
<1> QED
  BY <1>1, <1>2, <1>3, <1>4 DEF Typed

LEMMA ExecuteTyped ==
    ASSUME Typed, NEW w \in Workers, Execute(w)
    PROVE  Typed'
<1> USE DEF Typed
<1>1. ASSUME NEW c \in Calls, Start(w, c) PROVE Typed'
  <2>1. RunTyped'
    BY <1>1, ExecutorAssumption DEF Start, RunTyped, Steps
  <2> QED
    BY <1>1, <2>1 DEF Start, DesksTyped, TablesTyped, HistoryTyped, db, history,
                      Indices
<1>2. CASE Judge(w)
  <2>1. RunTyped'
    BY <1>2, RunMoves DEF Judge, Busy, Steps
  <2> QED
    BY <1>2, <2>1 DEF Judge, DesksTyped, TablesTyped, HistoryTyped, db, history,
                      Indices
<1>3. CASE Look(w)
  <2>1. cur[w] \in Calls /\ cur[w].task \in Tasks
    BY <1>3, HeldCall DEF Look
  <2>2. RunTyped'
    BY <1>3, RunMoves DEF Look, Busy, Steps
  <2>3. waiting' \subseteq Tasks
    BY <1>3, <2>1 DEF Look, TablesTyped
  <2> QED
    BY <1>3, <2>2, <2>3 DEF Look, DesksTyped, TablesTyped, HistoryTyped, history,
                            Indices
<1>4. CASE Ask(w)
  <2>1. cur[w] \in Calls /\ cur[w].task \in Tasks
    BY <1>4, HeldCall DEF Ask
  <2>2. RunTyped'
    BY <1>4, RunMoves DEF Ask
  <2>3. requests' \in Seq(Request) /\ Indices \subseteq Indices'
    BY <1>4, <2>1 DEF Ask, TablesTyped, Request, RequestStatus, Indices
  <2> QED
    BY <1>4, <2>1, <2>2, <2>3 DEF Ask, DesksTyped, TablesTyped, HistoryTyped,
                                  history
<1>5. CASE Lookup(w)
  <2>1. RunTyped'
    BY <1>5, RunMoves DEF Lookup, Busy, Steps
  <2> QED
    BY <1>5, <2>1 DEF Lookup, DesksTyped, TablesTyped, HistoryTyped, db, history,
                      Indices
<1>6. CASE Act(w)
  <2>1. RunTyped'
    BY <1>6, RunMoves DEF Act, Busy, Steps
  <2>2. effects' \in [Calls -> Nat]
    BY <1>6, HeldCall, TakesTyped DEF Act, HistoryTyped
  <2> QED
    BY <1>6, <2>1, <2>2 DEF Act, DesksTyped, TablesTyped, HistoryTyped, db, Indices
<1>7. CASE Fail(w)
  <2>1. RunTyped'
    BY <1>7, RunMoves DEF Fail
  <2> QED
    BY <1>7, <2>1 DEF Fail, DesksTyped, TablesTyped, HistoryTyped, db, history,
                      Indices
<1>8. CASE Slip(w)
  <2>1. RunTyped'
    BY <1>8, RunMoves DEF Slip
  <2>2. effects' \in [Calls -> Nat] /\ excused' \in [Calls -> Nat]
    BY <1>8, HeldCall, TakesTyped, ExcuseTyped DEF Slip, HistoryTyped
  <2>3. budget' \in [{"owner", "fault"} -> Nat]
    BY <1>8, SpendTyped DEF Slip, HistoryTyped
  <2> QED
    BY <1>8, <2>1, <2>2, <2>3 DEF Slip, DesksTyped, TablesTyped, HistoryTyped, db,
                                  Indices
<1>9. CASE Record(w)
  <2>1. RunTyped'
    BY <1>9, RunMoves DEF Record
  <2>2. cur[w] \in Calls
    BY <1>9, HeldCall DEF Record
  <2> QED
    BY <1>9, <2>1, <2>2 DEF Record, DesksTyped, TablesTyped, HistoryTyped, history,
                            Indices
<1>10. CASE Cut(w)
  <2>1. RunTyped'
    BY <1>10, RunMoves DEF Cut
  <2>2. budget' \in [{"owner", "fault"} -> Nat] /\ excused' \in [Calls -> Nat]
    BY <1>10, SpendTyped, ExcuseTyped DEF Cut, HistoryTyped
  <2> QED
    BY <1>10, <2>1, <2>2 DEF Cut, DesksTyped, TablesTyped, HistoryTyped, db,
                             Indices
<1> QED
  BY <1>1, <1>2, <1>3, <1>4, <1>5, <1>6, <1>7, <1>8, <1>9, <1>10 DEF Execute

LEMMA AtDeskTyped ==
    ASSUME Typed, NEW d \in Desks, AtDesk(d)
    PROVE  Typed'
<1> USE DEF Typed
<1>1. ASSUME NEW i \in Indices, NEW approve \in BOOLEAN, ReadRequest(d, i, approve)
      PROVE  Typed'
  <2> DEFINE e == [at |-> "write", request |-> i, approve |-> approve,
                   seen |-> requests[i].status, found |-> NewPattern]
  <2>1. requests[i].status \in RequestStatus
    BY RequestTyped, TypeParts DEF Request
  <2>2. i \in Nat
    BY DEF Indices
  <2>3. e \in Decision /\ e.request \in Indices
    BY <2>1, <2>2 DEF Decision, Pattern, NewPattern
  <2>4. Indices' = Indices /\ desk' = [desk EXCEPT ![d] = e]
    BY <1>1 DEF ReadRequest, db, Indices
  <2> HIDE DEF e
  <2>5. DesksTyped'
    BY <2>3, <2>4, DeskMoves
  <2>6. budget' \in [{"owner", "fault"} -> Nat]
    BY <1>1, SpendTyped DEF ReadRequest, HistoryTyped
  <2> QED
    BY <1>1, <2>5, <2>6 DEF ReadRequest, RunTyped, TablesTyped, HistoryTyped, db,
                            run, history
<1>2. CASE Decide(d)
  <2> DEFINE i == desk[d].request
             r == requests[i]
             s == IF desk[d].seen = "PENDING" THEN Outcome(r, desk[d].approve)
                                              ELSE desk[d].seen
             e == [desk[d] EXCEPT !.at = "recall"]
  <2>1. desk[d] \in Decision /\ i \in Indices
    BY <1>2, BusyDesk, TypeParts DEF Decide
  <2>2. r \in Request /\ r.call.shape \in Shapes
    BY <2>1, RequestTyped, TypeParts
  <2>3. s \in RequestStatus /\ [r EXCEPT !.status = s] \in Request
    BY <2>1, <2>2 DEF Decision, Outcome, Request, RequestStatus
  <2>4. requests \in Seq(Request) /\ i \in 1..Len(requests)
    BY <2>1 DEF TablesTyped, Indices
  <2>5. requests' = requests \/ requests' = [requests EXCEPT ![i] = [r EXCEPT !.status = s]]
    BY <1>2 DEF Decide
  <2>6. e \in Decision /\ e.request \in Indices
    BY <2>1 DEF Decision
  <2>7. desk' = [desk EXCEPT ![d] = e]
    BY <1>2 DEF Decide
  <2>8. waiting' \subseteq waiting /\ granted' \subseteq granted \cup {r.call}
    BY <1>2 DEF Decide
  <2>9. yes' \in [Shapes -> Nat]
    <3>1. yes' = yes \/ yes' = [yes EXCEPT ![r.call.shape] = @ + 1]
      BY <1>2 DEF Decide
    <3> HIDE DEF r
    <3> QED
      BY <2>2, <3>1, TypeParts DEF HistoryTyped
  <2> HIDE DEF e, s
  <2>10. requests' \in Seq(Request) /\ Len(requests') = Len(requests)
    <3>1. CASE requests' = requests
      BY <2>4, <3>1
    <3>2. CASE requests' = [requests EXCEPT ![i] = [r EXCEPT !.status = s]]
      <4> DEFINE q == [r EXCEPT !.status = s]
      <4> HIDE DEF q, r, i
      <4>1. /\ [requests EXCEPT ![i] = q] \in Seq(Request)
            /\ Len([requests EXCEPT ![i] = q]) = Len(requests)
        BY <2>3, <2>4, ExceptSeq DEF q
      <4> QED
        BY <3>2, <4>1 DEF q
    <3> QED
      BY <2>5, <3>1, <3>2
  <2>11. DesksTyped'
    BY <2>6, <2>7, <2>10, DeskMoves DEF Indices
  <2> QED
    BY <1>2, <2>2, <2>8, <2>9, <2>10, <2>11
       DEF Decide, RunTyped, TablesTyped, HistoryTyped, run, Request
<1>3. CASE Recall(d)
  <2> DEFINE e == [desk[d] EXCEPT !.at = "learn", !.found = pattern[Shape(d)]]
  <2>1. desk[d] \in Decision /\ desk[d].request \in Indices /\ Shape(d) \in Shapes
    BY <1>3, BusyDesk, TypeParts DEF Recall
  <2>2. pattern[Shape(d)] \in Pattern
    BY <2>1 DEF TablesTyped
  <2>3. e \in Decision /\ e.request \in Indices
    BY <2>1, <2>2 DEF Decision
  <2>4. Indices' = Indices /\ desk' = [desk EXCEPT ![d] = e]
    BY <1>3 DEF Recall, db, Indices
  <2> HIDE DEF e
  <2>5. DesksTyped'
    BY <2>3, <2>4, DeskMoves
  <2> QED
    BY <1>3, <2>5 DEF Recall, RunTyped, TablesTyped, HistoryTyped, db, run, history
<1>4. CASE Learn(d)
  <2>1. desk[d] \in Decision /\ Shape(d) \in Shapes
    BY <1>4, BusyDesk, TypeParts DEF Learn
  <2>2. Recorded(desk[d].found, pattern[Shape(d)], desk[d].approve) \in Pattern
    BY <2>1, RecordedTyped DEF Decision, TablesTyped
  <2>3. pattern' \in [Shapes -> Pattern] /\ unlearned' \subseteq Shapes
    BY <1>4, <2>1, <2>2 DEF Learn, TablesTyped, HistoryTyped
  <2>4. Indices' = Indices /\ desk' = [desk EXCEPT ![d] = FreeDesk]
    BY <1>4 DEF Learn, Indices
  <2>5. DesksTyped'
    <3>1. desk' \in [Desks -> {FreeDesk} \cup Decision]
      BY <2>4 DEF DesksTyped
    <3> QED
      BY <2>4, <3>1 DEF DesksTyped
  <2> QED
    BY <1>4, <2>3, <2>5 DEF Learn, RunTyped, TablesTyped, HistoryTyped, run
<1> QED
  BY <1>1, <1>2, <1>3, <1>4 DEF AtDesk

LEMMA OwnerTyped ==
    ASSUME Typed,
           \/ \E i \in Indices : Overdue(i)
           \/ \E t \in Tasks : Reply(t)
           \/ \E s \in Shapes : Forget(s)
           \/ \E l \in Levels : SetLevel(l)
           \/ Crash
    PROVE  Typed'
<1> USE DEF Typed
<1>1. ASSUME NEW i \in Indices, Overdue(i) PROVE Typed'
  <2> DEFINE q == [requests[i] EXCEPT !.late = TRUE]
  <2>1. requests \in Seq(Request) /\ i \in 1..Len(requests)
    BY DEF TablesTyped, Indices
  <2>2. q \in Request
    BY RequestTyped, TypeParts DEF Request
  <2>3. requests' = [requests EXCEPT ![i] = q]
    BY <1>1 DEF Overdue
  <2> HIDE DEF q
  <2>4. requests' \in Seq(Request) /\ Len(requests') = Len(requests)
    BY <2>1, <2>2, <2>3, ExceptSeq
  <2> QED
    BY <1>1, <2>4 DEF Overdue, RunTyped, DesksTyped, TablesTyped, HistoryTyped,
                      run, history, Indices
<1>2. ASSUME NEW t \in Tasks, Reply(t) PROVE Typed'
  <2>1. budget' \in [{"owner", "fault"} -> Nat]
    BY <1>2, SpendTyped DEF Reply, HistoryTyped
  <2> QED
    BY <1>2, <2>1 DEF Reply, RunTyped, DesksTyped, TablesTyped, HistoryTyped, run,
                      history, Indices
<1>3. ASSUME NEW s \in Shapes, Forget(s) PROVE Typed'
  <2>1. budget' \in [{"owner", "fault"} -> Nat]
    BY <1>3, SpendTyped DEF Forget, HistoryTyped
  <2>2. pattern' \in [Shapes -> Pattern]
    BY <1>3 DEF Forget, TablesTyped, Pattern, NewPattern
  <2>3. Indices' = Indices
    BY <1>3 DEF Forget, Indices
  <2>4. DesksTyped'
    BY <1>3, <2>3 DEF Forget, DesksTyped
  <2> QED
    BY <1>3, <2>1, <2>2, <2>4 DEF Forget, RunTyped, TablesTyped, HistoryTyped, run
<1>4. ASSUME NEW l \in Levels, SetLevel(l) PROVE Typed'
  <2>1. budget' \in [{"owner", "fault"} -> Nat]
    BY <1>4, SpendTyped DEF SetLevel, HistoryTyped
  <2> QED
    BY <1>4, <2>1 DEF SetLevel, RunTyped, DesksTyped, TablesTyped, HistoryTyped, db,
                      run, Indices
<1>5. CASE Crash
  <2>1. budget' \in [{"owner", "fault"} -> Nat] /\ excused' \in [Calls -> Nat]
    BY <1>5, SpendTyped, ExcuseTyped DEF Crash, HistoryTyped
  <2>2. RestoredLevel(level.stored) \in Levels
    BY AutonomyAssumption DEF RestoredLevel, GetSetting, Levels
  <2>3. RunTyped'
    BY <1>5, ExecutorAssumption DEF Crash, RunTyped, Steps
  <2>4. DesksTyped'
    BY <1>5 DEF Crash, DesksTyped
  <2>5. TablesTyped'
    BY <1>5, <2>2 DEF Crash, TablesTyped, db
  <2>6. HistoryTyped'
    BY <1>5, <2>1, <2>2 DEF Crash, HistoryTyped
  <2> QED
    BY <2>3, <2>4, <2>5, <2>6
<1> QED
  BY <1>1, <1>2, <1>3, <1>4, <1>5

LEMMA StepTyped == Typed /\ [Next]_vars => Typed'
<1> SUFFICES ASSUME Typed, [Next]_vars PROVE Typed'
  OBVIOUS
<1>1. CASE Next
  BY <1>1, ExecuteTyped, AtDeskTyped, OwnerTyped DEF Next
<1>2. CASE UNCHANGED vars
  BY <1>2 DEF vars, db, run, history, Typed, RunTyped, DesksTyped, TablesTyped,
              HistoryTyped, Indices
<1> QED
  BY <1>1, <1>2

LEMMA TypesLast == Spec => []Typed
BY InitTyped, StepTyped, PTL DEF Spec

\* Every variable keeps its type, for any calls, workers and bounds; no call is
\* attempted more than MaxAttempts times (Tool.run).
THEOREM TypeCorrect == Spec => []TypeOK
BY TypesLast, TypeParts, PTL
-----------------------------------------------------------------------------
(* Effects against the ledger.                                              *)

\* One task is not run twice.
Exclusive ==
    \A v, w \in Workers :
        v # w /\ cur[v] # NoCall /\ cur[w] # NoCall => cur[v].task # cur[w].task

\* What is about to be performed is not recorded: no other run can have
\* recorded it since the ledger was read.
Fresh == \A w \in Workers : pc[w] = "act" => cur[w] \notin ledger

\* A call is known that is recorded, or is about to be.
Known(c) == c \in ledger \/ \E w \in Workers : pc[w] = "record" /\ cur[w] = c
Counted ==
    \A c \in Calls :
        /\ effects[c] <= 1 + excused[c]
        /\ effects[c] > excused[c] => Known(c)

Accounts == Exclusive /\ Fresh /\ Counted

LEMMA ExcusedMore ==
    ASSUME excused \in [Calls -> Nat], NEW cs, Excuse(cs), NEW c \in Calls
    PROVE  /\ excused'[c] >= excused[c]
           /\ c \in cs => excused'[c] = excused[c] + 1
BY DEF Excuse

LEMMA EffectsTyped ==
    ASSUME Typed, NEW c \in Calls
    PROVE  effects[c] \in Nat /\ excused[c] \in Nat
BY DEF Typed, HistoryTyped

\* Runs that end, or go on without touching the ledger, keep the books.
LEMMA QuietStep ==
    ASSUME Typed, Accounts, NEW w \in Workers,
           UNCHANGED <<ledger, effects>>,
           \A c \in Calls : excused[c] <= excused'[c] /\ excused'[c] \in Nat,
           \A v \in Workers : v # w => pc'[v] = pc[v] /\ cur'[v] = cur[v],
           cur'[w] = cur[w] \/ cur'[w] = NoCall,
           pc'[w] = "act" => cur'[w] \notin ledger,
           pc[w] = "record" => excused'[cur[w]] = excused[cur[w]] + 1
    PROVE  Accounts'
<1>1. Exclusive'
  BY DEF Accounts, Exclusive
<1>2. Fresh'
  BY DEF Accounts, Fresh
<1>3. ASSUME NEW c \in Calls
      PROVE  /\ effects'[c] <= 1 + excused'[c]
             /\ effects'[c] > excused'[c] => Known(c)'
  <2>1. /\ effects[c] \in Nat /\ excused[c] \in Nat
        /\ effects[c] <= 1 + excused[c]
        /\ effects[c] > excused[c] => Known(c)
    BY EffectsTyped DEF Accounts, Counted
  <2>2. effects'[c] <= 1 + excused'[c]
    BY <2>1
  <2>3. ASSUME effects'[c] > excused'[c] PROVE Known(c)'
    <3>1. Known(c) /\ excused'[c] = excused[c]
      BY <2>1, <2>3
    <3>2. CASE c \in ledger
      BY <3>2 DEF Known
    <3>3. ASSUME NEW v \in Workers, pc[v] = "record", cur[v] = c PROVE Known(c)'
      <4>1. v # w
        BY <2>1, <3>1, <3>3
      <4> QED
        BY <3>3, <4>1 DEF Known
    <3> QED
      BY <3>1, <3>2, <3>3 DEF Known
  <2> QED
    BY <2>2, <2>3
<1> QED
  BY <1>1, <1>2, <1>3 DEF Accounts, Counted

LEMMA AccountsInit == Init => Accounts
BY ExecutorAssumption DEF Init, Accounts, Exclusive, Fresh, Counted, Known

LEMMA SameBooks ==
    ASSUME Accounts, UNCHANGED <<pc, cur, ledger, effects, excused>>
    PROVE  Accounts'
BY DEF Accounts, Exclusive, Fresh, Counted, Known

\* How a run leaves its place: Goto, Finish and TryAgain seen from outside.
LEMMA RunLeaves ==
    ASSUME Typed, NEW w \in Workers
    PROVE  /\ \A place \in Busy : Goto(w, place) =>
                /\ pc' = [pc EXCEPT ![w] = place] /\ pc'[w] = place
                /\ cur' = cur
           /\ Finish(w) =>
                /\ pc' = [pc EXCEPT ![w] = "idle"] /\ pc'[w] = "idle"
                /\ cur' = [cur EXCEPT ![w] = NoCall] /\ cur'[w] = NoCall
           /\ TryAgain(w) => Finish(w) \/ UNCHANGED <<pc, cur>>
BY DEF Typed, RunTyped, Goto, Finish, TryAgain

LEMMA AccountsStep ==
    ASSUME Typed, Accounts, [Next]_vars
    PROVE  Accounts'
<1>1. ASSUME NEW w \in Workers, NEW c \in Calls, Start(w, c) PROVE Accounts'
  <2>1. Exclusive'
    BY <1>1 DEF Start, Accounts, Exclusive, Typed, RunTyped
  <2>2. Fresh'
    BY <1>1 DEF Start, Accounts, Fresh, Typed, RunTyped, db
  <2>3. \A e \in Calls : Known(e) => Known(e)'
    BY <1>1 DEF Start, Known, Typed, RunTyped, db
  <2> QED
    BY <1>1, <2>1, <2>2, <2>3 DEF Start, Accounts, Counted, history
<1>2. ASSUME NEW w \in Workers,
             Judge(w) \/ Look(w) \/ Ask(w) \/ Lookup(w) \/ Fail(w)
      PROVE  Accounts'
  <2>1. UNCHANGED <<ledger, effects, excused>>
    BY <1>2 DEF Judge, Look, Ask, Lookup, Fail, db, history
  <2>2. /\ \A v \in Workers : v # w => pc'[v] = pc[v] /\ cur'[v] = cur[v]
        /\ cur'[w] = cur[w] \/ cur'[w] = NoCall
    BY <1>2, RunLeaves
       DEF Judge, Look, Ask, Lookup, Fail, Goto, Finish, TryAgain, Typed, RunTyped
  <2>3. pc'[w] = "act" => cur'[w] \notin ledger
    <3>1. CASE Lookup(w)
      BY <3>1 DEF Lookup, Performed, Goto, Finish, Typed, RunTyped
    <3>2. CASE Fail(w)
      BY <3>2 DEF Fail, Goto, Finish, TryAgain, Typed, RunTyped, Accounts, Fresh
    <3>3. CASE Judge(w) \/ Look(w) \/ Ask(w)
      BY <3>3 DEF Judge, Look, Ask, Goto, Finish, Typed, RunTyped
    <3> QED
      BY <1>2, <3>1, <3>2, <3>3
  <2>4. pc[w] # "record"
    BY <1>2 DEF Judge, Look, Ask, Lookup, Fail
  <2>5. \A c \in Calls : excused[c] <= excused'[c] /\ excused'[c] \in Nat
    BY <2>1, EffectsTyped
  <2> QED
    BY <2>1, <2>2, <2>3, <2>4, <2>5, QuietStep
<1>3. ASSUME NEW w \in Workers, Act(w) PROVE Accounts'
  <2> DEFINE c == cur[w]
  <2>1. c \in Calls /\ c # NoCall
    BY <1>3, HeldCall, ExecutorAssumption DEF Act, Typed
  <2>2. /\ pc' = [pc EXCEPT ![w] = "record"]
        /\ UNCHANGED <<cur, ledger, excused>>
        /\ effects' = [effects EXCEPT ![c] = @ + 1]
    BY <1>3 DEF Act, Goto, Takes, db
  <2>3. ~Known(c)
    BY <1>3, <2>1 DEF Known, Act, Accounts, Fresh, Exclusive
  <2>4. Exclusive' /\ Fresh'
    BY <2>2 DEF Accounts, Exclusive, Fresh, Typed, RunTyped
  <2>5. \A e \in Calls : Known(e) => Known(e)'
    BY <1>3, <2>2 DEF Known, Act, Typed, RunTyped
  <2>6. effects[c] <= excused[c] /\ effects[c] \in Nat /\ excused[c] \in Nat
    BY <2>1, <2>3, EffectsTyped DEF Accounts, Counted
  <2>7. ASSUME NEW e \in Calls
        PROVE  /\ effects'[e] <= 1 + excused'[e]
               /\ effects'[e] > excused'[e] => Known(e)'
    <3>1. CASE e = c
      <4>1. Known(e)'
        BY <1>3, <2>2, <3>1 DEF Known, Act, Typed, RunTyped
      <4>2. effects'[e] = effects[c] + 1 /\ excused'[e] = excused[c]
        BY <2>1, <2>2, <3>1 DEF Typed, HistoryTyped
      <4> QED
        BY <2>6, <4>1, <4>2
    <3>2. CASE e # c
      BY <2>1, <2>2, <2>5, <3>2 DEF Typed, HistoryTyped, Accounts, Counted
    <3> QED
      BY <3>1, <3>2
  <2> QED
    BY <2>4, <2>7 DEF Accounts, Counted
<1>4. ASSUME NEW w \in Workers, Slip(w) PROVE Accounts'
  <2> DEFINE c == cur[w]
  <2>1. c \in Calls /\ c # NoCall
    BY <1>4, HeldCall, ExecutorAssumption DEF Slip, Typed
  <2>2. /\ effects' = [effects EXCEPT ![c] = @ + 1]
        /\ Excuse({c}) /\ UNCHANGED ledger
    BY <1>4 DEF Slip, Takes, db
  <2>3. \/ UNCHANGED <<pc, cur>>
        \/ pc' = [pc EXCEPT ![w] = "idle"] /\ cur' = [cur EXCEPT ![w] = NoCall]
    BY <1>4, RunLeaves DEF Slip
  <2>4. Exclusive' /\ Fresh'
    BY <2>2, <2>3 DEF Accounts, Exclusive, Fresh, Typed, RunTyped
  <2>5. \A e \in Calls : Known(e) => Known(e)'
    BY <1>4, <2>2, <2>3 DEF Known, Slip, Typed, RunTyped
  <2>6. ASSUME NEW e \in Calls
        PROVE  /\ effects'[e] <= 1 + excused'[e]
               /\ effects'[e] > excused'[e] => Known(e)'
    <3>1. /\ effects[e] \in Nat /\ excused[e] \in Nat
          /\ effects[e] <= 1 + excused[e]
          /\ effects[e] > excused[e] => Known(e)'
      BY <2>5, EffectsTyped DEF Accounts, Counted
    <3>2. /\ effects'[e] = IF e = c THEN effects[e] + 1 ELSE effects[e]
          /\ excused'[e] = IF e = c THEN excused[e] + 1 ELSE excused[e]
      BY <2>2 DEF Excuse, Typed, HistoryTyped
    <3> QED
      BY <3>1, <3>2
  <2> QED
    BY <2>4, <2>6 DEF Accounts, Counted
<1>5. ASSUME NEW w \in Workers, Record(w) PROVE Accounts'
  <2>1. cur[w] \in Calls /\ cur[w] # NoCall
    BY <1>5, HeldCall, ExecutorAssumption DEF Record, Typed
  <2>2. /\ ledger' = ledger \cup {cur[w]} /\ UNCHANGED <<effects, excused>>
        /\ pc' = [pc EXCEPT ![w] = "idle"] /\ cur' = [cur EXCEPT ![w] = NoCall]
    BY <1>5 DEF Record, Finish, history
  <2>3. Exclusive'
    BY <2>2 DEF Accounts, Exclusive, Typed, RunTyped
  <2>4. Fresh'
    BY <1>5, <2>1, <2>2 DEF Record, Accounts, Exclusive, Fresh, Typed, RunTyped
  <2>5. \A e \in Calls : Known(e) => Known(e)'
    BY <2>2 DEF Known, Typed, RunTyped
  <2> QED
    BY <2>2, <2>3, <2>4, <2>5 DEF Accounts, Counted
<1>6. ASSUME NEW w \in Workers, Cut(w) PROVE Accounts'
  <2>1. /\ UNCHANGED <<ledger, effects>> /\ Excuse(Unrecorded({w}))
        /\ pc' = [pc EXCEPT ![w] = "idle"] /\ cur' = [cur EXCEPT ![w] = NoCall]
    BY <1>6 DEF Cut, Finish, db
  <2>2. /\ \A v \in Workers : v # w => pc'[v] = pc[v] /\ cur'[v] = cur[v]
        /\ pc'[w] = "idle" /\ cur'[w] = NoCall
    BY <2>1 DEF Typed, RunTyped
  <2>3. \A c \in Calls : excused[c] <= excused'[c] /\ excused'[c] \in Nat
    BY <2>1, EffectsTyped DEF Excuse
  <2>4. pc[w] = "record" => excused'[cur[w]] = excused[cur[w]] + 1
    BY <2>1, HeldCall DEF Typed, Excuse, Unrecorded
  <2> QED
    BY <2>1, <2>2, <2>3, <2>4, QuietStep
<1>7. CASE Crash
  <2>1. /\ UNCHANGED <<ledger, effects>> /\ Excuse(Unrecorded(Workers))
        /\ pc' = [w \in Workers |-> "idle"] /\ cur' = [w \in Workers |-> NoCall]
    BY <1>7 DEF Crash, db
  <2>2. Exclusive' /\ Fresh'
    BY <2>1 DEF Exclusive, Fresh
  <2>3. ASSUME NEW c \in Calls
        PROVE  /\ effects'[c] <= 1 + excused'[c]
               /\ effects'[c] > excused'[c] => Known(c)'
    <3>1. /\ effects[c] \in Nat /\ excused[c] \in Nat
          /\ effects[c] <= 1 + excused[c]
          /\ effects[c] > excused[c] => Known(c)
      BY EffectsTyped DEF Accounts, Counted
    <3>2. excused'[c] = IF c \in Unrecorded(Workers) THEN excused[c] + 1 ELSE excused[c]
      BY <2>1 DEF Excuse
    <3>3. CASE c \in Unrecorded(Workers)
      BY <2>1, <3>1, <3>2, <3>3
    <3>4. CASE c \notin Unrecorded(Workers)
      <4>1. Known(c) => c \in ledger
        BY <3>4 DEF Known, Unrecorded
      <4> QED
        BY <2>1, <3>1, <3>2, <3>4, <4>1 DEF Known
    <3> QED
      BY <3>3, <3>4
  <2> QED
    BY <2>2, <2>3 DEF Accounts, Counted
<1>8. CASE \/ \E d \in Desks : AtDesk(d)
           \/ \E i \in Indices : Overdue(i)
           \/ \E t \in Tasks : Reply(t)
           \/ \E s \in Shapes : Forget(s)
           \/ \E l \in Levels : SetLevel(l)
           \/ UNCHANGED vars
  <2>1. UNCHANGED <<pc, cur, ledger, effects, excused>>
    BY <1>8 DEF AtDesk, ReadRequest, Decide, Recall, Learn, Overdue, Reply, Forget,
                SetLevel, vars, db, run, history
  <2> QED
    BY <2>1, SameBooks
<1> QED
  BY <1>1, <1>2, <1>3, <1>4, <1>5, <1>6, <1>7, <1>8 DEF Next, Execute

\* A call takes effect again only for a reason that is counted: an attempt that
\* failed after taking effect, or a run cut off before Executor.execute recorded
\* the operation.
THEOREM RepeatsExcused == Spec => []RepeatsAreExcused
<1>1. Typed /\ Accounts /\ [Next]_vars => (Typed /\ Accounts)'
  BY StepTyped, AccountsStep
<1>2. Spec => [](Typed /\ Accounts)
  BY <1>1, InitTyped, AccountsInit, PTL DEF Spec
<1>3. Accounts => RepeatsAreExcused
  BY DEF Accounts, Counted, RepeatsAreExcused
<1> QED
  BY <1>2, <1>3, PTL
-----------------------------------------------------------------------------
(* Decisions against what is learned from them.                             *)

\* The desks are the only writers of a decision's fields; a request keeps its
\* place and its call.
LEMMA CallsKeep ==
    ASSUME Typed, [Next]_vars, NEW i \in Indices
    PROVE  i \in Indices' /\ requests'[i].call = requests[i].call
<1>1. requests \in Seq(Request) /\ i \in 1..Len(requests)
  BY DEF Typed, TablesTyped, Indices
<1>2. ASSUME NEW w \in Workers, Ask(w)
      PROVE  i \in Indices' /\ requests'[i].call = requests[i].call
  <2>1. cur[w] \in Calls
    BY <1>2, HeldCall DEF Ask, Typed
  <2>2. [call |-> cur[w], status |-> "PENDING", late |-> FALSE] \in Request
    BY <2>1 DEF Request, RequestStatus
  <2> QED
    BY <1>1, <1>2, <2>2 DEF Ask, Indices
<1>3. ASSUME NEW d \in Desks, Decide(d)
      PROVE  i \in Indices' /\ requests'[i].call = requests[i].call
  <2>1. requests[i] \in Request
    BY RequestTyped, TypeParts
  <2>2. ASSUME NEW j, NEW s, requests' = [requests EXCEPT ![j].status = s]
        PROVE  i \in Indices' /\ requests'[i].call = requests[i].call
    <3>1. requests'[i] = IF i = j THEN [requests[i] EXCEPT !.status = s]
                                  ELSE requests[i]
      BY <1>1, <2>2
    <3>2. Len(requests') = Len(requests)
      BY <1>1, <2>2
    <3> QED
      BY <1>1, <2>1, <3>1, <3>2 DEF Indices, Request
  <2>3. requests' = requests \/ \E j, s : requests' = [requests EXCEPT ![j].status = s]
    BY <1>3 DEF Decide
  <2> QED
    BY <1>1, <2>2, <2>3 DEF Indices
<1>4. ASSUME NEW j \in Indices, Overdue(j)
      PROVE  i \in Indices' /\ requests'[i].call = requests[i].call
  BY <1>1, <1>4 DEF Overdue, Indices
<1>5. CASE UNCHANGED requests
  BY <1>5 DEF Indices
<1>6. \/ UNCHANGED requests
      \/ \E w \in Workers : Ask(w)
      \/ \E d \in Desks : Decide(d)
      \/ \E j \in Indices : Overdue(j)
  BY DEF Next, Execute, AtDesk, Start, Judge, Look, Lookup, Act, Fail, Slip, Record,
         Cut, ReadRequest, Recall, Learn, Reply, Forget, SetLevel, Crash, vars, db
<1> QED
  BY <1>2, <1>3, <1>4, <1>5, <1>6

\* A desk that is about to carry out or learn a decision stays with its shape.
LEMMA ShapeKeeps ==
    ASSUME Typed, [Next]_vars, NEW d \in Desks, desk[d] # FreeDesk,
           desk'[d].request = desk[d].request
    PROVE  Shape(d)' = Shape(d)
BY CallsKeep DEF Typed, DesksTyped, Shape

\* A refusal that stands has been learned, is being learned, or is lost.
Refused(i) ==
    LET s == requests[i].call.shape IN
    requests[i].status = "REJECTED" /\ s \notin unlearned
    => pattern[s].rejected > 0 \/ \E d \in Learning(s) : ~desk[d].approve
Refusals == \A i \in Indices : Refused(i)

\* The desks that are learning, and what they learn, do not change.
LEMMA RefusalsKeep ==
    ASSUME Typed, [Next]_vars, Refusals, UNCHANGED <<pattern, desk, unlearned>>,
           \A i \in Indices' : requests'[i].status = "REJECTED" =>
                i \in Indices /\ requests[i].status = "REJECTED"
    PROVE  Refusals'
<1> SUFFICES ASSUME NEW i \in Indices', requests'[i].status = "REJECTED"
             PROVE  Refused(i)'
  BY DEF Refusals, Refused
<1>1. i \in Indices /\ requests[i].status = "REJECTED"
  OBVIOUS
<1>2. requests'[i].call = requests[i].call
  BY <1>1, CallsKeep
<1>3. \A d \in Desks : desk[d].at \in {"recall", "learn"} => Shape(d)' = Shape(d)
  BY ShapeKeeps DEF FreeDesk
<1>4. \A s \in Shapes : Learning(s) \subseteq Learning(s)'
  BY <1>3 DEF Learning
<1>5. requests[i].call.shape \in Shapes
  BY <1>1, RequestTyped, TypeParts
<1> QED
  BY <1>1, <1>2, <1>4, <1>5 DEF Refusals, Refused

\* What carrying out a decision does to the requests.
LEMMA DecideWrites ==
    ASSUME Typed, NEW d \in Desks, Decide(d)
    PROVE  LET i == desk[d].request IN
           /\ desk[d] \in Decision /\ i \in Indices /\ Indices' = Indices
           /\ desk'[d] = [desk[d] EXCEPT !.at = "recall"]
           /\ \A e \in Desks : e # d => desk'[e] = desk[e]
           /\ \A j \in Indices : j # i => requests'[j] = requests[j]
           /\ requests'[i] # requests[i] =>
                requests'[i].status = Outcome(requests[i], desk[d].approve)
<1> DEFINE i == desk[d].request
           s == IF desk[d].seen = "PENDING" THEN Outcome(requests[i], desk[d].approve)
                                            ELSE desk[d].seen
<1>1. desk[d] \in Decision /\ i \in Indices
  BY BusyDesk, TypeParts DEF Decide
<1>2. requests \in Seq(Request) /\ requests[i] \in Request /\ i \in 1..Len(requests)
  BY <1>1, RequestTyped, TypeParts DEF Typed, TablesTyped, Indices
<1>3. requests' = IF desk[d].seen = "PENDING"
                  THEN [requests EXCEPT ![i].status = s] ELSE requests
  BY DEF Decide
<1>4. desk' = [desk EXCEPT ![d] = [desk[d] EXCEPT !.at = "recall"]]
  BY DEF Decide
<1>5. CASE desk[d].seen = "PENDING"
  <2>1. s = Outcome(requests[i], desk[d].approve)
    BY <1>5
  <2> HIDE DEF s
  <2>2. requests' = [requests EXCEPT ![i] = [requests[i] EXCEPT !.status = s]]
    BY <1>3, <1>5
  <2>3. /\ Len(requests') = Len(requests)
        /\ \A j \in Indices : j # i => requests'[j] = requests[j]
        /\ requests'[i] = [requests[i] EXCEPT !.status = s]
    BY <1>2, <2>2 DEF Indices
  <2>4. requests'[i].status = s
    BY <1>2, <2>3 DEF Request
  <2> QED
    BY <1>1, <1>4, <2>1, <2>3, <2>4 DEF Indices, Typed, DesksTyped
<1>6. CASE desk[d].seen # "PENDING"
  BY <1>1, <1>3, <1>4, <1>6 DEF Indices, Typed, DesksTyped
<1> QED
  BY <1>5, <1>6

LEMMA RefusalsDecide ==
    ASSUME Typed, [Next]_vars, Refusals, NEW d \in Desks, Decide(d)
    PROVE  Refusals'
<1> DEFINE i == desk[d].request
<1>1. /\ desk[d] \in Decision /\ i \in Indices /\ Indices' = Indices
      /\ desk'[d] = [desk[d] EXCEPT !.at = "recall"]
      /\ \A e \in Desks : e # d => desk'[e] = desk[e]
      /\ \A j \in Indices : j # i => requests'[j] = requests[j]
      /\ requests'[i] # requests[i] =>
            requests'[i].status = Outcome(requests[i], desk[d].approve)
  BY DecideWrites
<1>2. /\ desk'[d].at = "recall" /\ desk'[d].approve = desk[d].approve
      /\ desk'[d].request = i /\ desk[d] # FreeDesk
  BY <1>1 DEF Decision, FreeDesk
<1>3. \A e \in Desks : desk[e].at \in {"recall", "learn"} => Shape(e)' = Shape(e)
  <2> SUFFICES ASSUME NEW e \in Desks, desk[e].at \in {"recall", "learn"}
               PROVE  Shape(e)' = Shape(e)
    OBVIOUS
  <2>1. desk[e] # FreeDesk
    BY DEF FreeDesk
  <2>2. desk'[e].request = desk[e].request
    <3>1. CASE e = d
      BY <1>2, <3>1
    <3>2. CASE e # d
      BY <1>1, <3>2
    <3> QED
      BY <3>1, <3>2
  <2> QED
    BY <2>1, <2>2, ShapeKeeps
<1>4. Shape(d)' = requests[i].call.shape
  <2>1. Shape(d)' = Shape(d)
    BY <1>2, ShapeKeeps
  <2> QED
    BY <2>1 DEF Shape
<1>5. UNCHANGED <<pattern, unlearned>>
  BY DEF Decide
<1>6. ASSUME NEW j \in Indices', requests'[j].status = "REJECTED" PROVE Refused(j)'
  <2>1. j \in Indices /\ requests'[j].call = requests[j].call
    BY <1>1, CallsKeep
  <2>2. CASE requests'[j] = requests[j]
    <3>1. \A s : Learning(s) \ {d} \subseteq Learning(s)'
      BY <1>1, <1>3 DEF Learning
    <3>2. desk[d].at = "write"
      BY DEF Decide
    <3>3. \A s : d \notin Learning(s)
      BY <3>2 DEF Learning
    <3> DEFINE t == requests[j].call.shape
    <3>4. t \notin unlearned =>
            pattern[t].rejected > 0 \/ \E e \in Learning(t) : ~desk[e].approve
      BY <1>6, <2>1, <2>2 DEF Refusals, Refused
    <3>5. ASSUME NEW e \in Learning(t), ~desk[e].approve
          PROVE  e \in Learning(t)' /\ ~desk'[e].approve
      <4>1. e # d /\ e \in Desks /\ t = requests'[j].call.shape
        BY <2>1, <3>3, <3>5 DEF Learning
      <4> QED
        BY <1>1, <1>3, <3>5, <4>1 DEF Learning
    <3> QED
      BY <1>5, <2>1, <2>2, <3>4, <3>5 DEF Refused
  <2>3. CASE requests'[j] # requests[j]
    <3>1. j = i /\ ~desk[d].approve
      BY <1>1, <1>6, <2>1, <2>3 DEF Outcome
    <3>2. d \in Learning(requests[j].call.shape)'
      BY <1>2, <1>4, <2>1, <3>1 DEF Learning
    <3> QED
      BY <1>2, <2>1, <3>1, <3>2 DEF Refused
  <2> QED
    BY <2>2, <2>3
<1> QED
  BY <1>6 DEF Refusals, Refused

\* A refusal is settled when it needs no desk any more: its shape has been
\* refused, or the lesson is lost.
Settled(s) == s \in unlearned \/ pattern[s].rejected > 0

LEMMA RefusalsMove ==
    ASSUME Typed, Refusals, UNCHANGED requests,
           \A s \in Shapes : Settled(s) => Settled(s)',
           \A s \in Shapes, d \in Desks :
                d \in Learning(s) /\ ~desk[d].approve =>
                    \/ d \in Learning(s)' /\ ~desk'[d].approve
                    \/ Settled(s)'
    PROVE  Refusals'
<1> SUFFICES ASSUME NEW i \in Indices, requests[i].status = "REJECTED"
             PROVE  Refused(i)'
  BY DEF Refusals, Refused, Indices
<1> DEFINE s == requests[i].call.shape
<1>1. s \in Shapes
  BY RequestTyped, TypeParts
<1>2. Settled(s) \/ \E d \in Learning(s) : ~desk[d].approve
  BY DEF Refusals, Refused, Settled
<1>3. Settled(s)' \/ \E d \in Learning(s)' : ~desk'[d].approve
  BY <1>1, <1>2 DEF Learning
<1> QED
  BY <1>3 DEF Refused, Settled

LEMMA RefusalsStep ==
    ASSUME Typed, [Next]_vars, Refusals
    PROVE  Refusals'
<1>1. ASSUME NEW d \in Desks, AtDesk(d) PROVE Refusals'
  <2>1. ASSUME NEW i \in Indices, NEW approve \in BOOLEAN, ReadRequest(d, i, approve)
        PROVE  Refusals'
    <3>1. UNCHANGED <<requests, pattern, unlearned>> /\ desk[d] = FreeDesk
      BY <2>1 DEF ReadRequest, db, history
    <3>2. \A e \in Desks : e # d => desk'[e] = desk[e]
      BY <2>1 DEF ReadRequest
    <3>3. \A s : d \notin Learning(s)
      BY <3>1 DEF Learning, FreeDesk
    <3>4. \A s \in Shapes, e \in Desks :
            e \in Learning(s) => e \in Learning(s)' /\ desk'[e] = desk[e]
      BY <3>1, <3>2, <3>3 DEF Learning, Shape
    <3> QED
      BY <3>1, <3>4, RefusalsMove DEF Settled
  <2>2. CASE Decide(d)
    BY <2>2, RefusalsDecide
  <2>3. CASE Recall(d)
    <3>1. UNCHANGED <<requests, pattern, unlearned>>
      BY <2>3 DEF Recall, db, history
    <3>2. desk[d] \in Decision
      BY <2>3, BusyDesk, TypeParts DEF Recall
    <3>3. /\ desk'[d].at = "learn" /\ desk'[d].approve = desk[d].approve
          /\ desk'[d].request = desk[d].request
          /\ \A e \in Desks : e # d => desk'[e] = desk[e]
      BY <2>3, <3>2 DEF Recall, Decision, Typed, DesksTyped
    <3>4. ASSUME NEW s \in Shapes, NEW e \in Desks, e \in Learning(s)
          PROVE  e \in Learning(s)' /\ desk'[e].approve = desk[e].approve
      <4>1. CASE e = d
        BY <3>1, <3>3, <3>4, <4>1 DEF Learning, Shape
      <4>2. CASE e # d
        BY <3>1, <3>3, <3>4, <4>2 DEF Learning, Shape
      <4> QED
        BY <4>1, <4>2
    <3> QED
      BY <3>1, <3>4, RefusalsMove DEF Settled
  <2>4. CASE Learn(d)
    <3> DEFINE t == Shape(d)
               new == Recorded(desk[d].found, pattern[t], desk[d].approve)
    <3>1. UNCHANGED requests /\ \A e \in Desks : e # d => desk'[e] = desk[e]
      BY <2>4 DEF Learn
    <3>2. desk[d] \in Decision /\ t \in Shapes
      BY <2>4, BusyDesk, TypeParts DEF Learn
    <3>3. /\ pattern[t].rejected > 0 => new.rejected > 0
          /\ ~desk[d].approve => new.rejected > 0
      BY <3>2 DEF Recorded, Decision, Pattern, Typed, TablesTyped
    <3>4. \/ /\ pattern' = [pattern EXCEPT ![t] = new]
             /\ UNCHANGED unlearned
          \/ /\ UNCHANGED pattern
             /\ unlearned' = IF desk[d].approve THEN unlearned
                                                ELSE unlearned \cup {t}
      BY <2>4 DEF Learn
    <3> HIDE DEF new
    <3>5. \A s \in Shapes : Settled(s) => Settled(s)'
      BY <3>2, <3>3, <3>4 DEF Settled, Typed, TablesTyped
    <3>6. ~desk[d].approve => \A s \in Shapes : d \in Learning(s) => Settled(s)'
      BY <3>2, <3>3, <3>4 DEF Learning, Settled, Typed, TablesTyped
    <3>7. \A s \in Shapes, e \in Desks :
            e # d /\ e \in Learning(s) => e \in Learning(s)' /\ desk'[e] = desk[e]
      BY <3>1 DEF Learning, Shape
    <3> QED
      BY <3>1, <3>5, <3>6, <3>7, RefusalsMove
  <2> QED
    BY <1>1, <2>1, <2>2, <2>3, <2>4 DEF AtDesk
<1>2. ASSUME NEW s \in Shapes, Forget(s) PROVE Refusals'
  <2>1. UNCHANGED requests /\ unlearned' = unlearned \cup {s}
    BY <1>2 DEF Forget
  <2>2. \A t \in Shapes : Settled(t) => Settled(t)'
    BY <1>2, <2>1 DEF Forget, Settled, Typed, TablesTyped
  <2>3. ASSUME NEW t \in Shapes, NEW d \in Desks, d \in Learning(t)
        PROVE  (d \in Learning(t)' /\ desk'[d] = desk[d]) \/ Settled(t)'
    <3>1. CASE t = s
      BY <2>1, <3>1 DEF Settled
    <3>2. CASE t # s
      BY <1>2, <2>1, <2>3, <3>2 DEF Forget, Learning, Shape
    <3> QED
      BY <3>1, <3>2
  <2> QED
    BY <2>1, <2>2, <2>3, RefusalsMove
<1>3. CASE Crash
  <2>1. /\ UNCHANGED <<requests, pattern>>
        /\ unlearned' = unlearned \cup
                {s \in Shapes : \E d \in Learning(s) : ~desk[d].approve}
    BY <1>3 DEF Crash, db
  <2>2. \A s \in Shapes : Settled(s) => Settled(s)'
    BY <2>1 DEF Settled
  <2>3. \A s \in Shapes, d \in Desks :
            d \in Learning(s) /\ ~desk[d].approve => Settled(s)'
    BY <2>1 DEF Settled
  <2> QED
    BY <2>1, <2>2, <2>3, RefusalsMove
<1>4. CASE \E i \in Indices : Overdue(i)
  <2>1. UNCHANGED <<pattern, desk, unlearned>>
    BY <1>4 DEF Overdue, history
  <2>2. ASSUME NEW i \in Indices'
        PROVE  i \in Indices /\ requests'[i].status = requests[i].status
    <3>1. PICK j \in Indices : Overdue(j)
      BY <1>4
    <3> DEFINE q == [requests[j] EXCEPT !.late = TRUE]
    <3>2. requests \in Seq(Request) /\ requests' = [requests EXCEPT ![j] = q]
      BY <3>1 DEF Overdue, Typed, TablesTyped
    <3>3. i \in Indices
      BY <3>2 DEF Indices
    <3>4. requests[i] \in Request
      BY <3>3, RequestTyped, TypeParts
    <3>5. i = j => q.status = requests[i].status
      BY <3>4 DEF Request
    <3> HIDE DEF q
    <3>6. requests'[i] = IF i = j THEN q ELSE requests[i]
      BY <3>2, <3>3 DEF Indices
    <3> QED
      BY <3>3, <3>5, <3>6
  <2> QED
    BY <2>1, <2>2, RefusalsKeep
<1>5. CASE \E w \in Workers : Ask(w)
  <2>1. UNCHANGED <<pattern, desk, unlearned>>
    BY <1>5 DEF Ask, history
  <2>2. PICK w \in Workers : Ask(w)
    BY <1>5
  <2> DEFINE q == [call |-> cur[w], status |-> "PENDING", late |-> FALSE]
  <2>3. requests' = Append(requests, q)
    BY <2>2 DEF Ask
  <2>4. cur[w] \in Calls
    BY <2>2, HeldCall DEF Ask, Typed
  <2>5. q \in Request /\ q.status # "REJECTED"
    BY <2>4 DEF Request, RequestStatus
  <2>6. requests \in Seq(Request)
    BY DEF Typed, TablesTyped
  <2> HIDE DEF q
  <2>7. ASSUME NEW i \in Indices', requests'[i].status = "REJECTED"
        PROVE  i \in Indices /\ requests[i].status = "REJECTED"
    BY <2>3, <2>5, <2>6, <2>7 DEF Indices
  <2> QED
    BY <2>1, <2>7, RefusalsKeep
<1>6. CASE UNCHANGED <<requests, pattern, desk, unlearned>>
  BY <1>6, RefusalsKeep DEF Indices
<1>7. \/ \E d \in Desks : AtDesk(d)
      \/ \E s \in Shapes : Forget(s)
      \/ Crash
      \/ \E i \in Indices : Overdue(i)
      \/ \E w \in Workers : Ask(w)
      \/ UNCHANGED <<requests, pattern, desk, unlearned>>
  BY DEF Next, Execute, Start, Judge, Look, Lookup, Act, Fail, Slip, Record, Cut,
         Reply, SetLevel, vars, db, history
<1> QED
  BY <1>1, <1>2, <1>3, <1>4, <1>5, <1>6, <1>7

\* A refusal makes its shape ask again, whatever the desks are doing for other
\* shapes: approval_stats never hides it from _learned_verdict.
THEOREM RefusalsLearned == Spec => []RefusalIsLearned
<1>1. Init => Refusals
  BY DEF Init, Refusals, Indices
<1>2. Spec => [](Typed /\ Refusals)
  BY <1>1, InitTyped, StepTyped, RefusalsStep, PTL DEF Spec
<1>3. Typed /\ Refusals => RefusalIsLearned
  BY DEF Refusals, Refused, RefusalIsLearned, Trusted
<1> QED
  BY <1>2, <1>3, PTL
-----------------------------------------------------------------------------
(* Approvals against what they license.                                     *)

\* Approving commands about s that desk d has carried out and not yet learned.
Lesson(d, s) == IF d \in Learning(s) /\ desk[d].approve THEN 1 ELSE 0
Owed(s)      == Lesson("bot", s) + Lesson("api", s)

\* No shape is credited with more approvals than the owner gave, also not by a
\* desk that writes a count it has read before.
Credit(s) ==
    /\ pattern[s].approved + Owed(s) <= yes[s]
    /\ \A d \in Learning(s) :
        desk[d].at = "learn" /\ desk[d].approve =>
            desk[d].found.approved + Owed(s) <= yes[s]
Credits == \A s \in Shapes : Credit(s)

LEMMA CountsTyped ==
    ASSUME Typed, NEW s \in Shapes
    PROVE  /\ yes[s] \in Nat /\ pattern[s].approved \in Nat
           /\ \A d \in Learning(s) :
                desk[d] \in Decision /\ desk[d].found.approved \in Nat
           /\ Owed(s) \in Nat
<1>1. yes[s] \in Nat /\ pattern[s].approved \in Nat
  BY DEF Typed, TablesTyped, HistoryTyped, Pattern
<1>2. ASSUME NEW d \in Learning(s) PROVE desk[d] \in Decision
  BY BusyDesk, TypeParts DEF Learning
<1> QED
  BY <1>1, <1>2 DEF Decision, Pattern, Owed, Lesson

\* Desks start and stop learning, counts fall, approvals grow.
LEMMA CreditMoves ==
    ASSUME Typed, Typed', NEW s \in Shapes, Credit(s), yes'[s] >= yes[s],
           pattern'[s].approved <= pattern[s].approved,
           \A d \in Learning(s)' : desk'[d].approve =>
                /\ d \in Learning(s) /\ desk[d].approve
                /\ desk'[d].at = "learn" =>
                    \/ desk[d].at = "learn" /\ desk'[d].found = desk[d].found
                    \/ desk'[d].found = pattern[s]
    PROVE  Credit(s)'
<1>1. Owed(s)' <= Owed(s)
  BY DEF Owed, Lesson, Learning, Desks
<1>2. /\ yes[s] \in Nat /\ pattern[s].approved \in Nat /\ Owed(s) \in Nat
      /\ \A d \in Learning(s) : desk[d].found.approved \in Nat
      /\ yes'[s] \in Nat /\ pattern'[s].approved \in Nat /\ Owed(s)' \in Nat
  <2>1. yes'[s] \in Nat /\ pattern'[s].approved \in Nat /\ Owed(s)' \in Nat
    BY DEF Typed, TablesTyped, HistoryTyped, Pattern, Owed, Lesson
  <2> QED
    BY <2>1, CountsTyped
<1>3. pattern'[s].approved + Owed(s)' <= yes'[s]
  BY <1>1, <1>2 DEF Credit
<1>4. ASSUME NEW d \in Learning(s)', desk'[d].at = "learn", desk'[d].approve
      PROVE  desk'[d].found.approved + Owed(s)' <= yes'[s]
  <2>1. /\ d \in Learning(s) /\ desk[d].approve
        /\ \/ desk[d].at = "learn" /\ desk'[d].found = desk[d].found
           \/ desk'[d].found = pattern[s]
    BY <1>4
  <2>2. desk'[d].found.approved \in Nat /\ desk'[d].found.approved + Owed(s) <= yes[s]
    <3>1. CASE desk[d].at = "learn" /\ desk'[d].found = desk[d].found
      BY <1>2, <2>1, <3>1 DEF Credit
    <3>2. CASE desk'[d].found = pattern[s]
      BY <1>2, <3>2 DEF Credit
    <3> QED
      BY <2>1, <3>1, <3>2
  <2> QED
    BY <1>1, <1>2, <2>2
<1> QED
  BY <1>3, <1>4 DEF Credit

LEMMA OtherDesk ==
    ASSUME Typed, [Next]_vars, NEW e \in Desks, desk'[e] = desk[e], NEW s
    PROVE  e \in Learning(s)' <=> e \in Learning(s)
<1>1. CASE desk[e] = FreeDesk
  BY <1>1 DEF Learning, FreeDesk
<1>2. CASE desk[e] # FreeDesk
  BY <1>2, ShapeKeeps DEF Learning
<1> QED
  BY <1>1, <1>2

LEMMA CreditDecide ==
    ASSUME Typed, Typed', [Next]_vars, Credits, NEW d \in Desks, Decide(d)
    PROVE  Credits'
<1> SUFFICES ASSUME NEW s \in Shapes PROVE Credit(s)'
  BY DEF Credits
<1>1. /\ desk[d] \in Decision /\ desk'[d] = [desk[d] EXCEPT !.at = "recall"]
      /\ \A e \in Desks : e # d => desk'[e] = desk[e]
  BY DecideWrites
<1>2. /\ desk'[d].at = "recall" /\ desk'[d].approve = desk[d].approve
      /\ desk'[d].request = desk[d].request /\ desk[d] # FreeDesk
  BY <1>1 DEF Decision, FreeDesk
<1>3. Shape(d)' = Shape(d)
  BY <1>2, ShapeKeeps
<1>4. \A e \in Desks : e # d => (e \in Learning(s)' <=> e \in Learning(s))
  BY <1>1, OtherDesk
<1>5. d \notin Learning(s) /\ (d \in Learning(s)' <=> s = Shape(d))
  BY <1>2, <1>3 DEF Learning, Decide
<1>6. UNCHANGED pattern
  BY DEF Decide
<1>7. yes'[s] = IF desk[d].approve /\ s = Shape(d) THEN yes[s] + 1 ELSE yes[s]
  BY DEF Decide, Shape, Typed, HistoryTyped
<1>8. /\ yes[s] \in Nat /\ pattern[s].approved \in Nat /\ Owed(s) \in Nat
      /\ \A e \in Learning(s) : desk[e].found.approved \in Nat
  BY CountsTyped
<1>9. CASE desk[d].approve /\ s = Shape(d)
  <2>1. Lesson(d, s) = 0 /\ Lesson(d, s)' = 1
    BY <1>2, <1>5, <1>9 DEF Lesson
  <2>2. \A e \in Desks : e # d => Lesson(e, s)' = Lesson(e, s)
    BY <1>1, <1>4 DEF Lesson
  <2>3. Owed(s)' = Owed(s) + 1
    <3>1. CASE d = "bot"
      BY <2>1, <2>2, <3>1 DEF Owed, Desks, Lesson
    <3>2. CASE d = "api"
      BY <2>1, <2>2, <3>2 DEF Owed, Desks, Lesson
    <3> QED
      BY <3>1, <3>2 DEF Desks
  <2>4. ASSUME NEW e \in Learning(s)', desk'[e].at = "learn", desk'[e].approve
        PROVE  desk'[e].found.approved + Owed(s)' <= yes'[s]
    <3>1. e # d /\ e \in Desks
      BY <1>2, <2>4 DEF Learning
    <3>2. e \in Learning(s) /\ desk'[e] = desk[e]
      BY <1>1, <1>4, <2>4, <3>1
    <3>3. desk[e].found.approved + Owed(s) <= yes[s]
      BY <2>4, <3>2 DEF Credits, Credit
    <3> QED
      BY <1>7, <1>8, <1>9, <2>3, <3>2, <3>3
  <2> QED
    BY <1>6, <1>7, <1>8, <1>9, <2>3, <2>4 DEF Credits, Credit
<1>10. CASE ~(desk[d].approve /\ s = Shape(d))
  <2>1. yes'[s] >= yes[s] /\ pattern'[s].approved <= pattern[s].approved
    BY <1>6, <1>7, <1>8, <1>10
  <2>2. ASSUME NEW e \in Learning(s)', desk'[e].approve
        PROVE  e \in Learning(s) /\ desk'[e] = desk[e]
    <3>1. e # d /\ e \in Desks
      BY <1>2, <1>5, <1>10, <2>2 DEF Learning
    <3> QED
      BY <1>1, <1>4, <2>2, <3>1
  <2>3. Credit(s)
    BY DEF Credits
  <2> QED
    BY <2>1, <2>2, <2>3, CreditMoves
<1> QED
  BY <1>9, <1>10

LEMMA CreditLearn ==
    ASSUME Typed, Typed', [Next]_vars, Credits, NEW d \in Desks, Learn(d)
    PROVE  Credits'
<1> SUFFICES ASSUME NEW s \in Shapes PROVE Credit(s)'
  BY DEF Credits
<1> DEFINE new == Recorded(desk[d].found, pattern[s], desk[d].approve)
<1>1. /\ desk[d] \in Decision /\ Shape(d) \in Shapes
      /\ desk[d].at = "learn"
  BY BusyDesk, TypeParts DEF Learn
<1>2. desk'[d] = FreeDesk /\ \A e \in Desks : e # d => desk'[e] = desk[e]
  BY DEF Learn, Typed, DesksTyped
<1>3. \A e \in Desks : e # d => (e \in Learning(s)' <=> e \in Learning(s))
  BY <1>2, OtherDesk
<1>4. d \notin Learning(s)' /\ (d \in Learning(s) <=> s = Shape(d))
  BY <1>1, <1>2 DEF Learning, FreeDesk
<1>5. UNCHANGED yes
  BY DEF Learn
<1>6. /\ yes[s] \in Nat /\ pattern[s].approved \in Nat /\ Owed(s) \in Nat
      /\ \A e \in Learning(s) : desk[e].found.approved \in Nat
  BY CountsTyped
<1>7. pattern'[s] = pattern[s] \/ (s = Shape(d) /\ pattern'[s] = new)
  <2> DEFINE t == Shape(d)
             r == Recorded(desk[d].found, pattern[t], desk[d].approve)
  <2>1. pattern' = [pattern EXCEPT ![t] = r] \/ pattern' = pattern
    BY DEF Learn
  <2>2. s = t => new = r
    OBVIOUS
  <2> HIDE DEF r, t, new
  <2>3. pattern \in [Shapes -> Pattern]
    BY DEF Typed, TablesTyped
  <2>4. pattern' = [pattern EXCEPT ![t] = r] =>
            pattern'[s] = IF s = t THEN r ELSE pattern[s]
    BY <2>3
  <2> QED
    BY <2>1, <2>2, <2>4 DEF t
<1>8. \A e \in Learning(s)' : e \in Learning(s) /\ desk'[e] = desk[e]
  BY <1>2, <1>3, <1>4 DEF Learning
<1>9. Credit(s)
  BY DEF Credits
<1>10. CASE pattern'[s].approved <= pattern[s].approved
  BY <1>5, <1>6, <1>8, <1>9, <1>10, CreditMoves
<1>11. CASE ~(pattern'[s].approved <= pattern[s].approved)
  <2>1. s = Shape(d) /\ pattern'[s] = new
    BY <1>6, <1>7, <1>11
  <2>2. desk[d].approve /\ new.approved = desk[d].found.approved + 1
    BY <1>1, <1>6, <1>11, <2>1 DEF Recorded, Decision, Pattern, Typed, TablesTyped
  <2> HIDE DEF new
  <2>3. Lesson(d, s) = 1 /\ Lesson(d, s)' = 0
    BY <1>4, <2>1, <2>2 DEF Lesson
  <2>4. \A e \in Desks : e # d => Lesson(e, s)' = Lesson(e, s)
    BY <1>2, <1>3 DEF Lesson
  <2>5. Owed(s) = Owed(s)' + 1 /\ Owed(s)' \in Nat
    <3>1. CASE d = "bot"
      BY <2>3, <2>4, <3>1 DEF Owed, Desks, Lesson
    <3>2. CASE d = "api"
      BY <2>3, <2>4, <3>2 DEF Owed, Desks, Lesson
    <3> QED
      BY <3>1, <3>2 DEF Desks
  <2>6. desk[d].found.approved + Owed(s) <= yes[s]
    BY <1>1, <1>4, <1>9, <2>1, <2>2 DEF Credit
  <2>7. desk[d].found.approved \in Nat
    BY <1>4, <1>6, <2>1
  <2>8. pattern'[s].approved + Owed(s)' <= yes'[s]
    BY <1>5, <1>6, <2>1, <2>2, <2>5, <2>6, <2>7
  <2>9. ASSUME NEW e \in Learning(s)', desk'[e].at = "learn", desk'[e].approve
        PROVE  desk'[e].found.approved + Owed(s)' <= yes'[s]
    <3>1. e \in Learning(s) /\ desk'[e] = desk[e]
      BY <1>8
    <3>2. desk[e].found.approved + Owed(s) <= yes[s]
      BY <1>9, <2>9, <3>1 DEF Credit
    <3> QED
      BY <1>5, <1>6, <2>5, <3>1, <3>2
  <2> QED
    BY <2>8, <2>9 DEF Credit
<1> QED
  BY <1>10, <1>11

LEMMA CreditsStep ==
    ASSUME Typed, Typed', [Next]_vars, Credits
    PROVE  Credits'
<1> SUFFICES ASSUME NEW s \in Shapes PROVE Credit(s)'
  BY DEF Credits
<1>1. Credit(s) /\ yes[s] \in Nat /\ pattern[s].approved \in Nat
  BY CountsTyped DEF Credits
<1>2. ASSUME NEW d \in Desks, AtDesk(d) PROVE Credit(s)'
  <2>1. ASSUME NEW i \in Indices, NEW approve \in BOOLEAN, ReadRequest(d, i, approve)
        PROVE  Credit(s)'
    <3>1. UNCHANGED <<yes, pattern>> /\ \A e \in Desks : e # d => desk'[e] = desk[e]
      BY <2>1 DEF ReadRequest, db, history
    <3>2. desk'[d].at = "write"
      BY <2>1 DEF ReadRequest, Typed, DesksTyped
    <3>3. ASSUME NEW e \in Learning(s)' PROVE e \in Learning(s) /\ desk'[e] = desk[e]
      <4>1. e # d /\ e \in Desks
        BY <3>2, <3>3 DEF Learning
      <4> QED
        BY <3>1, <3>3, <4>1, OtherDesk
    <3> QED
      BY <1>1, <3>1, <3>3, CreditMoves
  <2>2. CASE Decide(d)
    BY <2>2, CreditDecide DEF Credits
  <2>3. CASE Recall(d)
    <3>1. UNCHANGED <<yes, pattern>> /\ \A e \in Desks : e # d => desk'[e] = desk[e]
      BY <2>3 DEF Recall, db, history
    <3>2. desk[d] \in Decision /\ desk[d] # FreeDesk
      BY <2>3, BusyDesk, TypeParts DEF Recall
    <3>3. /\ desk'[d].approve = desk[d].approve /\ desk'[d].request = desk[d].request
          /\ desk'[d].found = pattern[Shape(d)]
      BY <2>3, <3>2 DEF Recall, Decision, Typed, DesksTyped
    <3>4. ASSUME NEW e \in Learning(s)', desk'[e].approve
          PROVE  /\ e \in Learning(s) /\ desk[e].approve
                 /\ desk'[e].found = pattern[s] \/ desk'[e] = desk[e]
      <4>1. CASE e = d
        <5>1. Shape(d)' = Shape(d)
          BY <3>2, <3>3, ShapeKeeps
        <5>2. s = Shape(d) /\ d \in Learning(s)
          BY <2>3, <3>4, <4>1, <5>1 DEF Learning, Recall
        <5> QED
          BY <3>3, <3>4, <4>1, <5>2
      <4>2. CASE e # d
        <5>1. e \in Desks
          BY <3>4 DEF Learning
        <5> QED
          BY <3>1, <3>4, <4>2, <5>1, OtherDesk
      <4> QED
        BY <4>1, <4>2
    <3> QED
      BY <1>1, <3>1, <3>4, CreditMoves
  <2>4. CASE Learn(d)
    BY <2>4, CreditLearn DEF Credits
  <2> QED
    BY <1>2, <2>1, <2>2, <2>3, <2>4 DEF AtDesk
<1>3. ASSUME NEW t \in Shapes, Forget(t) PROVE Credit(s)'
  <2>1. UNCHANGED yes /\ \A e \in Desks : desk'[e] = desk[e] \/ desk'[e] = FreeDesk
    BY <1>3 DEF Forget
  <2>2. pattern'[s].approved <= pattern[s].approved
    BY <1>1, <1>3 DEF Forget, NewPattern, Typed, TablesTyped
  <2>3. ASSUME NEW e \in Learning(s)' PROVE e \in Learning(s) /\ desk'[e] = desk[e]
    <3>1. e \in Desks /\ desk'[e] # FreeDesk
      BY <2>3 DEF Learning, FreeDesk
    <3> QED
      BY <2>1, <2>3, <3>1, OtherDesk
  <2> QED
    BY <1>1, <2>1, <2>2, <2>3, CreditMoves
<1>4. CASE Crash
  <2>1. UNCHANGED <<yes, pattern>> /\ \A e \in Desks : desk'[e] = FreeDesk
    BY <1>4 DEF Crash, db
  <2>2. Learning(s)' = {}
    BY <2>1 DEF Learning, FreeDesk
  <2> QED
    BY <1>1, <2>1, <2>2, CreditMoves
<1>5. CASE UNCHANGED <<yes, pattern, desk>>
  <2>1. \A e \in Learning(s)' : e \in Learning(s)
    BY <1>5, OtherDesk DEF Learning
  <2> QED
    BY <1>1, <1>5, <2>1, CreditMoves
<1>6. \/ \E d \in Desks : AtDesk(d)
      \/ \E t \in Shapes : Forget(t)
      \/ Crash
      \/ UNCHANGED <<yes, pattern, desk>>
  BY DEF Next, Execute, Start, Judge, Look, Ask, Lookup, Act, Fail, Slip, Record, Cut,
         Overdue, Reply, SetLevel, vars, db, history
<1> QED
  BY <1>2, <1>3, <1>4, <1>5, <1>6

\* An approved request grants its call.
Grants == \A i \in Indices : requests[i].status = "APPROVED"
                                => requests[i].call \in granted

\* A risky call past the gate has its licence.
Passed ==
    \A w \in Workers :
        pc[w] \in {"lookup", "act", "record"} /\ cur[w].gated => Licensed(cur[w])

Licences == Credits /\ Grants /\ level.live \in levels /\ Passed /\ NoUnlicensedEffect

\* The owner's decisions, commands and levels are not taken back.
LEMMA LicencesLast ==
    ASSUME Typed, NEW c \in Calls, Licensed(c),
           granted \subseteq granted', levels \subseteq levels',
           \A s \in Shapes : yes[s] <= yes'[s] /\ yes'[s] \in Nat
    PROVE  Licensed(c)'
BY AutonomyAssumption DEF Licensed, Shapes, Typed, HistoryTyped

LEMMA HistoryGrows ==
    ASSUME Typed, [Next]_vars
    PROVE  /\ granted \subseteq granted' /\ levels \subseteq levels'
           /\ \A s \in Shapes : yes[s] <= yes'[s] /\ yes'[s] \in Nat
<1>1. CASE UNCHANGED <<granted, levels, yes>>
  BY <1>1 DEF Typed, HistoryTyped
<1>2. ASSUME NEW d \in Desks, Decide(d)
      PROVE  /\ granted \subseteq granted' /\ levels \subseteq levels'
             /\ \A s \in Shapes : yes[s] <= yes'[s] /\ yes'[s] \in Nat
  <2>1. granted \subseteq granted' /\ levels \subseteq levels'
    BY <1>2 DEF Decide
  <2>2. yes' = yes \/ yes' = [yes EXCEPT ![Shape(d)] = @ + 1]
    BY <1>2 DEF Decide, Shape
  <2> QED
    BY <2>1, <2>2 DEF Typed, HistoryTyped
<1>3. CASE (\E l \in Levels : SetLevel(l)) \/ Crash
  BY <1>3 DEF SetLevel, Crash, Typed, HistoryTyped
<1>4. \/ UNCHANGED <<granted, levels, yes>>
      \/ \E d \in Desks : Decide(d)
      \/ (\E l \in Levels : SetLevel(l)) \/ Crash
  BY DEF Next, Execute, AtDesk, Start, Judge, Look, Ask, Lookup, Act, Fail, Slip,
         Record, Cut, ReadRequest, Recall, Learn, Overdue, Reply, Forget, vars, history
<1> QED
  BY <1>1, <1>2, <1>3, <1>4

LEMMA GrantsStep ==
    ASSUME Typed, [Next]_vars, Grants
    PROVE  Grants'
<1> SUFFICES ASSUME NEW i \in Indices', requests'[i].status = "APPROVED"
             PROVE  requests'[i].call \in granted'
  BY DEF Grants
<1>1. granted \subseteq granted'
  BY HistoryGrows
<1>2. ASSUME i \in Indices, requests[i].status = "APPROVED"
      PROVE  requests'[i].call \in granted'
  BY <1>1, <1>2, CallsKeep DEF Grants
<1>3. ASSUME NEW d \in Desks, Decide(d) PROVE requests'[i].call \in granted'
  <2> DEFINE j == desk[d].request
  <2>1. /\ i \in Indices /\ (i # j => requests'[i] = requests[i])
        /\ requests'[j] # requests[j] =>
                requests'[j].status = Outcome(requests[j], desk[d].approve)
    BY <1>3, DecideWrites
  <2>2. CASE requests'[i] = requests[i]
    BY <1>2, <2>1, <2>2
  <2>3. CASE requests'[i] # requests[i]
    <3>1. i = j /\ Outcome(requests[j], desk[d].approve) = "APPROVED"
      BY <2>1, <2>3
    <3>2. desk[d].seen = "PENDING"
      BY <1>3, <2>3 DEF Decide
    <3>3. granted' = granted \cup {requests[j].call}
      BY <1>3, <3>1, <3>2 DEF Decide
    <3> QED
      BY <2>1, <3>1, <3>3, CallsKeep
  <2> QED
    BY <2>2, <2>3
<1>4. ASSUME NEW w \in Workers, Ask(w) PROVE requests'[i].call \in granted'
  <2> DEFINE q == [call |-> cur[w], status |-> "PENDING", late |-> FALSE]
  <2>1. requests \in Seq(Request) /\ requests' = Append(requests, q)
    BY <1>4 DEF Ask, Typed, TablesTyped
  <2>2. q \in Request /\ q.status # "APPROVED"
    BY <1>4, HeldCall DEF Ask, Typed, Request, RequestStatus
  <2> HIDE DEF q
  <2>3. i \in Indices /\ requests'[i] = requests[i]
    BY <2>1, <2>2 DEF Indices
  <2> QED
    BY <1>2, <2>3
<1>5. ASSUME NEW j \in Indices, Overdue(j) PROVE requests'[i].call \in granted'
  <2> DEFINE q == [requests[j] EXCEPT !.late = TRUE]
  <2>1. requests \in Seq(Request) /\ requests' = [requests EXCEPT ![j] = q]
    BY <1>5 DEF Overdue, Typed, TablesTyped
  <2>2. q.status = "PENDING"
    BY <1>5, RequestTyped, TypeParts DEF Overdue, Request
  <2> HIDE DEF q
  <2>3. i \in Indices /\ requests'[i] = requests[i]
    BY <2>1, <2>2 DEF Indices
  <2> QED
    BY <1>2, <2>3
<1>6. CASE UNCHANGED requests
  BY <1>2, <1>6 DEF Indices
<1>7. \/ \E d \in Desks : Decide(d)
      \/ \E w \in Workers : Ask(w)
      \/ \E j \in Indices : Overdue(j)
      \/ UNCHANGED requests
  BY DEF Next, Execute, AtDesk, Start, Judge, Look, Lookup, Act, Fail, Slip, Record,
         Cut, ReadRequest, Recall, Learn, Reply, Forget, SetLevel, Crash, vars, db
<1> QED
  BY <1>3, <1>4, <1>5, <1>6, <1>7

\* The gate: autonomy.evaluate and _approval_state let through what is licensed.
LEMMA GateIsLicensed ==
    ASSUME Typed, Licences, NEW w \in Workers, pc[w] \in {"judge", "look"},
           Judge(w) \/ Look(w), pc'[w] = "lookup"
    PROVE  Licensed(cur[w])
<1>1. cur[w] \in Calls /\ cur[w].shape \in Shapes
  BY HeldCall DEF Typed
<1>2. CASE Judge(w)
  <2>1. MayAct(cur[w], level.live, pattern[cur[w].shape])
    BY <1>2 DEF Judge, Goto, Typed, RunTyped
  <2>2. pattern[cur[w].shape].approved <= yes[cur[w].shape]
    <3> DEFINE s == cur[w].shape
    <3>1. Owed(s) \in Nat /\ pattern[s].approved \in Nat /\ yes[s] \in Nat
      BY <1>1, CountsTyped
    <3>2. pattern[s].approved + Owed(s) <= yes[s]
      BY <1>1 DEF Licences, Credits, Credit
    <3> HIDE DEF s
    <3>3. pattern[s].approved <= yes[s]
      BY <3>1, <3>2
    <3> QED
      BY <3>3 DEF s
  <2>3. pattern[cur[w].shape].approved \in Nat /\ yes[cur[w].shape] \in Nat
    BY <1>1, CountsTyped
  <2> QED
    BY <2>1, <2>2, <2>3, AutonomyAssumption DEF MayAct, Trusted, Licensed, Licences
<1>3. CASE Look(w)
  <2>1. Decided(cur[w], "APPROVED")
    BY <1>3 DEF Look, Goto, Finish, Typed, RunTyped
  <2> QED
    BY <2>1 DEF Decided, Answers, Licensed, Licences, Grants
<1> QED
  BY <1>2, <1>3

\* Whoever is past the gate was so before, has just passed it, or runs a call
\* the gate is not for.
LEMMA PastTheGate ==
    ASSUME Typed, [Next]_vars, NEW w \in Workers,
           pc'[w] \in {"lookup", "act", "record"}, cur'[w].gated
    PROVE  /\ cur'[w] = cur[w]
           /\ \/ pc[w] \in {"lookup", "act", "record"}
              \/ /\ pc[w] \in {"judge", "look"} /\ pc'[w] = "lookup"
                 /\ Judge(w) \/ Look(w)
<1>1. ASSUME NEW v \in Workers, NEW c \in Calls, Start(v, c)
      PROVE  cur'[w] = cur[w] /\ pc[w] \in {"lookup", "act", "record"}
  BY <1>1 DEF Start, Typed, RunTyped
<1>2. ASSUME NEW v \in Workers, Judge(v) \/ Look(v)
      PROVE  /\ cur'[w] = cur[w]
             /\ \/ pc[w] \in {"lookup", "act", "record"}
                \/ /\ pc[w] \in {"judge", "look"} /\ pc'[w] = "lookup"
                   /\ Judge(w) \/ Look(w)
  BY <1>2 DEF Judge, Look, Goto, Finish, Typed, RunTyped
<1>3. ASSUME NEW v \in Workers,
             Ask(v) \/ Lookup(v) \/ Act(v) \/ Fail(v) \/ Slip(v) \/ Record(v) \/ Cut(v)
      PROVE  cur'[w] = cur[w] /\ pc[w] \in {"lookup", "act", "record"}
  BY <1>3 DEF Ask, Lookup, Act, Fail, Slip, Record, Cut, Goto, Finish, TryAgain, Typed,
              RunTyped
<1>4. ASSUME Crash PROVE FALSE
  BY <1>4 DEF Crash
<1>5. CASE UNCHANGED <<pc, cur>>
  BY <1>5
<1>6. \/ \E v \in Workers : \E c \in Calls : Start(v, c)
      \/ \E v \in Workers : Judge(v) \/ Look(v)
      \/ \E v \in Workers :
            Ask(v) \/ Lookup(v) \/ Act(v) \/ Fail(v) \/ Slip(v) \/ Record(v) \/ Cut(v)
      \/ Crash
      \/ UNCHANGED <<pc, cur>>
  BY DEF Next, Execute, AtDesk, ReadRequest, Decide, Recall, Learn, Overdue, Reply,
         Forget, SetLevel, vars, run
<1> QED
  BY <1>1, <1>2, <1>3, <1>4, <1>5, <1>6

LEMMA LicencesStep ==
    ASSUME Typed, Typed', [Next]_vars, Licences
    PROVE  Licences'
<1>1. Credits' /\ Grants'
  BY CreditsStep, GrantsStep DEF Licences
<1>2. level'.live \in levels'
  <2>1. CASE UNCHANGED <<level, levels>>
    BY <2>1 DEF Licences
  <2>2. CASE \E l \in Levels : SetLevel(l)
    BY <2>2 DEF SetLevel
  <2>3. CASE Crash
    BY <2>3 DEF Crash, Typed, TablesTyped
  <2>4. \/ UNCHANGED <<level, levels>> \/ \E l \in Levels : SetLevel(l)
        \/ Crash
    BY DEF Next, Execute, AtDesk, Start, Judge, Look, Ask, Lookup, Act, Fail, Slip,
           Record, Cut, ReadRequest, Decide, Recall, Learn, Overdue, Reply, Forget, vars,
           history
  <2> QED
    BY <2>1, <2>2, <2>3, <2>4
<1>3. \A c \in Calls : Licensed(c) => Licensed(c)'
  BY LicencesLast, HistoryGrows
<1>4. ASSUME NEW w \in Workers, pc'[w] \in {"lookup", "act", "record"}, cur'[w].gated,
             NEW c \in Calls, c = cur'[w]
      PROVE  Licensed(c)'
  <2>1. Licensed(cur[w]) /\ c = cur[w]
    BY <1>4, PastTheGate, GateIsLicensed DEF Licences, Passed
  <2> QED
    BY <1>3, <2>1
<1>5. ASSUME NEW c \in Calls, c.gated, effects'[c] > 0 PROVE Licensed(c)'
  <2>1. CASE effects'[c] = effects[c]
    BY <1>3, <1>5, <2>1 DEF Licences, NoUnlicensedEffect
  <2>2. CASE effects'[c] # effects[c]
    <3>1. PICK w \in Workers : Act(w) \/ Slip(w)
      BY <2>2 DEF Next, Execute, AtDesk, Start, Judge, Look, Ask, Lookup, Fail, Record,
                  Cut, ReadRequest, Decide, Recall, Learn, Overdue, Reply, Forget,
                  SetLevel, Crash, vars, history
    <3>2. c = cur[w] /\ pc[w] = "act"
      BY <2>2, <3>1 DEF Act, Slip, Takes, Typed, HistoryTyped
    <3> QED
      BY <1>3, <1>5, <3>2 DEF Licences, Passed
  <2> QED
    BY <2>1, <2>2
<1>6. Passed'
  <2>1. ASSUME NEW w \in Workers, pc'[w] \in {"lookup", "act", "record"}
        PROVE  cur'[w] \in Calls
    BY <2>1 DEF Typed, RunTyped
  <2> QED
    BY <1>4, <2>1 DEF Passed
<1> QED
  BY <1>1, <1>2, <1>5, <1>6 DEF Licences, NoUnlicensedEffect

LEMMA LicencesInit == Init => Licences
<1> SUFFICES ASSUME Init PROVE Licences
  OBVIOUS
<1>1. \A s \in Shapes : Learning(s) = {}
  BY DEF Init, Learning, FreeDesk
<1>2. Credits
  BY <1>1 DEF Init, Credits, Credit, Owed, Lesson, NewPattern
<1> QED
  BY <1>2 DEF Init, Licences, Grants, Passed, NoUnlicensedEffect, Indices

\* No risky call takes effect that the owner has not approved, for itself or,
\* outside protected places, by the words of the request, by a level that does
\* not ask, or by as many approving commands for its shape as are asked for.
THEOREM EffectsLicensed == Spec => []NoUnlicensedEffect
<1>1. Typed /\ Licences /\ [Next]_vars => (Typed /\ Licences)'
  BY StepTyped, LicencesStep
<1>2. Spec => [](Typed /\ Licences)
  BY <1>1, InitTyped, LicencesInit, PTL DEF Spec
<1>3. Licences => NoUnlicensedEffect
  BY DEF Licences
<1> QED
  BY <1>2, <1>3, PTL
-----------------------------------------------------------------------------
(* The executor as the owner is to see it: EffectGate.                      *)

LEMMA SameLicence == \A c \in Calls : Gate!Licensed(c) <=> (c.gated => Licensed(c))
BY AutonomyAssumption DEF Gate!Licensed, Licensed

\* A call that no worker has performed and not recorded yet.
LEMMA NothingOpen ==
    ASSUME Typed, Accounts, NEW w \in Workers, pc[w] # "idle", pc[w] # "record"
    PROVE  cur[w] \notin Unrecorded(Workers)
BY HeldCall, ExecutorAssumption DEF Typed, RunTyped, Accounts, Exclusive, Unrecorded

\* Moves that touch neither the ledger nor a run about to be recorded.
LEMMA SameOpen ==
    ASSUME Typed, NEW w \in Workers, pc[w] # "record", pc'[w] # "record",
           \A v \in Workers : v # w => pc'[v] = pc[v] /\ cur'[v] = cur[v]
    PROVE  Unrecorded(Workers)' = Unrecorded(Workers)
BY DEF Unrecorded

\* The one run about to be recorded leaves: nobody else runs its call.
LEMMA OneCloses ==
    ASSUME Typed, Accounts, NEW w \in Workers, pc[w] = "record", pc'[w] # "record",
           \A v \in Workers : v # w => pc'[v] = pc[v] /\ cur'[v] = cur[v]
    PROVE  /\ cur[w] \in Calls /\ cur[w] \in Unrecorded(Workers)
           /\ Unrecorded(Workers)' = Unrecorded(Workers) \ {cur[w]}
<1>1. cur[w] \in Calls /\ cur[w] # NoCall
  BY HeldCall, ExecutorAssumption DEF Typed
<1>2. \A v \in Workers : v # w => cur[v] # cur[w]
  BY <1>1 DEF Accounts, Exclusive
<1> QED
  BY <1>1, <1>2 DEF Unrecorded

LEMMA MapsRuns ==
    ASSUME Typed, Accounts, Licences, NEW w \in Workers, Execute(w)
    PROVE  [Gate!Next]_(Gate!vars)
<1> DEFINE O == Unrecorded(Workers)
<1>1. CASE \E c \in Calls : Start(w, c)
  <2>1. pc[w] # "record" /\ pc'[w] # "record"
        /\ \A v \in Workers : v # w => pc'[v] = pc[v] /\ cur'[v] = cur[v]
    BY <1>1 DEF Start, Typed, RunTyped
  <2>2. O' = O
    BY <2>1, SameOpen
  <2> QED
    BY <1>1, <2>2 DEF Start, db, history, Gate!vars, Gate!deeds, Gate!licences
<1>2. CASE Judge(w) \/ Look(w) \/ Ask(w) \/ Lookup(w) \/ Fail(w)
  <2>1. pc[w] # "record" /\ pc'[w] # "record"
        /\ \A v \in Workers : v # w => pc'[v] = pc[v] /\ cur'[v] = cur[v]
    BY <1>2, RunLeaves
       DEF Judge, Look, Ask, Lookup, Fail, Goto, Finish, TryAgain, Typed, RunTyped
  <2>2. O' = O
    BY <2>1, SameOpen
  <2>3. UNCHANGED <<ledger, history>>
    BY <1>2 DEF Judge, Look, Ask, Lookup, Fail, db
  <2> QED
    BY <2>2, <2>3 DEF history, Gate!vars, Gate!deeds, Gate!licences
<1>3. CASE Act(w)
  <2> DEFINE c == cur[w]
  <2>1. /\ c \in Calls /\ c \notin ledger \cup O /\ Gate!Licensed(c)
    BY <1>3, HeldCall, NothingOpen, SameLicence
       DEF Act, Typed, Accounts, Fresh, Licences, Passed
  <2>2. /\ effects' = [effects EXCEPT ![c] = @ + 1]
        /\ UNCHANGED <<excused, ledger, granted, yes, levels>>
    BY <1>3 DEF Act, Takes, db
  <2>3. O' = O \cup {c}
    BY <1>3 DEF Act, Goto, Unrecorded, Typed, RunTyped
  <2>4. Gate!Perform(c)
    BY <2>1, <2>2, <2>3 DEF Gate!Perform, Gate!TakesEffect, Gate!licences
  <2> QED
    BY <2>1, <2>4 DEF Gate!Next
<1>4. CASE Slip(w)
  <2> DEFINE c == cur[w]
  <2>1. /\ c \in Calls /\ c \notin ledger \cup O /\ Gate!Licensed(c)
    BY <1>4, HeldCall, NothingOpen, SameLicence
       DEF Slip, Typed, Accounts, Fresh, Licences, Passed
  <2>2. /\ effects' = [effects EXCEPT ![c] = @ + 1] /\ Excuse({c})
        /\ UNCHANGED <<ledger, granted, yes, levels>>
    BY <1>4 DEF Slip, Takes, db
  <2>3. excused' = [excused EXCEPT ![c] = @ + 1]
    BY <2>1, <2>2 DEF Excuse, Typed, HistoryTyped
  <2>4. pc[w] = "act" /\ (Finish(w) \/ UNCHANGED <<pc, cur>>)
    BY <1>4, RunLeaves DEF Slip
  <2>5. O' = O
    BY <2>4, SameOpen DEF Finish, Typed, RunTyped
  <2>6. Gate!Slip(c)
    BY <2>1, <2>2, <2>3, <2>5 DEF Gate!Slip, Gate!TakesEffect, Gate!licences
  <2> QED
    BY <2>1, <2>6 DEF Gate!Next
<1>5. CASE Record(w)
  <2>1. /\ pc[w] = "record" /\ pc'[w] # "record"
        /\ \A v \in Workers : v # w => pc'[v] = pc[v] /\ cur'[v] = cur[v]
    BY <1>5 DEF Record, Finish, Typed, RunTyped
  <2>2. cur[w] \in Calls /\ cur[w] \in O /\ O' = O \ {cur[w]}
    BY <2>1, OneCloses
  <2>3. Gate!Record(cur[w])
    BY <1>5, <2>2 DEF Record, history, Gate!Record, Gate!licences
  <2> QED
    BY <2>2, <2>3 DEF Gate!Next
<1>6. CASE Cut(w)
  <2>1. /\ pc'[w] # "record"
        /\ \A v \in Workers : v # w => pc'[v] = pc[v] /\ cur'[v] = cur[v]
        /\ Excuse(Unrecorded({w})) /\ UNCHANGED <<ledger, effects, granted, yes, levels>>
    BY <1>6 DEF Cut, Finish, Typed, RunTyped, db
  <2>2. CASE pc[w] = "record"
    <3>1. cur[w] \in Calls /\ cur[w] \in O /\ O' = O \ {cur[w]}
      BY <2>1, <2>2, OneCloses
    <3>2. Unrecorded({w}) = {cur[w]}
      BY <2>2 DEF Unrecorded
    <3>3. excused' = [c \in Calls |->
                        IF c \in {cur[w]} THEN excused[c] + 1 ELSE excused[c]]
      BY <2>1, <3>2 DEF Excuse
    <3>4. Gate!Lose(cur[w])
      BY <2>1, <3>1, <3>3 DEF Gate!Lose, Gate!Loses
    <3> QED
      BY <3>1, <3>4 DEF Gate!Next
  <2>3. CASE pc[w] # "record"
    <3>1. O' = O
      BY <2>1, <2>3, SameOpen
    <3>2. Unrecorded({w}) = {}
      BY <2>3 DEF Unrecorded
    <3>3. excused' = excused
      BY <2>1, <3>2 DEF Excuse, Typed, HistoryTyped
    <3> QED
      BY <2>1, <3>1, <3>3 DEF Gate!vars, Gate!deeds, Gate!licences
  <2> QED
    BY <2>2, <2>3
<1> QED
  BY <1>1, <1>2, <1>3, <1>4, <1>5, <1>6 DEF Execute

LEMMA MapsOwner ==
    ASSUME Typed,
           \/ \E d \in Desks : AtDesk(d)
           \/ \E i \in Indices : Overdue(i)
           \/ \E t \in Tasks : Reply(t)
           \/ \E s \in Shapes : Forget(s)
           \/ \E l \in Levels : SetLevel(l)
    PROVE  [Gate!Next]_(Gate!vars)
<1>1. UNCHANGED <<ledger, pc, cur, effects, excused>>
  BY DEF AtDesk, ReadRequest, Decide, Recall, Learn, Overdue, Reply, Forget, SetLevel,
         db, run, history
<1>2. UNCHANGED <<Unrecorded(Workers), Gate!deeds>>
  BY <1>1 DEF Unrecorded, Gate!deeds
<1>3. ASSUME NEW d \in Desks, Decide(d) PROVE Gate!Next
  <2> DEFINE c == requests[desk[d].request].call
  <2>1. c \in Calls
    BY <1>3, BusyDesk, RequestTyped, TypeParts DEF Decide, Request
  <2>2. /\ granted' \in {granted, granted \cup {c}}
        /\ yes' \in {yes, [yes EXCEPT ![c.shape] = @ + 1]}
        /\ UNCHANGED levels
    BY <1>3 DEF Decide
  <2>3. Gate!Answer(c)
    BY <1>2, <2>2 DEF Gate!Answer
  <2> QED
    BY <2>1, <2>3 DEF Gate!Next
<1>4. ASSUME NEW l \in Levels, SetLevel(l) PROVE Gate!Next
  <2>1. Gate!SetLevel(l)
    BY <1>2, <1>4 DEF SetLevel, Gate!SetLevel
  <2> QED
    BY <2>1 DEF Gate!Next, Gate!Levels, Levels
<1>5. CASE UNCHANGED <<granted, yes, levels>>
  BY <1>2, <1>5 DEF Gate!vars, Gate!licences
<1>6. \/ \E d \in Desks : Decide(d)
      \/ \E l \in Levels : SetLevel(l)
      \/ UNCHANGED <<granted, yes, levels>>
  BY DEF AtDesk, ReadRequest, Recall, Learn, Overdue, Reply, Forget, history
<1> QED
  BY <1>3, <1>4, <1>5, <1>6

LEMMA MapsCrash ==
    ASSUME Typed, Crash
    PROVE  Gate!Restart
<1>1. /\ Excuse(Unrecorded(Workers)) /\ UNCHANGED <<ledger, effects, granted, yes>>
      /\ pc' = [w \in Workers |-> "idle"]
      /\ levels' = levels \cup {RestoredLevel(level.stored)}
  BY DEF Crash, db
<1>2. Unrecorded(Workers)' = {}
  BY <1>1 DEF Unrecorded
<1>3. excused' = [c \in Calls |->
            IF c \in Unrecorded(Workers) THEN excused[c] + 1 ELSE excused[c]]
  BY <1>1 DEF Excuse
<1>4. RestoredLevel(level.stored) = DefaultLevel
  BY DEF RestoredLevel, GetSetting, Levels
<1> QED
  BY <1>1, <1>2, <1>3, <1>4 DEF Gate!Restart, Gate!Loses

\* Executor.execute with its ledger and its approvals performs what the owner
\* licensed, and performs again only what could not be recorded: it implements
\* EffectGate, whatever the desks, other workers and crashes do meanwhile.
THEOREM ExecutorKeepsTheGate == Spec => KeepsTheGate
<1>1. ASSUME Init PROVE Gate!Init
  <2>1. Unrecorded(Workers) = {}
    BY <1>1 DEF Init, Unrecorded
  <2> QED
    BY <1>1, <2>1 DEF Init, Gate!Init, Gate!Shapes, Shapes
<1>2. ASSUME Typed, Accounts, Licences, [Next]_vars PROVE [Gate!Next]_(Gate!vars)
  <2>1. CASE Crash
    BY <1>2, <2>1, MapsCrash DEF Gate!Next
  <2>2. CASE UNCHANGED vars
    BY <2>2 DEF vars, db, run, history, Gate!vars, Gate!deeds, Gate!licences, Unrecorded
  <2> QED
    BY <1>2, <2>1, <2>2, MapsRuns, MapsOwner DEF Next
<1>3. Typed /\ Accounts /\ Licences /\ [Next]_vars => (Typed /\ Accounts /\ Licences)'
  BY StepTyped, AccountsStep, LicencesStep
<1>4. Spec => [](Typed /\ Accounts /\ Licences)
  BY <1>3, InitTyped, AccountsInit, LicencesInit, PTL DEF Spec
<1> QED
  BY <1>1, <1>2, <1>4, PTL DEF Spec, KeepsTheGate, Gate!Spec
\* What the table of operations is for: a call recorded there never takes effect
\* again and stays recorded, through retries, stops, crashes and restarts.
RecordedStays == \A c \in ledger : effects'[c] = effects[c] /\ c \in ledger'

\* It follows from the abstract gate, which Executor.execute implements.
THEOREM RecordedNeverRepeats == Spec => [][RecordedStays]_vars
<1>1. ASSUME Typed, [Gate!Next]_Gate!vars PROVE RecordedStays
  <2>1. effects \in [Calls -> Nat] /\ ledger \subseteq Calls
    BY <1>1 DEF Typed, TablesTyped, HistoryTyped
  <2>2. ASSUME NEW c \in Calls, Gate!Perform(c) \/ Gate!Slip(c) PROVE RecordedStays
    <3>1. /\ c \notin ledger /\ ledger' = ledger
          /\ effects' = [effects EXCEPT ![c] = @ + 1]
      BY <2>2 DEF Gate!Perform, Gate!Slip, Gate!TakesEffect
    <3> QED
      BY <2>1, <3>1 DEF RecordedStays
  <2>3. ASSUME NEW c \in Calls, Gate!Record(c) PROVE RecordedStays
    BY <2>3 DEF Gate!Record, RecordedStays
  <2>4. ASSUME NEW cs, Gate!Loses(cs) PROVE RecordedStays
    BY <2>4 DEF Gate!Loses, RecordedStays
  <2>5. CASE UNCHANGED Gate!deeds
    BY <2>5 DEF Gate!deeds, RecordedStays
  <2> QED
    BY <1>1, <2>2, <2>3, <2>4, <2>5
    DEF Gate!Next, Gate!Answer, Gate!SetLevel, Gate!Lose, Gate!Restart, Gate!vars
<1>2. Typed /\ [Gate!Next]_Gate!vars => [RecordedStays]_vars
  BY <1>1
<1> QED
  BY <1>2, TypesLast, ExecutorKeepsTheGate, PTL DEF KeepsTheGate, Gate!Spec
-----------------------------------------------------------------------------
(* What the gate makes of the books.                                        *)

\* Every effect is recorded, about to be, or was excused, and none of these
\* twice: the operations table tells of each call in it that it was performed,
\* once more often than could not be recorded, and of no other call.
Balanced ==
    /\ ledger \cap Unrecorded(Workers) = {}
    /\ \A c \in Calls :
        effects[c] = IF c \in ledger \cup Unrecorded(Workers)
                     THEN excused[c] + 1 ELSE excused[c]

LEMMA BalanceStep ==
    ASSUME Typed, Balanced, Gate!Next
    PROVE  Balanced'
<1> DEFINE O == Unrecorded(Workers)
<1>1. effects \in [Calls -> Nat] /\ excused \in [Calls -> Nat]
  BY DEF Typed, HistoryTyped
<1>2. /\ ledger \cap O = {}
      /\ \A c \in Calls :
            effects[c] = IF c \in ledger \cup O THEN excused[c] + 1 ELSE excused[c]
  BY DEF Balanced
<1> SUFFICES /\ ledger' \cap O' = {}
             /\ \A c \in Calls : effects'[c] =
                    IF c \in ledger' \cup O' THEN excused'[c] + 1 ELSE excused'[c]
  BY DEF Balanced
<1> HIDE DEF O
<1>3. ASSUME NEW c \in Calls, c \notin ledger \cup O,
             effects' = [effects EXCEPT ![c] = @ + 1], ledger' = ledger,
             \/ O' = O \cup {c} /\ excused' = excused
             \/ O' = O /\ excused' = [excused EXCEPT ![c] = @ + 1]
      PROVE  /\ ledger' \cap O' = {}
             /\ \A e \in Calls : effects'[e] =
                    IF e \in ledger' \cup O' THEN excused'[e] + 1 ELSE excused'[e]
  BY <1>1, <1>2, <1>3
<1>4. ASSUME NEW c \in O, ledger' = ledger \cup {c}, O' = O \ {c},
             effects' = effects, excused' = excused
      PROVE  /\ ledger' \cap O' = {}
             /\ \A e \in Calls : effects'[e] =
                    IF e \in ledger' \cup O' THEN excused'[e] + 1 ELSE excused'[e]
  BY <1>2, <1>4
<1>5. ASSUME NEW cs, cs \subseteq O, O' = O \ cs, effects' = effects, ledger' = ledger,
             excused' = [c \in Calls |-> IF c \in cs THEN excused[c] + 1 ELSE excused[c]]
      PROVE  /\ ledger' \cap O' = {}
             /\ \A e \in Calls : effects'[e] =
                    IF e \in ledger' \cup O' THEN excused'[e] + 1 ELSE excused'[e]
  BY <1>1, <1>2, <1>5
<1>6. CASE UNCHANGED <<effects, excused, ledger, O>>
  BY <1>2, <1>6
<1>7. ASSUME NEW c \in Calls, Gate!Perform(c) \/ Gate!Slip(c)
      PROVE  /\ c \notin ledger \cup O /\ ledger' = ledger
             /\ effects' = [effects EXCEPT ![c] = @ + 1]
             /\ \/ O' = O \cup {c} /\ excused' = excused
                \/ O' = O /\ excused' = [excused EXCEPT ![c] = @ + 1]
  BY <1>7 DEF Gate!Perform, Gate!Slip, Gate!TakesEffect, O
<1>8. ASSUME NEW c \in Calls, Gate!Record(c)
      PROVE  /\ c \in O /\ ledger' = ledger \cup {c} /\ O' = O \ {c}
             /\ UNCHANGED <<effects, excused>>
  BY <1>8 DEF Gate!Record, O
<1>9. ASSUME NEW cs, cs \subseteq O, Gate!Loses(cs)
      PROVE  /\ O' = O \ cs /\ UNCHANGED <<effects, ledger>>
             /\ excused' = [c \in Calls |->
                    IF c \in cs THEN excused[c] + 1 ELSE excused[c]]
  BY <1>9 DEF Gate!Loses, O
<1>10. ASSUME NEW c \in Calls, Gate!Lose(c) PROVE {c} \subseteq O /\ Gate!Loses({c})
  BY <1>10 DEF Gate!Lose, O
<1>11. ASSUME Gate!Restart PROVE Gate!Loses(O)
  BY <1>11 DEF Gate!Restart, O
<1>12. ASSUME \/ \E c \in Calls : Gate!Answer(c)
              \/ \E l \in Gate!Levels : Gate!SetLevel(l)
       PROVE  UNCHANGED <<effects, excused, ledger, O>>
  BY <1>12 DEF Gate!Answer, Gate!SetLevel, Gate!deeds, O
<1>13. CASE \E c \in Calls : Gate!Perform(c) \/ Gate!Slip(c)
  BY <1>3, <1>7, <1>13
<1>14. CASE \E c \in Calls : Gate!Record(c)
  BY <1>4, <1>8, <1>14
<1>15. CASE (\E c \in Calls : Gate!Lose(c)) \/ Gate!Restart
  <2>1. PICK cs : cs \subseteq O /\ Gate!Loses(cs)
    BY <1>10, <1>11, <1>15
  <2> QED
    BY <1>5, <1>9, <2>1
<1> QED
  BY <1>6, <1>12, <1>13, <1>14, <1>15 DEF Gate!Next

\* A call that Executor.execute answers from the operations table did take
\* effect, and each effect beyond the first is one that could not be recorded:
\* no crash, cut or retry makes the ledger claim what was not done.
THEOREM LedgerIsTrue == Spec => []Balanced
<1>1. ASSUME Init PROVE Balanced
  <2>1. Unrecorded(Workers) = {}
    BY <1>1 DEF Init, Unrecorded
  <2> QED
    BY <1>1, <2>1 DEF Init, Balanced
<1>2. ASSUME Typed, Balanced, [Gate!Next]_(Gate!vars) PROVE Balanced'
  <2>1. CASE UNCHANGED Gate!vars
    BY <1>2, <2>1 DEF Gate!vars, Gate!deeds, Balanced
  <2> QED
    BY <1>2, <2>1, BalanceStep
<1> QED
  BY <1>1, <1>2, TypesLast, ExecutorKeepsTheGate, PTL DEF Spec, KeepsTheGate, Gate!Spec

\* What the owner stored, or what the environment says.
LevelKept == level.live \in {level.stored, DefaultLevel}

\* The level the process works with is the one the owner stored, or the
\* environment's: a restart loses the owner's choice, and nothing else takes
\* its place.
THEOREM LevelIsStoredOrDefault == Spec => []LevelKept
<1>1. Init => LevelKept
  BY DEF Init, LevelKept
<1>2. ASSUME Typed, LevelKept, [Next]_vars PROVE LevelKept'
  <2>1. CASE UNCHANGED level
    BY <1>2, <2>1 DEF LevelKept
  <2>2. CASE \E l \in Levels : SetLevel(l)
    BY <2>2 DEF SetLevel, LevelKept
  <2>3. CASE Crash
    BY <1>2, <2>3 DEF Crash, RestoredLevel, GetSetting, Levels, Typed, TablesTyped, LevelKept
  <2>4. UNCHANGED level \/ (\E l \in Levels : SetLevel(l)) \/ Crash
    BY <1>2 DEF Next, Execute, AtDesk, Start, Judge, Look, Ask, Lookup, Act, Fail, Slip,
           Record, Cut, ReadRequest, Decide, Recall, Learn, Overdue, Reply, Forget, vars
  <2> QED
    BY <2>1, <2>2, <2>3, <2>4
<1> QED
  BY <1>1, <1>2, TypesLast, PTL DEF Spec
-----------------------------------------------------------------------------
(* A refusal and the gate.                                                  *)

\* Of the decisions about a call the newest counts, so it is one of the two.
LEMMA OneAnswer ==
    ASSUME Typed, NEW c
    PROVE  ~(Decided(c, "APPROVED") /\ Decided(c, "REJECTED"))
<1> SUFFICES ASSUME Decided(c, "APPROVED"), Decided(c, "REJECTED") PROVE FALSE
  OBVIOUS
<1>1. PICK i \in Indices :
        /\ requests[i].status = "APPROVED" /\ Answers(requests[i], c)
        /\ \A k \in Indices : k > i /\ Answers(requests[k], c)
                => requests[k].status \notin {"APPROVED", "REJECTED"}
  BY DEF Decided
<1>2. PICK j \in Indices :
        /\ requests[j].status = "REJECTED" /\ Answers(requests[j], c)
        /\ \A k \in Indices : k > j /\ Answers(requests[k], c)
                => requests[k].status \notin {"APPROVED", "REJECTED"}
  BY DEF Decided
<1>3. i \in Int /\ j \in Int /\ i # j
  BY <1>1, <1>2 DEF Typed, TablesTyped, Indices
<1> QED
  BY <1>1, <1>2, <1>3

\* Where a refused call gets through: at the policy, which judges its shape and
\* does not look for requests; it never lets a call to a protected place pass,
\* and none at all at the level "paranoid".
PassesUnasked(w) ==
    /\ pc[w] = "judge"
    /\ cur[w].place # "protected" /\ level.live # "paranoid"
    /\ \/ level.live = "high" \/ cur[w].named \/ cur[w].place = "scratch"
       \/ Trusted(pattern[cur[w].shape])

GateStep ==
    \A w \in Workers :
        /\ pc[w] \in {"judge", "look"} /\ pc'[w] = "lookup"
        /\ Decided(cur[w], "REJECTED")
        => PassesUnasked(w)

\* The bound of what "a rejected action never executes" promises: a call whose
\* newest decision is a refusal passes the gate of Executor.execute only where
\* the gate does not ask, and never by the search for a decision.
THEOREM RefusedPassesOnlyUnasked == Spec => [][GateStep]_vars
<1>1. ASSUME Typed, [Next]_vars, NEW w \in Workers, pc[w] \in {"judge", "look"},
             pc'[w] = "lookup", Decided(cur[w], "REJECTED")
      PROVE  PassesUnasked(w)
  <2>1. Judge(w) \/ Look(w)
    <3>1. CASE \E v \in Workers : Execute(v)
      <4>1. PICK v \in Workers : Execute(v)
        BY <3>1
      <4>2. v = w
        BY <1>1, <4>1 DEF Execute, Start, Judge, Look, Ask, Lookup, Act, Fail, Slip, Record,
                      Cut, Goto, Finish, TryAgain, Typed, RunTyped
      <4> QED
        BY <1>1, <4>1, <4>2 DEF Execute, Start, Ask, Lookup, Act, Fail, Slip, Record,
                      Cut, Finish, Typed, RunTyped
    <3>2. CASE Crash
      BY <1>1, <3>2 DEF Crash
    <3>3. CASE UNCHANGED pc
      BY <1>1, <3>3
    <3> QED
      BY <1>1, <3>1, <3>2, <3>3 DEF Next, AtDesk, ReadRequest, Decide, Recall, Learn,
                      Overdue, Reply, Forget, SetLevel, vars, run
  <2>2. CASE Judge(w)
    BY <1>1, <2>2 DEF Judge, Goto, MayAct, PassesUnasked, Typed, RunTyped
  <2>3. CASE Look(w)
    <3>1. Decided(cur[w], "APPROVED")
      BY <1>1, <2>3 DEF Look, Goto, Finish, Typed, RunTyped
    <3> QED
      BY <1>1, <3>1, OneAnswer
  <2> QED
    BY <2>1, <2>2, <2>3
<1>2. Typed /\ [Next]_vars => [GateStep]_vars
  BY <1>1 DEF GateStep
<1> QED
  BY <1>2, TypesLast, PTL DEF Spec
=============================================================================
