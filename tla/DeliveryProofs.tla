--------------------------- MODULE DeliveryProofs ---------------------------
(***************************************************************************)
(* What of Delivery holds for every number of tasks, messages, jobs,       *)
(* crashes and requests.                                                   *)
(***************************************************************************)
EXTENDS Delivery, FiniteSetTheorems, TLAPS

(* What create_task leaves behind: fresh rows, one for each origin.        *)
Fresh(t) == status[t] = Absent /\ status'[t] # Absent

LEMMA CreatesWhat ==
    ASSUME TypeOK, NEW origins, Creates(origins)
    PROVE  /\ \A t \in Tasks : \/ status'[t] = status[t] /\ origin'[t] = origin[t]
                              \/ /\ status[t] = Absent /\ status'[t] = "PENDING"
                                 /\ origin'[t] \in origins
           /\ \A t, u \in Tasks : Fresh(t) /\ Fresh(u) /\ origin'[t] = origin'[u] => t = u
           /\ \A a \in origins : \E t \in Tasks : Fresh(t) /\ origin'[t] = a
           /\ status' \in [Tasks -> Status \cup {Absent}]
           /\ origin' = [t \in Tasks |-> origin'[t]]
           /\ UNCHANGED <<notified, run>>
<1>1. PICK id \in [origins -> {t \in Tasks : status[t] = Absent}] :
        /\ \A a, b \in origins : id[a] = id[b] => a = b
        /\ status' = [t \in Tasks |->
               IF \E a \in origins : id[a] = t THEN "PENDING" ELSE status[t]]
        /\ origin' = [t \in Tasks |->
               IF \E a \in origins : id[a] = t
               THEN CHOOSE a \in origins : id[a] = t ELSE origin[t]]
        /\ UNCHANGED <<notified, run>>
  BY DEF Creates
<1>2. \A t \in Tasks : (\E a \in origins : id[a] = t)
          => /\ status[t] = Absent /\ status'[t] = "PENDING"
             /\ origin'[t] \in origins /\ id[origin'[t]] = t
  <2> SUFFICES ASSUME NEW t \in Tasks, NEW a \in origins, id[a] = t
               PROVE  /\ status[t] = Absent /\ status'[t] = "PENDING"
                      /\ origin'[t] \in origins /\ id[origin'[t]] = t
    OBVIOUS
  <2>1. status[t] = Absent /\ status'[t] = "PENDING"
    BY <1>1
  <2>2. origin'[t] = CHOOSE b \in origins : id[b] = t
    BY <1>1
  <2> QED
    BY <2>1, <2>2
<1>3. \A t \in Tasks : ~(\E a \in origins : id[a] = t)
          => status'[t] = status[t] /\ origin'[t] = origin[t]
  BY <1>1
<1>4. \A t \in Tasks : Fresh(t) => \E a \in origins : id[a] = t
  BY <1>3 DEF Fresh
<1>5. \A t, u \in Tasks : Fresh(t) /\ Fresh(u) /\ origin'[t] = origin'[u] => t = u
  BY <1>2, <1>4
<1>6. ASSUME NEW a \in origins
      PROVE  \E t \in Tasks : Fresh(t) /\ origin'[t] = a
  <2>1. id[a] \in Tasks /\ status[id[a]] = Absent
    BY <1>1
  <2>2. origin'[id[a]] \in origins /\ id[origin'[id[a]]] = id[a] /\ status'[id[a]] = "PENDING"
    BY <1>2, <2>1
  <2>3. origin'[id[a]] = a
    BY <1>1, <2>2
  <2> QED
    BY <2>1, <2>2, <2>3 DEF Fresh, Absent
<1>7. status' \in [Tasks -> Status \cup {Absent}]
  BY <1>1 DEF TypeOK, Status
<1>8. origin' = [t \in Tasks |-> origin'[t]]
  BY <1>1
<1> QED
  BY <1>1, <1>2, <1>3, <1>5, <1>6, <1>7, <1>8

LEMMA CreatesTyped ==
    ASSUME TypeOK, NEW origins, origins \subseteq Origins, Creates(origins)
    PROVE  /\ status' \in [Tasks -> Status \cup {Absent}]
           /\ origin' \in [Tasks -> Origins]
           /\ UNCHANGED <<notified, run>>
<1>1. \A t \in Tasks : origin'[t] \in Origins
  BY CreatesWhat DEF TypeOK
<1> QED
  BY <1>1, CreatesWhat

Later(n, k, p) ==
    k \in Notice /\ k.task = n.task /\ k.event = n.event /\ k.by = n.by /\ k.pc = p

LEMMA MovesWhat ==
    ASSUME TypeOK, NEW n \in notices, NEW p \in {"mark", "key", "send"}, Moves(n, p)
    PROVE  \E k : Later(n, k, p) /\ notices' = (notices \ {n}) \cup {k}
<1> DEFINE k == [n EXCEPT !.pc = p]
<1>1. n \in Notice
  BY DEF TypeOK
<1>2. Later(n, k, p)
  BY <1>1 DEF Later, Notice
<1>3. notices' = (notices \ {n}) \cup {k}
  BY DEF Moves
<1> QED
  BY <1>2, <1>3

LEMMA CutTyped ==
    ASSUME TypeOK, NEW lost \in SUBSET notices, Cut(lost)
    PROVE  excused' \subseteq Tasks /\ excused \subseteq excused'
<1>1. \A n \in lost : n.task \in Tasks
  BY DEF TypeOK, Notice
<1> QED
  BY <1>1 DEF Cut, TypeOK

(* While the process is down or sweeps, nothing runs; what the sweep has   *)
(* to do are ends that nobody has announced.                               *)
Quiet ==
    /\ phase \in {"down", "sweeping"} => \A t \in Tasks : run[t] = "none"
    /\ phase = "down" => notices = {}
    /\ todo # {} => phase = "sweeping"
    /\ \A t \in todo : status[t] \in Announced /\ ~notified[t]
    /\ phase = "sweeping" =>
          /\ \A n \in notices : n.task \notin todo
          /\ \A n, k \in notices : n = k

LEMMA TypeStep ==
    ASSUME TypeOK, Quiet, [Next]_vars
    PROVE  TypeOK'
<1> USE DEF vars, taskVars, noticeVars, inVars, jobVars, processVars, silence
<1>0. CASE UNCHANGED vars
  BY <1>0 DEF TypeOK
<1>1. ASSUME NEW t \in Tasks, Take(t)
      PROVE  TypeOK'
  BY <1>1, DeliveryAssumption DEF Take, RunStep, Status, TypeOK
<1>2. ASSUME NEW t \in Tasks, CountStep(t)
      PROVE  TypeOK'
  BY <1>2, DeliveryAssumption DEF CountStep, RunStep, Status, TypeOK
<1>3. ASSUME NEW t \in Tasks, Park(t)
      PROVE  TypeOK'
  BY <1>3, DeliveryAssumption DEF Park, RunStep, Terminal, Status, TypeOK
<1>4. ASSUME NEW t \in Tasks, NEW st \in Announced, Finish(t, st)
      PROVE  TypeOK'
  BY <1>4, DeliveryAssumption DEF Finish, RunStep, Ends, NewNotice, Notice, Announced, Terminal, Status, TypeOK
<1>5. ASSUME NEW t \in Tasks, TimeLimit(t)
      PROVE  TypeOK'
  BY <1>5, DeliveryAssumption DEF TimeLimit, RunStep, Fault, NewNotice, Notice, Announced, Terminal, Status, TypeOK
<1>6. ASSUME NEW t \in Tasks, Release(t)
      PROVE  TypeOK'
  BY <1>6, DeliveryAssumption DEF Release, RunStep, InFlight, TypeOK
<1>7. ASSUME NEW t \in Tasks, Cancel(t)
      PROVE  TypeOK'
  BY <1>7, DeliveryAssumption DEF Cancel, RunStep, ByOwner, Terminal, Status, TypeOK
<1>8. ASSUME NEW t \in Tasks, Reply(t)
      PROVE  TypeOK'
  BY <1>8, DeliveryAssumption DEF Reply, RunStep, ByOwner, Status, TypeOK
<1>9. ASSUME NEW t \in Tasks, Abandon(t)
      PROVE  TypeOK'
  BY <1>9, DeliveryAssumption DEF Abandon, RunStep, Cut, Status, TypeOK
<1>10. ASSUME NEW t \in Tasks, SweepNext(t)
      PROVE  TypeOK'
  <2>1. NewNotice(t, status[t], "sweep") \in Notice
    BY <1>10 DEF SweepNext, Quiet, NewNotice, Notice
  <2> QED
    BY <1>10, <2>1 DEF SweepNext, Sweeps, TypeOK
<1>11. ASSUME NEW n \in notices, Look(n)
      PROVE  TypeOK'
  <2>1. n \in Notice /\ notices' \subseteq Notice
    BY <1>11, MovesWhat DEF Look, Drops, Later, TypeOK
  <2> QED
    BY <1>11, <2>1 DEF Look, TypeOK
<1>12. ASSUME NEW n \in notices, Mark(n)
      PROVE  TypeOK'
  BY ZenonT(60), <1>12, DeliveryAssumption DEF Mark, At, Alive, Moves, Notice, TypeOK
<1>13. ASSUME NEW n \in notices, Key(n)
      PROVE  TypeOK'
  <2>1. n \in Notice /\ notices' \subseteq Notice
    BY <1>13, MovesWhat DEF Key, Drops, Later, TypeOK
  <2>2. keys' \subseteq Announced \X Tasks
    BY <1>13, <2>1 DEF Key, Notice, TypeOK
  <2> QED
    BY <1>13, <2>1, <2>2 DEF Key, TypeOK
<1>14. ASSUME NEW n \in notices, Send(n)
      PROVE  TypeOK'
  BY <1>14, DeliveryAssumption DEF Send, At, Alive, Drops, Notice, TypeOK
<1>15. ASSUME NEW n \in notices, NoticeFails(n)
      PROVE  TypeOK'
  <2>1. excused' \subseteq Tasks
    BY <1>15 DEF NoticeFails, Notice, TypeOK
  <2>2. backlog' \in Nat \X Nat
    BY <1>15 DEF NoticeFails, TypeOK
  <2>3. faults' \in 0..MaxFaults
    BY <1>15, DeliveryAssumption DEF NoticeFails, Fault, TypeOK
  <2> QED
    BY <1>15, <2>1, <2>2, <2>3 DEF NoticeFails, Drops, TypeOK
<1>16. ASSUME NEW m \in Messages, Deliver(m)
      PROVE  TypeOK'
  BY <1>16, DeliveryAssumption DEF Deliver, TypeOK
<1>17. ASSUME NEW m \in Messages, MakeTask(m)
      PROVE  TypeOK'
  <2>1. {From("message", m, 0)} \subseteq Origins
    BY DEF Origins, From
  <2>2. Creates({From("message", m, 0)})
    BY <1>17 DEF MakeTask
  <2> QED
    BY <1>17, <2>1, <2>2, CreatesTyped DEF MakeTask, TypeOK
<1>18. ASSUME NEW m \in Messages, LeaveInInbox(m)
      PROVE  TypeOK'
  BY <1>18, DeliveryAssumption DEF LeaveInInbox, TypeOK
<1>19. ASSUME NEW m \in Messages, ReceiveFails(m)
      PROVE  TypeOK'
  BY <1>19, DeliveryAssumption DEF ReceiveFails, Fault, TypeOK
<1>20. ASSUME Ask
      PROVE  TypeOK'
  <2>1. {From("owner", "chat", owner)} \subseteq Origins
    BY DEF Origins, From, TypeOK
  <2>2. Creates({From("owner", "chat", owner)})
    BY <1>20 DEF Ask
  <2>3. owner' \in 0..MaxOwner
    BY <1>20, DeliveryAssumption DEF Ask, ByOwner, TypeOK
  <2> QED
    BY <1>20, <2>1, <2>2, <2>3, CreatesTyped DEF Ask, TypeOK
<1>21. ASSUME TickRead
      PROVE  TypeOK'
  BY <1>21, DeliveryAssumption DEF TickRead, Due, NotRead, Read, Job, TypeOK
<1>22. ASSUME TickCommit
      PROVE  TypeOK'
  <2>1. {From("job", i, tick[i] + 1) : i \in Read} \subseteq Origins
    BY DEF Origins, From, TypeOK, Read, NotRead
  <2>2. Creates({From("job", i, tick[i] + 1) : i \in Read})
    BY <1>22 DEF TickCommit
  <2>3. \A i \in Read : Fired(i, tick[i] + 1) \in Job
    BY DeliveryAssumption DEF Fired, Job, Read, NotRead, TypeOK
  <2>4. job' \in [Jobs -> Job]
    BY <1>22, <2>3 DEF TickCommit, TypeOK
  <2>5. tick' \in [Jobs -> Nat \cup {NotRead}]
    BY <1>22 DEF TickCommit, Unread
  <2> QED
    BY <1>22, <2>1, <2>2, <2>4, <2>5, CreatesTyped DEF TickCommit, TypeOK
<1>23. ASSUME TickFails
      PROVE  TypeOK'
  BY <1>23, DeliveryAssumption DEF TickFails, Unread, Fault, Read, TypeOK
<1>24. ASSUME NEW j \in Jobs, TimeComes(j)
      PROVE  TypeOK'
  <2>1. [job[j] EXCEPT !.next = "due"] \in Job
    BY DEF Job, TypeOK
  <2>2. job' \in [Jobs -> Job]
    BY <1>24, <2>1 DEF TimeComes, TypeOK
  <2> QED
    BY <1>24, <2>2 DEF TimeComes, TypeOK
<1>25. ASSUME NEW j \in Jobs, DeleteJob(j)
      PROVE  TypeOK'
  <2>1. job' \in [Jobs -> Job]
    BY <1>25 DEF DeleteJob, Deleted, Job, TypeOK
  <2>2. owner' \in 0..MaxOwner
    BY <1>25, DeliveryAssumption DEF DeleteJob, ByOwner, TypeOK
  <2> QED
    BY <1>25, <2>1, <2>2 DEF DeleteJob, TypeOK
<1>26. ASSUME Stop
      PROVE  TypeOK'
  BY <1>26, DeliveryAssumption DEF Stop, Fault, Unread, TypeOK
<1>27. ASSUME Exit
      PROVE  TypeOK'
  <2>1. excused' \subseteq Tasks
    BY <1>27, CutTyped DEF Exit, Ceases
  <2>2. UNCHANGED <<taskVars, keys, sent, owed, overtaken, wanted, inbound, job, backlog, owner,
                    faults>>
    BY <1>27 DEF Exit, Ceases
  <2>3. /\ notices' = {} /\ receiving' = {} /\ dropped' = dropped \cup receiving
        /\ tick' = Unread /\ todo' = {} /\ phase' = "down"
    BY <1>27 DEF Exit, Ceases
  <2> QED
    BY <2>1, <2>2, <2>3 DEF Unread, TypeOK
<1>28. ASSUME Crash
      PROVE  TypeOK'
  <2>1. excused' \subseteq Tasks
    BY <1>28, CutTyped DEF Crash, Ceases
  <2>2. UNCHANGED <<status, notified, origin, keys, sent, owed, overtaken, wanted, inbound, job,
                    backlog, owner>>
    BY <1>28 DEF Crash, Ceases
  <2>3. /\ notices' = {} /\ receiving' = {} /\ dropped' = dropped \cup receiving
        /\ tick' = Unread /\ todo' = {} /\ phase' = "down"
        /\ run' = [t \in Tasks |-> "none"]
    BY <1>28 DEF Crash, Ceases
  <2>4. faults' \in 0..MaxFaults
    BY <1>28, DeliveryAssumption DEF Crash, Fault, TypeOK
  <2> QED
    BY <2>1, <2>2, <2>3, <2>4 DEF Unread, TypeOK
<1>29. ASSUME Restart
      PROVE  TypeOK'
  <2>1. Cardinality(Unannounced) \in Nat
    BY DeliveryAssumption, FS_Subset, FS_CardinalityType DEF Unannounced
  <2>2. status' \in [Tasks -> Status \cup {Absent}]
    BY <1>29 DEF Restart, Recovered, Status, TypeOK
  <2>3. todo' \subseteq Tasks
    BY <1>29 DEF Restart, Batches, Unannounced
  <2>4. backlog' \in Nat \X Nat
    BY <1>29, <2>1 DEF Restart
  <2> QED
    BY <1>29, <2>2, <2>3, <2>4 DEF Restart, TypeOK
<1>30. ASSUME SweepEnd
      PROVE  TypeOK'
  BY <1>30, DeliveryAssumption DEF SweepEnd, TypeOK
<1> QED
  BY <1>0, <1>1, <1>2, <1>3, <1>4, <1>5, <1>6, <1>7, <1>8, <1>9, <1>10, <1>11, <1>12, <1>13, <1>14, <1>15, <1>16, <1>17, <1>18, <1>19, <1>20, <1>21, <1>22, <1>23, <1>24, <1>25, <1>26, <1>27, <1>28, <1>29, <1>30 DEF Next, Task, Announce, Inbox, Schedule, Process

LEMMA QuietStep ==
    ASSUME TypeOK, Quiet, [Next]_vars
    PROVE  Quiet'
<1> USE DEF vars, taskVars, noticeVars, inVars, jobVars, processVars, silence
<1>0. CASE UNCHANGED vars
  BY <1>0 DEF Quiet, TypeOK
<1>1. ASSUME NEW t \in Tasks, Take(t)
      PROVE  Quiet'
  BY <1>1 DEF Take, RunStep, Quiet, TypeOK
<1>2. ASSUME NEW t \in Tasks, CountStep(t)
      PROVE  Quiet'
  BY <1>2 DEF CountStep, RunStep, Quiet, TypeOK
<1>3. ASSUME NEW t \in Tasks, Park(t)
      PROVE  Quiet'
  BY <1>3 DEF Park, RunStep, Terminal, Quiet, TypeOK
<1>4. ASSUME NEW t \in Tasks, NEW st \in Announced, Finish(t, st)
      PROVE  Quiet'
  BY <1>4 DEF Finish, RunStep, Ends, NewNotice, Notice, Announced, Terminal, Quiet, TypeOK
<1>5. ASSUME NEW t \in Tasks, TimeLimit(t)
      PROVE  Quiet'
  BY <1>5 DEF TimeLimit, RunStep, Fault, NewNotice, Notice, Announced, Terminal, Quiet, TypeOK
<1>6. ASSUME NEW t \in Tasks, Release(t)
      PROVE  Quiet'
  BY <1>6 DEF Release, RunStep, InFlight, Quiet, TypeOK
<1>7. ASSUME NEW t \in Tasks, Cancel(t)
      PROVE  Quiet'
  BY <1>7 DEF Cancel, RunStep, ByOwner, Terminal, Quiet, TypeOK
<1>8. ASSUME NEW t \in Tasks, Reply(t)
      PROVE  Quiet'
  BY <1>8 DEF Reply, RunStep, ByOwner, Quiet, TypeOK
<1>9. ASSUME NEW t \in Tasks, Abandon(t)
      PROVE  Quiet'
  BY <1>9 DEF Abandon, RunStep, Cut, Quiet, TypeOK
<1>10. ASSUME NEW t \in Tasks, SweepNext(t)
      PROVE  Quiet'
  BY <1>10 DEF SweepNext, Sweeps, NewNotice, Notice, Quiet, TypeOK
<1>11. ASSUME NEW n \in notices, Look(n)
      PROVE  Quiet'
  <2>1. n \in Notice
    BY DEF TypeOK
  <2>2. \A k \in notices' : \E j \in notices : k.task = j.task /\ (k = j \/ j = n)
    BY <1>11, <2>1, MovesWhat DEF Look, Drops, Later
  <2>3. phase = "sweeping" => \A j, k \in notices' : j = k
    BY <1>11 DEF Look, Drops, Moves, Quiet
  <2> QED
    BY <1>11, <2>2, <2>3 DEF Look, At, Alive, Quiet
<1>12. ASSUME NEW n \in notices, Mark(n)
      PROVE  Quiet'
  <2>1. n \in Notice
    BY DEF TypeOK
  <2>2. \A k \in notices' : \E j \in notices : k.task = j.task
    BY <1>12, <2>1, MovesWhat DEF Mark, Later
  <2>3. phase = "sweeping" => \A j, k \in notices' : j = k
    BY <1>12 DEF Mark, Moves, Quiet
  <2>4. n.task \notin todo
    BY <1>12 DEF Mark, At, Alive, Quiet
  <2>5. \A t \in todo : notified'[t] = notified[t]
    BY <1>12, <2>4 DEF Mark, TypeOK
  <2> QED
    BY <1>12, <2>2, <2>3, <2>5 DEF Mark, At, Alive, Quiet
<1>13. ASSUME NEW n \in notices, Key(n)
      PROVE  Quiet'
  <2>1. n \in Notice
    BY DEF TypeOK
  <2>2. \A k \in notices' : \E j \in notices : k.task = j.task /\ (k = j \/ j = n)
    BY <1>13, <2>1, MovesWhat DEF Key, Drops, Later
  <2>3. phase = "sweeping" => \A j, k \in notices' : j = k
    BY <1>13 DEF Key, Drops, Moves, Quiet
  <2> QED
    BY <1>13, <2>2, <2>3 DEF Key, At, Alive, Quiet
<1>14. ASSUME NEW n \in notices, Send(n)
      PROVE  Quiet'
  BY <1>14 DEF Send, At, Alive, Drops, Notice, Quiet, TypeOK
<1>15. ASSUME NEW n \in notices, NoticeFails(n)
      PROVE  Quiet'
  BY <1>15 DEF NoticeFails, Alive, Drops, Fault, Quiet, TypeOK
<1>16. ASSUME NEW m \in Messages, Deliver(m)
      PROVE  Quiet'
  BY <1>16 DEF Deliver, Quiet, TypeOK
<1>17. ASSUME NEW m \in Messages, MakeTask(m)
      PROVE  Quiet'
  <2>1. Creates({From("message", m, 0)})
    BY <1>17 DEF MakeTask
  <2>2. UNCHANGED <<notified, run>>
    BY <2>1, CreatesWhat
  <2>3. \A t \in Tasks : status[t] \in Announced => status'[t] = status[t]
    BY <2>1, CreatesWhat DEF Announced, Absent
  <2> QED
    BY <1>17, <2>2, <2>3 DEF MakeTask, Quiet, TypeOK
<1>18. ASSUME NEW m \in Messages, LeaveInInbox(m)
      PROVE  Quiet'
  BY <1>18 DEF LeaveInInbox, Quiet, TypeOK
<1>19. ASSUME NEW m \in Messages, ReceiveFails(m)
      PROVE  Quiet'
  BY <1>19 DEF ReceiveFails, Fault, Quiet, TypeOK
<1>20. ASSUME Ask
      PROVE  Quiet'
  <2>1. Creates({From("owner", "chat", owner)}) /\ todo = {} /\ phase # "sweeping" /\ phase # "down"
    BY <1>20 DEF Ask, ByOwner, Quiet
  <2>2. UNCHANGED <<notified, run>>
    BY <2>1, CreatesWhat
  <2> QED
    BY <1>20, <2>1, <2>2 DEF Ask, Quiet, TypeOK
<1>21. ASSUME TickRead
      PROVE  Quiet'
  BY <1>21 DEF TickRead, Due, NotRead, Read, Quiet, TypeOK
<1>22. ASSUME TickCommit
      PROVE  Quiet'
  <2>1. Creates({From("job", i, tick[i] + 1) : i \in Read}) /\ todo = {} /\ phase # "sweeping" /\ phase # "down"
    BY <1>22 DEF TickCommit, ByOwner, Quiet
  <2>2. UNCHANGED <<notified, run>>
    BY <2>1, CreatesWhat
  <2> QED
    BY <1>22, <2>1, <2>2 DEF TickCommit, Quiet, TypeOK
<1>23. ASSUME TickFails
      PROVE  Quiet'
  BY <1>23 DEF TickFails, Unread, Fault, Read, Quiet, TypeOK
<1>24. ASSUME NEW j \in Jobs, TimeComes(j)
      PROVE  Quiet'
  BY <1>24 DEF TimeComes, Job, Quiet, TypeOK
<1>25. ASSUME NEW j \in Jobs, DeleteJob(j)
      PROVE  Quiet'
  BY <1>25 DEF DeleteJob, ByOwner, Deleted, Quiet, TypeOK
<1>26. ASSUME Stop
      PROVE  Quiet'
  BY <1>26 DEF Stop, Fault, Unread, Quiet, TypeOK
<1>27. ASSUME Exit
      PROVE  Quiet'
  BY <1>27 DEF Exit, Ceases, Cut, Unread, Quiet, TypeOK
<1>28. ASSUME Crash
      PROVE  Quiet'
  BY <1>28 DEF Crash, Ceases, Cut, Unread, Fault, Alive, Quiet, TypeOK
<1>29. ASSUME Restart
      PROVE  Quiet'
  <2>1. \A t \in todo' : t \in Tasks /\ status[t] \in Announced /\ ~notified[t]
    BY <1>29 DEF Restart, Batches, Unannounced
  <2>2. \A t \in todo' : status'[t] \in Announced /\ ~notified'[t]
    BY <1>29, <2>1 DEF Restart, Recovered, Announced, TypeOK
  <2> QED
    BY <1>29, <2>2 DEF Restart, Quiet, TypeOK
<1>30. ASSUME SweepEnd
      PROVE  Quiet'
  BY <1>30 DEF SweepEnd, Quiet, TypeOK
<1> QED
  BY <1>0, <1>1, <1>2, <1>3, <1>4, <1>5, <1>6, <1>7, <1>8, <1>9, <1>10, <1>11, <1>12, <1>13, <1>14, <1>15, <1>16, <1>17, <1>18, <1>19, <1>20, <1>21, <1>22, <1>23, <1>24, <1>25, <1>26, <1>27, <1>28, <1>29, <1>30 DEF Next, Task, Announce, Inbox, Schedule, Process

(* A message on its way has its key, and has it to itself.                 *)
Told ==
    /\ \A n \in notices : n.pc = "send" =>
          <<n.event, n.task>> \in keys /\ sent[n.task][n.event] = 0
    /\ \A n, k \in notices :
          n.pc = "send" /\ k.pc = "send" /\ n.task = k.task /\ n.event = k.event => n.by = k.by
    /\ \A t \in Tasks, e \in Announced :
          sent[t][e] <= 1 /\ (sent[t][e] > 0 => <<e, t>> \in keys)

LEMMA ToldStep ==
    ASSUME TypeOK, Told, [Next]_vars
    PROVE  Told'
<1> USE DEF vars, taskVars, noticeVars, inVars, jobVars, processVars, silence
<1>0. CASE UNCHANGED vars
  BY <1>0 DEF Told, TypeOK
<1>1. ASSUME NEW t \in Tasks, Take(t)
      PROVE  Told'
  BY <1>1 DEF Take, RunStep, Told, TypeOK
<1>2. ASSUME NEW t \in Tasks, CountStep(t)
      PROVE  Told'
  BY <1>2 DEF CountStep, RunStep, Told, TypeOK
<1>3. ASSUME NEW t \in Tasks, Park(t)
      PROVE  Told'
  BY <1>3 DEF Park, RunStep, Terminal, Told, TypeOK
<1>4. ASSUME NEW t \in Tasks, NEW st \in Announced, Finish(t, st)
      PROVE  Told'
  BY <1>4 DEF Finish, RunStep, Ends, NewNotice, Notice, Announced, Terminal, Told, TypeOK
<1>5. ASSUME NEW t \in Tasks, TimeLimit(t)
      PROVE  Told'
  BY <1>5 DEF TimeLimit, RunStep, Fault, NewNotice, Notice, Announced, Terminal, Told, TypeOK
<1>6. ASSUME NEW t \in Tasks, Release(t)
      PROVE  Told'
  BY <1>6 DEF Release, RunStep, InFlight, Told, TypeOK
<1>7. ASSUME NEW t \in Tasks, Cancel(t)
      PROVE  Told'
  BY <1>7 DEF Cancel, RunStep, ByOwner, Terminal, Told, TypeOK
<1>8. ASSUME NEW t \in Tasks, Reply(t)
      PROVE  Told'
  BY <1>8 DEF Reply, RunStep, ByOwner, Told, TypeOK
<1>9. ASSUME NEW t \in Tasks, Abandon(t)
      PROVE  Told'
  BY <1>9 DEF Abandon, RunStep, Cut, Told, TypeOK
<1>10. ASSUME NEW t \in Tasks, SweepNext(t)
      PROVE  Told'
  BY <1>10 DEF SweepNext, Sweeps, NewNotice, Notice, Told, TypeOK
<1>11. ASSUME NEW n \in notices, Look(n)
      PROVE  Told'
  <2>1. \A k \in notices' : k.pc = "send" => k \in notices
    BY <1>11, MovesWhat DEF Look, Drops, Later
  <2> QED
    BY <1>11, <2>1 DEF Look, Told
<1>12. ASSUME NEW n \in notices, Mark(n)
      PROVE  Told'
  <2>1. \A k \in notices' : k.pc = "send" => k \in notices
    BY <1>12, MovesWhat DEF Mark, Later
  <2> QED
    BY <1>12, <2>1 DEF Mark, Told
<1>13. ASSUME NEW n \in notices, Key(n)
      PROVE  Told'
  <2>0. n \in Notice
    BY DEF TypeOK
  <2>1. CASE <<n.event, n.task>> \in keys
    BY <1>13, <2>1 DEF Key, Drops, Told
  <2>2. CASE <<n.event, n.task>> \notin keys
    <3>1. Moves(n, "send") /\ keys' = keys \cup {<<n.event, n.task>>} /\ sent' = sent
      BY <1>13, <2>2 DEF Key
    <3>2. PICK k : Later(n, k, "send") /\ notices' = (notices \ {n}) \cup {k}
      BY <3>1, MovesWhat
    <3>3. sent[n.task][n.event] = 0
      BY <2>0, <2>2 DEF Told, TypeOK, Notice
    <3>4. \A i \in notices : i.pc = "send" => ~(i.task = n.task /\ i.event = n.event)
      BY <2>2 DEF Told
    <3> QED
      BY <3>1, <3>2, <3>3, <3>4 DEF Told, Later
  <2> QED
    BY <2>1, <2>2
<1>14. ASSUME NEW n \in notices, Send(n)
      PROVE  Told'
  <2>0. n \in Notice /\ n.pc = "send"
    BY <1>14 DEF TypeOK, Send, At
  <2>1. sent[n.task][n.event] = 0 /\ <<n.event, n.task>> \in keys
    BY <2>0 DEF Told
  <2>2. \A t \in Tasks, e \in Announced :
          sent'[t][e] = IF t = n.task /\ e = n.event THEN 1 ELSE sent[t][e]
    BY <1>14, <2>0, <2>1 DEF Send, TypeOK, Notice
  <2>3. \A k \in notices' : k \in notices /\ k # n /\ k \in Notice
    BY <1>14 DEF Send, Drops, TypeOK
  <2>4. \A k \in notices' : k.pc = "send" => ~(k.task = n.task /\ k.event = n.event)
    BY <2>0, <2>3 DEF Told, Notice
  <2> QED
    BY <1>14, <2>1, <2>2, <2>3, <2>4 DEF Send, Told, Notice
<1>15. ASSUME NEW n \in notices, NoticeFails(n)
      PROVE  Told'
  BY <1>15 DEF NoticeFails, Alive, Drops, Fault, Told, TypeOK
<1>16. ASSUME NEW m \in Messages, Deliver(m)
      PROVE  Told'
  BY <1>16 DEF Deliver, Told, TypeOK
<1>17. ASSUME NEW m \in Messages, MakeTask(m)
      PROVE  Told'
  <2>1. Creates({From("message", m, 0)})
    BY <1>17 DEF MakeTask
  <2>2. UNCHANGED <<notified, run>>
    BY <2>1, CreatesWhat
  <2> QED
    BY <1>17, <2>1, <2>2 DEF MakeTask, Told, TypeOK
<1>18. ASSUME NEW m \in Messages, LeaveInInbox(m)
      PROVE  Told'
  BY <1>18 DEF LeaveInInbox, Told, TypeOK
<1>19. ASSUME NEW m \in Messages, ReceiveFails(m)
      PROVE  Told'
  BY <1>19 DEF ReceiveFails, Fault, Told, TypeOK
<1>20. ASSUME Ask
      PROVE  Told'
  <2>1. Creates({From("owner", "chat", owner)})
    BY <1>20 DEF Ask
  <2>2. UNCHANGED <<notified, run>>
    BY <2>1, CreatesWhat
  <2> QED
    BY <1>20, <2>1, <2>2 DEF Ask, Told, TypeOK
<1>21. ASSUME TickRead
      PROVE  Told'
  BY <1>21 DEF TickRead, Due, NotRead, Read, Told, TypeOK
<1>22. ASSUME TickCommit
      PROVE  Told'
  <2>1. Creates({From("job", i, tick[i] + 1) : i \in Read})
    BY <1>22 DEF TickCommit
  <2>2. UNCHANGED <<notified, run>>
    BY <2>1, CreatesWhat
  <2> QED
    BY <1>22, <2>1, <2>2 DEF TickCommit, Told, TypeOK
<1>23. ASSUME TickFails
      PROVE  Told'
  BY <1>23 DEF TickFails, Unread, Fault, Read, Told, TypeOK
<1>24. ASSUME NEW j \in Jobs, TimeComes(j)
      PROVE  Told'
  BY <1>24 DEF TimeComes, Job, Told, TypeOK
<1>25. ASSUME NEW j \in Jobs, DeleteJob(j)
      PROVE  Told'
  BY <1>25 DEF DeleteJob, ByOwner, Deleted, Told, TypeOK
<1>26. ASSUME Stop
      PROVE  Told'
  BY <1>26 DEF Stop, Fault, Unread, Told, TypeOK
<1>27. ASSUME Exit
      PROVE  Told'
  BY <1>27 DEF Exit, Ceases, Cut, Unread, Told, TypeOK
<1>28. ASSUME Crash
      PROVE  Told'
  BY <1>28 DEF Crash, Ceases, Cut, Unread, Fault, Alive, Told, TypeOK
<1>29. ASSUME Restart
      PROVE  Told'
  BY <1>29 DEF Restart, Recovered, Batches, Unannounced, Told, TypeOK
<1>30. ASSUME SweepEnd
      PROVE  Told'
  BY <1>30 DEF SweepEnd, Told, TypeOK
<1> QED
  BY <1>0, <1>1, <1>2, <1>3, <1>4, <1>5, <1>6, <1>7, <1>8, <1>9, <1>10, <1>11, <1>12, <1>13, <1>14, <1>15, <1>16, <1>17, <1>18, <1>19, <1>20, <1>21, <1>22, <1>23, <1>24, <1>25, <1>26, <1>27, <1>28, <1>29, <1>30 DEF Next, Task, Announce, Inbox, Schedule, Process

(* Who may be announcing a task: one handler at a time, that of the run's   *)
(* present place - unless the time limit overtook a report.                 *)
Alone ==
    /\ overtaken \subseteq excused
    /\ \A n \in notices :
          \/ n.task \in overtaken
          \/ /\ \A k \in notices : k.task = n.task => k = n
             /\ run[n.task] # "running"
             /\ phase = "up" => run[n.task] # "none"
             /\ run[n.task] = "reporting" => n.by = "run"
             /\ run[n.task] = "limit" => n.by = "limit"

LEMMA AloneStep ==
    ASSUME TypeOK, Quiet, Alone, [Next]_vars
    PROVE  Alone'
<1> USE DEF vars, taskVars, noticeVars, inVars, jobVars, processVars, silence
<1>0. CASE UNCHANGED vars
  BY <1>0 DEF Quiet, Alone, TypeOK
<1>1. ASSUME NEW t \in Tasks, Take(t)
      PROVE  Alone'
  BY <1>1 DEF Take, RunStep, Quiet, Alone, TypeOK
<1>2. ASSUME NEW t \in Tasks, CountStep(t)
      PROVE  Alone'
  BY <1>2 DEF CountStep, RunStep, Quiet, Alone, TypeOK
<1>3. ASSUME NEW t \in Tasks, Park(t)
      PROVE  Alone'
  BY <1>3 DEF Park, RunStep, Terminal, Quiet, Alone, TypeOK
<1>4. ASSUME NEW t \in Tasks, NEW st \in Announced, Finish(t, st)
      PROVE  Alone'
  BY <1>4 DEF Finish, RunStep, Ends, NewNotice, Notice, Announced, Terminal, Quiet, Alone, TypeOK
<1>5. ASSUME NEW t \in Tasks, TimeLimit(t)
      PROVE  Alone'
  BY <1>5 DEF TimeLimit, RunStep, Fault, NewNotice, Notice, Announced, Terminal, Quiet, Alone, TypeOK
<1>6. ASSUME NEW t \in Tasks, Release(t)
      PROVE  Alone'
  BY <1>6 DEF Release, RunStep, InFlight, Quiet, Alone, TypeOK
<1>7. ASSUME NEW t \in Tasks, Cancel(t)
      PROVE  Alone'
  BY <1>7 DEF Cancel, RunStep, ByOwner, Terminal, Quiet, Alone, TypeOK
<1>8. ASSUME NEW t \in Tasks, Reply(t)
      PROVE  Alone'
  BY <1>8 DEF Reply, RunStep, ByOwner, Quiet, Alone, TypeOK
<1>9. ASSUME NEW t \in Tasks, Abandon(t)
      PROVE  Alone'
  BY <1>9 DEF Abandon, RunStep, Cut, Quiet, Alone, TypeOK
<1>10. ASSUME NEW t \in Tasks, SweepNext(t)
      PROVE  Alone'
  BY <1>10 DEF SweepNext, Sweeps, NewNotice, Notice, Quiet, Alone, TypeOK
<1>11. ASSUME NEW n \in notices, Look(n)
      PROVE  Alone'
  <2>1. UNCHANGED <<run, phase, excused, overtaken>>
    BY <1>11 DEF Look
  <2>2. CASE Drops(n)
    BY <2>1, <2>2 DEF Alone, Drops
  <2>3. CASE Moves(n, "mark")
    <3>1. PICK k : Later(n, k, "mark") /\ notices' = (notices \ {n}) \cup {k}
      BY <2>3, MovesWhat
    <3> QED
      BY <2>1, <3>1 DEF Alone, Later
  <2> QED
    BY <1>11, <2>2, <2>3 DEF Look
<1>12. ASSUME NEW n \in notices, Mark(n)
      PROVE  Alone'
  <2>1. PICK k : Later(n, k, "key") /\ notices' = (notices \ {n}) \cup {k}
    BY <1>12, MovesWhat DEF Mark
  <2>2. UNCHANGED <<run, phase, excused, overtaken>>
    BY <1>12 DEF Mark
  <2> QED
    BY <2>1, <2>2 DEF Alone, Later
<1>13. ASSUME NEW n \in notices, Key(n)
      PROVE  Alone'
  <2>1. UNCHANGED <<run, phase, excused, overtaken>>
    BY <1>13 DEF Key
  <2>2. CASE Drops(n)
    BY <2>1, <2>2 DEF Alone, Drops
  <2>3. CASE Moves(n, "send")
    <3>1. PICK k : Later(n, k, "send") /\ notices' = (notices \ {n}) \cup {k}
      BY <2>3, MovesWhat
    <3> QED
      BY <2>1, <3>1 DEF Alone, Later
  <2> QED
    BY <1>13, <2>2, <2>3 DEF Key
<1>14. ASSUME NEW n \in notices, Send(n)
      PROVE  Alone'
  BY <1>14 DEF Send, At, Alive, Drops, Notice, Quiet, Alone, TypeOK
<1>15. ASSUME NEW n \in notices, NoticeFails(n)
      PROVE  Alone'
  BY <1>15 DEF NoticeFails, Alive, Drops, Fault, Quiet, Alone, TypeOK
<1>16. ASSUME NEW m \in Messages, Deliver(m)
      PROVE  Alone'
  BY <1>16 DEF Deliver, Quiet, Alone, TypeOK
<1>17. ASSUME NEW m \in Messages, MakeTask(m)
      PROVE  Alone'
  <2>1. Creates({From("message", m, 0)})
    BY <1>17 DEF MakeTask
  <2>2. UNCHANGED <<notified, run>>
    BY <2>1, CreatesWhat
  <2> QED
    BY <1>17, <2>1, <2>2 DEF MakeTask, Alone, TypeOK
<1>18. ASSUME NEW m \in Messages, LeaveInInbox(m)
      PROVE  Alone'
  BY <1>18 DEF LeaveInInbox, Quiet, Alone, TypeOK
<1>19. ASSUME NEW m \in Messages, ReceiveFails(m)
      PROVE  Alone'
  BY <1>19 DEF ReceiveFails, Fault, Quiet, Alone, TypeOK
<1>20. ASSUME Ask
      PROVE  Alone'
  <2>1. Creates({From("owner", "chat", owner)})
    BY <1>20 DEF Ask
  <2>2. UNCHANGED <<notified, run>>
    BY <2>1, CreatesWhat
  <2> QED
    BY <1>20, <2>1, <2>2 DEF Ask, Alone, TypeOK
<1>21. ASSUME TickRead
      PROVE  Alone'
  BY <1>21 DEF TickRead, Due, NotRead, Read, Quiet, Alone, TypeOK
<1>22. ASSUME TickCommit
      PROVE  Alone'
  <2>1. Creates({From("job", i, tick[i] + 1) : i \in Read})
    BY <1>22 DEF TickCommit
  <2>2. UNCHANGED <<notified, run>>
    BY <2>1, CreatesWhat
  <2> QED
    BY <1>22, <2>1, <2>2 DEF TickCommit, Alone, TypeOK
<1>23. ASSUME TickFails
      PROVE  Alone'
  BY <1>23 DEF TickFails, Unread, Fault, Read, Quiet, Alone, TypeOK
<1>24. ASSUME NEW j \in Jobs, TimeComes(j)
      PROVE  Alone'
  BY <1>24 DEF TimeComes, Job, Quiet, Alone, TypeOK
<1>25. ASSUME NEW j \in Jobs, DeleteJob(j)
      PROVE  Alone'
  BY <1>25 DEF DeleteJob, ByOwner, Deleted, Quiet, Alone, TypeOK
<1>26. ASSUME Stop
      PROVE  Alone'
  BY <1>26 DEF Stop, Fault, Unread, Quiet, Alone, TypeOK
<1>27. ASSUME Exit
      PROVE  Alone'
  BY <1>27 DEF Exit, Ceases, Cut, Unread, Quiet, Alone, TypeOK
<1>28. ASSUME Crash
      PROVE  Alone'
  BY <1>28 DEF Crash, Ceases, Cut, Unread, Fault, Alive, Quiet, Alone, TypeOK
<1>29. ASSUME Restart
      PROVE  Alone'
  BY <1>29 DEF Restart, Recovered, Batches, Unannounced, Quiet, Alone, TypeOK
<1>30. ASSUME SweepEnd
      PROVE  Alone'
  BY <1>30 DEF SweepEnd, Quiet, Alone, TypeOK
<1> QED
  BY <1>0, <1>1, <1>2, <1>3, <1>4, <1>5, <1>6, <1>7, <1>8, <1>9, <1>10, <1>11, <1>12, <1>13, <1>14, <1>15, <1>16, <1>17, <1>18, <1>19, <1>20, <1>21, <1>22, <1>23, <1>24, <1>25, <1>26, <1>27, <1>28, <1>29, <1>30 DEF Next, Task, Announce, Inbox, Schedule, Process

(* An end announced, or given up, stays marked; what is announced is the    *)
(* end the task has.                                                        *)
Marked ==
    /\ \A n \in notices : n.pc \in {"key", "send"} => notified[n.task]
    /\ \A e \in Announced, t \in Tasks : <<e, t>> \in keys => notified[t]
    /\ \A n \in notices : n.pc \in {"look", "mark"} /\ notified[n.task] => n.task \in excused

LEMMA MarkedStep ==
    ASSUME TypeOK, Quiet, Alone, Marked, [Next]_vars
    PROVE  Marked'
<1> USE DEF vars, taskVars, noticeVars, inVars, jobVars, processVars, silence
<1>0. CASE UNCHANGED vars
  BY <1>0 DEF Quiet, Marked, TypeOK
<1>1. ASSUME NEW t \in Tasks, Take(t)
      PROVE  Marked'
  BY <1>1 DEF Take, RunStep, Quiet, Marked, TypeOK
<1>2. ASSUME NEW t \in Tasks, CountStep(t)
      PROVE  Marked'
  BY <1>2 DEF CountStep, RunStep, Quiet, Marked, TypeOK
<1>3. ASSUME NEW t \in Tasks, Park(t)
      PROVE  Marked'
  BY <1>3 DEF Park, RunStep, Terminal, Quiet, Marked, TypeOK
<1>4. ASSUME NEW t \in Tasks, NEW st \in Announced, Finish(t, st)
      PROVE  Marked'
  BY <1>4 DEF Finish, RunStep, Ends, NewNotice, Notice, Announced, Terminal, Quiet, Marked, TypeOK
<1>5. ASSUME NEW t \in Tasks, TimeLimit(t)
      PROVE  Marked'
  BY <1>5 DEF TimeLimit, RunStep, Fault, NewNotice, Notice, Announced, Terminal, Alone, Quiet, Marked, TypeOK
<1>6. ASSUME NEW t \in Tasks, Release(t)
      PROVE  Marked'
  BY <1>6 DEF Release, RunStep, InFlight, Quiet, Marked, TypeOK
<1>7. ASSUME NEW t \in Tasks, Cancel(t)
      PROVE  Marked'
  BY <1>7 DEF Cancel, RunStep, ByOwner, Terminal, Quiet, Marked, TypeOK
<1>8. ASSUME NEW t \in Tasks, Reply(t)
      PROVE  Marked'
  BY <1>8 DEF Reply, RunStep, ByOwner, Quiet, Marked, TypeOK
<1>9. ASSUME NEW t \in Tasks, Abandon(t)
      PROVE  Marked'
  BY <1>9 DEF Abandon, RunStep, Cut, Quiet, Marked, TypeOK
<1>10. ASSUME NEW t \in Tasks, SweepNext(t)
      PROVE  Marked'
  BY <1>10 DEF SweepNext, Sweeps, NewNotice, Notice, Quiet, Marked, TypeOK
<1>11. ASSUME NEW n \in notices, Look(n)
      PROVE  Marked'
  <2>1. UNCHANGED <<notified, keys, excused>>
    BY <1>11 DEF Look
  <2>2. ASSUME NEW k \in notices', k \notin notices
        PROVE  k.pc = "mark" /\ k.task = n.task /\ ~notified[n.task]
    <3>1. ~notified[n.task] /\ Moves(n, "mark")
      BY <1>11, <2>2 DEF Look, Drops
    <3> QED
      BY <2>2, <3>1, MovesWhat DEF Later
  <2> QED
    BY <2>1, <2>2 DEF Marked
<1>12. ASSUME NEW n \in notices, Mark(n)
      PROVE  Marked'
  <2>1. UNCHANGED <<keys, excused>> /\ n.task \in Tasks
    BY <1>12 DEF Mark, TypeOK, Notice
  <2>2. PICK k : Later(n, k, "key") /\ notices' = (notices \ {n}) \cup {k}
    BY <1>12, MovesWhat DEF Mark
  <2>3. notified' = [notified EXCEPT ![n.task] = TRUE]
    BY <1>12 DEF Mark
  <2>4. \A i \in notices : i.task = n.task => i = n \/ i.task \in excused
    BY DEF Alone
  <2>5. \A t \in Tasks : notified[t] => notified'[t]
    BY <2>1, <2>3 DEF TypeOK
  <2>6. notified'[n.task]
    BY <2>1, <2>3 DEF TypeOK
  <2>7. \A t \in Tasks : t # n.task => notified'[t] = notified[t]
    BY <2>1, <2>3 DEF TypeOK
  <2>8. \A i \in notices : i.task \in Tasks
    BY DEF TypeOK, Notice
  <2> QED
    BY <2>1, <2>2, <2>4, <2>5, <2>6, <2>7, <2>8 DEF Marked, Later
<1>13. ASSUME NEW n \in notices, Key(n)
      PROVE  Marked'
  <2>1. UNCHANGED <<notified, excused>> /\ keys' = keys \cup {<<n.event, n.task>>}
    BY <1>13 DEF Key
  <2>2. notified[n.task]
    BY <1>13 DEF Key, At, Marked
  <2>3. ASSUME NEW k \in notices', k \notin notices
        PROVE  k.pc = "send" /\ k.task = n.task
    <3>1. Moves(n, "send")
      BY <1>13, <2>3 DEF Key, Drops
    <3> QED
      BY <2>3, <3>1, MovesWhat DEF Later
  <2> QED
    BY <2>1, <2>2, <2>3 DEF Marked
<1>14. ASSUME NEW n \in notices, Send(n)
      PROVE  Marked'
  BY <1>14 DEF Send, At, Alive, Drops, Notice, Quiet, Marked, TypeOK
<1>15. ASSUME NEW n \in notices, NoticeFails(n)
      PROVE  Marked'
  BY <1>15 DEF NoticeFails, Alive, Drops, Fault, Quiet, Marked, TypeOK
<1>16. ASSUME NEW m \in Messages, Deliver(m)
      PROVE  Marked'
  BY <1>16 DEF Deliver, Quiet, Marked, TypeOK
<1>17. ASSUME NEW m \in Messages, MakeTask(m)
      PROVE  Marked'
  <2>1. Creates({From("message", m, 0)})
    BY <1>17 DEF MakeTask
  <2>2. UNCHANGED <<notified, run>>
    BY <2>1, CreatesWhat
  <2> QED
    BY <1>17, <2>1, <2>2 DEF MakeTask, Marked, TypeOK
<1>18. ASSUME NEW m \in Messages, LeaveInInbox(m)
      PROVE  Marked'
  BY <1>18 DEF LeaveInInbox, Quiet, Marked, TypeOK
<1>19. ASSUME NEW m \in Messages, ReceiveFails(m)
      PROVE  Marked'
  BY <1>19 DEF ReceiveFails, Fault, Quiet, Marked, TypeOK
<1>20. ASSUME Ask
      PROVE  Marked'
  <2>1. Creates({From("owner", "chat", owner)})
    BY <1>20 DEF Ask
  <2>2. UNCHANGED <<notified, run>>
    BY <2>1, CreatesWhat
  <2> QED
    BY <1>20, <2>1, <2>2 DEF Ask, Marked, TypeOK
<1>21. ASSUME TickRead
      PROVE  Marked'
  BY <1>21 DEF TickRead, Due, NotRead, Read, Quiet, Marked, TypeOK
<1>22. ASSUME TickCommit
      PROVE  Marked'
  <2>1. Creates({From("job", i, tick[i] + 1) : i \in Read})
    BY <1>22 DEF TickCommit
  <2>2. UNCHANGED <<notified, run>>
    BY <2>1, CreatesWhat
  <2> QED
    BY <1>22, <2>1, <2>2 DEF TickCommit, Marked, TypeOK
<1>23. ASSUME TickFails
      PROVE  Marked'
  BY <1>23 DEF TickFails, Unread, Fault, Read, Quiet, Marked, TypeOK
<1>24. ASSUME NEW j \in Jobs, TimeComes(j)
      PROVE  Marked'
  BY <1>24 DEF TimeComes, Job, Quiet, Marked, TypeOK
<1>25. ASSUME NEW j \in Jobs, DeleteJob(j)
      PROVE  Marked'
  BY <1>25 DEF DeleteJob, ByOwner, Deleted, Quiet, Marked, TypeOK
<1>26. ASSUME Stop
      PROVE  Marked'
  BY <1>26 DEF Stop, Fault, Unread, Quiet, Marked, TypeOK
<1>27. ASSUME Exit
      PROVE  Marked'
  BY <1>27 DEF Exit, Ceases, Cut, Unread, Quiet, Marked, TypeOK
<1>28. ASSUME Crash
      PROVE  Marked'
  BY <1>28 DEF Crash, Ceases, Cut, Unread, Fault, Alive, Quiet, Marked, TypeOK
<1>29. ASSUME Restart
      PROVE  Marked'
  BY <1>29 DEF Restart, Recovered, Batches, Unannounced, Quiet, Marked, TypeOK
<1>30. ASSUME SweepEnd
      PROVE  Marked'
  BY <1>30 DEF SweepEnd, Quiet, Marked, TypeOK
<1> QED
  BY <1>0, <1>1, <1>2, <1>3, <1>4, <1>5, <1>6, <1>7, <1>8, <1>9, <1>10, <1>11, <1>12, <1>13, <1>14, <1>15, <1>16, <1>17, <1>18, <1>19, <1>20, <1>21, <1>22, <1>23, <1>24, <1>25, <1>26, <1>27, <1>28, <1>29, <1>30 DEF Next, Task, Announce, Inbox, Schedule, Process

(* A second key of a task, or a second use of its key, takes an overtaken   *)
(* report.                                                                  *)
Keyed ==
    /\ \A n \in notices, e \in Announced :
          n.pc \in {"mark", "key"} /\ <<e, n.task>> \in keys => n.task \in overtaken
    /\ \A t \in Tasks :
          <<"COMPLETED", t>> \in keys /\ <<"FAILED", t>> \in keys => t \in overtaken

LEMMA KeyedStep ==
    ASSUME TypeOK, Alone, Marked, Keyed, [Next]_vars
    PROVE  Keyed'
<1> USE DEF vars, taskVars, noticeVars, inVars, jobVars, processVars, silence
<1>0. CASE UNCHANGED vars
  BY <1>0 DEF Keyed, TypeOK
<1>1. ASSUME NEW t \in Tasks, Take(t)
      PROVE  Keyed'
  BY <1>1 DEF Take, RunStep, Keyed, TypeOK
<1>2. ASSUME NEW t \in Tasks, CountStep(t)
      PROVE  Keyed'
  BY <1>2 DEF CountStep, RunStep, Keyed, TypeOK
<1>3. ASSUME NEW t \in Tasks, Park(t)
      PROVE  Keyed'
  BY <1>3 DEF Park, RunStep, Terminal, Keyed, TypeOK
<1>4. ASSUME NEW t \in Tasks, NEW st \in Announced, Finish(t, st)
      PROVE  Keyed'
  BY <1>4 DEF Finish, RunStep, Ends, NewNotice, Notice, Announced, Terminal, Keyed, TypeOK
<1>5. ASSUME NEW t \in Tasks, TimeLimit(t)
      PROVE  Keyed'
  BY <1>5 DEF TimeLimit, RunStep, Fault, NewNotice, Notice, Announced, Terminal, Keyed, TypeOK
<1>6. ASSUME NEW t \in Tasks, Release(t)
      PROVE  Keyed'
  BY <1>6 DEF Release, RunStep, InFlight, Keyed, TypeOK
<1>7. ASSUME NEW t \in Tasks, Cancel(t)
      PROVE  Keyed'
  BY <1>7 DEF Cancel, RunStep, ByOwner, Terminal, Keyed, TypeOK
<1>8. ASSUME NEW t \in Tasks, Reply(t)
      PROVE  Keyed'
  BY <1>8 DEF Reply, RunStep, ByOwner, Keyed, TypeOK
<1>9. ASSUME NEW t \in Tasks, Abandon(t)
      PROVE  Keyed'
  BY <1>9 DEF Abandon, RunStep, Cut, Keyed, TypeOK
<1>10. ASSUME NEW t \in Tasks, SweepNext(t)
      PROVE  Keyed'
  BY <1>10 DEF SweepNext, Sweeps, NewNotice, Notice, Keyed, TypeOK
<1>11. ASSUME NEW n \in notices, Look(n)
      PROVE  Keyed'
  <2>1. UNCHANGED <<overtaken, keys>>
    BY <1>11 DEF Look
  <2>2. ASSUME NEW k \in notices', k \notin notices
        PROVE  k.task = n.task /\ \A e \in Announced : <<e, n.task>> \notin keys
    <3>1. ~notified[n.task] /\ Moves(n, "mark") /\ n.task \in Tasks
      BY <1>11, <2>2 DEF Look, Drops, TypeOK, Notice
    <3> QED
      BY <2>2, <3>1, MovesWhat DEF Later, Marked
  <2> QED
    BY <2>1, <2>2 DEF Keyed
<1>12. ASSUME NEW n \in notices, Mark(n)
      PROVE  Keyed'
  <2>1. UNCHANGED <<overtaken, keys>> /\ n.pc = "mark"
    BY <1>12 DEF Mark, At
  <2>2. PICK k : Later(n, k, "key") /\ notices' = (notices \ {n}) \cup {k}
    BY <1>12, MovesWhat DEF Mark
  <2> QED
    BY <2>1, <2>2 DEF Keyed, Later
<1>13. ASSUME NEW n \in notices, Key(n)
      PROVE  Keyed'
  <2>1. /\ overtaken' = overtaken /\ keys' = keys \cup {<<n.event, n.task>>}
        /\ n.pc = "key" /\ n \in Notice
    BY <1>13 DEF Key, At, TypeOK
  <2>2. ASSUME NEW k \in notices', k \notin notices
        PROVE  k.pc = "send"
    <3>1. Moves(n, "send")
      BY <1>13, <2>2 DEF Key, Drops
    <3> QED
      BY <2>2, <3>1, MovesWhat DEF Later
  <2>3. \A k \in notices' : k.pc \in {"mark", "key"} => k \in notices /\ k # n
    <3>1. CASE Drops(n)
      BY <3>1 DEF Drops
    <3>2. CASE Moves(n, "send")
      <4>1. PICK k : Later(n, k, "send") /\ notices' = (notices \ {n}) \cup {k}
        BY <3>2, MovesWhat
      <4> QED
        BY <4>1 DEF Later
    <3> QED
      BY <1>13, <3>1, <3>2 DEF Key
  <2>4. \A k \in notices' : k.pc \in {"mark", "key"} /\ k.task = n.task => k.task \in overtaken
    BY <2>3 DEF Alone
  <2>5. \A e \in Announced : <<e, n.task>> \in keys => n.task \in overtaken
    BY <2>1 DEF Keyed
  <2>6. \A t \in Tasks, e \in Announced : t # n.task => (<<e, t>> \in keys' <=> <<e, t>> \in keys)
    BY <2>1
  <2>7. \A k \in notices', e \in Announced :
          k.pc \in {"mark", "key"} /\ <<e, k.task>> \in keys' => k.task \in overtaken
    BY <2>1, <2>3, <2>4 DEF Keyed
  <2>8. \A t \in Tasks :
          <<"COMPLETED", t>> \in keys' /\ <<"FAILED", t>> \in keys' => t \in overtaken
    BY <2>1, <2>5 DEF Keyed, Notice, Announced
  <2> QED
    BY <2>1, <2>7, <2>8 DEF Keyed
<1>14. ASSUME NEW n \in notices, Send(n)
      PROVE  Keyed'
  BY <1>14 DEF Send, At, Alive, Drops, Notice, Keyed, TypeOK
<1>15. ASSUME NEW n \in notices, NoticeFails(n)
      PROVE  Keyed'
  BY <1>15 DEF NoticeFails, Alive, Drops, Fault, Keyed, TypeOK
<1>16. ASSUME NEW m \in Messages, Deliver(m)
      PROVE  Keyed'
  BY <1>16 DEF Deliver, Keyed, TypeOK
<1>17. ASSUME NEW m \in Messages, MakeTask(m)
      PROVE  Keyed'
  <2>1. Creates({From("message", m, 0)})
    BY <1>17 DEF MakeTask
  <2>2. UNCHANGED <<notified, run>>
    BY <2>1, CreatesWhat
  <2> QED
    BY <1>17, <2>1, <2>2 DEF MakeTask, Keyed, TypeOK
<1>18. ASSUME NEW m \in Messages, LeaveInInbox(m)
      PROVE  Keyed'
  BY <1>18 DEF LeaveInInbox, Keyed, TypeOK
<1>19. ASSUME NEW m \in Messages, ReceiveFails(m)
      PROVE  Keyed'
  BY <1>19 DEF ReceiveFails, Fault, Keyed, TypeOK
<1>20. ASSUME Ask
      PROVE  Keyed'
  <2>1. Creates({From("owner", "chat", owner)})
    BY <1>20 DEF Ask
  <2>2. UNCHANGED <<notified, run>>
    BY <2>1, CreatesWhat
  <2> QED
    BY <1>20, <2>1, <2>2 DEF Ask, Keyed, TypeOK
<1>21. ASSUME TickRead
      PROVE  Keyed'
  BY <1>21 DEF TickRead, Due, NotRead, Read, Keyed, TypeOK
<1>22. ASSUME TickCommit
      PROVE  Keyed'
  <2>1. Creates({From("job", i, tick[i] + 1) : i \in Read})
    BY <1>22 DEF TickCommit
  <2>2. UNCHANGED <<notified, run>>
    BY <2>1, CreatesWhat
  <2> QED
    BY <1>22, <2>1, <2>2 DEF TickCommit, Keyed, TypeOK
<1>23. ASSUME TickFails
      PROVE  Keyed'
  BY <1>23 DEF TickFails, Unread, Fault, Read, Keyed, TypeOK
<1>24. ASSUME NEW j \in Jobs, TimeComes(j)
      PROVE  Keyed'
  BY <1>24 DEF TimeComes, Job, Keyed, TypeOK
<1>25. ASSUME NEW j \in Jobs, DeleteJob(j)
      PROVE  Keyed'
  BY <1>25 DEF DeleteJob, ByOwner, Deleted, Keyed, TypeOK
<1>26. ASSUME Stop
      PROVE  Keyed'
  BY <1>26 DEF Stop, Fault, Unread, Keyed, TypeOK
<1>27. ASSUME Exit
      PROVE  Keyed'
  BY <1>27 DEF Exit, Ceases, Cut, Unread, Keyed, TypeOK
<1>28. ASSUME Crash
      PROVE  Keyed'
  BY <1>28 DEF Crash, Ceases, Cut, Unread, Fault, Alive, Keyed, TypeOK
<1>29. ASSUME Restart
      PROVE  Keyed'
  BY <1>29 DEF Restart, Recovered, Batches, Unannounced, Keyed, TypeOK
<1>30. ASSUME SweepEnd
      PROVE  Keyed'
  BY <1>30 DEF SweepEnd, Keyed, TypeOK
<1> QED
  BY <1>0, <1>1, <1>2, <1>3, <1>4, <1>5, <1>6, <1>7, <1>8, <1>9, <1>10, <1>11, <1>12, <1>13, <1>14, <1>15, <1>16, <1>17, <1>18, <1>19, <1>20, <1>21, <1>22, <1>23, <1>24, <1>25, <1>26, <1>27, <1>28, <1>29, <1>30 DEF Next, Task, Announce, Inbox, Schedule, Process

(* What is on its way is what is owed, and an end owed either is, or waits  *)
(* unmarked, or has a cause.                                                *)
Owing ==
    /\ \A n \in notices : n.task \in excused \/ owed[n.task] \in {n.event, "none"}
    /\ \A t \in Tasks : status[t] \in Announced => owed[t] \in {status[t], "none"}
    /\ SilenceHasCause

LEMMA OwingStep ==
    ASSUME TypeOK, Quiet, Alone, Marked, Keyed, Owing, [Next]_vars
    PROVE  Owing'
<1> USE DEF vars, taskVars, noticeVars, inVars, jobVars, processVars, silence
<1>0. CASE UNCHANGED vars
  BY <1>0 DEF Owing, SilenceHasCause, TypeOK
<1>1. ASSUME NEW t \in Tasks, Take(t)
      PROVE  Owing'
  BY <1>1 DEF Take, RunStep, Announced, Owing, SilenceHasCause, TypeOK
<1>2. ASSUME NEW t \in Tasks, CountStep(t)
      PROVE  Owing'
  BY <1>2 DEF CountStep, RunStep, Announced, Owing, SilenceHasCause, TypeOK
<1>3. ASSUME NEW t \in Tasks, Park(t)
      PROVE  Owing'
  BY <1>3 DEF Park, RunStep, Terminal, Announced, Owing, SilenceHasCause, TypeOK
<1>4. ASSUME NEW t \in Tasks, NEW st \in Announced, Finish(t, st)
      PROVE  Owing'
  <2>1. notices' = notices \cup {NewNotice(t, st, "run")} /\ UNCHANGED notified
    BY <1>4 DEF Finish, RunStep
  <2>2. NewNotice(t, st, "run").task = t /\ NewNotice(t, st, "run").event = st
    BY DEF NewNotice
  <2>3. \A n \in notices : n.task = t => t \in excused
    BY <1>4 DEF Finish, Alone
  <2>4. \A u \in Tasks : owed'[u] = IF u = t THEN st ELSE owed[u]
    BY <1>4 DEF Finish, Ends, TypeOK
  <2>5. \A u \in Tasks : status'[u] = IF u = t THEN st ELSE status[u]
    BY <1>4 DEF Finish, RunStep, TypeOK
  <2>6. excused \subseteq excused'
    BY <1>4 DEF Finish, Ends
  <2>7. \A n \in notices : n.task \in Tasks
    BY DEF TypeOK, Notice
  <2> QED
    BY <2>1, <2>2, <2>3, <2>4, <2>5, <2>6, <2>7 DEF Owing, SilenceHasCause
<1>5. ASSUME NEW t \in Tasks, TimeLimit(t)
      PROVE  Owing'
  <2>1. notices' = notices \cup {NewNotice(t, "FAILED", "limit")} /\ UNCHANGED notified
    BY <1>5 DEF TimeLimit, RunStep
  <2>2. NewNotice(t, "FAILED", "limit").task = t /\ NewNotice(t, "FAILED", "limit").event = "FAILED"
    BY DEF NewNotice
  <2>3. \A n \in notices : n.task = t => t \in excused'
    BY <1>5 DEF TimeLimit, Alone
  <2>4. \A u \in Tasks : owed'[u] = IF u = t THEN "FAILED" ELSE owed[u]
    BY <1>5 DEF TimeLimit, TypeOK
  <2>5. \A u \in Tasks : status'[u] = IF u = t THEN "FAILED" ELSE status[u]
    BY <1>5 DEF TimeLimit, RunStep, TypeOK
  <2>6. excused \subseteq excused'
    BY <1>5 DEF TimeLimit
  <2>7. \A n \in notices : n.task \in Tasks
    BY DEF TypeOK, Notice
  <2> QED
    BY <2>1, <2>2, <2>3, <2>4, <2>5, <2>6, <2>7 DEF Owing, SilenceHasCause, Announced
<1>6. ASSUME NEW t \in Tasks, Release(t)
      PROVE  Owing'
  BY <1>6 DEF Release, RunStep, InFlight, Announced, Owing, SilenceHasCause, TypeOK
<1>7. ASSUME NEW t \in Tasks, Cancel(t)
      PROVE  Owing'
  BY <1>7 DEF Cancel, RunStep, ByOwner, Terminal, Announced, Owing, SilenceHasCause, TypeOK
<1>8. ASSUME NEW t \in Tasks, Reply(t)
      PROVE  Owing'
  BY <1>8 DEF Reply, RunStep, ByOwner, Announced, Owing, SilenceHasCause, TypeOK
<1>9. ASSUME NEW t \in Tasks, Abandon(t)
      PROVE  Owing'
  <2> DEFINE lost == {n \in notices : n.task = t /\ n.by = "limit"}
  <2>1. UNCHANGED <<notified, owed>> /\ notices' = notices \ lost /\ Cut(lost)
    BY <1>9 DEF Abandon, RunStep
  <2>2. \A u \in Tasks : status'[u] \in Announced => status'[u] = status[u]
    BY <1>9 DEF Abandon, RunStep, TypeOK, Announced
  <2>3. \A n \in lost : notified[n.task] => n.task \in excused'
    BY <2>1 DEF Cut, Marked, Notice, TypeOK
  <2>4. excused \subseteq excused'
    BY <2>1 DEF Cut
  <2> HIDE DEF lost
  <2> QED
    BY <2>1, <2>2, <2>3, <2>4 DEF Owing, SilenceHasCause
<1>10. ASSUME NEW t \in Tasks, SweepNext(t)
      PROVE  Owing'
  <2>1. notices' = {NewNotice(t, status[t], "sweep")} /\ ~notified[t] /\ status[t] \in Announced
    BY <1>10 DEF SweepNext, Sweeps, Quiet
  <2>2. NewNotice(t, status[t], "sweep").task = t /\ NewNotice(t, status[t], "sweep").event = status[t]
    BY DEF NewNotice
  <2>3. UNCHANGED <<status, owed, notified, excused>> /\ notices = {}
    BY <1>10 DEF SweepNext
  <2> QED
    BY <2>1, <2>2, <2>3 DEF Owing, SilenceHasCause
<1>11. ASSUME NEW n \in notices, Look(n)
      PROVE  Owing'
  <2>1. UNCHANGED <<status, owed, notified, excused>> /\ n.task \in Tasks
    BY <1>11 DEF Look, TypeOK, Notice
  <2>2. CASE Drops(n) /\ n.task \in excused
    BY <2>1, <2>2 DEF Owing, SilenceHasCause, Drops
  <2>3. CASE Moves(n, "mark")
    <3>1. PICK k : Later(n, k, "mark") /\ notices' = (notices \ {n}) \cup {k}
      BY <2>3, MovesWhat
    <3>2. \A t \in Tasks : (\E i \in notices : i.task = t) => \E i \in notices' : i.task = t
      BY <3>1 DEF Later
    <3>3. \A i \in notices' : \E h \in notices : i.task = h.task /\ i.event = h.event
      BY <3>1 DEF Later
    <3> QED
      BY <2>1, <3>2, <3>3 DEF Owing, SilenceHasCause
  <2> QED
    BY <1>11, <2>1, <2>2, <2>3 DEF Look, At, Marked, Keyed, Alone, TypeOK, Notice
<1>12. ASSUME NEW n \in notices, Mark(n)
      PROVE  Owing'
  <2>1. UNCHANGED <<status, owed, excused>> /\ n.task \in Tasks
    BY <1>12 DEF Mark, TypeOK, Notice
  <2>2. PICK k : Later(n, k, "key") /\ notices' = (notices \ {n}) \cup {k}
    BY <1>12, MovesWhat DEF Mark
  <2>3. \A t \in Tasks : (\E i \in notices : i.task = t) => \E i \in notices' : i.task = t
    BY <2>2 DEF Later
  <2>4. \A i \in notices' : \E h \in notices : i.task = h.task /\ i.event = h.event
    BY <2>2 DEF Later
  <2>5. \A t \in Tasks : notified'[t] => notified[t] \/ t = n.task
    BY <1>12, <2>1 DEF Mark, TypeOK
  <2> QED
    BY <2>1, <2>3, <2>4, <2>5 DEF Owing, SilenceHasCause
<1>13. ASSUME NEW n \in notices, Key(n)
      PROVE  Owing'
  <2>1. UNCHANGED <<status, owed, notified, excused>> /\ n.task \in Tasks
    BY <1>13 DEF Key, TypeOK, Notice
  <2>2. CASE Drops(n) /\ n.task \in excused
    BY <2>1, <2>2 DEF Owing, SilenceHasCause, Drops
  <2>3. CASE Moves(n, "send")
    <3>1. PICK k : Later(n, k, "send") /\ notices' = (notices \ {n}) \cup {k}
      BY <2>3, MovesWhat
    <3>2. \A t \in Tasks : (\E i \in notices : i.task = t) => \E i \in notices' : i.task = t
      BY <3>1 DEF Later
    <3>3. \A i \in notices' : \E h \in notices : i.task = h.task /\ i.event = h.event
      BY <3>1 DEF Later
    <3> QED
      BY <2>1, <3>2, <3>3 DEF Owing, SilenceHasCause
  <2> QED
    BY <1>13, <2>1, <2>2, <2>3 DEF Key, At, Marked, Keyed, Alone, TypeOK, Notice
<1>14. ASSUME NEW n \in notices, Send(n)
      PROVE  Owing'
  <2>1. UNCHANGED <<status, notified, excused>> /\ n.task \in Tasks /\ notices' = notices \ {n}
    BY <1>14 DEF Send, Drops, TypeOK, Notice
  <2>2. \A t \in Tasks : owed'[t] = IF t = n.task /\ owed[t] = n.event THEN "none" ELSE owed[t]
    BY <1>14, <2>1 DEF Send, TypeOK
  <2>3. owed'[n.task] = "none" \/ n.task \in excused
    BY <2>1, <2>2 DEF Owing
  <2>4. \A i \in notices : i.task \in Tasks
    BY DEF TypeOK, Notice
  <2> QED
    BY <2>1, <2>2, <2>3, <2>4 DEF Owing, SilenceHasCause
<1>15. ASSUME NEW n \in notices, NoticeFails(n)
      PROVE  Owing'
  <2>1. UNCHANGED <<status, notified, owed>> /\ n.task \in Tasks /\ notices' = notices \ {n}
    BY <1>15 DEF NoticeFails, Drops, TypeOK, Notice
  <2>2. excused \subseteq excused'
    BY <1>15 DEF NoticeFails
  <2>3. notified[n.task] => n.task \in excused'
    BY <1>15 DEF NoticeFails, Marked, Notice, TypeOK
  <2> QED
    BY <2>1, <2>2, <2>3 DEF Owing, SilenceHasCause
<1>16. ASSUME NEW m \in Messages, Deliver(m)
      PROVE  Owing'
  BY <1>16 DEF Deliver, Owing, SilenceHasCause, TypeOK
<1>17. ASSUME NEW m \in Messages, MakeTask(m)
      PROVE  Owing'
  <2>1. Creates({From("message", m, 0)})
    BY <1>17 DEF MakeTask
  <2>2. UNCHANGED <<notified, run>>
    BY <2>1, CreatesWhat
  <2>3. \A t \in Tasks : status'[t] \in Announced => status'[t] = status[t]
    BY <2>1, CreatesWhat DEF Announced
  <2> QED
    BY <1>17, <2>1, <2>2, <2>3 DEF MakeTask, Owing, SilenceHasCause, TypeOK
<1>18. ASSUME NEW m \in Messages, LeaveInInbox(m)
      PROVE  Owing'
  BY <1>18 DEF LeaveInInbox, Owing, SilenceHasCause, TypeOK
<1>19. ASSUME NEW m \in Messages, ReceiveFails(m)
      PROVE  Owing'
  BY <1>19 DEF ReceiveFails, Fault, Owing, SilenceHasCause, TypeOK
<1>20. ASSUME Ask
      PROVE  Owing'
  <2>1. Creates({From("owner", "chat", owner)})
    BY <1>20 DEF Ask
  <2>2. UNCHANGED <<notified, run>>
    BY <2>1, CreatesWhat
  <2>3. \A t \in Tasks : status'[t] \in Announced => status'[t] = status[t]
    BY <2>1, CreatesWhat DEF Announced
  <2> QED
    BY <1>20, <2>1, <2>2, <2>3 DEF Ask, Owing, SilenceHasCause, TypeOK
<1>21. ASSUME TickRead
      PROVE  Owing'
  BY <1>21 DEF TickRead, Due, NotRead, Read, Owing, SilenceHasCause, TypeOK
<1>22. ASSUME TickCommit
      PROVE  Owing'
  <2>1. Creates({From("job", i, tick[i] + 1) : i \in Read})
    BY <1>22 DEF TickCommit
  <2>2. UNCHANGED <<notified, run>>
    BY <2>1, CreatesWhat
  <2>3. \A t \in Tasks : status'[t] \in Announced => status'[t] = status[t]
    BY <2>1, CreatesWhat DEF Announced
  <2> QED
    BY <1>22, <2>1, <2>2, <2>3 DEF TickCommit, Owing, SilenceHasCause, TypeOK
<1>23. ASSUME TickFails
      PROVE  Owing'
  BY <1>23 DEF TickFails, Unread, Fault, Read, Owing, SilenceHasCause, TypeOK
<1>24. ASSUME NEW j \in Jobs, TimeComes(j)
      PROVE  Owing'
  BY <1>24 DEF TimeComes, Job, Owing, SilenceHasCause, TypeOK
<1>25. ASSUME NEW j \in Jobs, DeleteJob(j)
      PROVE  Owing'
  BY <1>25 DEF DeleteJob, ByOwner, Deleted, Owing, SilenceHasCause, TypeOK
<1>26. ASSUME Stop
      PROVE  Owing'
  BY <1>26 DEF Stop, Fault, Unread, Owing, SilenceHasCause, TypeOK
<1>27. ASSUME Exit
      PROVE  Owing'
  <2>1. UNCHANGED <<status, notified, owed>> /\ notices' = {} /\ Cut(notices)
    BY <1>27 DEF Exit, Ceases
  <2>2. \A n \in notices : notified[n.task] => n.task \in excused'
    BY <2>1 DEF Cut, Marked, Notice, TypeOK
  <2>3. excused \subseteq excused'
    BY <2>1 DEF Cut
  <2> QED
    BY <2>1, <2>2, <2>3 DEF Owing, SilenceHasCause
<1>28. ASSUME Crash
      PROVE  Owing'
  <2>1. UNCHANGED <<status, notified, owed>> /\ notices' = {} /\ Cut(notices)
    BY <1>28 DEF Crash, Ceases
  <2>2. \A n \in notices : notified[n.task] => n.task \in excused'
    BY <2>1 DEF Cut, Marked, Notice, TypeOK
  <2>3. excused \subseteq excused'
    BY <2>1 DEF Cut
  <2> QED
    BY <2>1, <2>2, <2>3 DEF Owing, SilenceHasCause
<1>29. ASSUME Restart
      PROVE  Owing'
  BY <1>29 DEF Restart, Recovered, Batches, Unannounced, Announced, Owing, SilenceHasCause, TypeOK
<1>30. ASSUME SweepEnd
      PROVE  Owing'
  BY <1>30 DEF SweepEnd, Owing, SilenceHasCause, TypeOK
<1> QED
  BY <1>0, <1>1, <1>2, <1>3, <1>4, <1>5, <1>6, <1>7, <1>8, <1>9, <1>10, <1>11, <1>12, <1>13, <1>14, <1>15, <1>16, <1>17, <1>18, <1>19, <1>20, <1>21, <1>22, <1>23, <1>24, <1>25, <1>26, <1>27, <1>28, <1>29, <1>30 DEF Next, Task, Announce, Inbox, Schedule, Process

(* Rows without a task have no origin, and the origins of the rest agree    *)
(* with the messages.                                                       *)
MadeOf(t, m) == origin[t] = From("message", m, 0)

Sourced ==
    /\ \A t \in Tasks : status[t] = Absent => origin[t] = Nothing
    /\ \A m \in Messages :
          /\ inbound[m] = "new" => m \notin receiving
          /\ inbound[m] = "new" \/ m \in receiving => \A t \in Tasks : ~MadeOf(t, m)
    /\ OneTaskPerMessage

LEMMA SourcedStep ==
    ASSUME TypeOK, Sourced, [Next]_vars
    PROVE  Sourced'
<1> USE DEF vars, taskVars, noticeVars, inVars, jobVars, processVars, silence
<1>0. CASE UNCHANGED vars
  BY <1>0 DEF Sourced, OneTaskPerMessage, MadeOf, TypeOK
<1>1. ASSUME NEW t \in Tasks, Take(t)
      PROVE  Sourced'
  BY <1>1 DEF Take, RunStep, Status, Absent, Announced, Sourced, OneTaskPerMessage, MadeOf, TypeOK
<1>2. ASSUME NEW t \in Tasks, CountStep(t)
      PROVE  Sourced'
  BY <1>2 DEF CountStep, RunStep, Status, Absent, Announced, Sourced, OneTaskPerMessage, MadeOf, TypeOK
<1>3. ASSUME NEW t \in Tasks, Park(t)
      PROVE  Sourced'
  BY <1>3 DEF Park, RunStep, Terminal, Status, Absent, Announced, Sourced, OneTaskPerMessage, MadeOf, TypeOK
<1>4. ASSUME NEW t \in Tasks, NEW st \in Announced, Finish(t, st)
      PROVE  Sourced'
  BY <1>4 DEF Finish, RunStep, Ends, NewNotice, Notice, Announced, Terminal, Status, Absent, Sourced, OneTaskPerMessage, MadeOf, TypeOK
<1>5. ASSUME NEW t \in Tasks, TimeLimit(t)
      PROVE  Sourced'
  BY <1>5 DEF TimeLimit, RunStep, Fault, NewNotice, Notice, Announced, Terminal, Status, Absent, Sourced, OneTaskPerMessage, MadeOf, TypeOK
<1>6. ASSUME NEW t \in Tasks, Release(t)
      PROVE  Sourced'
  BY <1>6 DEF Release, RunStep, InFlight, Status, Absent, Announced, Sourced, OneTaskPerMessage, MadeOf, TypeOK
<1>7. ASSUME NEW t \in Tasks, Cancel(t)
      PROVE  Sourced'
  BY <1>7 DEF Cancel, RunStep, ByOwner, Terminal, Status, Absent, Announced, Sourced, OneTaskPerMessage, MadeOf, TypeOK
<1>8. ASSUME NEW t \in Tasks, Reply(t)
      PROVE  Sourced'
  BY <1>8 DEF Reply, RunStep, ByOwner, Status, Absent, Announced, Sourced, OneTaskPerMessage, MadeOf, TypeOK
<1>9. ASSUME NEW t \in Tasks, Abandon(t)
      PROVE  Sourced'
  BY <1>9 DEF Abandon, RunStep, Cut, Status, Absent, Announced, Sourced, OneTaskPerMessage, MadeOf, TypeOK
<1>10. ASSUME NEW t \in Tasks, SweepNext(t)
      PROVE  Sourced'
  BY <1>10 DEF SweepNext, Sweeps, NewNotice, Notice, Sourced, OneTaskPerMessage, MadeOf, TypeOK
<1>11. ASSUME NEW n \in notices, Look(n)
      PROVE  Sourced'
  BY <1>11 DEF Look, At, Alive, Drops, Moves, Notice, Sourced, OneTaskPerMessage, MadeOf, TypeOK
<1>12. ASSUME NEW n \in notices, Mark(n)
      PROVE  Sourced'
  BY <1>12 DEF Mark, At, Alive, Moves, Notice, Sourced, OneTaskPerMessage, MadeOf, TypeOK
<1>13. ASSUME NEW n \in notices, Key(n)
      PROVE  Sourced'
  BY <1>13 DEF Key, At, Alive, Drops, Moves, Notice, Sourced, OneTaskPerMessage, MadeOf, TypeOK
<1>14. ASSUME NEW n \in notices, Send(n)
      PROVE  Sourced'
  BY <1>14 DEF Send, At, Alive, Drops, Notice, Sourced, OneTaskPerMessage, MadeOf, TypeOK
<1>15. ASSUME NEW n \in notices, NoticeFails(n)
      PROVE  Sourced'
  BY <1>15 DEF NoticeFails, Alive, Drops, Fault, Sourced, OneTaskPerMessage, MadeOf, TypeOK
<1>16. ASSUME NEW m \in Messages, Deliver(m)
      PROVE  Sourced'
  BY <1>16 DEF Deliver, Sourced, OneTaskPerMessage, MadeOf, TypeOK
<1>17. ASSUME NEW m \in Messages, MakeTask(m)
      PROVE  Sourced'
  <2>1. Creates({From("message", m, 0)})
    BY <1>17 DEF MakeTask
  <2>3. \A t \in Tasks : 
           \/ origin'[t] = origin[t]
           \/ Fresh(t) /\ origin[t] = Nothing /\ origin'[t] \in {From("message", m, 0)}
    <3> DEFINE made == {From("message", m, 0)}
    <3>1. Creates(made)
      BY <2>1
    <3> HIDE DEF made
    <3>2. \A t \in Tasks : 
           \/ origin'[t] = origin[t]
           \/ Fresh(t) /\ origin[t] = Nothing /\ origin'[t] \in made
      <4>1. \A t \in Tasks : status[t] = Absent => origin[t] = Nothing
        BY DEF Sourced
      <4>2. \A t \in Tasks : \/ origin'[t] = origin[t]
                             \/ status[t] = Absent /\ status'[t] = "PENDING" /\ origin'[t] \in made
        BY <3>1, CreatesWhat
      <4> QED
        BY <4>1, <4>2 DEF Fresh, Absent
    <3> QED
      BY <3>2 DEF made
  <2>4. \A t \in Tasks : status'[t] = Absent => status[t] = Absent /\ origin'[t] = origin[t]
    BY <2>1, CreatesWhat DEF Absent
  <2>5. /\ receiving' = receiving \ {m} /\ inbound' = [inbound EXCEPT ![m] = "handled"]
        /\ m \in receiving /\ UNCHANGED <<wanted, dropped>>
    BY <1>17 DEF MakeTask
  <2>6. \A t \in Tasks, k \in Messages : k # m => (MadeOf(t, k)' <=> MadeOf(t, k))
    BY <2>3 DEF MadeOf, From, Nothing
  <2>7. \A t \in Tasks : ~MadeOf(t, m)
    BY <2>5 DEF Sourced
  <2>8. \A t \in Tasks : MadeOf(t, m)' => Fresh(t)
    BY <2>3, <2>7 DEF MadeOf
  <2>9. \A t, u \in Tasks : MadeOf(t, m)' /\ MadeOf(u, m)' => t = u
    BY <2>1, <2>8, CreatesWhat DEF MadeOf
  <2>10. \E t \in Tasks : MadeOf(t, m)'
    BY <2>1, CreatesWhat DEF MadeOf
  <2>11. \A t \in Tasks : status'[t] = Absent => origin'[t] = Nothing
    BY <2>4 DEF Sourced
  <2>12. \A k \in Messages : inbound'[k] = IF k = m THEN "handled" ELSE inbound[k]
    BY <2>5 DEF TypeOK
  <2>13. ASSUME NEW k \in Messages
         PROVE  /\ inbound'[k] = "new" => k \notin receiving'
                /\ inbound'[k] = "new" \/ k \in receiving' => \A t \in Tasks : ~MadeOf(t, k)'
    BY <2>5, <2>6, <2>12 DEF Sourced
  <2>14. ASSUME NEW k \in Messages
         PROVE  /\ \A t, u \in Tasks : MadeOf(t, k)' /\ MadeOf(u, k)' => t = u
                /\ k \in wanted /\ inbound'[k] # "new" =>
                      (\E t \in Tasks : MadeOf(t, k)') \/ k \in receiving' \cup dropped
    <3>1. CASE k = m
      BY <3>1, <2>9, <2>10
    <3>2. CASE k # m
      BY <3>2, <2>5, <2>6, <2>12 DEF Sourced, OneTaskPerMessage, MadeOf
    <3> QED
      BY <3>1, <3>2
  <2> QED
    BY <2>5, <2>11, <2>13, <2>14 DEF Sourced, OneTaskPerMessage, MadeOf
<1>18. ASSUME NEW m \in Messages, LeaveInInbox(m)
      PROVE  Sourced'
  BY <1>18 DEF LeaveInInbox, Sourced, OneTaskPerMessage, MadeOf, TypeOK
<1>19. ASSUME NEW m \in Messages, ReceiveFails(m)
      PROVE  Sourced'
  BY <1>19 DEF ReceiveFails, Fault, Sourced, OneTaskPerMessage, MadeOf, TypeOK
<1>20. ASSUME Ask
      PROVE  Sourced'
  <2>1. Creates({From("owner", "chat", owner)})
    BY <1>20 DEF Ask
  <2>2. UNCHANGED <<inbound, receiving, dropped, wanted>>
    BY <1>20 DEF Ask
  <2>3. \A t \in Tasks : 
           \/ origin'[t] = origin[t]
           \/ Fresh(t) /\ origin[t] = Nothing /\ origin'[t] \in {From("owner", "chat", owner)}
    <3> DEFINE made == {From("owner", "chat", owner)}
    <3>1. Creates(made)
      BY <2>1
    <3> HIDE DEF made
    <3>2. \A t \in Tasks : 
           \/ origin'[t] = origin[t]
           \/ Fresh(t) /\ origin[t] = Nothing /\ origin'[t] \in made
      <4>1. \A t \in Tasks : status[t] = Absent => origin[t] = Nothing
        BY DEF Sourced
      <4>2. \A t \in Tasks : \/ origin'[t] = origin[t]
                             \/ status[t] = Absent /\ status'[t] = "PENDING" /\ origin'[t] \in made
        BY <3>1, CreatesWhat
      <4> QED
        BY <4>1, <4>2 DEF Fresh, Absent
    <3> QED
      BY <3>2 DEF made
  <2>4. \A t \in Tasks : status'[t] = Absent => status[t] = Absent /\ origin'[t] = origin[t]
    BY <2>1, CreatesWhat DEF Absent
  <2>5. \A t \in Tasks, m \in Messages : MadeOf(t, m)' <=> MadeOf(t, m)
    BY <2>3 DEF MadeOf, From, Nothing
  <2> QED
    BY <2>2, <2>3, <2>4, <2>5 DEF Sourced, OneTaskPerMessage, MadeOf
<1>21. ASSUME TickRead
      PROVE  Sourced'
  BY <1>21 DEF TickRead, Due, NotRead, Read, Sourced, OneTaskPerMessage, MadeOf, TypeOK
<1>22. ASSUME TickCommit
      PROVE  Sourced'
  <2>1. Creates({From("job", i, tick[i] + 1) : i \in Read})
    BY <1>22 DEF TickCommit
  <2>2. UNCHANGED <<inbound, receiving, dropped, wanted>>
    BY <1>22 DEF TickCommit
  <2>3. \A t \in Tasks : 
           \/ origin'[t] = origin[t]
           \/ Fresh(t) /\ origin[t] = Nothing /\ origin'[t] \in {From("job", i, tick[i] + 1) : i \in Read}
    <3> DEFINE made == {From("job", i, tick[i] + 1) : i \in Read}
    <3>1. Creates(made)
      BY <2>1
    <3> HIDE DEF made
    <3>2. \A t \in Tasks : 
           \/ origin'[t] = origin[t]
           \/ Fresh(t) /\ origin[t] = Nothing /\ origin'[t] \in made
      <4>1. \A t \in Tasks : status[t] = Absent => origin[t] = Nothing
        BY DEF Sourced
      <4>2. \A t \in Tasks : \/ origin'[t] = origin[t]
                             \/ status[t] = Absent /\ status'[t] = "PENDING" /\ origin'[t] \in made
        BY <3>1, CreatesWhat
      <4> QED
        BY <4>1, <4>2 DEF Fresh, Absent
    <3> QED
      BY <3>2 DEF made
  <2>4. \A t \in Tasks : status'[t] = Absent => status[t] = Absent /\ origin'[t] = origin[t]
    BY <2>1, CreatesWhat DEF Absent
  <2>5. \A t \in Tasks, m \in Messages : MadeOf(t, m)' <=> MadeOf(t, m)
    BY <2>3 DEF MadeOf, From, Nothing
  <2> QED
    BY <2>2, <2>3, <2>4, <2>5 DEF Sourced, OneTaskPerMessage, MadeOf
<1>23. ASSUME TickFails
      PROVE  Sourced'
  BY <1>23 DEF TickFails, Unread, Fault, Read, Sourced, OneTaskPerMessage, MadeOf, TypeOK
<1>24. ASSUME NEW j \in Jobs, TimeComes(j)
      PROVE  Sourced'
  BY <1>24 DEF TimeComes, Job, Sourced, OneTaskPerMessage, MadeOf, TypeOK
<1>25. ASSUME NEW j \in Jobs, DeleteJob(j)
      PROVE  Sourced'
  BY <1>25 DEF DeleteJob, ByOwner, Deleted, Sourced, OneTaskPerMessage, MadeOf, TypeOK
<1>26. ASSUME Stop
      PROVE  Sourced'
  BY <1>26 DEF Stop, Fault, Unread, Sourced, OneTaskPerMessage, MadeOf, TypeOK
<1>27. ASSUME Exit
      PROVE  Sourced'
  BY <1>27 DEF Exit, Ceases, Cut, Unread, Sourced, OneTaskPerMessage, MadeOf, TypeOK
<1>28. ASSUME Crash
      PROVE  Sourced'
  BY <1>28 DEF Crash, Ceases, Cut, Unread, Fault, Alive, Sourced, OneTaskPerMessage, MadeOf, TypeOK
<1>29. ASSUME Restart
      PROVE  Sourced'
  BY <1>29 DEF Restart, Recovered, Batches, Unannounced, Status, Absent, Announced, Sourced, OneTaskPerMessage, MadeOf, TypeOK
<1>30. ASSUME SweepEnd
      PROVE  Sourced'
  BY <1>30 DEF SweepEnd, Sourced, OneTaskPerMessage, MadeOf, TypeOK
<1> QED
  BY <1>0, <1>1, <1>2, <1>3, <1>4, <1>5, <1>6, <1>7, <1>8, <1>9, <1>10, <1>11, <1>12, <1>13, <1>14, <1>15, <1>16, <1>17, <1>18, <1>19, <1>20, <1>21, <1>22, <1>23, <1>24, <1>25, <1>26, <1>27, <1>28, <1>29, <1>30 DEF Next, Task, Announce, Inbox, Schedule, Process

(* A job's row counts its tasks; a tick under way counts on from what it    *)
(* has read, of a job that may still run.                                   *)
OfJob(t, j) == origin[t].by = "job" /\ origin[t].of = j

Counted ==
    /\ \A t \in Tasks : status[t] = Absent => origin[t] = Nothing
    /\ \A j \in Jobs :
          /\ job[j].enabled /\ MaxRuns[j] # NoLimit => job[j].runs < MaxRuns[j]
          /\ tick[j] # NotRead =>
                /\ MaxRuns[j] # NoLimit => tick[j] < MaxRuns[j]
                /\ job[j] = Deleted \/ job[j].runs = tick[j]
    /\ \A t \in Tasks, j \in Jobs : OfJob(t, j) =>
          /\ MaxRuns[j] # NoLimit => origin[t].n <= MaxRuns[j]
          /\ job[j] = Deleted \/ origin[t].n <= job[j].runs
          /\ tick[j] # NotRead => origin[t].n <= tick[j]
    /\ \A t, u \in Tasks, j \in Jobs : OfJob(t, j) /\ origin[u] = origin[t] => t = u

LEMMA CountedStep ==
    ASSUME TypeOK, Counted, [Next]_vars
    PROVE  Counted'
<1> USE DEF vars, taskVars, noticeVars, inVars, jobVars, processVars, silence
<1>0. CASE UNCHANGED vars
  BY <1>0 DEF Counted, OfJob, TypeOK
<1>1. ASSUME NEW t \in Tasks, Take(t)
      PROVE  Counted'
  BY <1>1 DEF Take, RunStep, Status, Absent, Announced, Counted, OfJob, TypeOK
<1>2. ASSUME NEW t \in Tasks, CountStep(t)
      PROVE  Counted'
  BY <1>2 DEF CountStep, RunStep, Status, Absent, Announced, Counted, OfJob, TypeOK
<1>3. ASSUME NEW t \in Tasks, Park(t)
      PROVE  Counted'
  BY <1>3 DEF Park, RunStep, Terminal, Status, Absent, Announced, Counted, OfJob, TypeOK
<1>4. ASSUME NEW t \in Tasks, NEW st \in Announced, Finish(t, st)
      PROVE  Counted'
  BY <1>4 DEF Finish, RunStep, Ends, NewNotice, Notice, Announced, Terminal, Status, Absent, Counted, OfJob, TypeOK
<1>5. ASSUME NEW t \in Tasks, TimeLimit(t)
      PROVE  Counted'
  BY <1>5 DEF TimeLimit, RunStep, Fault, NewNotice, Notice, Announced, Terminal, Status, Absent, Counted, OfJob, TypeOK
<1>6. ASSUME NEW t \in Tasks, Release(t)
      PROVE  Counted'
  BY <1>6 DEF Release, RunStep, InFlight, Status, Absent, Announced, Counted, OfJob, TypeOK
<1>7. ASSUME NEW t \in Tasks, Cancel(t)
      PROVE  Counted'
  BY <1>7 DEF Cancel, RunStep, ByOwner, Terminal, Status, Absent, Announced, Counted, OfJob, TypeOK
<1>8. ASSUME NEW t \in Tasks, Reply(t)
      PROVE  Counted'
  BY <1>8 DEF Reply, RunStep, ByOwner, Status, Absent, Announced, Counted, OfJob, TypeOK
<1>9. ASSUME NEW t \in Tasks, Abandon(t)
      PROVE  Counted'
  BY <1>9 DEF Abandon, RunStep, Cut, Status, Absent, Announced, Counted, OfJob, TypeOK
<1>10. ASSUME NEW t \in Tasks, SweepNext(t)
      PROVE  Counted'
  BY <1>10 DEF SweepNext, Sweeps, NewNotice, Notice, Counted, OfJob, TypeOK
<1>11. ASSUME NEW n \in notices, Look(n)
      PROVE  Counted'
  BY <1>11 DEF Look, At, Alive, Drops, Moves, Notice, Counted, OfJob, TypeOK
<1>12. ASSUME NEW n \in notices, Mark(n)
      PROVE  Counted'
  BY <1>12 DEF Mark, At, Alive, Moves, Notice, Counted, OfJob, TypeOK
<1>13. ASSUME NEW n \in notices, Key(n)
      PROVE  Counted'
  BY <1>13 DEF Key, At, Alive, Drops, Moves, Notice, Counted, OfJob, TypeOK
<1>14. ASSUME NEW n \in notices, Send(n)
      PROVE  Counted'
  BY <1>14 DEF Send, At, Alive, Drops, Notice, Counted, OfJob, TypeOK
<1>15. ASSUME NEW n \in notices, NoticeFails(n)
      PROVE  Counted'
  BY <1>15 DEF NoticeFails, Alive, Drops, Fault, Counted, OfJob, TypeOK
<1>16. ASSUME NEW m \in Messages, Deliver(m)
      PROVE  Counted'
  BY <1>16 DEF Deliver, Counted, OfJob, TypeOK
<1>17. ASSUME NEW m \in Messages, MakeTask(m)
      PROVE  Counted'
  <2>1. Creates({From("message", m, 0)})
    BY <1>17 DEF MakeTask
  <2>2. UNCHANGED <<job, tick>>
    BY <1>17 DEF MakeTask
  <2>3. \A t \in Tasks : 
           \/ origin'[t] = origin[t]
           \/ Fresh(t) /\ origin[t] = Nothing /\ origin'[t] \in {From("message", m, 0)}
    <3> DEFINE made == {From("message", m, 0)}
    <3>1. Creates(made)
      BY <2>1
    <3> HIDE DEF made
    <3>2. \A t \in Tasks : 
           \/ origin'[t] = origin[t]
           \/ Fresh(t) /\ origin[t] = Nothing /\ origin'[t] \in made
      <4>1. \A t \in Tasks : status[t] = Absent => origin[t] = Nothing
        BY DEF Counted
      <4>2. \A t \in Tasks : \/ origin'[t] = origin[t]
                             \/ status[t] = Absent /\ status'[t] = "PENDING" /\ origin'[t] \in made
        BY <3>1, CreatesWhat
      <4> QED
        BY <4>1, <4>2 DEF Fresh, Absent
    <3> QED
      BY <3>2 DEF made
  <2>4. \A t \in Tasks : status'[t] = Absent => status[t] = Absent /\ origin'[t] = origin[t]
    BY <2>1, CreatesWhat DEF Absent
  <2>5. \A t \in Tasks, j \in Jobs : OfJob(t, j) \/ OfJob(t, j)' => origin'[t] = origin[t]
    BY <2>3 DEF OfJob, From, Nothing
  <2>6. \A t, u \in Tasks, j \in Jobs : OfJob(t, j)' /\ origin'[u] = origin'[t] => t = u
    BY <2>5 DEF Counted, OfJob
  <2> QED
    BY <2>2, <2>4, <2>5, <2>6 DEF Counted, OfJob
<1>18. ASSUME NEW m \in Messages, LeaveInInbox(m)
      PROVE  Counted'
  BY <1>18 DEF LeaveInInbox, Counted, OfJob, TypeOK
<1>19. ASSUME NEW m \in Messages, ReceiveFails(m)
      PROVE  Counted'
  BY <1>19 DEF ReceiveFails, Fault, Counted, OfJob, TypeOK
<1>20. ASSUME Ask
      PROVE  Counted'
  <2>1. Creates({From("owner", "chat", owner)})
    BY <1>20 DEF Ask
  <2>2. UNCHANGED <<job, tick>>
    BY <1>20 DEF Ask
  <2>3. \A t \in Tasks : 
           \/ origin'[t] = origin[t]
           \/ Fresh(t) /\ origin[t] = Nothing /\ origin'[t] \in {From("owner", "chat", owner)}
    <3> DEFINE made == {From("owner", "chat", owner)}
    <3>1. Creates(made)
      BY <2>1
    <3> HIDE DEF made
    <3>2. \A t \in Tasks : 
           \/ origin'[t] = origin[t]
           \/ Fresh(t) /\ origin[t] = Nothing /\ origin'[t] \in made
      <4>1. \A t \in Tasks : status[t] = Absent => origin[t] = Nothing
        BY DEF Counted
      <4>2. \A t \in Tasks : \/ origin'[t] = origin[t]
                             \/ status[t] = Absent /\ status'[t] = "PENDING" /\ origin'[t] \in made
        BY <3>1, CreatesWhat
      <4> QED
        BY <4>1, <4>2 DEF Fresh, Absent
    <3> QED
      BY <3>2 DEF made
  <2>4. \A t \in Tasks : status'[t] = Absent => status[t] = Absent /\ origin'[t] = origin[t]
    BY <2>1, CreatesWhat DEF Absent
  <2>5. \A t \in Tasks, j \in Jobs : OfJob(t, j) \/ OfJob(t, j)' => origin'[t] = origin[t]
    BY <2>3 DEF OfJob, From, Nothing
  <2>6. \A t, u \in Tasks, j \in Jobs : OfJob(t, j)' /\ origin'[u] = origin'[t] => t = u
    BY <2>5 DEF Counted, OfJob
  <2> QED
    BY <2>2, <2>4, <2>5, <2>6 DEF Counted, OfJob
<1>21. ASSUME TickRead
      PROVE  Counted'
  <2>1. ASSUME NEW j \in Jobs
        PROVE  tick'[j] = IF Due(j) THEN job[j].runs ELSE NotRead
    BY <1>21 DEF TickRead
  <2>2. UNCHANGED <<status, origin, job>>
    BY <1>21 DEF TickRead
  <2> QED
    BY <2>1, <2>2 DEF Counted, OfJob, Due, Deleted, TypeOK
<1>22. ASSUME TickCommit
      PROVE  Counted'
  <2>1. Creates({From("job", i, tick[i] + 1) : i \in Read})
    BY <1>22 DEF TickCommit
  <2>2. tick' = Unread
    BY <1>22 DEF TickCommit
  <2>3. \A t \in Tasks : 
           \/ origin'[t] = origin[t]
           \/ Fresh(t) /\ origin[t] = Nothing /\ origin'[t] \in {From("job", i, tick[i] + 1) : i \in Read}
    <3> DEFINE made == {From("job", i, tick[i] + 1) : i \in Read}
    <3>1. Creates(made)
      BY <2>1
    <3> HIDE DEF made
    <3>2. \A t \in Tasks : 
           \/ origin'[t] = origin[t]
           \/ Fresh(t) /\ origin[t] = Nothing /\ origin'[t] \in made
      <4>1. \A t \in Tasks : status[t] = Absent => origin[t] = Nothing
        BY DEF Counted
      <4>2. \A t \in Tasks : \/ origin'[t] = origin[t]
                             \/ status[t] = Absent /\ status'[t] = "PENDING" /\ origin'[t] \in made
        BY <3>1, CreatesWhat
      <4> QED
        BY <4>1, <4>2 DEF Fresh, Absent
    <3> QED
      BY <3>2 DEF made
  <2>4. \A t \in Tasks : status'[t] = Absent => status[t] = Absent /\ origin'[t] = origin[t]
    BY <2>1, CreatesWhat DEF Absent
  <2>5. ASSUME NEW j \in Jobs
        PROVE  /\ job'[j] = IF j \in Read /\ job[j] # Deleted THEN Fired(j, tick[j] + 1) ELSE job[j]
               /\ tick'[j] = NotRead /\ tick[j] \in Nat \cup {NotRead} /\ job[j] \in Job
               /\ MaxRuns[j] \in Nat
    BY <1>22, DeliveryAssumption DEF TickCommit, Unread, TypeOK
  <2>6. ASSUME NEW j \in Jobs, j \in Read
        PROVE  /\ tick[j] \in Nat /\ (MaxRuns[j] # NoLimit => tick[j] + 1 <= MaxRuns[j])
               /\ Fired(j, tick[j] + 1).runs = tick[j] + 1
               /\ Fired(j, tick[j] + 1).enabled /\ MaxRuns[j] # NoLimit => tick[j] + 1 < MaxRuns[j]
    <3>1. tick[j] \in Nat /\ (MaxRuns[j] # NoLimit => tick[j] + 1 <= MaxRuns[j])
      BY <2>5, <2>6 DEF Counted, Read
    <3>2. Fired(j, tick[j] + 1).runs = tick[j] + 1
      BY DEF Fired
    <3>3. CASE MaxRuns[j] # NoLimit /\ tick[j] + 1 >= MaxRuns[j]
      BY <3>1, <3>2, <3>3 DEF Fired
    <3>4. CASE ~(MaxRuns[j] # NoLimit /\ tick[j] + 1 >= MaxRuns[j])
      BY <2>5, <3>1, <3>2, <3>4
    <3> QED
      BY <3>3, <3>4
  <2>7. ASSUME NEW j \in Jobs
        PROVE  job'[j].enabled /\ MaxRuns[j] # NoLimit => job'[j].runs < MaxRuns[j]
    BY <2>5, <2>6 DEF Counted
  <2>8. ASSUME NEW t \in Tasks, NEW j \in Jobs, OfJob(t, j)', ~OfJob(t, j)
        PROVE  Fresh(t) /\ j \in Read /\ origin'[t].n = tick[j] + 1
    <3>1. Fresh(t) /\ origin'[t] \in {From("job", i, tick[i] + 1) : i \in Read}
      BY <2>3, <2>8 DEF OfJob
    <3>2. PICK i \in Read : origin'[t] = From("job", i, tick[i] + 1)
      BY <3>1
    <3>3. i = j
      BY <3>2, <2>8 DEF OfJob, From
    <3> QED
      BY <3>1, <3>2, <3>3 DEF From
  <2>9. ASSUME NEW t \in Tasks, NEW j \in Jobs, OfJob(t, j)
        PROVE  origin'[t] = origin[t] /\ origin[t].n \in Nat
    <3>1. origin[t] \in Origins
      BY DEF TypeOK
    <3> QED
      BY <3>1, <2>3, <2>9 DEF OfJob, Nothing, From, Origins
  <2>10. ASSUME NEW t \in Tasks, NEW j \in Jobs, OfJob(t, j)'
         PROVE  /\ MaxRuns[j] # NoLimit => origin'[t].n <= MaxRuns[j]
                /\ job'[j] = Deleted \/ origin'[t].n <= job'[j].runs
    <3>1. CASE OfJob(t, j)
      <4>1. CASE j \in Read /\ job[j] # Deleted
        <5>1. origin[t].n <= tick[j]
          BY <3>1, <4>1 DEF Counted, Read
        <5> QED
          BY <3>1, <4>1, <5>1, <2>5, <2>6, <2>9 DEF Counted
      <4>2. CASE ~(j \in Read /\ job[j] # Deleted)
        BY <3>1, <4>2, <2>5, <2>9 DEF Counted
      <4> QED
        BY <4>1, <4>2
    <3>2. CASE ~OfJob(t, j)
      <4>1. j \in Read /\ origin'[t].n = tick[j] + 1
        BY <3>2, <2>8, <2>10
      <4> QED
        BY <4>1, <2>5, <2>6
    <3> QED
      BY <3>1, <3>2
  <2>11. ASSUME NEW t \in Tasks, NEW u \in Tasks, NEW j \in Jobs, OfJob(t, j)', origin'[u] = origin'[t]
         PROVE  t = u
    <3>0. OfJob(u, j)'
      BY <2>11 DEF OfJob
    <3>1. CASE OfJob(t, j) /\ OfJob(u, j)
      BY <3>1, <2>9, <2>11 DEF Counted
    <3>2. CASE ~OfJob(t, j) /\ ~OfJob(u, j)
      BY <3>0, <3>2, <2>1, <2>8, <2>11, CreatesWhat
    <3>3. ASSUME NEW x \in Tasks, NEW y \in Tasks, OfJob(x, j), ~OfJob(y, j), OfJob(y, j)',
                 origin'[x] = origin'[y]
          PROVE  FALSE
      <4>1. j \in Read /\ origin'[y].n = tick[j] + 1
        BY <3>3, <2>8
      <4>2. origin'[x].n = origin[x].n /\ origin[x].n \in Nat /\ origin[x].n <= tick[j]
        BY <3>3, <4>1, <2>9 DEF Counted, Read
      <4> QED
        BY <3>3, <4>1, <4>2, <2>6
    <3> QED
      BY <3>0, <3>1, <3>2, <3>3, <2>11
  <2> QED
    BY <2>4, <2>5, <2>7, <2>10, <2>11 DEF Counted
<1>23. ASSUME TickFails
      PROVE  Counted'
  BY <1>23 DEF TickFails, Unread, Fault, Read, Counted, OfJob, TypeOK
<1>24. ASSUME NEW j \in Jobs, TimeComes(j)
      PROVE  Counted'
  <2>1. UNCHANGED <<status, origin, tick>>
    BY <1>24 DEF TimeComes
  <2>2. \A i \in Jobs : job[i] # Deleted => job'[i].runs = job[i].runs /\ job'[i].enabled = job[i].enabled
    BY <1>24 DEF TimeComes, TypeOK, Job
  <2>3. \A i \in Jobs : job[i] = Deleted => job'[i] = Deleted
    <3> SUFFICES ASSUME NEW i \in Jobs, job[i] = Deleted PROVE job'[i] = Deleted
      OBVIOUS
    <3>1. i # j
      BY <1>24 DEF TimeComes, Deleted
    <3> QED
      BY <1>24, <3>1 DEF TimeComes, TypeOK
  <2> QED
    BY <2>1, <2>2, <2>3 DEF Counted, OfJob, Deleted
<1>25. ASSUME NEW j \in Jobs, DeleteJob(j)
      PROVE  Counted'
  <2>1. UNCHANGED <<status, origin, tick>>
    BY <1>25 DEF DeleteJob
  <2>2. \A i \in Jobs : job'[i] = IF i = j THEN Deleted ELSE job[i]
    BY <1>25 DEF DeleteJob, TypeOK
  <2> QED
    BY <2>1, <2>2 DEF Counted, OfJob, Deleted
<1>26. ASSUME Stop
      PROVE  Counted'
  BY <1>26 DEF Stop, Fault, Unread, Counted, OfJob, TypeOK
<1>27. ASSUME Exit
      PROVE  Counted'
  BY <1>27 DEF Exit, Ceases, Cut, Unread, Counted, OfJob, TypeOK
<1>28. ASSUME Crash
      PROVE  Counted'
  BY <1>28 DEF Crash, Ceases, Cut, Unread, Fault, Alive, Counted, OfJob, TypeOK
<1>29. ASSUME Restart
      PROVE  Counted'
  BY <1>29 DEF Restart, Recovered, Batches, Unannounced, Status, Absent, Announced, Counted, OfJob, TypeOK
<1>30. ASSUME SweepEnd
      PROVE  Counted'
  BY <1>30 DEF SweepEnd, Counted, OfJob, TypeOK
<1> QED
  BY <1>0, <1>1, <1>2, <1>3, <1>4, <1>5, <1>6, <1>7, <1>8, <1>9, <1>10, <1>11, <1>12, <1>13, <1>14, <1>15, <1>16, <1>17, <1>18, <1>19, <1>20, <1>21, <1>22, <1>23, <1>24, <1>25, <1>26, <1>27, <1>28, <1>29, <1>30 DEF Next, Task, Announce, Inbox, Schedule, Process

(* A run holds a row; once it has reported, the row is not RUNNING.         *)
Held ==
    \A t \in Tasks :
        /\ run[t] # "none" => status[t] # Absent
        /\ run[t] \in {"reporting", "limit"} => status[t] # "RUNNING"

LEMMA HeldStep ==
    ASSUME TypeOK, Quiet, Held, [Next]_vars
    PROVE  Held'
<1> USE DEF vars, taskVars, noticeVars, inVars, jobVars, processVars, silence
<1>0. CASE UNCHANGED vars
  BY <1>0 DEF Held, TypeOK
<1>1. ASSUME NEW t \in Tasks, Take(t)
      PROVE  Held'
  BY <1>1 DEF Take, RunStep, Status, Absent, Announced, Held, TypeOK
<1>2. ASSUME NEW t \in Tasks, CountStep(t)
      PROVE  Held'
  BY <1>2 DEF CountStep, RunStep, Status, Absent, Announced, Held, TypeOK
<1>3. ASSUME NEW t \in Tasks, Park(t)
      PROVE  Held'
  BY <1>3 DEF Park, RunStep, Terminal, Status, Absent, Announced, Held, TypeOK
<1>4. ASSUME NEW t \in Tasks, NEW st \in Announced, Finish(t, st)
      PROVE  Held'
  BY <1>4 DEF Finish, RunStep, Ends, NewNotice, Notice, Announced, Terminal, Status, Absent, Held, TypeOK
<1>5. ASSUME NEW t \in Tasks, TimeLimit(t)
      PROVE  Held'
  BY <1>5 DEF TimeLimit, RunStep, Fault, NewNotice, Notice, Announced, Terminal, Status, Absent, Held, TypeOK
<1>6. ASSUME NEW t \in Tasks, Release(t)
      PROVE  Held'
  BY <1>6 DEF Release, RunStep, InFlight, Status, Absent, Announced, Held, TypeOK
<1>7. ASSUME NEW t \in Tasks, Cancel(t)
      PROVE  Held'
  BY <1>7 DEF Cancel, RunStep, ByOwner, Terminal, Status, Absent, Announced, Held, TypeOK
<1>8. ASSUME NEW t \in Tasks, Reply(t)
      PROVE  Held'
  BY <1>8 DEF Reply, RunStep, ByOwner, Status, Absent, Announced, Held, TypeOK
<1>9. ASSUME NEW t \in Tasks, Abandon(t)
      PROVE  Held'
  BY <1>9 DEF Abandon, RunStep, Cut, Status, Absent, Announced, Held, TypeOK
<1>10. ASSUME NEW t \in Tasks, SweepNext(t)
      PROVE  Held'
  BY <1>10 DEF SweepNext, Sweeps, NewNotice, Notice, Held, TypeOK
<1>11. ASSUME NEW n \in notices, Look(n)
      PROVE  Held'
  BY <1>11 DEF Look, At, Alive, Drops, Moves, Notice, Held, TypeOK
<1>12. ASSUME NEW n \in notices, Mark(n)
      PROVE  Held'
  BY <1>12 DEF Mark, At, Alive, Moves, Notice, Held, TypeOK
<1>13. ASSUME NEW n \in notices, Key(n)
      PROVE  Held'
  BY <1>13 DEF Key, At, Alive, Drops, Moves, Notice, Held, TypeOK
<1>14. ASSUME NEW n \in notices, Send(n)
      PROVE  Held'
  BY <1>14 DEF Send, At, Alive, Drops, Notice, Held, TypeOK
<1>15. ASSUME NEW n \in notices, NoticeFails(n)
      PROVE  Held'
  BY <1>15 DEF NoticeFails, Alive, Drops, Fault, Held, TypeOK
<1>16. ASSUME NEW m \in Messages, Deliver(m)
      PROVE  Held'
  BY <1>16 DEF Deliver, Held, TypeOK
<1>17. ASSUME NEW m \in Messages, MakeTask(m)
      PROVE  Held'
  <2>1. Creates({From("message", m, 0)})
    BY <1>17 DEF MakeTask
  <2>2. run' = run
    BY <2>1, CreatesWhat
  <2>3. \A t \in Tasks : status[t] # Absent => status'[t] = status[t]
    BY <2>1, CreatesWhat
  <2> QED
    BY <2>2, <2>3 DEF Held
<1>18. ASSUME NEW m \in Messages, LeaveInInbox(m)
      PROVE  Held'
  BY <1>18 DEF LeaveInInbox, Held, TypeOK
<1>19. ASSUME NEW m \in Messages, ReceiveFails(m)
      PROVE  Held'
  BY <1>19 DEF ReceiveFails, Fault, Held, TypeOK
<1>20. ASSUME Ask
      PROVE  Held'
  <2>1. Creates({From("owner", "chat", owner)})
    BY <1>20 DEF Ask
  <2>2. run' = run
    BY <2>1, CreatesWhat
  <2>3. \A t \in Tasks : status[t] # Absent => status'[t] = status[t]
    BY <2>1, CreatesWhat
  <2> QED
    BY <2>2, <2>3 DEF Held
<1>21. ASSUME TickRead
      PROVE  Held'
  BY <1>21 DEF TickRead, Due, NotRead, Read, Held, TypeOK
<1>22. ASSUME TickCommit
      PROVE  Held'
  <2>1. Creates({From("job", i, tick[i] + 1) : i \in Read})
    BY <1>22 DEF TickCommit
  <2>2. run' = run
    BY <2>1, CreatesWhat
  <2>3. \A t \in Tasks : status[t] # Absent => status'[t] = status[t]
    BY <2>1, CreatesWhat
  <2> QED
    BY <2>2, <2>3 DEF Held
<1>23. ASSUME TickFails
      PROVE  Held'
  BY <1>23 DEF TickFails, Unread, Fault, Read, Held, TypeOK
<1>24. ASSUME NEW j \in Jobs, TimeComes(j)
      PROVE  Held'
  BY <1>24 DEF TimeComes, Job, Held, TypeOK
<1>25. ASSUME NEW j \in Jobs, DeleteJob(j)
      PROVE  Held'
  BY <1>25 DEF DeleteJob, ByOwner, Deleted, Held, TypeOK
<1>26. ASSUME Stop
      PROVE  Held'
  BY <1>26 DEF Stop, Fault, Unread, Held, TypeOK
<1>27. ASSUME Exit
      PROVE  Held'
  BY <1>27 DEF Exit, Ceases, Cut, Unread, Held, TypeOK
<1>28. ASSUME Crash
      PROVE  Held'
  BY <1>28 DEF Crash, Ceases, Cut, Unread, Fault, Alive, Held, TypeOK
<1>29. ASSUME Restart
      PROVE  Held'
  BY <1>29 DEF Restart, Recovered, Batches, Unannounced, Quiet, Absent, Held, TypeOK
<1>30. ASSUME SweepEnd
      PROVE  Held'
  BY <1>30 DEF SweepEnd, Held, TypeOK
<1> QED
  BY <1>0, <1>1, <1>2, <1>3, <1>4, <1>5, <1>6, <1>7, <1>8, <1>9, <1>10, <1>11, <1>12, <1>13, <1>14, <1>15, <1>16, <1>17, <1>18, <1>19, <1>20, <1>21, <1>22, <1>23, <1>24, <1>25, <1>26, <1>27, <1>28, <1>29, <1>30 DEF Next, Task, Announce, Inbox, Schedule, Process

-----------------------------------------------------------------------------
(* The mapping to TaskProtocol.                                             *)

statusOf == [t \in Tasks |-> IF status[t] = Absent THEN "PENDING" ELSE status[t]]
holdersOf == [t \in Tasks |-> IF run[t] = "none" THEN {} ELSE {"loop"}]
Stutters == UNCHANGED <<statusOf, holdersOf>>

LEMMA SetsStatus ==
    ASSUME TypeOK, NEW t \in Tasks, NEW s \in Status, status' = [status EXCEPT ![t] = s]
    PROVE  statusOf' = [statusOf EXCEPT ![t] = s]
  BY DEF TypeOK, statusOf, Absent, Status, Terminal

LEMMA SetsHolders ==
    ASSUME TypeOK, NEW t \in Tasks, NEW place, run' = [run EXCEPT ![t] = place]
    PROVE  /\ run[t] # "none" /\ place # "none" => holdersOf' = holdersOf
           /\ run[t] = "none" /\ place # "none" =>
                holdersOf' = [holdersOf EXCEPT ![t] = @ \cup {"loop"}]
           /\ run[t] # "none" /\ place = "none" =>
                holdersOf' = [holdersOf EXCEPT ![t] = @ \ {"loop"}]
           /\ place = run[t] => holdersOf' = holdersOf
  BY ZenonT(60) DEF TypeOK, holdersOf

(* A run that writes its row works; one that leaves it lets go.             *)
LEMMA RunMaps ==
    ASSUME TypeOK, NEW t \in Tasks, NEW s \in Status, NEW place,
           run[t] # "none", RunStep(t, s, place), place = "none" => s # "RUNNING"
    PROVE  Protocol!Next
<1>1. statusOf' = [statusOf EXCEPT ![t] = s]
  BY SetsStatus DEF RunStep
<1>2. "loop" \in holdersOf[t]
  BY DEF holdersOf
<1>3. CASE place = "none"
  <2>1. holdersOf' = [holdersOf EXCEPT ![t] = @ \ {"loop"}]
    BY <1>3, SetsHolders DEF RunStep
  <2> QED
    BY <1>1, <1>2, <1>3, <2>1 DEF Protocol!Next, Protocol!LetGo, Protocol!SetStatus, statusOf,
                                  holdersOf
<1>4. CASE place # "none"
  <2>1. holdersOf' = holdersOf
    BY <1>4, SetsHolders DEF RunStep
  <2> QED
    BY <1>1, <1>2, <2>1 DEF Protocol!Next, Protocol!Work, Protocol!SetStatus, statusOf, holdersOf
<1> QED
  BY <1>3, <1>4

LEMMA StepMaps ==
    ASSUME TypeOK, Quiet, Held, [Next]_vars
    PROVE  Protocol!Next \/ Stutters
<1> USE DEF vars, taskVars, noticeVars, inVars, jobVars, processVars, silence
<1>0. CASE UNCHANGED vars
  BY <1>0 DEF Stutters, statusOf, holdersOf
<1>1. ASSUME NEW t \in Tasks, Take(t)
      PROVE  Protocol!Next \/ Stutters
  <2>1. run[t] = "none" /\ status[t] = "PENDING" /\ RunStep(t, "RUNNING", "running")
    BY <1>1 DEF Take
  <2>2. statusOf' = [statusOf EXCEPT ![t] = "RUNNING"]
    BY <2>1, SetsStatus DEF RunStep, Status
  <2>3. holdersOf' = [holdersOf EXCEPT ![t] = @ \cup {"loop"}]
    BY <2>1 DEF RunStep, TypeOK, holdersOf
  <2> QED
    BY <2>1, <2>2, <2>3 DEF Protocol!Next, Protocol!Take, Protocol!SetStatus, statusOf, holdersOf,
                            Absent
<1>2. ASSUME NEW t \in Tasks, CountStep(t)
      PROVE  Protocol!Next \/ Stutters
  <2> QED
    BY <1>2, RunMaps DEF CountStep, Status
<1>3. ASSUME NEW t \in Tasks, Park(t)
      PROVE  Protocol!Next \/ Stutters
  <2>1. PICK s \in {"WAITING_FOR_USER", "PENDING"} \cup ({status[t]} \cap Terminal) :
          RunStep(t, s, "none")
    BY <1>3 DEF Park
  <2> QED
    BY <1>3, <2>1, RunMaps DEF Park, Status, Terminal
<1>4. ASSUME NEW t \in Tasks, NEW st \in Announced, Finish(t, st)
      PROVE  Protocol!Next \/ Stutters
  <2> QED
    BY <1>4, RunMaps DEF Finish, Status, Terminal, Announced
<1>5. ASSUME NEW t \in Tasks, TimeLimit(t)
      PROVE  Protocol!Next \/ Stutters
  <2> QED
    BY <1>5, RunMaps DEF TimeLimit, Status, Terminal
<1>6. ASSUME NEW t \in Tasks, Release(t)
      PROVE  Protocol!Next \/ Stutters
  <2>1. run[t] \in {"reporting", "limit"} /\ RunStep(t, status[t], "none")
    BY <1>6 DEF Release
  <2>2. status[t] \in Status /\ status[t] # "RUNNING"
    BY <2>1 DEF Held, TypeOK
  <2> QED
    BY <2>1, <2>2, RunMaps
<1>7. ASSUME NEW t \in Tasks, Cancel(t)
      PROVE  Protocol!Next \/ Stutters
  <2>1. RunStep(t, "CANCELLED", run[t])
    BY <1>7 DEF Cancel
  <2>2. statusOf' = [statusOf EXCEPT ![t] = "CANCELLED"]
    BY <2>1, SetsStatus DEF RunStep, Status, Terminal
  <2>3. holdersOf' = holdersOf
    BY <2>1, SetsHolders DEF RunStep
  <2> QED
    BY <2>2, <2>3 DEF Protocol!Next, Protocol!Cancel, Protocol!SetStatus, statusOf, holdersOf
<1>8. ASSUME NEW t \in Tasks, Reply(t)
      PROVE  Protocol!Next \/ Stutters
  <2>1. RunStep(t, "PENDING", "none") /\ run[t] = "none"
    BY <1>8 DEF Reply
  <2>2. statusOf' = [statusOf EXCEPT ![t] = "PENDING"]
    BY <2>1, SetsStatus DEF RunStep, Status
  <2>3. holdersOf' = holdersOf /\ holdersOf[t] = {}
    BY <2>1, SetsHolders DEF RunStep, holdersOf
  <2> QED
    BY <2>2, <2>3 DEF Protocol!Next, Protocol!Reopen, Protocol!SetStatus, statusOf, holdersOf
<1>9. ASSUME NEW t \in Tasks, Abandon(t)
      PROVE  Protocol!Next \/ Stutters
  <2>1. run[t] # "none" /\ RunStep(t, IF run[t] = "limit" THEN status[t] ELSE "PENDING", "none")
    BY <1>9 DEF Abandon
  <2>2. status[t] \in Status /\ (run[t] = "limit" => status[t] # "RUNNING")
    BY <2>1 DEF Held, TypeOK
  <2>3. CASE run[t] = "limit"
    BY <2>1, <2>2, <2>3, RunMaps
  <2>4. CASE run[t] # "limit"
    BY <2>1, <2>4, RunMaps DEF Status
  <2> QED
    BY <2>3, <2>4
<1>10. ASSUME NEW t \in Tasks, SweepNext(t)
      PROVE  Protocol!Next \/ Stutters
  <2>1. UNCHANGED <<status, run>>
    BY <1>10 DEF SweepNext
  <2> QED
    BY <2>1 DEF Stutters, statusOf, holdersOf
<1>11. ASSUME NEW n \in notices, Look(n)
      PROVE  Protocol!Next \/ Stutters
  <2>1. UNCHANGED <<status, run>>
    BY <1>11 DEF Look
  <2> QED
    BY <2>1 DEF Stutters, statusOf, holdersOf
<1>12. ASSUME NEW n \in notices, Mark(n)
      PROVE  Protocol!Next \/ Stutters
  <2>1. UNCHANGED <<status, run>>
    BY <1>12 DEF Mark
  <2> QED
    BY <2>1 DEF Stutters, statusOf, holdersOf
<1>13. ASSUME NEW n \in notices, Key(n)
      PROVE  Protocol!Next \/ Stutters
  <2>1. UNCHANGED <<status, run>>
    BY <1>13 DEF Key
  <2> QED
    BY <2>1 DEF Stutters, statusOf, holdersOf
<1>14. ASSUME NEW n \in notices, Send(n)
      PROVE  Protocol!Next \/ Stutters
  <2>1. UNCHANGED <<status, run>>
    BY <1>14 DEF Send
  <2> QED
    BY <2>1 DEF Stutters, statusOf, holdersOf
<1>15. ASSUME NEW n \in notices, NoticeFails(n)
      PROVE  Protocol!Next \/ Stutters
  <2>1. UNCHANGED <<status, run>>
    BY <1>15 DEF NoticeFails
  <2> QED
    BY <2>1 DEF Stutters, statusOf, holdersOf
<1>16. ASSUME NEW m \in Messages, Deliver(m)
      PROVE  Protocol!Next \/ Stutters
  <2>1. UNCHANGED <<status, run>>
    BY <1>16 DEF Deliver
  <2> QED
    BY <2>1 DEF Stutters, statusOf, holdersOf
<1>17. ASSUME NEW m \in Messages, MakeTask(m)
      PROVE  Protocol!Next \/ Stutters
  <2>1. Creates({From("message", m, 0)})
    BY <1>17 DEF MakeTask
  <2>2. run' = run
    BY <2>1, CreatesWhat
  <2>3. \A t \in Tasks :
          \/ status'[t] = status[t]
          \/ status[t] = Absent /\ status'[t] = "PENDING"
    BY <2>1, CreatesWhat
  <2> QED
    BY <2>2, <2>3 DEF Stutters, statusOf, holdersOf, Absent
<1>18. ASSUME NEW m \in Messages, LeaveInInbox(m)
      PROVE  Protocol!Next \/ Stutters
  <2>1. UNCHANGED <<status, run>>
    BY <1>18 DEF LeaveInInbox
  <2> QED
    BY <2>1 DEF Stutters, statusOf, holdersOf
<1>19. ASSUME NEW m \in Messages, ReceiveFails(m)
      PROVE  Protocol!Next \/ Stutters
  <2>1. UNCHANGED <<status, run>>
    BY <1>19 DEF ReceiveFails
  <2> QED
    BY <2>1 DEF Stutters, statusOf, holdersOf
<1>20. ASSUME Ask
      PROVE  Protocol!Next \/ Stutters
  <2>1. Creates({From("owner", "chat", owner)})
    BY <1>20 DEF Ask
  <2>2. run' = run
    BY <2>1, CreatesWhat
  <2>3. \A t \in Tasks :
          \/ status'[t] = status[t]
          \/ status[t] = Absent /\ status'[t] = "PENDING"
    BY <2>1, CreatesWhat
  <2> QED
    BY <2>2, <2>3 DEF Stutters, statusOf, holdersOf, Absent
<1>21. ASSUME TickRead
      PROVE  Protocol!Next \/ Stutters
  <2>1. UNCHANGED <<status, run>>
    BY <1>21 DEF TickRead
  <2> QED
    BY <2>1 DEF Stutters, statusOf, holdersOf
<1>22. ASSUME TickCommit
      PROVE  Protocol!Next \/ Stutters
  <2>1. Creates({From("job", i, tick[i] + 1) : i \in Read})
    BY <1>22 DEF TickCommit
  <2>2. run' = run
    BY <2>1, CreatesWhat
  <2>3. \A t \in Tasks :
          \/ status'[t] = status[t]
          \/ status[t] = Absent /\ status'[t] = "PENDING"
    BY <2>1, CreatesWhat
  <2> QED
    BY <2>2, <2>3 DEF Stutters, statusOf, holdersOf, Absent
<1>23. ASSUME TickFails
      PROVE  Protocol!Next \/ Stutters
  <2>1. UNCHANGED <<status, run>>
    BY <1>23 DEF TickFails
  <2> QED
    BY <2>1 DEF Stutters, statusOf, holdersOf
<1>24. ASSUME NEW j \in Jobs, TimeComes(j)
      PROVE  Protocol!Next \/ Stutters
  <2>1. UNCHANGED <<status, run>>
    BY <1>24 DEF TimeComes
  <2> QED
    BY <2>1 DEF Stutters, statusOf, holdersOf
<1>25. ASSUME NEW j \in Jobs, DeleteJob(j)
      PROVE  Protocol!Next \/ Stutters
  <2>1. UNCHANGED <<status, run>>
    BY <1>25 DEF DeleteJob
  <2> QED
    BY <2>1 DEF Stutters, statusOf, holdersOf
<1>26. ASSUME Stop
      PROVE  Protocol!Next \/ Stutters
  <2>1. UNCHANGED <<status, run>>
    BY <1>26 DEF Stop
  <2> QED
    BY <2>1 DEF Stutters, statusOf, holdersOf
<1>27. ASSUME Exit
      PROVE  Protocol!Next \/ Stutters
  <2>1. UNCHANGED <<status, run>>
    BY <1>27 DEF Exit
  <2> QED
    BY <2>1 DEF Stutters, statusOf, holdersOf
<1>28. ASSUME Crash
      PROVE  Protocol!Next \/ Stutters
  <2>1. status' = status /\ run' = [t \in Tasks |-> "none"]
    BY <1>28 DEF Crash
  <2>2. statusOf' = statusOf /\ holdersOf' = [t \in Tasks |-> {}]
    BY <2>1 DEF statusOf, holdersOf
  <2> QED
    BY <2>2 DEF Protocol!Next, Protocol!Halt, statusOf, holdersOf
<1>29. ASSUME Restart
      PROVE  Protocol!Next \/ Stutters
  <2>1. /\ run' = run /\ \A t \in Tasks : run[t] = "none"
        /\ status' = [t \in Tasks |-> Recovered(status[t])]
    BY <1>29 DEF Restart, Quiet
  <2>2. holdersOf' = holdersOf /\ \A t \in Tasks : holdersOf[t] = {}
    BY <2>1 DEF holdersOf
  <2>3. statusOf' = [t \in Tasks |->
            IF statusOf[t] = "RUNNING" THEN "PENDING" ELSE statusOf[t]]
    BY <2>1 DEF statusOf, Recovered, Absent
  <2> QED
    BY <2>2, <2>3 DEF Protocol!Next, Protocol!Recover, statusOf, holdersOf
<1>30. ASSUME SweepEnd
      PROVE  Protocol!Next \/ Stutters
  <2>1. UNCHANGED <<status, run>>
    BY <1>30 DEF SweepEnd
  <2> QED
    BY <2>1 DEF Stutters, statusOf, holdersOf
<1> QED
  BY <1>0, <1>1, <1>2, <1>3, <1>4, <1>5, <1>6, <1>7, <1>8, <1>9, <1>10, <1>11, <1>12, <1>13, <1>14, <1>15, <1>16, <1>17, <1>18, <1>19, <1>20, <1>21, <1>22, <1>23, <1>24, <1>25, <1>26, <1>27, <1>28, <1>29, <1>30 DEF Next, Task, Announce, Inbox, Schedule, Process

(* The strengthening of what the runs check; each part holds for every      *)
(* value of the constants.                                                  *)
Delivers ==
    TypeOK /\ Quiet /\ Told /\ Alone /\ Marked /\ Keyed /\ Owing /\ Sourced /\ Counted /\ Held

LEMMA StartDelivers == Init => Delivers
<1> SUFFICES ASSUME Init PROVE Delivers
  OBVIOUS
<1>1. TypeOK
  BY DeliveryAssumption DEF Init, TypeOK, Origins, Nothing, From, Unread, NotRead, NewJob, Job,
                            Status
<1>2. Quiet /\ Told /\ Alone /\ Marked /\ Keyed /\ Held
  BY DEF Init, Quiet, Told, Alone, Marked, Keyed, Held
<1>3. Owing
  BY DEF Init, Owing, SilenceHasCause, Absent, Announced
<1>4. Sourced
  BY DEF Init, Sourced, OneTaskPerMessage, MadeOf, Nothing, From
<1>5. Counted
  BY DeliveryAssumption DEF Init, Counted, OfJob, Nothing, From, NewJob, NoLimit
<1> QED
  BY <1>1, <1>2, <1>3, <1>4, <1>5 DEF Delivers

LEMMA AlwaysDelivers == Spec => []Delivers
<1>1. Delivers /\ [Next]_vars => Delivers'
  BY TypeStep, QuietStep, ToldStep, AloneStep, MarkedStep, KeyedStep, OwingStep, SourcedStep,
     CountedStep, HeldStep DEF Delivers
<1> QED
  BY <1>1, StartDelivers, PTL DEF Spec

(* Every variable keeps to its type.                                        *)
THEOREM DeliveryTypeCorrect == Spec => []TypeOK
<1>1. Delivers => TypeOK
  BY DEF Delivers
<1> QED
  BY <1>1, AlwaysDelivers, PTL

(* No end is announced twice, by run, time limit and sweep together,        *)
(* whatever crashes and however often the task is reopened.                 *)
THEOREM DeliveryToldOnce == Spec => []ToldOnce
<1>1. Delivers => ToldOnce
  BY DEF Delivers, Told, ToldOnce
<1> QED
  BY <1>1, AlwaysDelivers, PTL

(* An end that is marked and was not told has a cause the owner could know. *)
THEOREM DeliverySilenceHasCause == Spec => []SilenceHasCause
<1>1. Delivers => SilenceHasCause
  BY DEF Delivers, Owing
<1> QED
  BY <1>1, AlwaysDelivers, PTL

(* Only a time limit during a report makes the owner hear of both ends.     *)
THEOREM DeliveryNoContradiction == Spec => []NoContradiction
<1>1. Delivers => NoContradiction
  <2> SUFFICES ASSUME Delivers, NEW t \in Tasks,
                      sent[t]["COMPLETED"] > 0, sent[t]["FAILED"] > 0
               PROVE  t \in overtaken
    BY DEF NoContradiction
  <2>1. <<"COMPLETED", t>> \in keys /\ <<"FAILED", t>> \in keys
    BY DEF Delivers, Told, Announced
  <2> QED
    BY <2>1 DEF Delivers, Keyed
<1> QED
  BY <1>1, AlwaysDelivers, PTL

(* However often the bridges hand a message over, it makes one task.        *)
THEOREM DeliveryOneTaskPerMessage == Spec => []OneTaskPerMessage
<1>1. Delivers => OneTaskPerMessage
  BY DEF Delivers, Sourced
<1> QED
  BY <1>1, AlwaysDelivers, PTL

(* Jobs keep to max_runs, with one task for each run.                       *)
THEOREM DeliveryRunsAreCounted == Spec => []RunsAreCounted
<1>1. Delivers => RunsAreCounted
  <2> SUFFICES ASSUME Delivers PROVE RunsAreCounted
    OBVIOUS
  <2>1. \A j \in Read : MaxRuns[j] # NoLimit => tick[j] < MaxRuns[j]
    BY DEF Delivers, Counted, Read
  <2>2. ASSUME NEW t \in Tasks, NEW u \in Tasks, origin[t].by = "job"
        PROVE  /\ MaxRuns[origin[t].of] # NoLimit => origin[t].n <= MaxRuns[origin[t].of]
               /\ origin[u] = origin[t] => t = u
    <3>1. origin[t] \in Origins
      BY DEF Delivers, TypeOK
    <3>2. origin[t].of \in Jobs
      BY <2>2, <3>1 DEF Origins, Nothing, From
    <3>3. OfJob(t, origin[t].of)
      BY <2>2 DEF OfJob
    <3> QED
      BY <3>2, <3>3 DEF Delivers, Counted
  <2> QED
    BY <2>1, <2>2 DEF RunsAreCounted
<1> QED
  BY <1>1, AlwaysDelivers, PTL

(* Messages, ticks, announcements, stops and sweeps do to a task only what  *)
(* the protocol of the task store allows.                                   *)
THEOREM DeliveryImplementsProtocol == Spec => FollowsProtocol
<1>1. Init => Protocol!Init
  BY DEF Init, Protocol!Init, Absent
<1>2. Delivers /\ [Next]_vars => [Protocol!Next]_(Protocol!vars)
  <2> SUFFICES ASSUME Delivers, [Next]_vars PROVE Protocol!Next \/ UNCHANGED Protocol!vars
    OBVIOUS
  <2>1. Stutters => UNCHANGED Protocol!vars
    BY DEF Stutters, Protocol!vars, statusOf, holdersOf
  <2> QED
    BY <2>1, StepMaps DEF Delivers
<1> QED
  BY <1>1, <1>2, AlwaysDelivers, PTL DEF Spec, FollowsProtocol, Protocol!Spec
-----------------------------------------------------------------------------
(* Ends whose announcement the sweep has under way, and those that neither *)
(* the sweep nor its handler will announce.                                *)
InHand == {n.task : n \in {k \in notices : k.pc \in {"look", "mark"}}}
Left == Unannounced \ (todo \cup InHand)

(* What is left over while the sweep is at work: no more than lost its     *)
(* handler, and what was beyond the limit when it began.                   *)
Swept ==
    phase = "sweeping" =>
        \/ Cardinality(Left) <= backlog[2]
        \/ Cardinality(Left) <= backlog[1] - SweepLimit + backlog[2]

LEMMA LeftIsFinite ==
    ASSUME NEW S \in SUBSET Tasks
    PROVE  /\ IsFiniteSet(S) /\ Cardinality(S) \in Nat
           /\ \A T \in SUBSET S : Cardinality(T) <= Cardinality(S)
           /\ \A T \in SUBSET Tasks : \A t : T \subseteq S \cup {t} => Cardinality(T) <= Cardinality(S) + 1
<1>1. IsFiniteSet(S)
  BY FS_Subset, DeliveryAssumption
<1>2. Cardinality(S) \in Nat
  BY <1>1, FS_CardinalityType
<1>3. \A T \in SUBSET S : Cardinality(T) <= Cardinality(S)
  BY <1>1, FS_Subset
<1>4. ASSUME NEW T \in SUBSET Tasks, NEW t, T \subseteq S \cup {t}
      PROVE  Cardinality(T) <= Cardinality(S) + 1
  <2>1. IsFiniteSet(S \cup {t}) /\ Cardinality(S \cup {t}) \in {Cardinality(S), Cardinality(S) + 1}
    BY <1>1, FS_AddElement
  <2>2. Cardinality(T) <= Cardinality(S \cup {t})
    BY <1>4, <2>1, FS_Subset
  <2>3. IsFiniteSet(T)
    BY FS_Subset, DeliveryAssumption
  <2>4. Cardinality(T) \in Nat
    BY <2>3, FS_CardinalityType
  <2> QED
    BY <1>2, <2>1, <2>2, <2>4
<1> QED
  BY <1>1, <1>2, <1>3, <1>4

(* During a sweep an end is left over only if its handler fails.           *)
LeftKept == backlog' = backlog /\ Left' \subseteq Left
LeftFails == /\ backlog' = <<backlog[1], backlog[2] + 1>>
             /\ \E t : Left' \subseteq Left \cup {t}

LEMMA LeftStill ==
    ASSUME Unannounced' \subseteq Unannounced, UNCHANGED <<todo, notices, backlog>>
    PROVE  LeftKept
BY DEF LeftKept, Left, InHand

LEMMA CreatesNoEnd ==
    ASSUME TypeOK, NEW origins, Creates(origins)
    PROVE  Unannounced' \subseteq Unannounced
<1>1. /\ \A t \in Tasks : status'[t] = status[t] \/ status'[t] = "PENDING"
      /\ UNCHANGED notified
  BY CreatesWhat
<1> QED
  BY <1>1 DEF Unannounced, Announced

LEMMA LeftStep ==
    ASSUME TypeOK, Quiet, Next, phase = "sweeping", phase' = "sweeping"
    PROVE  LeftKept \/ LeftFails
<1> USE DEF taskVars, noticeVars, inVars, jobVars, processVars, silence
<1>1. ASSUME NEW t \in Tasks, Task(t)
      PROVE  LeftKept
  <2>1. run[t] = "none"
    BY DEF Quiet
  <2>2. SweepNext(t)
    BY <1>1, <2>1 DEF Task, Take, CountStep, Park, Finish, TimeLimit, Release, Cancel, Reply,
                      Abandon, ByOwner
  <2>3. Sweeps(t).task = t /\ Sweeps(t).pc = "look"
    BY DEF Sweeps, NewNotice
  <2>4. InHand' = {t} /\ InHand = {}
    BY <2>2, <2>3 DEF SweepNext, InHand
  <2> QED
    BY <2>2, <2>4 DEF SweepNext, LeftKept, Left, Unannounced
<1>2. ASSUME NEW n \in notices, Look(n)
      PROVE  LeftKept
  <2>0. n.pc = "look" /\ UNCHANGED <<status, notified, todo, backlog>>
    BY <1>2 DEF Look, At
  <2>1. CASE notified[n.task]
    <3>1. notices' = notices \ {n}
      BY <1>2, <2>1 DEF Look, Drops
    <3>2. \A k \in notices : k # n => k \in notices'
      BY <3>1
    <3>3. InHand \subseteq InHand' \cup {n.task}
      BY <3>2 DEF InHand
    <3> QED
      BY <2>0, <2>1, <3>3 DEF LeftKept, Left, Unannounced
  <2>2. CASE ~notified[n.task]
    <3>1. Moves(n, "mark")
      BY <1>2, <2>2 DEF Look
    <3>2. PICK k : Later(n, k, "mark") /\ notices' = (notices \ {n}) \cup {k}
      BY <3>1, MovesWhat
    <3>3. InHand \subseteq InHand'
      BY <3>2 DEF InHand, Later
    <3> QED
      BY <2>0, <3>3 DEF LeftKept, Left, Unannounced
  <2> QED
    BY <2>1, <2>2
<1>3. ASSUME NEW n \in notices, Mark(n)
      PROVE  LeftKept
  <2>1. PICK k : Later(n, k, "key") /\ notices' = (notices \ {n}) \cup {k}
    BY <1>3, MovesWhat DEF Mark
  <2>2. InHand \subseteq InHand' \cup {n.task}
    BY <2>1 DEF InHand
  <2>3. notified' = [notified EXCEPT ![n.task] = TRUE] /\ UNCHANGED <<status, todo, backlog>>
    BY <1>3 DEF Mark
  <2>4. Unannounced' \subseteq Unannounced \ {n.task}
    BY <2>3 DEF Unannounced, TypeOK
  <2> QED
    BY <2>2, <2>3, <2>4 DEF LeftKept, Left
<1>4. ASSUME NEW n \in notices, Key(n)
      PROVE  LeftKept
  <2>0. n.pc = "key" /\ UNCHANGED <<status, notified, todo, backlog>>
    BY <1>4 DEF Key, At
  <2>1. \A k \in notices : k # n => k \in notices'
    BY <1>4 DEF Key, Drops, Moves
  <2>2. InHand \subseteq InHand'
    BY <2>0, <2>1 DEF InHand
  <2> QED
    BY <2>0, <2>2 DEF LeftKept, Left, Unannounced
<1>5. ASSUME NEW n \in notices, Send(n)
      PROVE  LeftKept
  <2>0. n.pc = "send" /\ UNCHANGED <<status, notified, todo, backlog>>
    BY <1>5 DEF Send, At
  <2>1. \A k \in notices : k # n => k \in notices'
    BY <1>5 DEF Send, Drops
  <2>2. InHand \subseteq InHand'
    BY <2>0, <2>1 DEF InHand
  <2> QED
    BY <2>0, <2>2 DEF LeftKept, Left, Unannounced
<1>6. ASSUME NEW n \in notices, NoticeFails(n)
      PROVE  LeftFails
  <2>0. UNCHANGED <<status, notified, todo>> /\ backlog' = <<backlog[1], backlog[2] + 1>>
    BY <1>6 DEF NoticeFails
  <2>1. \A k \in notices : k # n => k \in notices'
    BY <1>6 DEF NoticeFails, Drops
  <2>2. InHand \subseteq InHand' \cup {n.task}
    BY <2>1 DEF InHand
  <2>3. Left' \subseteq Left \cup {n.task}
    BY <2>0, <2>2 DEF Left, Unannounced
  <2> QED
    BY <2>0, <2>3 DEF LeftFails
<1>7. ASSUME NEW m \in Messages, Inbox(m)
      PROVE  LeftKept
  <2>1. Unannounced' \subseteq Unannounced
    <3>1. CASE MakeTask(m)
      BY <3>1, CreatesNoEnd DEF MakeTask
    <3>2. CASE Deliver(m) \/ LeaveInInbox(m) \/ ReceiveFails(m)
      BY <3>2 DEF Deliver, LeaveInInbox, ReceiveFails, Unannounced
    <3> QED
      BY <1>7, <3>1, <3>2 DEF Inbox
  <2>2. UNCHANGED <<todo, notices, backlog>>
    BY <1>7 DEF Inbox, Deliver, MakeTask, LeaveInInbox, ReceiveFails
  <2> QED
    BY <2>1, <2>2, LeftStill
<1>8. ASSUME Schedule
      PROVE  LeftKept
  <2>1. PICK j \in Jobs : TimeComes(j)
    BY <1>8 DEF Schedule, TickRead, TickCommit, TickFails, DeleteJob, ByOwner
  <2>2. Unannounced' \subseteq Unannounced /\ UNCHANGED <<todo, notices, backlog>>
    BY <2>1 DEF TimeComes, Unannounced
  <2> QED
    BY <2>2, LeftStill
<1>9. ~Ask /\ ~Process
  BY DEF Ask, ByOwner, Process, Stop, Exit, Crash, Ceases, Restart, SweepEnd
<1> QED
  BY <1>1, <1>2, <1>3, <1>4, <1>5, <1>6, <1>7, <1>8, <1>9 DEF Next, Announce

(* A sweep begins with the rows its SELECT returned.                       *)
LEMMA SweptRestart ==
    ASSUME TypeOK, Quiet, Restart
    PROVE  Swept'
<1> USE DEF taskVars, noticeVars
<1>1. /\ Unannounced' = Unannounced /\ InHand' = {} /\ todo' \in Batches
      /\ backlog' = <<Cardinality(Unannounced), 0>>
  <2>1. notices' = {} /\ notified' = notified
    BY DEF Restart, Quiet
  <2>2. \A t \in Tasks : status'[t] \in Announced <=> status[t] \in Announced
    BY DEF Restart, Recovered, Announced
  <2> QED
    BY <2>1, <2>2 DEF Restart, InHand, Unannounced
<1>2. Left' = Unannounced \ todo' /\ todo' \subseteq Unannounced
  BY <1>1 DEF Left, Batches
<1>3. /\ Unannounced \in SUBSET Tasks /\ IsFiniteSet(Unannounced)
      /\ Cardinality(Unannounced) \in Nat
  BY LeftIsFinite DEF Unannounced
<1>4. CASE Cardinality(todo') = SweepLimit
  <2>1. Cardinality(Left') = Cardinality(Unannounced) - Cardinality(Unannounced \cap todo')
    BY <1>2, <1>3, FS_Difference
  <2>2. Unannounced \cap todo' = todo'
    BY <1>2
  <2>3. Cardinality(Left') = Cardinality(Unannounced) - SweepLimit
    BY <1>4, <2>1, <2>2
  <2>4. backlog'[1] = Cardinality(Unannounced) /\ backlog'[2] = 0
    BY <1>1
  <2> QED
    BY <1>3, <2>3, <2>4, DeliveryAssumption DEF Swept
<1>5. CASE todo' = Unannounced
  <2>1. Left' = {}
    BY <1>2, <1>5
  <2>2. Cardinality(Left') = 0
    BY <2>1, FS_EmptySet
  <2> QED
    BY <1>1, <2>2 DEF Swept
<1> QED
  BY <1>1, <1>4, <1>5 DEF Batches

LEMMA SweptStep ==
    ASSUME TypeOK, Quiet, Swept, [Next]_vars
    PROVE  Swept'
<1>0. CASE UNCHANGED vars
  BY <1>0 DEF Swept, Left, InHand, Unannounced, vars, taskVars, noticeVars, processVars
<1>1. CASE Next /\ phase = "sweeping" /\ phase' = "sweeping"
  <2>1. Left \in SUBSET Tasks /\ Left' \in SUBSET Tasks /\ backlog[1] \in Nat /\ backlog[2] \in Nat
    BY DEF Left, Unannounced, TypeOK
  <2>2. Cardinality(Left) \in Nat /\ Cardinality(Left') \in Nat
    BY <2>1, LeftIsFinite
  <2>3. CASE LeftKept
    <3>1. Cardinality(Left') <= Cardinality(Left)
      BY <2>1, <2>3, LeftIsFinite DEF LeftKept
    <3> QED
      BY <1>1, <2>1, <2>2, <2>3, <3>1, DeliveryAssumption DEF Swept, LeftKept
  <2>4. CASE LeftFails
    <3>1. Cardinality(Left') <= Cardinality(Left) + 1
      BY <2>1, <2>4, LeftIsFinite DEF LeftFails
    <3>2. backlog'[1] = backlog[1] /\ backlog'[2] = backlog[2] + 1
      BY <2>4 DEF LeftFails
    <3> QED
      BY <1>1, <2>1, <2>2, <3>1, <3>2, DeliveryAssumption DEF Swept
  <2> QED
    BY <1>1, <2>3, <2>4, LeftStep
<1>2. CASE Next /\ phase # "sweeping" /\ phase' = "sweeping"
  <2>1. phase' # phase
    BY <1>2
  <2>2. Restart
    BY <1>2, <2>1 DEF Next, Task, Take, CountStep, Park, Finish, TimeLimit, Release, Cancel, Reply,
        Abandon, SweepNext, Announce, Look, Mark, Key, Send, NoticeFails, Inbox, Deliver, MakeTask,
        LeaveInInbox, ReceiveFails, Ask, Schedule, TickRead, TickCommit, TickFails, TimeComes,
        DeleteJob, Process, Stop, Exit, Crash, Ceases, SweepEnd, processVars
  <2> QED
    BY <2>2, SweptRestart
<1> QED
  BY <1>0, <1>1, <1>2 DEF Swept

(* A start leaves no end unannounced but those beyond the sweep's limit    *)
(* and those whose handler failed, whatever it found.                      *)
THEOREM DeliverySweepIsThorough == Spec => SweepIsThorough
<1> DEFINE Thorough ==
        phase = "sweeping" /\ phase' = "up" =>
            \/ Cardinality(Unannounced) <= backlog[2]
            \/ Cardinality(Unannounced) <= backlog[1] - SweepLimit + backlog[2]
<1>1. Init => Swept
  BY DEF Init, Swept
<1>2. Delivers /\ Swept /\ [Next]_vars => Swept'
  BY SweptStep DEF Delivers
<1>3. Delivers /\ Swept /\ [Next]_vars => [Thorough]_vars
  <2> SUFFICES ASSUME Delivers, Swept, Next, phase = "sweeping", phase' = "up"
               PROVE  Thorough
    BY Zenon
  <2>1. phase' # phase
    OBVIOUS
  <2>2. SweepEnd
    BY <2>1 DEF Next, Task, Take, CountStep, Park, Finish, TimeLimit, Release, Cancel, Reply,
        Abandon, SweepNext, Announce, Look, Mark, Key, Send, NoticeFails, Inbox, Deliver, MakeTask,
        LeaveInInbox, ReceiveFails, Ask, Schedule, TickRead, TickCommit, TickFails, TimeComes,
        DeleteJob, Process, Stop, Exit, Crash, Ceases, Restart, processVars
  <2>3. Left = Unannounced
    BY <2>2 DEF SweepEnd, Left, InHand
  <2> QED
    BY <2>3 DEF Swept
<1> QED
  BY <1>1, <1>2, <1>3, AlwaysDelivers, PTL DEF Spec, SweepIsThorough
=============================================================================
