------------------------- MODULE ConversationProofs -------------------------
(***************************************************************************)
(* What of Conversation holds for every number of messages, tasks,         *)
(* uploads, threads and events.                                            *)
(***************************************************************************)
EXTENDS Conversation, TLAPS

(* A step of one message leaves the others alone.                           *)
LEMMA DeskMoves ==
    ASSUME TypeOK, NEW m \in Messages, NEW d, desk' = [desk EXCEPT ![m] = d]
    PROVE  /\ desk'[m] = d
           /\ \A n \in Messages : n # m => desk'[n] = desk[n]
           /\ d \in Desk => desk' \in [Messages -> Desk]
BY DEF TypeOK

(* What a message holds at each step, and an end has an outcome.            *)
Shape ==
    /\ \A n \in Messages : desk[n].pc \in {"adding", "continuing", "replying"} => desk[n].task # None
    /\ \A n \in Messages : desk[n].pc \notin {"deciding", "adding", "continuing", "replying"}
                            => desk[n].task = None
    /\ \A n \in Messages : desk[n].pc \notin {"deciding", "creating", "replying"}
                            => desk[n].upload = None
    /\ \A n \in Messages : desk[n].pc # "creating" \/ desk[n].upload # None => desk[n].context = None
    /\ \A s \in Tasks : run[s].pc = "ending" => run[s].outcome # "none"

(* A step of Next keeps TypeOK. *)
LEMMA TypeStep ==
    ASSUME Shape, TypeOK, Next
    PROVE  TypeOK'
<1>1. ASSUME NEW m \in Messages, Snapshot(m)  PROVE TypeOK'
  BY <1>1 DEF Snapshot, At, Unsent, rows, runs, noteHistory, uploadHistory, chatHistory,
    TypeOK, Session, Status, Run, Desk, Absent, Terminal
<1>2. ASSUME NEW m \in Messages, Answer(m)  PROVE TypeOK'
  BY <1>2, ConversationAssumption DEF Answer, At, Done, rows, runs, noteHistory, uploadHistory,
    chatHistory, Finished, Unsent, TypeOK, Session, Status, Run, Desk, Absent, Terminal
<1>3. ASSUME NEW m \in Messages, FollowUp(m)  PROVE TypeOK'
  <2>1. (session \in Session)'
    BY <1>3 DEF FollowUp, At, Terminal, rows, runs, noteHistory, uploadHistory, chatHistory,
      TypeOK, Session, Status, Run, Desk, Absent
  <2>2. (status \in [Tasks -> Status])'
    BY <1>3 DEF FollowUp, At, Terminal, rows, runs, noteHistory, uploadHistory, chatHistory,
      TypeOK, Session, Status, Run, Desk, Absent
  <2>3. (request \in [Tasks -> SUBSET Messages])'
    BY <1>3 DEF FollowUp, At, Terminal, rows, runs, noteHistory, uploadHistory, chatHistory,
      TypeOK, Session, Status, Run, Desk, Absent
  <2>4. (maker \in [Tasks -> Messages \cup {None}])'
    BY <1>3 DEF FollowUp, At, Terminal, rows, runs, noteHistory, uploadHistory, chatHistory,
      TypeOK, Session, Status, Run, Desk, Absent
  <2>5. (parent \in [Tasks -> Tasks \cup {None}])'
    BY <1>3 DEF FollowUp, At, Terminal, rows, runs, noteHistory, uploadHistory, chatHistory,
      TypeOK, Session, Status, Run, Desk, Absent
  <2>6. (run \in [Tasks -> Run])'
    BY <1>3 DEF FollowUp, At, Terminal, rows, runs, noteHistory, uploadHistory, chatHistory,
      TypeOK, Session, Status, Run, Desk, Absent
  <2>7. (seen \in [Tasks -> SUBSET Messages])'
    BY <1>3 DEF FollowUp, At, Terminal, rows, runs, noteHistory, uploadHistory, chatHistory,
      TypeOK, Session, Status, Run, Desk, Absent
  <2>8. (desk \in [Messages -> Desk])'
    <3>1. CASE status[desk[m].task] \in Terminal
      <4>1. desk' = [desk EXCEPT ![m] = [desk[m] EXCEPT !.pc = "continuing", !.upload = None]]
        BY <1>3, <3>1 DEF FollowUp, TypeOK
      <4>2. desk[m] \in Desk
        BY DEF TypeOK
      <4>3. [desk[m] EXCEPT !.pc = "continuing", !.upload = None] \in Desk
        BY <4>2 DEF Desk
      <4> QED
        BY <4>1, <4>3, DeskMoves
    <3>2. CASE status[desk[m].task] \notin Terminal
      <4>1. desk' = [desk EXCEPT ![m] = [desk[m] EXCEPT !.pc = "adding", !.upload = None,
                                                        !.request = request[desk[m].task]]]
        BY <1>3, <3>2 DEF FollowUp, TypeOK
      <4>2. request[desk[m].task] \in SUBSET Messages
        BY <1>3, <3>2 DEF FollowUp, TypeOK, Desk
      <4>3. desk[m] \in Desk
        BY DEF TypeOK
      <4>4. [desk[m] EXCEPT !.pc = "adding", !.upload = None,
                            !.request = request[desk[m].task]] \in Desk
        BY <4>2, <4>3 DEF Desk
      <4> QED
        BY <4>1, <4>4, DeskMoves
    <3> QED
      BY <3>1, <3>2
  <2>9. (takers \in [Uploads -> SUBSET Tasks] /\ events \in Nat)'
    BY <1>3 DEF FollowUp, At, Terminal, rows, runs, noteHistory, uploadHistory, chatHistory,
      TypeOK, Session, Status, Run, Desk, Absent
  <2>10. (told \in [Messages -> Tasks \cup {None}])'
    BY <1>3 DEF FollowUp, At, Terminal, rows, runs, noteHistory, uploadHistory, chatHistory,
      TypeOK, Session, Status, Run, Desk, Absent
  <2>11. (unread \in [Tasks -> SUBSET Messages])'
    BY <1>3 DEF FollowUp, At, Terminal, rows, runs, noteHistory, uploadHistory, chatHistory,
      TypeOK, Session, Status, Run, Desk, Absent
  <2>12. (overlapped \subseteq Messages /\ overtaken \subseteq Messages)'
    BY <1>3 DEF FollowUp, At, Terminal, rows, runs, noteHistory, uploadHistory, chatHistory,
      TypeOK, Session, Status, Run, Desk, Absent
  <2>13. (uploaded \subseteq Uploads /\ forgone \subseteq Uploads /\ shared \subseteq Uploads)'
    BY <1>3 DEF FollowUp, At, Terminal, rows, runs, noteHistory, uploadHistory, chatHistory,
      TypeOK, Session, Status, Run, Desk, Absent
  <2>14. (newest \in Tasks \cup {None})'
    BY <1>3 DEF FollowUp, At, Terminal, rows, runs, noteHistory, uploadHistory, chatHistory,
      TypeOK, Session, Status, Run, Desk, Absent
  <2>15. (parted \subseteq Tasks /\ forked \subseteq Tasks)'
    BY <1>3 DEF FollowUp, At, Terminal, rows, runs, noteHistory, uploadHistory, chatHistory,
      TypeOK, Session, Status, Run, Desk, Absent
  <2> QED
    BY <2>1, <2>2, <2>3, <2>4, <2>5, <2>6, <2>7, <2>8, <2>9, <2>10, <2>11, <2>12, <2>13, <2>14,
      <2>15 DEF TypeOK
<1>4. ASSUME NEW m \in Messages, Add(m)  PROVE TypeOK'
  BY ZenonT(60),
    <1>4, ConversationAssumption DEF Add, At, AddTo, Done, runs, uploadHistory, chatHistory,
    Appended, Overlapped, Finished, Others, Unsent, Open, TypeOK, Session, Status, Run, Desk,
    Absent, Terminal
<1>5. ASSUME NEW m \in Messages, NewTask(m)  PROVE TypeOK'
  <2>1. (session \in Session)'
    BY <1>5 DEF NewTask, At, Remaining, rows, runs, noteHistory, uploadHistory, chatHistory,
      TypeOK, Session, Status, Run, Desk, Absent, Terminal
  <2>2. (status \in [Tasks -> Status])'
    BY <1>5 DEF NewTask, At, Remaining, rows, runs, noteHistory, uploadHistory, chatHistory,
      TypeOK, Session, Status, Run, Desk, Absent, Terminal
  <2>3. (request \in [Tasks -> SUBSET Messages])'
    BY <1>5 DEF NewTask, At, Remaining, rows, runs, noteHistory, uploadHistory, chatHistory,
      TypeOK, Session, Status, Run, Desk, Absent, Terminal
  <2>4. (maker \in [Tasks -> Messages \cup {None}])'
    BY <1>5 DEF NewTask, At, Remaining, rows, runs, noteHistory, uploadHistory, chatHistory,
      TypeOK, Session, Status, Run, Desk, Absent, Terminal
  <2>5. (parent \in [Tasks -> Tasks \cup {None}])'
    BY <1>5 DEF NewTask, At, Remaining, rows, runs, noteHistory, uploadHistory, chatHistory,
      TypeOK, Session, Status, Run, Desk, Absent, Terminal
  <2>6. (run \in [Tasks -> Run])'
    BY <1>5 DEF NewTask, At, Remaining, rows, runs, noteHistory, uploadHistory, chatHistory,
      TypeOK, Session, Status, Run, Desk, Absent, Terminal
  <2>7. (seen \in [Tasks -> SUBSET Messages])'
    BY <1>5 DEF NewTask, At, Remaining, rows, runs, noteHistory, uploadHistory, chatHistory,
      TypeOK, Session, Status, Run, Desk, Absent, Terminal
  <2>8. (desk \in [Messages -> Desk])'
    <3>1. desk' = [desk EXCEPT ![m] = [desk[m] EXCEPT !.pc = "creating", !.task = None,
                                                     !.context = Remaining(m)]]
      BY <1>5 DEF NewTask, TypeOK
    <3>2. Remaining(m) \in Uploads \cup {None}
      BY DEF Remaining, TypeOK, Session
    <3>3. desk[m] \in Desk
      BY DEF TypeOK
    <3>4. [desk[m] EXCEPT !.pc = "creating", !.task = None, !.context = Remaining(m)] \in Desk
      BY <3>2, <3>3 DEF Desk
    <3> QED
      BY <3>1, <3>4, DeskMoves
  <2>9. (takers \in [Uploads -> SUBSET Tasks] /\ events \in Nat)'
    BY <1>5 DEF NewTask, At, Remaining, rows, runs, noteHistory, uploadHistory, chatHistory,
      TypeOK, Session, Status, Run, Desk, Absent, Terminal
  <2>10. (told \in [Messages -> Tasks \cup {None}])'
    BY <1>5 DEF NewTask, At, Remaining, rows, runs, noteHistory, uploadHistory, chatHistory,
      TypeOK, Session, Status, Run, Desk, Absent, Terminal
  <2>11. (unread \in [Tasks -> SUBSET Messages])'
    BY <1>5 DEF NewTask, At, Remaining, rows, runs, noteHistory, uploadHistory, chatHistory,
      TypeOK, Session, Status, Run, Desk, Absent, Terminal
  <2>12. (overlapped \subseteq Messages /\ overtaken \subseteq Messages)'
    BY <1>5 DEF NewTask, At, Remaining, rows, runs, noteHistory, uploadHistory, chatHistory,
      TypeOK, Session, Status, Run, Desk, Absent, Terminal
  <2>13. (uploaded \subseteq Uploads /\ forgone \subseteq Uploads /\ shared \subseteq Uploads)'
    BY <1>5 DEF NewTask, At, Remaining, rows, runs, noteHistory, uploadHistory, chatHistory,
      TypeOK, Session, Status, Run, Desk, Absent, Terminal
  <2>14. (newest \in Tasks \cup {None})'
    BY <1>5 DEF NewTask, At, Remaining, rows, runs, noteHistory, uploadHistory, chatHistory,
      TypeOK, Session, Status, Run, Desk, Absent, Terminal
  <2>15. (parted \subseteq Tasks /\ forked \subseteq Tasks)'
    BY <1>5 DEF NewTask, At, Remaining, rows, runs, noteHistory, uploadHistory, chatHistory,
      TypeOK, Session, Status, Run, Desk, Absent, Terminal
  <2> QED
    BY <2>1, <2>2, <2>3, <2>4, <2>5, <2>6, <2>7, <2>8, <2>9, <2>10, <2>11, <2>12, <2>13, <2>14,
      <2>15 DEF TypeOK
<1>6. ASSUME NEW m \in Messages, Resumed(m)  PROVE TypeOK'
  <2>1. (session \in Session)'
    BY <1>6 DEF Resumed, At, AddTo, Attach, Done, runs, chatHistory, Appended, Overlapped,
      Others, Finished, Open, Unsent, TypeOK, Session, Status, Run, Desk, Absent, Terminal
  <2>2. (status \in [Tasks -> Status])'
    BY <1>6 DEF Resumed, At, AddTo, Attach, Done, runs, chatHistory, Appended, Overlapped,
      Others, Finished, Open, Unsent, TypeOK, Session, Status, Run, Desk, Absent, Terminal
  <2>3. (request \in [Tasks -> SUBSET Messages])'
    BY <1>6 DEF Resumed, At, AddTo, Attach, Done, runs, chatHistory, Appended, Overlapped,
      Others, Finished, Open, Unsent, TypeOK, Session, Status, Run, Desk, Absent, Terminal
  <2>4. (maker \in [Tasks -> Messages \cup {None}])'
    BY <1>6 DEF Resumed, At, AddTo, Attach, Done, runs, chatHistory, Appended, Overlapped,
      Others, Finished, Open, Unsent, TypeOK, Session, Status, Run, Desk, Absent, Terminal
  <2>5. (parent \in [Tasks -> Tasks \cup {None}])'
    BY <1>6 DEF Resumed, At, AddTo, Attach, Done, runs, chatHistory, Appended, Overlapped,
      Others, Finished, Open, Unsent, TypeOK, Session, Status, Run, Desk, Absent, Terminal
  <2>6. (run \in [Tasks -> Run])'
    BY <1>6 DEF Resumed, At, AddTo, Attach, Done, runs, chatHistory, Appended, Overlapped,
      Others, Finished, Open, Unsent, TypeOK, Session, Status, Run, Desk, Absent, Terminal
  <2>7. (seen \in [Tasks -> SUBSET Messages])'
    BY <1>6 DEF Resumed, At, AddTo, Attach, Done, runs, chatHistory, Appended, Overlapped,
      Others, Finished, Open, Unsent, TypeOK, Session, Status, Run, Desk, Absent, Terminal
  <2>8. (desk \in [Messages -> Desk])'
    BY <1>6, ConversationAssumption DEF Resumed, At, AddTo, Attach, Done, runs, chatHistory,
      Appended, Overlapped, Others, Finished, Open, Unsent, TypeOK, Session, Status, Run, Desk,
      Absent, Terminal
  <2>9. (takers \in [Uploads -> SUBSET Tasks] /\ events \in Nat)'
    <3>1. desk[m].task \in Tasks
      BY <1>6 DEF Resumed, At, Shape, TypeOK, Desk
    <3>2. events' = events
      BY <1>6 DEF Resumed
    <3> QED
      BY <1>6, <3>1, <3>2 DEF Resumed, Attach, TypeOK
  <2>10. (told \in [Messages -> Tasks \cup {None}])'
    BY <1>6 DEF Resumed, At, AddTo, Attach, Done, runs, chatHistory, Appended, Overlapped,
      Others, Finished, Open, Unsent, TypeOK, Session, Status, Run, Desk, Absent, Terminal
  <2>11. (unread \in [Tasks -> SUBSET Messages])'
    BY <1>6 DEF Resumed, At, AddTo, Attach, Done, runs, chatHistory, Appended, Overlapped,
      Others, Finished, Open, Unsent, TypeOK, Session, Status, Run, Desk, Absent, Terminal
  <2>12. (overlapped \subseteq Messages /\ overtaken \subseteq Messages)'
    BY <1>6 DEF Resumed, At, AddTo, Attach, Done, runs, chatHistory, Appended, Overlapped,
      Others, Finished, Open, Unsent, TypeOK, Session, Status, Run, Desk, Absent, Terminal
  <2>13. (uploaded \subseteq Uploads /\ forgone \subseteq Uploads /\ shared \subseteq Uploads)'
    BY <1>6 DEF Resumed, At, AddTo, Attach, Done, runs, chatHistory, Appended, Overlapped,
      Others, Finished, Open, Unsent, TypeOK, Session, Status, Run, Desk, Absent, Terminal
  <2>14. (newest \in Tasks \cup {None})'
    BY <1>6 DEF Resumed, At, AddTo, Attach, Done, runs, chatHistory, Appended, Overlapped,
      Others, Finished, Open, Unsent, TypeOK, Session, Status, Run, Desk, Absent, Terminal
  <2>15. (parted \subseteq Tasks /\ forked \subseteq Tasks)'
    BY <1>6 DEF Resumed, At, AddTo, Attach, Done, runs, chatHistory, Appended, Overlapped,
      Others, Finished, Open, Unsent, TypeOK, Session, Status, Run, Desk, Absent, Terminal
  <2> QED
    BY <2>1, <2>2, <2>3, <2>4, <2>5, <2>6, <2>7, <2>8, <2>9, <2>10, <2>11, <2>12, <2>13, <2>14,
      <2>15 DEF TypeOK
<1>7. ASSUME NEW m \in Messages, CutOff(m)  PROVE TypeOK'
  BY SMTT(60), <1>7, ConversationAssumption DEF CutOff, Event, Open, Done, rows, runs, noteHistory,
    uploadHistory, chatHistory, Finished, Unsent, TypeOK, Session, Status, Run, Desk, Absent,
    Terminal
<1>8. ASSUME NEW m \in Messages, NEW t \in Tasks, Continue(m, t)  PROVE TypeOK'
  <2>1. (session \in Session)'
    BY <1>8 DEF Continue, At, Make, Origin, Others, Absent, Finished, runs, noteHistory, Open,
      Unsent, TypeOK, Session, Status, Run, Desk, Terminal
  <2>2. (status \in [Tasks -> Status])'
    BY <1>8 DEF Continue, At, Make, Origin, Others, Absent, Finished, runs, noteHistory, Open,
      Unsent, TypeOK, Session, Status, Run, Desk, Terminal
  <2>3. (request \in [Tasks -> SUBSET Messages])'
    BY <1>8 DEF Continue, At, Make, Origin, Others, Absent, Finished, runs, noteHistory, Open,
      Unsent, TypeOK, Session, Status, Run, Desk, Terminal
  <2>4. (maker \in [Tasks -> Messages \cup {None}])'
    BY <1>8 DEF Continue, At, Make, Origin, Others, Absent, Finished, runs, noteHistory, Open,
      Unsent, TypeOK, Session, Status, Run, Desk, Terminal
  <2>5. (parent \in [Tasks -> Tasks \cup {None}])'
    BY <1>8 DEF Continue, At, Make, Origin, Others, Absent, Finished, runs, noteHistory, Open,
      Unsent, TypeOK, Session, Status, Run, Desk, Terminal
  <2>6. (run \in [Tasks -> Run])'
    BY <1>8 DEF Continue, At, Make, Origin, Others, Absent, Finished, runs, noteHistory, Open,
      Unsent, TypeOK, Session, Status, Run, Desk, Terminal
  <2>7. (seen \in [Tasks -> SUBSET Messages])'
    BY <1>8 DEF Continue, At, Make, Origin, Others, Absent, Finished, runs, noteHistory, Open,
      Unsent, TypeOK, Session, Status, Run, Desk, Terminal
  <2>8. (desk \in [Messages -> Desk])'
    BY <1>8 DEF Continue, At, Make, Origin, Others, Absent, Finished, runs, noteHistory, Open,
      Unsent, TypeOK, Session, Status, Run, Desk, Terminal
  <2>9. (takers \in [Uploads -> SUBSET Tasks] /\ events \in Nat)'
    BY <1>8 DEF Continue, At, Make, Origin, Others, Absent, Finished, runs, noteHistory, Open,
      Unsent, TypeOK, Session, Status, Run, Desk, Terminal
  <2>10. (told \in [Messages -> Tasks \cup {None}])'
    BY <1>8 DEF Continue, At, Make, Origin, Others, Absent, Finished, runs, noteHistory, Open,
      Unsent, TypeOK, Session, Status, Run, Desk, Terminal
  <2>11. (unread \in [Tasks -> SUBSET Messages])'
    BY <1>8 DEF Continue, At, Make, Origin, Others, Absent, Finished, runs, noteHistory, Open,
      Unsent, TypeOK, Session, Status, Run, Desk, Terminal
  <2>12. (overlapped \subseteq Messages /\ overtaken \subseteq Messages)'
    BY <1>8 DEF Continue, At, Make, Origin, Others, Absent, Finished, runs, noteHistory, Open,
      Unsent, TypeOK, Session, Status, Run, Desk, Terminal
  <2>13. (uploaded \subseteq Uploads /\ forgone \subseteq Uploads /\ shared \subseteq Uploads)'
    BY <1>8 DEF Continue, At, Make, Origin, Others, Absent, Finished, runs, noteHistory, Open,
      Unsent, TypeOK, Session, Status, Run, Desk, Terminal
  <2>14. (newest \in Tasks \cup {None})'
    BY <1>8 DEF Continue, At, Make, Origin, Others, Absent, Finished, runs, noteHistory, Open,
      Unsent, TypeOK, Session, Status, Run, Desk, Terminal
  <2>15. (parted \subseteq Tasks /\ forked \subseteq Tasks)'
    <3>1. desk[m].task \in Tasks
      BY <1>8 DEF Continue, At, Shape, TypeOK, Desk
    <3> QED
      BY <1>8, <3>1 DEF Continue, Make, TypeOK
  <2> QED
    BY <2>1, <2>2, <2>3, <2>4, <2>5, <2>6, <2>7, <2>8, <2>9, <2>10, <2>11, <2>12, <2>13, <2>14,
      <2>15 DEF TypeOK
<1>9. ASSUME NEW m \in Messages, NEW t \in Tasks, Create(m, t)  PROVE TypeOK'
  <2>1. session' \in Session /\ takers' \in [Uploads -> SUBSET Tasks]
    BY <1>9 DEF Create, Attach, TypeOK, Session, Desk
  <2>2. shared' \subseteq Uploads
    BY <1>9 DEF Create, Attach, TypeOK, Desk
  <2>3. /\ status' \in [Tasks -> Status] /\ request' \in [Tasks -> SUBSET Messages]
        /\ maker' \in [Tasks -> Messages \cup {None}]
    BY <1>9 DEF Create, Make, TypeOK, Status
  <2>4. parent' \in [Tasks -> Tasks \cup {None}]
    BY <1>9 DEF Create, Make, TypeOK
  <2>5. desk' \in [Messages -> Desk]
    <3>1. desk' = [desk EXCEPT ![m] = [Finished EXCEPT !.thread = desk[m].thread]]
      BY <1>9 DEF Create, Make
    <3>2. [Finished EXCEPT !.thread = desk[m].thread] \in Desk
      BY DEF Finished, Unsent, Desk, TypeOK
    <3> QED
      BY <3>1, <3>2, DeskMoves
  <2> QED
    BY <1>9, <2>1, <2>2, <2>3, <2>4, <2>5 DEF Create, Make, runs, noteHistory, TypeOK
<1>10. ASSUME NEW m \in Messages, NEW t \in Tasks, Reply(m, t)  PROVE TypeOK'
  BY <1>10, ConversationAssumption DEF Reply, At, Absent, Unsent, rows, runs, noteHistory,
    uploadHistory, chatHistory, TypeOK, Session, Status, Run, Desk, Terminal
<1>11. ASSUME NEW t \in Tasks, Take(t)  PROVE TypeOK'
  BY SMTT(60),
    <1>11, ConversationAssumption DEF Take, InRun, Becomes, runOnly, uploadHistory, TypeOK,
    Session, Status, Run, Desk, Absent, Terminal
<1>12. ASSUME NEW t \in Tasks, Read(t)  PROVE TypeOK'
  <2>1. (session \in Session)'
    BY <1>12 DEF Read, InRun, Terminal, ReadAgain, Becomes, Goto, runOnly, uploadHistory,
      TypeOK, Session, Status, Run, Desk, Absent
  <2>2. (status \in [Tasks -> Status])'
    BY <1>12 DEF Read, InRun, Terminal, ReadAgain, Becomes, Goto, runOnly, uploadHistory,
      TypeOK, Session, Status, Run, Desk, Absent
  <2>3. (request \in [Tasks -> SUBSET Messages])'
    BY <1>12 DEF Read, InRun, Terminal, ReadAgain, Becomes, Goto, runOnly, uploadHistory,
      TypeOK, Session, Status, Run, Desk, Absent
  <2>4. (maker \in [Tasks -> Messages \cup {None}])'
    BY <1>12 DEF Read, InRun, Terminal, ReadAgain, Becomes, Goto, runOnly, uploadHistory,
      TypeOK, Session, Status, Run, Desk, Absent
  <2>5. (parent \in [Tasks -> Tasks \cup {None}])'
    BY <1>12 DEF Read, InRun, Terminal, ReadAgain, Becomes, Goto, runOnly, uploadHistory,
      TypeOK, Session, Status, Run, Desk, Absent
  <2>6. (run \in [Tasks -> Run])'
    BY <1>12 DEF Read, Goto, TypeOK, Run
  <2>7. (seen \in [Tasks -> SUBSET Messages])'
    BY <1>12 DEF Read, InRun, Terminal, ReadAgain, Becomes, Goto, runOnly, uploadHistory,
      TypeOK, Session, Status, Run, Desk, Absent
  <2>8. (desk \in [Messages -> Desk])'
    BY <1>12 DEF Read, InRun, Terminal, ReadAgain, Becomes, Goto, runOnly, uploadHistory,
      TypeOK, Session, Status, Run, Desk, Absent
  <2>9. (takers \in [Uploads -> SUBSET Tasks] /\ events \in Nat)'
    BY <1>12 DEF Read, InRun, Terminal, ReadAgain, Becomes, Goto, runOnly, uploadHistory,
      TypeOK, Session, Status, Run, Desk, Absent
  <2>10. (told \in [Messages -> Tasks \cup {None}])'
    BY <1>12 DEF Read, InRun, Terminal, ReadAgain, Becomes, Goto, runOnly, uploadHistory,
      TypeOK, Session, Status, Run, Desk, Absent
  <2>11. (unread \in [Tasks -> SUBSET Messages])'
    BY <1>12 DEF Read, InRun, Terminal, ReadAgain, Becomes, Goto, runOnly, uploadHistory,
      TypeOK, Session, Status, Run, Desk, Absent
  <2>12. (overlapped \subseteq Messages /\ overtaken \subseteq Messages)'
    BY <1>12 DEF Read, InRun, Terminal, ReadAgain, Becomes, Goto, runOnly, uploadHistory,
      TypeOK, Session, Status, Run, Desk, Absent
  <2>13. (uploaded \subseteq Uploads /\ forgone \subseteq Uploads /\ shared \subseteq Uploads)'
    BY <1>12 DEF Read, InRun, Terminal, ReadAgain, Becomes, Goto, runOnly, uploadHistory,
      TypeOK, Session, Status, Run, Desk, Absent
  <2>14. (newest \in Tasks \cup {None})'
    BY <1>12 DEF Read, InRun, Terminal, ReadAgain, Becomes, Goto, runOnly, uploadHistory,
      TypeOK, Session, Status, Run, Desk, Absent
  <2>15. (parted \subseteq Tasks /\ forked \subseteq Tasks)'
    BY <1>12 DEF Read, InRun, Terminal, ReadAgain, Becomes, Goto, runOnly, uploadHistory,
      TypeOK, Session, Status, Run, Desk, Absent
  <2> QED
    BY <2>1, <2>2, <2>3, <2>4, <2>5, <2>6, <2>7, <2>8, <2>9, <2>10, <2>11, <2>12, <2>13, <2>14,
      <2>15 DEF TypeOK
<1>13. ASSUME NEW t \in Tasks, FindTerminal(t)  PROVE TypeOK'
  BY <1>13 DEF FindTerminal, InRun, Terminal, EndRun, runOnly, NoRun, uploadHistory, TypeOK,
    Session, Status, Run, Desk, Absent
<1>14. ASSUME NEW t \in Tasks, NextStep(t)  PROVE TypeOK'
  BY SMTT(60),
    <1>14 DEF NextStep, InRun, Goto, runOnly, uploadHistory, TypeOK, Session, Status, Run,
    Desk, Absent, Terminal
<1>15. ASSUME NEW t \in Tasks, Wait(t)  PROVE TypeOK'
  BY <1>15 DEF Wait, InRun, Becomes, EndRun, runOnly, NoRun, uploadHistory, TypeOK, Session,
    Status, Run, Desk, Absent, Terminal
<1>16. ASSUME NEW t \in Tasks, Ended(t)  PROVE TypeOK'
  <2>1. (session \in Session)'
    BY <1>16 DEF Ended, InRun, Becomes, Releases, NoRun, runOnly, uploadHistory, TypeOK,
      Session, Status, Run, Desk, Absent, Terminal
  <2>2. (status \in [Tasks -> Status])'
    <3>1. run[t].outcome \in Status
      BY <1>16 DEF Ended, InRun, Shape, TypeOK, Run, Status, Terminal
    <3> QED
      BY <1>16, <3>1 DEF Ended, Becomes, TypeOK
  <2>3. (request \in [Tasks -> SUBSET Messages])'
    BY <1>16 DEF Ended, InRun, Becomes, Releases, NoRun, runOnly, uploadHistory, TypeOK,
      Session, Status, Run, Desk, Absent, Terminal
  <2>4. (maker \in [Tasks -> Messages \cup {None}])'
    BY <1>16 DEF Ended, InRun, Becomes, Releases, NoRun, runOnly, uploadHistory, TypeOK,
      Session, Status, Run, Desk, Absent, Terminal
  <2>5. (parent \in [Tasks -> Tasks \cup {None}])'
    BY <1>16 DEF Ended, InRun, Becomes, Releases, NoRun, runOnly, uploadHistory, TypeOK,
      Session, Status, Run, Desk, Absent, Terminal
  <2>6. (run \in [Tasks -> Run])'
    BY <1>16 DEF Ended, InRun, Becomes, Releases, NoRun, runOnly, uploadHistory, TypeOK,
      Session, Status, Run, Desk, Absent, Terminal
  <2>7. (seen \in [Tasks -> SUBSET Messages])'
    BY <1>16 DEF Ended, InRun, Becomes, Releases, NoRun, runOnly, uploadHistory, TypeOK,
      Session, Status, Run, Desk, Absent, Terminal
  <2>8. (desk \in [Messages -> Desk])'
    BY <1>16 DEF Ended, InRun, Becomes, Releases, NoRun, runOnly, uploadHistory, TypeOK,
      Session, Status, Run, Desk, Absent, Terminal
  <2>9. (takers \in [Uploads -> SUBSET Tasks] /\ events \in Nat)'
    BY <1>16 DEF Ended, InRun, Becomes, Releases, NoRun, runOnly, uploadHistory, TypeOK,
      Session, Status, Run, Desk, Absent, Terminal
  <2>10. (told \in [Messages -> Tasks \cup {None}])'
    BY <1>16 DEF Ended, InRun, Becomes, Releases, NoRun, runOnly, uploadHistory, TypeOK,
      Session, Status, Run, Desk, Absent, Terminal
  <2>11. (unread \in [Tasks -> SUBSET Messages])'
    BY <1>16 DEF Ended, InRun, Becomes, Releases, NoRun, runOnly, uploadHistory, TypeOK,
      Session, Status, Run, Desk, Absent, Terminal
  <2>12. (overlapped \subseteq Messages /\ overtaken \subseteq Messages)'
    BY <1>16 DEF Ended, InRun, Becomes, Releases, NoRun, runOnly, uploadHistory, TypeOK,
      Session, Status, Run, Desk, Absent, Terminal
  <2>13. (uploaded \subseteq Uploads /\ forgone \subseteq Uploads /\ shared \subseteq Uploads)'
    BY <1>16 DEF Ended, InRun, Becomes, Releases, NoRun, runOnly, uploadHistory, TypeOK,
      Session, Status, Run, Desk, Absent, Terminal
  <2>14. (newest \in Tasks \cup {None})'
    BY <1>16 DEF Ended, InRun, Becomes, Releases, NoRun, runOnly, uploadHistory, TypeOK,
      Session, Status, Run, Desk, Absent, Terminal
  <2>15. (parted \subseteq Tasks /\ forked \subseteq Tasks)'
    BY <1>16 DEF Ended, InRun, Becomes, Releases, NoRun, runOnly, uploadHistory, TypeOK,
      Session, Status, Run, Desk, Absent, Terminal
  <2> QED
    BY <2>1, <2>2, <2>3, <2>4, <2>5, <2>6, <2>7, <2>8, <2>9, <2>10, <2>11, <2>12, <2>13, <2>14,
      <2>15 DEF TypeOK
<1>17. ASSUME NEW t \in Tasks, Requeue(t)  PROVE TypeOK'
  BY <1>17 DEF Requeue, Event, InRun, Becomes, EndRun, runOnly, NoRun, uploadHistory, TypeOK,
    Session, Status, Run, Desk, Absent, Terminal
<1>18. ASSUME NEW t \in Tasks, TimeLimit(t)  PROVE TypeOK'
  BY <1>18 DEF TimeLimit, Event, InRun, Becomes, EndRun, runOnly, NoRun, uploadHistory, TypeOK,
    Session, Status, Run, Desk, Absent, Terminal
<1>19. ASSUME NEW t \in Tasks, Cancel(t)  PROVE TypeOK'
  BY <1>19 DEF Cancel, Event, Terminal, Absent, Becomes, runOnly, runs, uploadHistory, TypeOK,
    Session, Status, Run, Desk
<1>20. ASSUME NEW t \in Tasks, Resume(t)  PROVE TypeOK'
  BY <1>20 DEF Resume, Event, Becomes, runOnly, runs, uploadHistory, TypeOK, Session, Status,
    Run, Desk, Absent, Terminal
<1>21. ASSUME NEW t \in Tasks, NEW outcome \in {"COMPLETED", "FAILED"}, End(t, outcome)  PROVE TypeOK'
  BY <1>21 DEF End, InRun, runOnly, uploadHistory, TypeOK, Session, Status, Run, Desk, Absent,
    Terminal
<1>22. ASSUME NEW u \in Uploads, Upload(u)  PROVE TypeOK'
  <2>1. (session \in Session)'
    BY <1>22 DEF Upload, Event, Open, At, rows, runs, noteHistory, chatHistory, TypeOK,
      Session, Status, Run, Desk, Absent, Terminal
  <2>2. (status \in [Tasks -> Status])'
    BY <1>22 DEF Upload, Event, Open, At, rows, runs, noteHistory, chatHistory, TypeOK,
      Session, Status, Run, Desk, Absent, Terminal
  <2>3. (request \in [Tasks -> SUBSET Messages])'
    BY <1>22 DEF Upload, Event, Open, At, rows, runs, noteHistory, chatHistory, TypeOK,
      Session, Status, Run, Desk, Absent, Terminal
  <2>4. (maker \in [Tasks -> Messages \cup {None}])'
    BY <1>22 DEF Upload, Event, Open, At, rows, runs, noteHistory, chatHistory, TypeOK,
      Session, Status, Run, Desk, Absent, Terminal
  <2>5. (parent \in [Tasks -> Tasks \cup {None}])'
    BY <1>22 DEF Upload, Event, Open, At, rows, runs, noteHistory, chatHistory, TypeOK,
      Session, Status, Run, Desk, Absent, Terminal
  <2>6. (run \in [Tasks -> Run])'
    BY <1>22 DEF Upload, Event, Open, At, rows, runs, noteHistory, chatHistory, TypeOK,
      Session, Status, Run, Desk, Absent, Terminal
  <2>7. (seen \in [Tasks -> SUBSET Messages])'
    BY <1>22 DEF Upload, Event, Open, At, rows, runs, noteHistory, chatHistory, TypeOK,
      Session, Status, Run, Desk, Absent, Terminal
  <2>8. (desk \in [Messages -> Desk])'
    BY <1>22 DEF Upload, Event, Open, At, rows, runs, noteHistory, chatHistory, TypeOK,
      Session, Status, Run, Desk, Absent, Terminal
  <2>9. (takers \in [Uploads -> SUBSET Tasks] /\ events \in Nat)'
    BY <1>22 DEF Upload, Event, Open, At, rows, runs, noteHistory, chatHistory, TypeOK,
      Session, Status, Run, Desk, Absent, Terminal
  <2>10. (told \in [Messages -> Tasks \cup {None}])'
    BY <1>22 DEF Upload, Event, Open, At, rows, runs, noteHistory, chatHistory, TypeOK,
      Session, Status, Run, Desk, Absent, Terminal
  <2>11. (unread \in [Tasks -> SUBSET Messages])'
    BY <1>22 DEF Upload, Event, Open, At, rows, runs, noteHistory, chatHistory, TypeOK,
      Session, Status, Run, Desk, Absent, Terminal
  <2>12. (overlapped \subseteq Messages /\ overtaken \subseteq Messages)'
    BY <1>22 DEF Upload, Event, Open, At, rows, runs, noteHistory, chatHistory, TypeOK,
      Session, Status, Run, Desk, Absent, Terminal
  <2>13. (uploaded \subseteq Uploads /\ forgone \subseteq Uploads /\ shared \subseteq Uploads)'
    BY <1>22 DEF Upload, Event, Open, At, rows, runs, noteHistory, chatHistory, TypeOK,
      Session, Status, Run, Desk, Absent, Terminal
  <2>14. (newest \in Tasks \cup {None})'
    BY <1>22 DEF Upload, Event, Open, At, rows, runs, noteHistory, chatHistory, TypeOK,
      Session, Status, Run, Desk, Absent, Terminal
  <2>15. (parted \subseteq Tasks /\ forked \subseteq Tasks)'
    BY <1>22 DEF Upload, Event, Open, At, rows, runs, noteHistory, chatHistory, TypeOK,
      Session, Status, Run, Desk, Absent, Terminal
  <2> QED
    BY <2>1, <2>2, <2>3, <2>4, <2>5, <2>6, <2>7, <2>8, <2>9, <2>10, <2>11, <2>12, <2>13, <2>14,
      <2>15 DEF TypeOK
<1>23. ASSUME ClearUpload  PROVE TypeOK'
  BY <1>23, ConversationAssumption DEF ClearUpload, Event, rows, runs, noteHistory,
    chatHistory, TypeOK, Session, Status, Run, Desk, Absent, Terminal
<1>24. ASSUME NEW th \in Threads, ChangeThread(th)  PROVE TypeOK'
  BY <1>24 DEF ChangeThread, Event, Elsewhere, Open, rows, runs, noteHistory, TypeOK, Session,
    Status, Run, Desk, Absent, Terminal
<1> QED
  BY <1>1, <1>2, <1>3, <1>4, <1>5, <1>6, <1>7, <1>8, <1>9, <1>10, <1>11, <1>12, <1>13, <1>14,
    <1>15, <1>16, <1>17, <1>18, <1>19, <1>20, <1>21, <1>22, <1>23, <1>24 DEF Next, Handling, Running

(* A step of Next keeps Shape. *)
LEMMA ShapeStep ==
    ASSUME TypeOK, Shape, Next
    PROVE  Shape'
<1>1. ASSUME NEW m \in Messages, Snapshot(m)  PROVE Shape'
  <2>1. (\A n \in Messages : desk[n].pc \in {"adding", "continuing", "replying"} => desk[n].task # None)'
    BY <1>1 DEF Snapshot, At, Unsent, rows, runs, noteHistory, uploadHistory, chatHistory, Shape
  <2>2. (\A n \in Messages : desk[n].pc \notin {"deciding", "adding", "continuing", "replying"}
                            => desk[n].task = None)'
    BY <1>1 DEF Snapshot, At, Unsent, rows, runs, noteHistory, uploadHistory, chatHistory, Shape
  <2>3. (\A n \in Messages : desk[n].pc \notin {"deciding", "creating", "replying"}
                            => desk[n].upload = None)'
    BY <1>1 DEF Snapshot, At, Unsent, rows, runs, noteHistory, uploadHistory, chatHistory, Shape
  <2>4. (\A n \in Messages : desk[n].pc # "creating" \/ desk[n].upload # None => desk[n].context = None)'
    BY <1>1 DEF Snapshot, At, Unsent, rows, runs, noteHistory, uploadHistory, chatHistory, Shape
  <2>5. (\A s \in Tasks : run[s].pc = "ending" => run[s].outcome # "none")'
    BY <1>1 DEF Snapshot, At, Unsent, rows, runs, noteHistory, uploadHistory, chatHistory, Shape
  <2> QED
    BY <2>1, <2>2, <2>3, <2>4, <2>5 DEF Shape
<1>2. ASSUME NEW m \in Messages, Answer(m)  PROVE Shape'
  BY <1>2 DEF Answer, At, Done, rows, runs, noteHistory, uploadHistory, chatHistory, Finished,
    Unsent, Shape
<1>3. ASSUME NEW m \in Messages, FollowUp(m)  PROVE Shape'
  <2>1. (\A n \in Messages : desk[n].pc \in {"adding", "continuing", "replying"} => desk[n].task # None)'
    BY <1>3 DEF FollowUp, At, Terminal, rows, runs, noteHistory, uploadHistory, chatHistory,
      Shape
  <2>2. (\A n \in Messages : desk[n].pc \notin {"deciding", "adding", "continuing", "replying"}
                            => desk[n].task = None)'
    BY <1>3 DEF FollowUp, At, Terminal, rows, runs, noteHistory, uploadHistory, chatHistory,
      Shape
  <2>3. (\A n \in Messages : desk[n].pc \notin {"deciding", "creating", "replying"}
                            => desk[n].upload = None)'
    BY <1>3 DEF FollowUp, At, Terminal, rows, runs, noteHistory, uploadHistory, chatHistory,
      Shape
  <2>4. (\A n \in Messages : desk[n].pc # "creating" \/ desk[n].upload # None => desk[n].context = None)'
    BY <1>3 DEF FollowUp, At, Terminal, rows, runs, noteHistory, uploadHistory, chatHistory,
      Shape
  <2>5. (\A s \in Tasks : run[s].pc = "ending" => run[s].outcome # "none")'
    BY <1>3 DEF FollowUp, At, Terminal, rows, runs, noteHistory, uploadHistory, chatHistory,
      Shape
  <2> QED
    BY <2>1, <2>2, <2>3, <2>4, <2>5 DEF Shape
<1>4. ASSUME NEW m \in Messages, Add(m)  PROVE Shape'
  BY <1>4 DEF Add, At, AddTo, Done, runs, uploadHistory, chatHistory, Appended, Overlapped,
    Finished, Others, Unsent, Open, Shape
<1>5. ASSUME NEW m \in Messages, NewTask(m)  PROVE Shape'
  <2>1. (\A n \in Messages : desk[n].pc \in {"adding", "continuing", "replying"} => desk[n].task # None)'
    BY <1>5 DEF NewTask, At, Remaining, rows, runs, noteHistory, uploadHistory, chatHistory,
      Shape, TypeOK, Session, Status, Run, Desk, Absent, Terminal
  <2>2. (\A n \in Messages : desk[n].pc \notin {"deciding", "adding", "continuing", "replying"}
                            => desk[n].task = None)'
    BY <1>5 DEF NewTask, At, Remaining, rows, runs, noteHistory, uploadHistory, chatHistory,
      Shape, TypeOK, Session, Status, Run, Desk, Absent, Terminal
  <2>3. (\A n \in Messages : desk[n].pc \notin {"deciding", "creating", "replying"}
                            => desk[n].upload = None)'
    BY <1>5 DEF NewTask, At, Remaining, rows, runs, noteHistory, uploadHistory, chatHistory,
      Shape, TypeOK, Session, Status, Run, Desk, Absent, Terminal
  <2>4. (\A n \in Messages : desk[n].pc # "creating" \/ desk[n].upload # None => desk[n].context = None)'
    BY <1>5 DEF NewTask, At, Remaining, rows, runs, noteHistory, uploadHistory, chatHistory,
      Shape, TypeOK, Session, Status, Run, Desk, Absent, Terminal
  <2>5. (\A s \in Tasks : run[s].pc = "ending" => run[s].outcome # "none")'
    BY <1>5 DEF NewTask, At, Remaining, rows, runs, noteHistory, uploadHistory, chatHistory,
      Shape
  <2> QED
    BY <2>1, <2>2, <2>3, <2>4, <2>5 DEF Shape
<1>6. ASSUME NEW m \in Messages, Resumed(m)  PROVE Shape'
  <2>1. (\A n \in Messages : desk[n].pc \in {"adding", "continuing", "replying"} => desk[n].task # None)'
    BY <1>6 DEF Resumed, At, AddTo, Attach, Done, runs, chatHistory, Appended, Overlapped,
      Others, Finished, Open, Unsent, Shape
  <2>2. (\A n \in Messages : desk[n].pc \notin {"deciding", "adding", "continuing", "replying"}
                            => desk[n].task = None)'
    BY <1>6 DEF Resumed, At, AddTo, Attach, Done, runs, chatHistory, Appended, Overlapped,
      Others, Finished, Open, Unsent, Shape
  <2>3. (\A n \in Messages : desk[n].pc \notin {"deciding", "creating", "replying"}
                            => desk[n].upload = None)'
    BY <1>6 DEF Resumed, At, AddTo, Attach, Done, runs, chatHistory, Appended, Overlapped,
      Others, Finished, Open, Unsent, Shape
  <2>4. (\A n \in Messages : desk[n].pc # "creating" \/ desk[n].upload # None => desk[n].context = None)'
    BY <1>6 DEF Resumed, At, AddTo, Attach, Done, runs, chatHistory, Appended, Overlapped,
      Others, Finished, Open, Unsent, Shape
  <2>5. (\A s \in Tasks : run[s].pc = "ending" => run[s].outcome # "none")'
    BY <1>6 DEF Resumed, At, AddTo, Attach, Done, runs, chatHistory, Appended, Overlapped,
      Others, Finished, Open, Unsent, Shape
  <2> QED
    BY <2>1, <2>2, <2>3, <2>4, <2>5 DEF Shape
<1>7. ASSUME NEW m \in Messages, CutOff(m)  PROVE Shape'
  BY <1>7 DEF CutOff, Event, Open, Done, rows, runs, noteHistory, uploadHistory, chatHistory,
    Finished, Unsent, Shape
<1>8. ASSUME NEW m \in Messages, NEW t \in Tasks, Continue(m, t)  PROVE Shape'
  <2>1. (\A n \in Messages : desk[n].pc \in {"adding", "continuing", "replying"} => desk[n].task # None)'
    BY <1>8 DEF Continue, At, Make, Origin, Others, Absent, Finished, runs, noteHistory, Open,
      Unsent, Shape
  <2>2. (\A n \in Messages : desk[n].pc \notin {"deciding", "adding", "continuing", "replying"}
                            => desk[n].task = None)'
    BY <1>8 DEF Continue, At, Make, Origin, Others, Absent, Finished, runs, noteHistory, Open,
      Unsent, Shape
  <2>3. (\A n \in Messages : desk[n].pc \notin {"deciding", "creating", "replying"}
                            => desk[n].upload = None)'
    BY <1>8 DEF Continue, At, Make, Origin, Others, Absent, Finished, runs, noteHistory, Open,
      Unsent, Shape
  <2>4. (\A n \in Messages : desk[n].pc # "creating" \/ desk[n].upload # None => desk[n].context = None)'
    BY <1>8 DEF Continue, At, Make, Origin, Others, Absent, Finished, runs, noteHistory, Open,
      Unsent, Shape
  <2>5. (\A s \in Tasks : run[s].pc = "ending" => run[s].outcome # "none")'
    BY <1>8 DEF Continue, At, Make, Origin, Others, Absent, Finished, runs, noteHistory, Open,
      Unsent, Shape
  <2> QED
    BY <2>1, <2>2, <2>3, <2>4, <2>5 DEF Shape
<1>9. ASSUME NEW m \in Messages, NEW t \in Tasks, Create(m, t)  PROVE Shape'
  <2>1. (\A n \in Messages : desk[n].pc \in {"adding", "continuing", "replying"} => desk[n].task # None)'
    BY <1>9 DEF Create, At, Make, Attach, Absent, Finished, runs, noteHistory, Others, Unsent,
      Open, Shape
  <2>2. (\A n \in Messages : desk[n].pc \notin {"deciding", "adding", "continuing", "replying"}
                            => desk[n].task = None)'
    BY <1>9 DEF Create, At, Make, Attach, Absent, Finished, runs, noteHistory, Others, Unsent,
      Open, Shape
  <2>3. (\A n \in Messages : desk[n].pc \notin {"deciding", "creating", "replying"}
                            => desk[n].upload = None)'
    BY <1>9 DEF Create, At, Make, Attach, Absent, Finished, runs, noteHistory, Others, Unsent,
      Open, Shape
  <2>4. (\A n \in Messages : desk[n].pc # "creating" \/ desk[n].upload # None => desk[n].context = None)'
    BY <1>9 DEF Create, At, Make, Attach, Absent, Finished, runs, noteHistory, Others, Unsent,
      Open, Shape
  <2>5. (\A s \in Tasks : run[s].pc = "ending" => run[s].outcome # "none")'
    BY <1>9 DEF Create, At, Make, Attach, Absent, Finished, runs, noteHistory, Others, Unsent,
      Open, Shape
  <2> QED
    BY <2>1, <2>2, <2>3, <2>4, <2>5 DEF Shape
<1>10. ASSUME NEW m \in Messages, NEW t \in Tasks, Reply(m, t)  PROVE Shape'
  BY <1>10, ConversationAssumption DEF Reply, At, Absent, Unsent, rows, runs, noteHistory,
    uploadHistory, chatHistory, Shape
<1>11. ASSUME NEW t \in Tasks, Take(t)  PROVE Shape'
  BY <1>11 DEF Take, InRun, Becomes, runOnly, uploadHistory, Shape
<1>12. ASSUME NEW t \in Tasks, Read(t)  PROVE Shape'
  BY <1>12 DEF Read, InRun, Terminal, ReadAgain, Becomes, Goto, runOnly, uploadHistory, Shape
<1>13. ASSUME NEW t \in Tasks, FindTerminal(t)  PROVE Shape'
  BY <1>13 DEF FindTerminal, InRun, Terminal, EndRun, runOnly, NoRun, uploadHistory, Shape
<1>14. ASSUME NEW t \in Tasks, NextStep(t)  PROVE Shape'
  BY <1>14 DEF NextStep, InRun, Goto, runOnly, uploadHistory, Shape
<1>15. ASSUME NEW t \in Tasks, Wait(t)  PROVE Shape'
  BY <1>15 DEF Wait, InRun, Becomes, EndRun, runOnly, NoRun, uploadHistory, Shape
<1>16. ASSUME NEW t \in Tasks, Ended(t)  PROVE Shape'
  BY <1>16 DEF Ended, InRun, Becomes, Releases, NoRun, runOnly, uploadHistory, Shape
<1>17. ASSUME NEW t \in Tasks, Requeue(t)  PROVE Shape'
  BY <1>17 DEF Requeue, Event, InRun, Becomes, EndRun, runOnly, NoRun, uploadHistory, Shape
<1>18. ASSUME NEW t \in Tasks, TimeLimit(t)  PROVE Shape'
  BY <1>18 DEF TimeLimit, Event, InRun, Becomes, EndRun, runOnly, NoRun, uploadHistory, Shape
<1>21. ASSUME NEW t \in Tasks, NEW outcome \in {"COMPLETED", "FAILED"}, End(t, outcome)  PROVE Shape'
  BY <1>21 DEF End, InRun, runOnly, uploadHistory, Shape
<1>25. ASSUME NEW t \in Tasks,
           \/ Cancel(t)
           \/ Resume(t)
      PROVE  Shape'
  BY <1>25 DEF Cancel, Resume, Event, Becomes, runOnly, runs, uploadHistory, Shape
<1>26. ASSUME NEW u \in Uploads,
           Upload(u)
      PROVE  Shape'
  BY <1>26 DEF Upload, Event, Open, At, rows, runs, noteHistory, chatHistory, Shape
<1>27. ASSUME
           ClearUpload
      PROVE  Shape'
  BY <1>27 DEF ClearUpload, Event, rows, runs, noteHistory, chatHistory, Shape
<1>28. ASSUME NEW th \in Threads,
           ChangeThread(th)
      PROVE  Shape'
  BY <1>28 DEF ChangeThread, Event, Elsewhere, Open, rows, runs, noteHistory, Shape
<1> QED
  BY <1>1, <1>2, <1>3, <1>4, <1>5, <1>6, <1>7, <1>8, <1>9, <1>10, <1>11, <1>12, <1>13, <1>14,
    <1>15, <1>16, <1>17, <1>18, <1>21, <1>25, <1>26, <1>27, <1>28 DEF Next, Handling, Running

(* Whatever names a task names one that exists.                             *)
Known ==
    /\ session.active # None => status[session.active] # Absent
    /\ \A n \in Messages : desk[n].task # None => status[desk[n].task] # Absent
    /\ \A n \in Messages : told[n] # None => status[told[n]] # Absent
    /\ \A s \in Tasks : parent[s] # None => status[parent[s]] # Absent /\ status[s] # Absent
    /\ \A s \in Tasks : run[s].pc # "none" => status[s] # Absent
    /\ \A s \in Tasks : status[s] # Absent => maker[s] # None /\ desk[maker[s]].pc = "done"

(* A message that was added is in the request, and in whatever will be      *)
(* written over it.                                                         *)
Kept ==
    \A n \in Messages : told[n] # None /\ n \notin overlapped =>
        /\ n \in request[told[n]]
        /\ \A k \in Messages :
              desk[k].pc \in {"adding", "replying"} /\ desk[k].task = told[n] => n \in desk[k].request

(* A run has read what was added before its last look at the request.       *)
Heard ==
    /\ \A n \in Messages, s \in Tasks :
          /\ told[n] = s /\ n \notin overlapped /\ n \notin unread[s]
          /\ \/ run[s].pc = "deciding" \/ status[s] = "COMPLETED"
             \/ run[s].pc = "ending" /\ run[s].outcome = "COMPLETED"
          => n \in seen[s]
    /\ \A s \in Tasks : status[s] = "COMPLETED" => run[s].pc = "none"

(* An upload that waits is what every message in progress has seen, or seen *)
(* missing.                                                                 *)
Waiting ==
    \A v \in uploaded : v \notin forgone /\ takers[v] = {} =>
        /\ session.upload = v
        /\ \A n \in Messages : desk[n].upload \in {None, v}
        /\ \A n \in Messages : desk[n].pc = "creating" /\ desk[n].upload = None => desk[n].context = v

(* An upload that one message has taken is nowhere else.                    *)
Single ==
    /\ \A v \in Uploads : takers[v] # {} /\ v \notin shared =>
          /\ \A s1, s2 \in takers[v] : s1 = s2
          /\ session.upload # v
          /\ \A n \in Messages : desk[n].upload # v /\ desk[n].context # v
    /\ \A v \in Uploads : takers[v] # {} => v \in uploaded
    /\ session.upload # None => session.upload \in uploaded
    /\ \A n \in Messages : desk[n].upload # None => desk[n].upload \in uploaded
    /\ \A n \in Messages : desk[n].context # None => desk[n].context \in uploaded

(* The thread of a message in progress is the chat's, or it was overtaken.  *)
InThread ==
    /\ session.active # None => \/ desk[maker[session.active]].thread = session.thread
                                \/ maker[session.active] \in overtaken
    /\ \A n \in Messages : desk[n].pc \in {"deciding", "continuing", "creating"} =>
          desk[n].thread = session.thread \/ n \in overtaken

(* No run is about to release the task that the chat follows, but its own.  *)
Followed ==
    newest # None /\ newest \notin parted =>
        /\ session.active = newest
        /\ \A s \in Tasks : run[s].pc = "ending" /\ run[s].active => s = newest

(* Nothing is about to continue a task that has been continued.             *)
Once ==
    /\ \A s \in Tasks : parent[s] # None /\ parent[s] \notin forked =>
          /\ session.active # parent[s]
          /\ \A n \in Messages : desk[n].task = parent[s] => desk[n].pc \notin {"deciding", "continuing"}
    /\ \A s1, s2 \in Tasks :
          parent[s1] = parent[s2] /\ parent[s1] # None => s1 = s2 \/ parent[s1] \in forked

(* A step of Next keeps Known. *)
LEMMA KnownStep ==
    ASSUME TypeOK, Shape, Known, Next
    PROVE  Known'
<1>1. ASSUME NEW m \in Messages, Snapshot(m)  PROVE Known'
  <2>1. (session.active # None => status[session.active] # Absent)'
    BY <1>1 DEF Snapshot, At, Unsent, rows, runs, noteHistory, uploadHistory, chatHistory,
      Known, Absent
  <2>2. (\A n \in Messages : desk[n].task # None => status[desk[n].task] # Absent)'
    BY <1>1 DEF Snapshot, At, Unsent, rows, runs, noteHistory, uploadHistory, chatHistory,
      Known, Absent
  <2>3. (\A n \in Messages : told[n] # None => status[told[n]] # Absent)'
    BY <1>1 DEF Snapshot, At, Unsent, rows, runs, noteHistory, uploadHistory, chatHistory,
      Known, Absent
  <2>4. (\A s \in Tasks : parent[s] # None => status[parent[s]] # Absent /\ status[s] # Absent)'
    BY <1>1 DEF Snapshot, At, Unsent, rows, runs, noteHistory, uploadHistory, chatHistory,
      Known, Absent
  <2>5. (\A s \in Tasks : run[s].pc # "none" => status[s] # Absent)'
    BY <1>1 DEF Snapshot, At, Unsent, rows, runs, noteHistory, uploadHistory, chatHistory,
      Known, Absent
  <2>6. (\A s \in Tasks : status[s] # Absent => maker[s] # None /\ desk[maker[s]].pc = "done")'
    BY <1>1 DEF Snapshot, At, Unsent, rows, runs, noteHistory, uploadHistory, chatHistory,
      Known, Absent
  <2> QED
    BY <2>1, <2>2, <2>3, <2>4, <2>5, <2>6 DEF Known
<1>2. ASSUME NEW m \in Messages, Answer(m)  PROVE Known'
  BY <1>2 DEF Answer, At, Done, rows, runs, noteHistory, uploadHistory, chatHistory, Finished,
    Unsent, Known, Absent
<1>3. ASSUME NEW m \in Messages, FollowUp(m)  PROVE Known'
  <2>1. (session.active # None => status[session.active] # Absent)'
    BY <1>3 DEF FollowUp, At, Terminal, rows, runs, noteHistory, uploadHistory, chatHistory,
      Known, Absent
  <2>2. (\A n \in Messages : desk[n].task # None => status[desk[n].task] # Absent)'
    BY <1>3 DEF FollowUp, At, Terminal, rows, runs, noteHistory, uploadHistory, chatHistory,
      Known, Absent
  <2>3. (\A n \in Messages : told[n] # None => status[told[n]] # Absent)'
    BY <1>3 DEF FollowUp, At, Terminal, rows, runs, noteHistory, uploadHistory, chatHistory,
      Known, Absent
  <2>4. (\A s \in Tasks : parent[s] # None => status[parent[s]] # Absent /\ status[s] # Absent)'
    BY <1>3 DEF FollowUp, At, Terminal, rows, runs, noteHistory, uploadHistory, chatHistory,
      Known, Absent
  <2>5. (\A s \in Tasks : run[s].pc # "none" => status[s] # Absent)'
    BY <1>3 DEF FollowUp, At, Terminal, rows, runs, noteHistory, uploadHistory, chatHistory,
      Known, Absent
  <2>6. (\A s \in Tasks : status[s] # Absent => maker[s] # None /\ desk[maker[s]].pc = "done")'
    BY <1>3 DEF FollowUp, At, Terminal, rows, runs, noteHistory, uploadHistory, chatHistory,
      Known, Absent
  <2> QED
    BY <2>1, <2>2, <2>3, <2>4, <2>5, <2>6 DEF Known
<1>4. ASSUME NEW m \in Messages, Add(m)  PROVE Known'
  <2>1. (session.active # None => status[session.active] # Absent)'
    BY <1>4 DEF Add, At, AddTo, Done, runs, uploadHistory, chatHistory, Appended, Overlapped,
      Finished, Others, Unsent, Open, Known, Absent
  <2>2. (\A n \in Messages : desk[n].task # None => status[desk[n].task] # Absent)'
    BY <1>4 DEF Add, At, AddTo, Done, runs, uploadHistory, chatHistory, Appended, Overlapped,
      Finished, Others, Unsent, Open, Known, Absent
  <2>3. (\A n \in Messages : told[n] # None => status[told[n]] # Absent)'
    BY <1>4 DEF Add, At, AddTo, Done, runs, uploadHistory, chatHistory, Appended, Overlapped,
      Finished, Others, Unsent, Open, Known, Absent
  <2>4. (\A s \in Tasks : parent[s] # None => status[parent[s]] # Absent /\ status[s] # Absent)'
    BY <1>4 DEF Add, At, AddTo, Done, runs, uploadHistory, chatHistory, Appended, Overlapped,
      Finished, Others, Unsent, Open, Known, Absent
  <2>5. (\A s \in Tasks : run[s].pc # "none" => status[s] # Absent)'
    BY <1>4 DEF Add, At, AddTo, Done, runs, uploadHistory, chatHistory, Appended, Overlapped,
      Finished, Others, Unsent, Open, Known, Absent
  <2>6. (\A s \in Tasks : status[s] # Absent => maker[s] # None /\ desk[maker[s]].pc = "done")'
    BY <1>4 DEF Add, At, AddTo, Done, runs, uploadHistory, chatHistory, Appended, Overlapped,
      Finished, Others, Unsent, Open, Known, Absent
  <2> QED
    BY <2>1, <2>2, <2>3, <2>4, <2>5, <2>6 DEF Known
<1>5. ASSUME NEW m \in Messages, NewTask(m)  PROVE Known'
  <2>1. (session.active # None => status[session.active] # Absent)'
    BY <1>5 DEF NewTask, At, Remaining, rows, runs, noteHistory, uploadHistory, chatHistory,
      Known, Absent
  <2>2. (\A n \in Messages : desk[n].task # None => status[desk[n].task] # Absent)'
    BY <1>5 DEF NewTask, At, Remaining, rows, runs, noteHistory, uploadHistory, chatHistory,
      Known, TypeOK, Absent, Session, Status, Run, Desk, Terminal
  <2>3. (\A n \in Messages : told[n] # None => status[told[n]] # Absent)'
    BY <1>5 DEF NewTask, At, Remaining, rows, runs, noteHistory, uploadHistory, chatHistory,
      Known, Absent
  <2>4. (\A s \in Tasks : parent[s] # None => status[parent[s]] # Absent /\ status[s] # Absent)'
    BY <1>5 DEF NewTask, At, Remaining, rows, runs, noteHistory, uploadHistory, chatHistory,
      Known, Absent
  <2>5. (\A s \in Tasks : run[s].pc # "none" => status[s] # Absent)'
    BY <1>5 DEF NewTask, At, Remaining, rows, runs, noteHistory, uploadHistory, chatHistory,
      Known, Absent
  <2>6. (\A s \in Tasks : status[s] # Absent => maker[s] # None /\ desk[maker[s]].pc = "done")'
    BY <1>5 DEF NewTask, At, Remaining, rows, runs, noteHistory, uploadHistory, chatHistory,
      Known, TypeOK, Absent, Session, Status, Run, Desk, Terminal
  <2> QED
    BY <2>1, <2>2, <2>3, <2>4, <2>5, <2>6 DEF Known
<1>6. ASSUME NEW m \in Messages, Resumed(m)  PROVE Known'
  <2>1. (session.active # None => status[session.active] # Absent)'
    BY <1>6 DEF Resumed, At, AddTo, Attach, Done, runs, chatHistory, Appended, Overlapped,
      Others, Finished, Open, Unsent, Known, Absent
  <2>2. (\A n \in Messages : desk[n].task # None => status[desk[n].task] # Absent)'
    BY <1>6 DEF Resumed, At, AddTo, Attach, Done, runs, chatHistory, Appended, Overlapped,
      Others, Finished, Open, Unsent, Known, Absent
  <2>3. (\A n \in Messages : told[n] # None => status[told[n]] # Absent)'
    BY <1>6 DEF Resumed, At, AddTo, Attach, Done, runs, chatHistory, Appended, Overlapped,
      Others, Finished, Open, Unsent, Known, Absent
  <2>4. (\A s \in Tasks : parent[s] # None => status[parent[s]] # Absent /\ status[s] # Absent)'
    BY <1>6 DEF Resumed, At, AddTo, Attach, Done, runs, chatHistory, Appended, Overlapped,
      Others, Finished, Open, Unsent, Known, Absent
  <2>5. (\A s \in Tasks : run[s].pc # "none" => status[s] # Absent)'
    BY <1>6 DEF Resumed, At, AddTo, Attach, Done, runs, chatHistory, Appended, Overlapped,
      Others, Finished, Open, Unsent, Known, Absent
  <2>6. (\A s \in Tasks : status[s] # Absent => maker[s] # None /\ desk[maker[s]].pc = "done")'
    BY <1>6, ConversationAssumption DEF Resumed, At, AddTo, Attach, Done, runs, chatHistory,
      Appended, Overlapped, Others, Finished, Open, Unsent, Known, Absent
  <2> QED
    BY <2>1, <2>2, <2>3, <2>4, <2>5, <2>6 DEF Known
<1>7. ASSUME NEW m \in Messages, CutOff(m)  PROVE Known'
  BY <1>7 DEF CutOff, Event, Open, Done, rows, runs, noteHistory, uploadHistory, chatHistory,
    Finished, Unsent, Known, Absent
<1>8. ASSUME NEW m \in Messages, NEW t \in Tasks, Continue(m, t)  PROVE Known'
  <2>1. (session.active # None => status[session.active] # Absent)'
    BY <1>8 DEF Continue, At, Make, Origin, Others, Absent, Finished, runs, noteHistory, Open,
      Unsent, Known, TypeOK, Session, Status, Run, Desk, Terminal
  <2>2. (\A n \in Messages : desk[n].task # None => status[desk[n].task] # Absent)'
    BY <1>8 DEF Continue, At, Make, Origin, Others, Absent, Finished, runs, noteHistory, Open,
      Unsent, Known
  <2>3. (\A n \in Messages : told[n] # None => status[told[n]] # Absent)'
    BY <1>8 DEF Continue, At, Make, Origin, Others, Absent, Finished, runs, noteHistory, Open,
      Unsent, Known
  <2>4. (\A s \in Tasks : parent[s] # None => status[parent[s]] # Absent /\ status[s] # Absent)'
    BY <1>8 DEF Continue, At, Make, Origin, Others, Absent, Finished, runs, noteHistory, Open,
      Unsent, Known, TypeOK, Session, Status, Run, Desk, Terminal
  <2>5. (\A s \in Tasks : run[s].pc # "none" => status[s] # Absent)'
    BY <1>8 DEF Continue, At, Make, Origin, Others, Absent, Finished, runs, noteHistory, Open,
      Unsent, Known
  <2>6. (\A s \in Tasks : status[s] # Absent => maker[s] # None /\ desk[maker[s]].pc = "done")'
    BY <1>8, ConversationAssumption DEF Continue, At, Make, Origin, Others, Absent, Finished,
      runs, noteHistory, Open, Unsent, TypeOK, Shape, Known, Session, Status, Run, Desk,
      Terminal
  <2> QED
    BY <2>1, <2>2, <2>3, <2>4, <2>5, <2>6 DEF Known
<1>9. ASSUME NEW m \in Messages, NEW t \in Tasks, Create(m, t)  PROVE Known'
  <2>1. (session.active # None => status[session.active] # Absent)'
    BY <1>9 DEF Create, At, Make, Attach, Absent, Finished, runs, noteHistory, Others, Unsent,
      Open, Known, TypeOK, Session, Status, Run, Desk, Terminal
  <2>2. (\A n \in Messages : desk[n].task # None => status[desk[n].task] # Absent)'
    BY <1>9 DEF Create, At, Make, Attach, Absent, Finished, runs, noteHistory, Others, Unsent,
      Open, Known
  <2>3. (\A n \in Messages : told[n] # None => status[told[n]] # Absent)'
    BY <1>9 DEF Create, At, Make, Attach, Absent, Finished, runs, noteHistory, Others, Unsent,
      Open, Known
  <2>4. (\A s \in Tasks : parent[s] # None => status[parent[s]] # Absent /\ status[s] # Absent)'
    BY <1>9 DEF Create, At, Make, Attach, Absent, Finished, runs, noteHistory, Others, Unsent,
      Open, Known
  <2>5. (\A s \in Tasks : run[s].pc # "none" => status[s] # Absent)'
    BY <1>9 DEF Create, At, Make, Attach, Absent, Finished, runs, noteHistory, Others, Unsent,
      Open, Known
  <2>6. (\A s \in Tasks : status[s] # Absent => maker[s] # None /\ desk[maker[s]].pc = "done")'
    BY <1>9, ConversationAssumption DEF Create, At, Make, Attach, Absent, Finished, runs,
      noteHistory, Others, Unsent, Open, TypeOK, Shape, Known, Session, Status, Run, Desk,
      Terminal
  <2> QED
    BY <2>1, <2>2, <2>3, <2>4, <2>5, <2>6 DEF Known
<1>10. ASSUME NEW m \in Messages, NEW t \in Tasks, Reply(m, t)  PROVE Known'
  <2>1. (session.active # None => status[session.active] # Absent)'
    BY <1>10 DEF Reply, At, Absent, Unsent, rows, runs, noteHistory, uploadHistory,
      chatHistory, Known
  <2>2. (\A n \in Messages : desk[n].task # None => status[desk[n].task] # Absent)'
    BY <1>10 DEF Reply, At, Absent, Unsent, rows, runs, noteHistory, uploadHistory,
      chatHistory, Known
  <2>3. (\A n \in Messages : told[n] # None => status[told[n]] # Absent)'
    BY <1>10 DEF Reply, At, Absent, Unsent, rows, runs, noteHistory, uploadHistory,
      chatHistory, Known
  <2>4. (\A s \in Tasks : parent[s] # None => status[parent[s]] # Absent /\ status[s] # Absent)'
    BY <1>10 DEF Reply, At, Absent, Unsent, rows, runs, noteHistory, uploadHistory,
      chatHistory, Known
  <2>5. (\A s \in Tasks : run[s].pc # "none" => status[s] # Absent)'
    BY <1>10 DEF Reply, At, Absent, Unsent, rows, runs, noteHistory, uploadHistory,
      chatHistory, Known
  <2>6. (\A s \in Tasks : status[s] # Absent => maker[s] # None /\ desk[maker[s]].pc = "done")'
    BY <1>10 DEF Reply, At, Absent, Unsent, rows, runs, noteHistory, uploadHistory,
      chatHistory, Known
  <2> QED
    BY <2>1, <2>2, <2>3, <2>4, <2>5, <2>6 DEF Known
<1>11. ASSUME NEW t \in Tasks, Take(t)  PROVE Known'
  BY <1>11 DEF Take, InRun, Becomes, runOnly, uploadHistory, Known, Absent
<1>12. ASSUME NEW t \in Tasks, Read(t)  PROVE Known'
  BY <1>12 DEF Read, InRun, Terminal, ReadAgain, Becomes, Goto, runOnly, uploadHistory, Known,
    Absent
<1>13. ASSUME NEW t \in Tasks, FindTerminal(t)  PROVE Known'
  BY <1>13 DEF FindTerminal, InRun, Terminal, EndRun, runOnly, NoRun, uploadHistory, Known,
    Absent
<1>14. ASSUME NEW t \in Tasks, NextStep(t)  PROVE Known'
  BY <1>14 DEF NextStep, InRun, Goto, runOnly, uploadHistory, Known, Absent
<1>15. ASSUME NEW t \in Tasks, Wait(t)  PROVE Known'
  BY <1>15 DEF Wait, InRun, Becomes, EndRun, runOnly, NoRun, uploadHistory, Known, Absent
<1>16. ASSUME NEW t \in Tasks, Ended(t)  PROVE Known'
  BY SMTT(60),
    <1>16 DEF Ended, InRun, Becomes, Releases, NoRun, runOnly, uploadHistory, Known, TypeOK,
    Absent, Session, Status, Run, Desk, Terminal
<1>17. ASSUME NEW t \in Tasks, Requeue(t)  PROVE Known'
  BY <1>17 DEF Requeue, Event, InRun, Becomes, EndRun, runOnly, NoRun, uploadHistory, Known,
    Absent
<1>18. ASSUME NEW t \in Tasks, TimeLimit(t)  PROVE Known'
  BY <1>18 DEF TimeLimit, Event, InRun, Becomes, EndRun, runOnly, NoRun, uploadHistory, Known,
    Absent
<1>19. ASSUME NEW t \in Tasks, Cancel(t)  PROVE Known'
  BY <1>19 DEF Cancel, Event, Terminal, Absent, Becomes, runOnly, runs, uploadHistory, Known
<1>20. ASSUME NEW t \in Tasks, Resume(t)  PROVE Known'
  BY <1>20 DEF Resume, Event, Becomes, runOnly, runs, uploadHistory, Known, Absent
<1>21. ASSUME NEW t \in Tasks, NEW outcome \in {"COMPLETED", "FAILED"}, End(t, outcome)  PROVE Known'
  BY <1>21 DEF End, InRun, runOnly, uploadHistory, Known, Absent
<1>22. ASSUME NEW u \in Uploads, Upload(u)  PROVE Known'
  BY <1>22 DEF Upload, Event, Open, At, rows, runs, noteHistory, chatHistory, Known, Absent
<1>23. ASSUME ClearUpload  PROVE Known'
  BY <1>23 DEF ClearUpload, Event, rows, runs, noteHistory, chatHistory, Known, Absent
<1>24. ASSUME NEW th \in Threads, ChangeThread(th)  PROVE Known'
  BY <1>24 DEF ChangeThread, Event, Elsewhere, Open, rows, runs, noteHistory, Known, Absent
<1> QED
  BY <1>1, <1>2, <1>3, <1>4, <1>5, <1>6, <1>7, <1>8, <1>9, <1>10, <1>11, <1>12, <1>13, <1>14,
    <1>15, <1>16, <1>17, <1>18, <1>19, <1>20, <1>21, <1>22, <1>23, <1>24 DEF Next, Handling, Running

(* A step of Next keeps Kept. *)
LEMMA KeptStep ==
    ASSUME TypeOK, Shape, Known, Kept, Next
    PROVE  Kept'
<1>1. ASSUME NEW m \in Messages, Snapshot(m)  PROVE Kept'
  BY <1>1 DEF Snapshot, At, Unsent, rows, runs, noteHistory, uploadHistory, chatHistory, Kept
<1>2. ASSUME NEW m \in Messages, Answer(m)  PROVE Kept'
  BY <1>2 DEF Answer, At, Done, rows, runs, noteHistory, uploadHistory, chatHistory, Finished,
    Unsent, Kept
<1>3. ASSUME NEW m \in Messages, FollowUp(m)  PROVE Kept'
  BY <1>3 DEF FollowUp, At, Terminal, rows, runs, noteHistory, uploadHistory, chatHistory, Kept
<1>4. ASSUME NEW m \in Messages, Add(m)  PROVE Kept'
  BY <1>4 DEF Add, At, AddTo, Done, runs, uploadHistory, chatHistory, Appended, Overlapped,
    Finished, Others, Unsent, Open, Kept, TypeOK, Session, Status, Run, Desk, Absent, Terminal
<1>5. ASSUME NEW m \in Messages, NewTask(m)  PROVE Kept'
  BY <1>5 DEF NewTask, At, Remaining, rows, runs, noteHistory, uploadHistory, chatHistory,
    Kept, TypeOK, Session, Status, Run, Desk, Absent, Terminal
<1>6. ASSUME NEW m \in Messages, Resumed(m)  PROVE Kept'
  BY <1>6 DEF Resumed, At, AddTo, Attach, Done, runs, chatHistory, Appended, Overlapped,
    Others, Finished, Open, Unsent, Kept, TypeOK, Session, Status, Run, Desk, Absent, Terminal
<1>7. ASSUME NEW m \in Messages, CutOff(m)  PROVE Kept'
  BY <1>7 DEF CutOff, Event, Open, Done, rows, runs, noteHistory, uploadHistory, chatHistory,
    Finished, Unsent, Kept
<1>8. ASSUME NEW m \in Messages, NEW t \in Tasks, Continue(m, t)  PROVE Kept'
  BY <1>8 DEF Continue, At, Make, Origin, Others, Absent, Finished, runs, noteHistory, Open,
    Unsent, TypeOK, Shape, Known, Kept, Session, Status, Run, Desk, Terminal
<1>9. ASSUME NEW m \in Messages, NEW t \in Tasks, Create(m, t)  PROVE Kept'
  BY <1>9 DEF Create, At, Make, Attach, Absent, Finished, runs, noteHistory, Others, Unsent,
    Open, TypeOK, Shape, Known, Kept, Session, Status, Run, Desk, Terminal
<1>10. ASSUME NEW m \in Messages, NEW t \in Tasks, Reply(m, t)  PROVE Kept'
  BY <1>10 DEF Reply, At, Absent, Unsent, rows, runs, noteHistory, uploadHistory, chatHistory,
    Kept
<1>25. ASSUME NEW t \in Tasks,
           \/ Take(t)
           \/ Read(t)
           \/ FindTerminal(t)
           \/ NextStep(t)
           \/ Wait(t)
           \/ Ended(t)
           \/ Requeue(t)
           \/ TimeLimit(t)
           \/ Cancel(t)
           \/ Resume(t)
      PROVE  Kept'
  BY <1>25 DEF Take, Read, FindTerminal, NextStep, Wait, Ended, Requeue, TimeLimit, Cancel,
    Resume, InRun, Becomes, runOnly, ReadAgain, Goto, EndRun, Releases, NoRun, Event, runs,
    uploadHistory, Kept
<1>26. ASSUME NEW t \in Tasks, NEW outcome \in {"COMPLETED", "FAILED"},
           End(t, outcome)
      PROVE  Kept'
  BY <1>26 DEF End, InRun, runOnly, uploadHistory, Kept
<1>27. ASSUME NEW u \in Uploads,
           Upload(u)
      PROVE  Kept'
  BY <1>27 DEF Upload, Event, Open, At, rows, runs, noteHistory, chatHistory, Kept
<1>28. ASSUME
           ClearUpload
      PROVE  Kept'
  BY <1>28 DEF ClearUpload, Event, rows, runs, noteHistory, chatHistory, Kept
<1>29. ASSUME NEW th \in Threads,
           ChangeThread(th)
      PROVE  Kept'
  BY <1>29 DEF ChangeThread, Event, Elsewhere, Open, rows, runs, noteHistory, Kept
<1> QED
  BY <1>1, <1>2, <1>3, <1>4, <1>5, <1>6, <1>7, <1>8, <1>9, <1>10, <1>25, <1>26, <1>27, <1>28,
    <1>29 DEF Next, Handling, Running

(* A step of Next keeps Heard. *)
LEMMA HeardStep ==
    ASSUME TypeOK, Shape, Known, Kept, Heard, Next
    PROVE  Heard'
<1>4. ASSUME NEW m \in Messages, Add(m)  PROVE Heard'
  <2>1. (\A n \in Messages, s \in Tasks :
          /\ told[n] = s /\ n \notin overlapped /\ n \notin unread[s]
          /\ \/ run[s].pc = "deciding" \/ status[s] = "COMPLETED"
             \/ run[s].pc = "ending" /\ run[s].outcome = "COMPLETED"
          => n \in seen[s])'
    BY <1>4 DEF Add, At, AddTo, Done, runs, uploadHistory, chatHistory, Appended, Overlapped,
      Finished, Others, Unsent, Open, Heard, TypeOK, Session, Status, Run, Desk, Absent,
      Terminal
  <2>2. (\A s \in Tasks : status[s] = "COMPLETED" => run[s].pc = "none")'
    BY <1>4 DEF Add, At, AddTo, Done, runs, uploadHistory, chatHistory, Appended, Overlapped,
      Finished, Others, Unsent, Open, Heard
  <2> QED
    BY <2>1, <2>2 DEF Heard
<1>6. ASSUME NEW m \in Messages, Resumed(m)  PROVE Heard'
  <2>1. (\A n \in Messages, s \in Tasks :
          /\ told[n] = s /\ n \notin overlapped /\ n \notin unread[s]
          /\ \/ run[s].pc = "deciding" \/ status[s] = "COMPLETED"
             \/ run[s].pc = "ending" /\ run[s].outcome = "COMPLETED"
          => n \in seen[s])'
    BY <1>6 DEF Resumed, At, AddTo, Attach, Done, runs, chatHistory, Appended, Overlapped,
      Others, Finished, Open, Unsent, Heard, TypeOK, Session, Status, Run, Desk, Absent,
      Terminal
  <2>2. (\A s \in Tasks : status[s] = "COMPLETED" => run[s].pc = "none")'
    BY <1>6 DEF Resumed, At, AddTo, Attach, Done, runs, chatHistory, Appended, Overlapped,
      Others, Finished, Open, Unsent, Heard
  <2> QED
    BY <2>1, <2>2 DEF Heard
<1>8. ASSUME NEW m \in Messages, NEW t \in Tasks, Continue(m, t)  PROVE Heard'
  BY <1>8 DEF Continue, At, Make, Origin, Others, Absent, Finished, runs, noteHistory, Open,
    Unsent, Heard
<1>9. ASSUME NEW m \in Messages, NEW t \in Tasks, Create(m, t)  PROVE Heard'
  BY <1>9 DEF Create, At, Make, Attach, Absent, Finished, runs, noteHistory, Others, Unsent,
    Open, Heard
<1>11. ASSUME NEW t \in Tasks, Take(t)  PROVE Heard'
  BY <1>11 DEF Take, InRun, Becomes, runOnly, uploadHistory, Heard
<1>12. ASSUME NEW t \in Tasks, Read(t)  PROVE Heard'
  <2>1. (\A n \in Messages, s \in Tasks :
          /\ told[n] = s /\ n \notin overlapped /\ n \notin unread[s]
          /\ \/ run[s].pc = "deciding" \/ status[s] = "COMPLETED"
             \/ run[s].pc = "ending" /\ run[s].outcome = "COMPLETED"
          => n \in seen[s])'
    BY <1>12, ConversationAssumption DEF Read, InRun, Terminal, ReadAgain, Becomes, Goto,
      runOnly, uploadHistory, TypeOK, Shape, Known, Kept, Heard, Session, Status, Run, Desk,
      Absent
  <2>2. (\A s \in Tasks : status[s] = "COMPLETED" => run[s].pc = "none")'
    BY <1>12 DEF Read, InRun, Terminal, ReadAgain, Becomes, Goto, runOnly, uploadHistory, Heard
  <2> QED
    BY <2>1, <2>2 DEF Heard
<1>13. ASSUME NEW t \in Tasks, FindTerminal(t)  PROVE Heard'
  BY <1>13 DEF FindTerminal, InRun, Terminal, EndRun, runOnly, NoRun, uploadHistory, Heard
<1>14. ASSUME NEW t \in Tasks, NextStep(t)  PROVE Heard'
  BY <1>14 DEF NextStep, InRun, Goto, runOnly, uploadHistory, Heard
<1>15. ASSUME NEW t \in Tasks, Wait(t)  PROVE Heard'
  BY <1>15 DEF Wait, InRun, Becomes, EndRun, runOnly, NoRun, uploadHistory, Heard, TypeOK,
    Session, Status, Run, Desk, Absent, Terminal
<1>16. ASSUME NEW t \in Tasks, Ended(t)  PROVE Heard'
  <2>1. (\A n \in Messages, s \in Tasks :
          /\ told[n] = s /\ n \notin overlapped /\ n \notin unread[s]
          /\ \/ run[s].pc = "deciding" \/ status[s] = "COMPLETED"
             \/ run[s].pc = "ending" /\ run[s].outcome = "COMPLETED"
          => n \in seen[s])'
    BY <1>16 DEF Ended, InRun, Becomes, Releases, NoRun, runOnly, uploadHistory, Heard
  <2>2. (\A s \in Tasks : status[s] = "COMPLETED" => run[s].pc = "none")'
    BY <1>16 DEF Ended, InRun, Becomes, Releases, NoRun, runOnly, uploadHistory, Heard, TypeOK,
      Session, Status, Run, Desk, Absent, Terminal
  <2> QED
    BY <2>1, <2>2 DEF Heard
<1>17. ASSUME NEW t \in Tasks, Requeue(t)  PROVE Heard'
  BY <1>17 DEF Requeue, Event, InRun, Becomes, EndRun, runOnly, NoRun, uploadHistory, Heard,
    TypeOK, Session, Status, Run, Desk, Absent, Terminal
<1>18. ASSUME NEW t \in Tasks, TimeLimit(t)  PROVE Heard'
  BY <1>18 DEF TimeLimit, Event, InRun, Becomes, EndRun, runOnly, NoRun, uploadHistory, Heard,
    TypeOK, Session, Status, Run, Desk, Absent, Terminal
<1>19. ASSUME NEW t \in Tasks, Cancel(t)  PROVE Heard'
  BY <1>19 DEF Cancel, Event, Terminal, Absent, Becomes, runOnly, runs, uploadHistory, Heard
<1>20. ASSUME NEW t \in Tasks, Resume(t)  PROVE Heard'
  BY <1>20 DEF Resume, Event, Becomes, runOnly, runs, uploadHistory, Heard
<1>21. ASSUME NEW t \in Tasks, NEW outcome \in {"COMPLETED", "FAILED"}, End(t, outcome)  PROVE Heard'
  BY <1>21 DEF End, InRun, runOnly, uploadHistory, Heard
<1>25. ASSUME NEW m \in Messages,
           \/ Snapshot(m)
           \/ Answer(m)
           \/ FollowUp(m)
           \/ NewTask(m)
           \/ CutOff(m)
      PROVE  Heard'
  BY <1>25 DEF Snapshot, Answer, FollowUp, NewTask, CutOff, At, rows, runs, noteHistory,
    uploadHistory, chatHistory, Done, Remaining, Event, Open, Finished, Heard
<1>26. ASSUME NEW m \in Messages, NEW t \in Tasks,
           Reply(m, t)
      PROVE  Heard'
  BY <1>26 DEF Reply, At, rows, runs, noteHistory, uploadHistory, chatHistory, Heard
<1>27. ASSUME NEW u \in Uploads,
           Upload(u)
      PROVE  Heard'
  BY <1>27 DEF Upload, Event, Open, At, rows, runs, noteHistory, chatHistory, Heard
<1>28. ASSUME
           ClearUpload
      PROVE  Heard'
  BY <1>28 DEF ClearUpload, Event, rows, runs, noteHistory, chatHistory, Heard
<1>29. ASSUME NEW th \in Threads,
           ChangeThread(th)
      PROVE  Heard'
  BY <1>29 DEF ChangeThread, Event, Elsewhere, Open, rows, runs, noteHistory, Heard
<1> QED
  BY <1>4, <1>6, <1>8, <1>9, <1>11, <1>12, <1>13, <1>14, <1>15, <1>16, <1>17, <1>18, <1>19,
    <1>20, <1>21, <1>25, <1>26, <1>27, <1>28, <1>29 DEF Next, Handling, Running

(* A step of Next keeps Waiting. *)
LEMMA WaitingStep ==
    ASSUME TypeOK, Shape, Waiting, Next
    PROVE  Waiting'
<1>1. ASSUME NEW m \in Messages, Snapshot(m)  PROVE Waiting'
  BY <1>1 DEF Snapshot, At, Unsent, rows, runs, noteHistory, uploadHistory, chatHistory, Waiting
<1>2. ASSUME NEW m \in Messages, Answer(m)  PROVE Waiting'
  BY <1>2 DEF Answer, At, Done, rows, runs, noteHistory, uploadHistory, chatHistory, Finished,
    Unsent, Waiting
<1>3. ASSUME NEW m \in Messages, FollowUp(m)  PROVE Waiting'
  BY <1>3 DEF FollowUp, At, Terminal, rows, runs, noteHistory, uploadHistory, chatHistory,
    Waiting
<1>4. ASSUME NEW m \in Messages, Add(m)  PROVE Waiting'
  BY <1>4 DEF Add, At, AddTo, Done, runs, uploadHistory, chatHistory, Appended, Overlapped,
    Finished, Others, Unsent, Open, Waiting
<1>5. ASSUME NEW m \in Messages, NewTask(m)  PROVE Waiting'
  BY <1>5 DEF NewTask, At, Remaining, rows, runs, noteHistory, uploadHistory, chatHistory,
    Waiting, TypeOK, Session, Status, Run, Desk, Absent, Terminal
<1>6. ASSUME NEW m \in Messages, Resumed(m)  PROVE Waiting'
  <2>1. /\ desk'[m].upload = None /\ desk'[m].context = None /\ desk'[m].pc = "done"
        /\ \A n \in Messages : n # m => desk'[n] = desk[n]
    <3>1. desk' = [desk EXCEPT ![m] = Finished]
      BY <1>6 DEF Resumed, Done
    <3>2. desk'[m] = Finished
      BY <3>1, DeskMoves
    <3>3. desk'[m].upload = None /\ desk'[m].context = None /\ desk'[m].pc = "done"
      BY <3>2 DEF Finished, Unsent
    <3>4. \A n \in Messages : n # m => desk'[n] = desk[n]
      BY <3>1, DeskMoves
    <3> QED
      BY <3>3, <3>4
  <2> SUFFICES ASSUME NEW v \in uploaded', v \notin forgone', takers'[v] = {}
               PROVE  /\ session'.upload = v
                      /\ \A n \in Messages : desk'[n].upload \in {None, v}
                      /\ \A n \in Messages : desk'[n].pc = "creating" /\ desk'[n].upload = None
                                             => desk'[n].context = v
    BY DEF Waiting
  <2>2. v \in uploaded /\ v \in Uploads /\ v \notin forgone
    BY <1>6 DEF Resumed, Attach, TypeOK
  <2>3. takers'[v] = IF v = desk[m].upload THEN takers[v] \cup {desk[m].task} ELSE takers[v]
    BY <1>6, <2>2 DEF Resumed, Attach
  <2>4. takers[v] = {} /\ v # desk[m].upload
    BY <2>3
  <2>5. /\ session.upload = v
        /\ \A n \in Messages : desk[n].upload \in {None, v}
        /\ \A n \in Messages : desk[n].pc = "creating" /\ desk[n].upload = None => desk[n].context = v
    BY <2>2, <2>4 DEF Waiting
  <2>6. desk[m].upload = None
    BY <2>4, <2>5
  <2>7. session'.upload = v
    BY <1>6, <2>5, <2>6 DEF Resumed, At, TypeOK, Session
  <2> QED
    BY <2>1, <2>5, <2>7
<1>7. ASSUME NEW m \in Messages, CutOff(m)  PROVE Waiting'
  BY <1>7 DEF CutOff, Event, Open, Done, rows, runs, noteHistory, uploadHistory, chatHistory,
    Finished, Unsent, Waiting
<1>8. ASSUME NEW m \in Messages, NEW t \in Tasks, Continue(m, t)  PROVE Waiting'
  BY <1>8 DEF Continue, At, Make, Origin, Others, Absent, Finished, runs, noteHistory, Open,
    Unsent, Waiting
<1>9. ASSUME NEW m \in Messages, NEW t \in Tasks, Create(m, t)  PROVE Waiting'
  <2>1. /\ desk'[m].upload = None /\ desk'[m].context = None /\ desk'[m].pc = "done"
        /\ \A n \in Messages : n # m => desk'[n] = desk[n]
    <3>1. desk' = [desk EXCEPT ![m] = [Finished EXCEPT !.thread = desk[m].thread]]
      BY <1>9 DEF Create, Make
    <3>2. desk'[m] = [Finished EXCEPT !.thread = desk[m].thread]
      BY <3>1, DeskMoves
    <3>3. desk'[m].upload = None /\ desk'[m].context = None /\ desk'[m].pc = "done"
      BY <3>2 DEF Finished, Unsent
    <3>4. \A n \in Messages : n # m => desk'[n] = desk[n]
      BY <3>1, DeskMoves
    <3> QED
      BY <3>3, <3>4
  <2> SUFFICES ASSUME NEW v \in uploaded', v \notin forgone', takers'[v] = {}
               PROVE  /\ session'.upload = v
                      /\ \A n \in Messages : desk'[n].upload \in {None, v}
                      /\ \A n \in Messages : desk'[n].pc = "creating" /\ desk'[n].upload = None
                                             => desk'[n].context = v
    BY DEF Waiting
  <2>2. v \in uploaded /\ v \in Uploads /\ v \notin forgone
    BY <1>9 DEF Create, Make, Attach, TypeOK
  <2>3. takers'[v] = IF v = desk[m].upload THEN takers[v] \cup {t} ELSE takers[v]
    BY <1>9, <2>2 DEF Create, Make, Attach
  <2>4. takers[v] = {} /\ v # desk[m].upload
    BY <2>3
  <2>5. /\ session.upload = v
        /\ \A n \in Messages : desk[n].upload \in {None, v}
        /\ \A n \in Messages : desk[n].pc = "creating" /\ desk[n].upload = None => desk[n].context = v
    BY <2>2, <2>4 DEF Waiting
  <2>6. desk[m].upload = None
    BY <2>4, <2>5
  <2>7. session'.upload = v
    BY <1>9, <2>5, <2>6 DEF Create, At, TypeOK, Session
  <2> QED
    BY <2>1, <2>5, <2>7
<1>10. ASSUME NEW m \in Messages, NEW t \in Tasks, Reply(m, t)  PROVE Waiting'
  BY <1>10 DEF Reply, At, Absent, Unsent, rows, runs, noteHistory, uploadHistory, chatHistory,
    Waiting
<1>16. ASSUME NEW t \in Tasks, Ended(t)  PROVE Waiting'
  BY <1>16 DEF Ended, InRun, Becomes, Releases, NoRun, runOnly, uploadHistory, Waiting
<1>22. ASSUME NEW u \in Uploads, Upload(u)  PROVE Waiting'
  <2>1. /\ uploaded' = uploaded \cup {u} /\ session'.upload = u
        /\ UNCHANGED <<desk, takers>>
    BY <1>22 DEF Upload, TypeOK, Session
  <2>2. forgone' = forgone \cup ({session.upload} \ {None})
          \cup IF \E m \in Messages : Open(m) /\ (desk[m].upload # None \/ At(m, "creating"))
                 THEN {u} ELSE {}
    BY <1>22 DEF Upload
  <2> SUFFICES ASSUME NEW v \in uploaded', v \notin forgone', takers'[v] = {}
               PROVE  /\ session'.upload = v
                      /\ \A n \in Messages : desk'[n].upload \in {None, v}
                      /\ \A n \in Messages : desk'[n].pc = "creating" /\ desk'[n].upload = None
                                             => desk'[n].context = v
    BY DEF Waiting
  <2>3. v = u
    <3>1. v \notin forgone /\ v \notin {session.upload} \ {None} /\ takers[v] = {}
      BY <2>1, <2>2
    <3>2. v \notin uploaded \/ session.upload = v
      BY <3>1 DEF Waiting
    <3>3. v \in uploaded => session.upload # v
      BY <3>1, ConversationAssumption DEF TypeOK
    <3> QED
      BY <2>1, <3>2, <3>3
  <2>4. \A m \in Messages : Open(m) => desk[m].upload = None /\ desk[m].pc # "creating"
    BY <2>2, <2>3 DEF At
  <2>5. \A m \in Messages : desk[m].upload = None /\ desk[m].pc # "creating"
    BY <2>4 DEF Open, Shape, Absent
  <2> QED
    BY <2>1, <2>3, <2>5
<1>23. ASSUME ClearUpload  PROVE Waiting'
  BY <1>23 DEF ClearUpload, Event, rows, runs, noteHistory, chatHistory, Waiting
<1>24. ASSUME NEW th \in Threads, ChangeThread(th)  PROVE Waiting'
  BY <1>24 DEF ChangeThread, Event, Elsewhere, Open, rows, runs, noteHistory, Waiting
<1>25. ASSUME NEW t \in Tasks,
           \/ Take(t)
           \/ Read(t)
           \/ FindTerminal(t)
           \/ NextStep(t)
           \/ Wait(t)
           \/ Requeue(t)
           \/ TimeLimit(t)
           \/ Cancel(t)
           \/ Resume(t)
      PROVE  Waiting'
  BY <1>25 DEF Take, Read, FindTerminal, NextStep, Wait, Requeue, TimeLimit, Cancel, Resume,
    InRun, Becomes, runOnly, ReadAgain, Goto, EndRun, Event, runs, uploadHistory, NoRun, Waiting
<1>26. ASSUME NEW t \in Tasks, NEW outcome \in {"COMPLETED", "FAILED"},
           End(t, outcome)
      PROVE  Waiting'
  BY <1>26 DEF End, InRun, runOnly, uploadHistory, Waiting
<1> QED
  BY <1>1, <1>2, <1>3, <1>4, <1>5, <1>6, <1>7, <1>8, <1>9, <1>10, <1>16, <1>22, <1>23, <1>24,
    <1>25, <1>26 DEF Next, Handling, Running

(* A step of Next keeps Single. *)
LEMMA SingleStep ==
    ASSUME TypeOK, Shape, Single, Next
    PROVE  Single'
<1>1. ASSUME NEW m \in Messages, Snapshot(m)  PROVE Single'
  <2>1. (\A v \in Uploads : takers[v] # {} /\ v \notin shared =>
          /\ \A s1, s2 \in takers[v] : s1 = s2
          /\ session.upload # v
          /\ \A n \in Messages : desk[n].upload # v /\ desk[n].context # v)'
    BY <1>1, ConversationAssumption DEF Snapshot, At, Unsent, rows, runs, noteHistory,
      uploadHistory, chatHistory, Single
  <2>2. (\A v \in Uploads : takers[v] # {} => v \in uploaded)'
    BY <1>1 DEF Snapshot, At, Unsent, rows, runs, noteHistory, uploadHistory, chatHistory,
      Single
  <2>3. (session.upload # None => session.upload \in uploaded)'
    BY <1>1 DEF Snapshot, At, Unsent, rows, runs, noteHistory, uploadHistory, chatHistory,
      Single
  <2>4. (\A n \in Messages : desk[n].upload # None => desk[n].upload \in uploaded)'
    BY <1>1 DEF Snapshot, At, Unsent, rows, runs, noteHistory, uploadHistory, chatHistory,
      Single
  <2>5. (\A n \in Messages : desk[n].context # None => desk[n].context \in uploaded)'
    BY <1>1 DEF Snapshot, At, Unsent, rows, runs, noteHistory, uploadHistory, chatHistory,
      Single
  <2> QED
    BY <2>1, <2>2, <2>3, <2>4, <2>5 DEF Single
<1>2. ASSUME NEW m \in Messages, Answer(m)  PROVE Single'
  <2>1. (\A v \in Uploads : takers[v] # {} /\ v \notin shared =>
          /\ \A s1, s2 \in takers[v] : s1 = s2
          /\ session.upload # v
          /\ \A n \in Messages : desk[n].upload # v /\ desk[n].context # v)'
    <3>1. \A n \in Messages :
             desk'[n] = desk[n] \/ (desk'[n].upload = None /\ desk'[n].context = None)
      <4>1. desk' = [desk EXCEPT ![m] = Finished]
        BY <1>2 DEF Answer, Done
      <4>2. desk'[m] = Finished
        BY <4>1, DeskMoves
      <4>3. desk'[m].upload = None /\ desk'[m].context = None
        BY <4>2 DEF Finished, Unsent
      <4>4. \A n \in Messages : n # m => desk'[n] = desk[n]
        BY <4>1, DeskMoves
      <4> QED
        BY <4>3, <4>4
    <3>2. UNCHANGED <<takers, shared>> /\ session'.upload = session.upload
      BY <1>2 DEF Answer, uploadHistory
    <3>3. \A v \in Uploads : v # None
      BY ConversationAssumption
    <3> QED
      BY <3>1, <3>2, <3>3 DEF Single
  <2>2. (\A v \in Uploads : takers[v] # {} => v \in uploaded)'
    BY <1>2 DEF Answer, At, Done, rows, runs, noteHistory, uploadHistory, chatHistory,
      Finished, Unsent, Single
  <2>3. (session.upload # None => session.upload \in uploaded)'
    BY <1>2 DEF Answer, At, Done, rows, runs, noteHistory, uploadHistory, chatHistory,
      Finished, Unsent, Single
  <2>4. (\A n \in Messages : desk[n].upload # None => desk[n].upload \in uploaded)'
    BY <1>2 DEF Answer, At, Done, rows, runs, noteHistory, uploadHistory, chatHistory,
      Finished, Unsent, Single
  <2>5. (\A n \in Messages : desk[n].context # None => desk[n].context \in uploaded)'
    BY <1>2 DEF Answer, At, Done, rows, runs, noteHistory, uploadHistory, chatHistory,
      Finished, Unsent, Single
  <2> QED
    BY <2>1, <2>2, <2>3, <2>4, <2>5 DEF Single
<1>3. ASSUME NEW m \in Messages, FollowUp(m)  PROVE Single'
  BY <1>3, ConversationAssumption DEF FollowUp, At, Terminal, rows, runs, noteHistory,
    uploadHistory, chatHistory, Single
<1>4. ASSUME NEW m \in Messages, Add(m)  PROVE Single'
  <2>1. (\A v \in Uploads : takers[v] # {} /\ v \notin shared =>
          /\ \A s1, s2 \in takers[v] : s1 = s2
          /\ session.upload # v
          /\ \A n \in Messages : desk[n].upload # v /\ desk[n].context # v)'
    <3>1. \A n \in Messages :
             desk'[n] = desk[n] \/ (desk'[n].upload = None /\ desk'[n].context = None)
      <4>1. desk' = [desk EXCEPT ![m] = Finished]
        BY <1>4 DEF Add, Done
      <4>2. desk'[m] = Finished
        BY <4>1, DeskMoves
      <4>3. desk'[m].upload = None /\ desk'[m].context = None
        BY <4>2 DEF Finished, Unsent
      <4>4. \A n \in Messages : n # m => desk'[n] = desk[n]
        BY <4>1, DeskMoves
      <4> QED
        BY <4>3, <4>4
    <3>2. UNCHANGED <<takers, shared>> /\ session'.upload = session.upload
      BY <1>4 DEF Add, uploadHistory
    <3>3. \A v \in Uploads : v # None
      BY ConversationAssumption
    <3> QED
      BY <3>1, <3>2, <3>3 DEF Single
  <2>2. (\A v \in Uploads : takers[v] # {} => v \in uploaded)'
    BY <1>4 DEF Add, At, AddTo, Done, runs, uploadHistory, chatHistory, Appended, Overlapped,
      Finished, Others, Unsent, Open, Single
  <2>3. (session.upload # None => session.upload \in uploaded)'
    BY <1>4 DEF Add, At, AddTo, Done, runs, uploadHistory, chatHistory, Appended, Overlapped,
      Finished, Others, Unsent, Open, Single
  <2>4. (\A n \in Messages : desk[n].upload # None => desk[n].upload \in uploaded)'
    BY <1>4 DEF Add, At, AddTo, Done, runs, uploadHistory, chatHistory, Appended, Overlapped,
      Finished, Others, Unsent, Open, Single
  <2>5. (\A n \in Messages : desk[n].context # None => desk[n].context \in uploaded)'
    BY <1>4 DEF Add, At, AddTo, Done, runs, uploadHistory, chatHistory, Appended, Overlapped,
      Finished, Others, Unsent, Open, Single
  <2> QED
    BY <2>1, <2>2, <2>3, <2>4, <2>5 DEF Single
<1>5. ASSUME NEW m \in Messages, NewTask(m)  PROVE Single'
  <2>1. (\A v \in Uploads : takers[v] # {} /\ v \notin shared =>
          /\ \A s1, s2 \in takers[v] : s1 = s2
          /\ session.upload # v
          /\ \A n \in Messages : desk[n].upload # v /\ desk[n].context # v)'
    BY <1>5 DEF NewTask, At, Remaining, rows, runs, noteHistory, uploadHistory, chatHistory,
      Single, TypeOK, Session, Status, Run, Desk, Absent, Terminal
  <2>2. (\A v \in Uploads : takers[v] # {} => v \in uploaded)'
    BY <1>5 DEF NewTask, At, Remaining, rows, runs, noteHistory, uploadHistory, chatHistory,
      Single
  <2>3. (session.upload # None => session.upload \in uploaded)'
    BY <1>5 DEF NewTask, At, Remaining, rows, runs, noteHistory, uploadHistory, chatHistory,
      Single
  <2>4. (\A n \in Messages : desk[n].upload # None => desk[n].upload \in uploaded)'
    BY <1>5 DEF NewTask, At, Remaining, rows, runs, noteHistory, uploadHistory, chatHistory,
      Single, TypeOK, Session, Status, Run, Desk, Absent, Terminal
  <2>5. (\A n \in Messages : desk[n].context # None => desk[n].context \in uploaded)'
    BY <1>5 DEF NewTask, At, Remaining, rows, runs, noteHistory, uploadHistory, chatHistory,
      Single, TypeOK, Session, Status, Run, Desk, Absent, Terminal
  <2> QED
    BY <2>1, <2>2, <2>3, <2>4, <2>5 DEF Single
<1>6. ASSUME NEW m \in Messages, Resumed(m)  PROVE Single'
  <2>1. (\A v \in Uploads : takers[v] # {} /\ v \notin shared =>
          /\ \A s1, s2 \in takers[v] : s1 = s2
          /\ session.upload # v
          /\ \A n \in Messages : desk[n].upload # v /\ desk[n].context # v)'
    <3>1. /\ desk'[m].upload = None /\ desk'[m].context = None
          /\ \A n \in Messages : n # m => desk'[n] = desk[n]
      <4>1. desk' = [desk EXCEPT ![m] = Finished]
        BY <1>6 DEF Resumed, Done
      <4>2. desk'[m] = Finished
        BY <4>1, DeskMoves
      <4>3. desk'[m].upload = None /\ desk'[m].context = None
        BY <4>2 DEF Finished, Unsent
      <4>4. \A n \in Messages : n # m => desk'[n] = desk[n]
        BY <4>1, DeskMoves
      <4> QED
        BY <4>3, <4>4
    <3> SUFFICES ASSUME NEW v \in Uploads, takers'[v] # {}, v \notin shared'
                 PROVE  /\ \A s1, s2 \in takers'[v] : s1 = s2
                        /\ session'.upload # v
                        /\ \A n \in Messages : desk'[n].upload # v /\ desk'[n].context # v
      OBVIOUS
    <3>2. v # None
      BY ConversationAssumption
    <3>3. takers'[v] = IF v = desk[m].upload THEN takers[v] \cup {desk[m].task} ELSE takers[v]
      BY <1>6 DEF Resumed, Attach
    <3>4. session'.upload \in {None, session.upload}
      BY <1>6 DEF Resumed, TypeOK, Session
    <3>5. CASE v = desk[m].upload
      <4>1. v \notin shared
        BY <1>6 DEF Resumed, Attach
      <4>2. takers[v] = {}
        BY <3>5, <4>1 DEF Single
      <4>3. \A n \in Others(m) : v \notin {desk[n].upload, desk[n].context}
        BY <1>6, <3>2, <3>5 DEF Resumed, Attach
      <4>4. \A n \in Messages : n # m => desk[n].upload # v /\ desk[n].context # v
        BY <3>2, <4>3 DEF Others, Open, Shape
      <4>5. session'.upload = None
        BY <1>6, <3>2, <3>5 DEF Resumed, TypeOK, Session, Shape
      <4> QED
        BY <3>1, <3>2, <3>3, <3>5, <4>2, <4>4, <4>5
    <3>6. CASE v # desk[m].upload
      <4>1. takers[v] # {} /\ v \notin shared
        BY <1>6, <3>3, <3>6 DEF Resumed, Attach
      <4>2. /\ \A s1, s2 \in takers[v] : s1 = s2
            /\ session.upload # v
            /\ \A n \in Messages : desk[n].upload # v /\ desk[n].context # v
        BY <4>1 DEF Single
      <4> QED
        BY <3>1, <3>2, <3>3, <3>4, <3>6, <4>2
    <3> QED
      BY <3>5, <3>6
  <2>2. (\A v \in Uploads : takers[v] # {} => v \in uploaded)'
    BY <1>6, ConversationAssumption DEF Resumed, At, AddTo, Attach, Done, runs, chatHistory,
      Appended, Overlapped, Others, Finished, Open, Unsent, Single
  <2>3. (session.upload # None => session.upload \in uploaded)'
    BY <1>6 DEF Resumed, At, AddTo, Attach, Done, runs, chatHistory, Appended, Overlapped,
      Others, Finished, Open, Unsent, Single
  <2>4. (\A n \in Messages : desk[n].upload # None => desk[n].upload \in uploaded)'
    BY <1>6 DEF Resumed, At, AddTo, Attach, Done, runs, chatHistory, Appended, Overlapped,
      Others, Finished, Open, Unsent, Single
  <2>5. (\A n \in Messages : desk[n].context # None => desk[n].context \in uploaded)'
    BY <1>6 DEF Resumed, At, AddTo, Attach, Done, runs, chatHistory, Appended, Overlapped,
      Others, Finished, Open, Unsent, Single
  <2> QED
    BY <2>1, <2>2, <2>3, <2>4, <2>5 DEF Single
<1>7. ASSUME NEW m \in Messages, CutOff(m)  PROVE Single'
  <2>1. (\A v \in Uploads : takers[v] # {} /\ v \notin shared =>
          /\ \A s1, s2 \in takers[v] : s1 = s2
          /\ session.upload # v
          /\ \A n \in Messages : desk[n].upload # v /\ desk[n].context # v)'
    <3>1. \A n \in Messages :
             desk'[n] = desk[n] \/ (desk'[n].upload = None /\ desk'[n].context = None)
      <4>1. desk' = [desk EXCEPT ![m] = Finished]
        BY <1>7 DEF CutOff, Done
      <4>2. desk'[m] = Finished
        BY <4>1, DeskMoves
      <4>3. desk'[m].upload = None /\ desk'[m].context = None
        BY <4>2 DEF Finished, Unsent
      <4>4. \A n \in Messages : n # m => desk'[n] = desk[n]
        BY <4>1, DeskMoves
      <4> QED
        BY <4>3, <4>4
    <3>2. UNCHANGED <<takers, shared>> /\ session'.upload = session.upload
      BY <1>7 DEF CutOff, uploadHistory
    <3>3. \A v \in Uploads : v # None
      BY ConversationAssumption
    <3> QED
      BY <3>1, <3>2, <3>3 DEF Single
  <2>2. (\A v \in Uploads : takers[v] # {} => v \in uploaded)'
    BY <1>7 DEF CutOff, Event, Open, Done, rows, runs, noteHistory, uploadHistory, chatHistory,
      Finished, Unsent, Single
  <2>3. (session.upload # None => session.upload \in uploaded)'
    BY <1>7 DEF CutOff, Event, Open, Done, rows, runs, noteHistory, uploadHistory, chatHistory,
      Finished, Unsent, Single
  <2>4. (\A n \in Messages : desk[n].upload # None => desk[n].upload \in uploaded)'
    BY <1>7 DEF CutOff, Event, Open, Done, rows, runs, noteHistory, uploadHistory, chatHistory,
      Finished, Unsent, Single
  <2>5. (\A n \in Messages : desk[n].context # None => desk[n].context \in uploaded)'
    BY <1>7 DEF CutOff, Event, Open, Done, rows, runs, noteHistory, uploadHistory, chatHistory,
      Finished, Unsent, Single
  <2> QED
    BY <2>1, <2>2, <2>3, <2>4, <2>5 DEF Single
<1>8. ASSUME NEW m \in Messages, NEW t \in Tasks, Continue(m, t)  PROVE Single'
  <2>1. (\A v \in Uploads : takers[v] # {} /\ v \notin shared =>
          /\ \A s1, s2 \in takers[v] : s1 = s2
          /\ session.upload # v
          /\ \A n \in Messages : desk[n].upload # v /\ desk[n].context # v)'
    <3>1. \A n \in Messages :
             desk'[n] = desk[n] \/ (desk'[n].upload = None /\ desk'[n].context = None)
      <4>1. desk' = [desk EXCEPT ![m] = [Finished EXCEPT !.thread = desk[m].thread]]
        BY <1>8 DEF Continue, Make
      <4>2. desk'[m] = [Finished EXCEPT !.thread = desk[m].thread]
        BY <4>1, DeskMoves
      <4>3. desk'[m].upload = None /\ desk'[m].context = None
        BY <4>2 DEF Finished, Unsent
      <4>4. \A n \in Messages : n # m => desk'[n] = desk[n]
        BY <4>1, DeskMoves
      <4> QED
        BY <4>3, <4>4
    <3>2. UNCHANGED <<takers, shared>> /\ session'.upload = session.upload
      BY <1>8 DEF Continue, uploadHistory, TypeOK, Session
    <3>3. \A v \in Uploads : v # None
      BY ConversationAssumption
    <3> QED
      BY <3>1, <3>2, <3>3 DEF Single
  <2>2. (\A v \in Uploads : takers[v] # {} => v \in uploaded)'
    BY <1>8 DEF Continue, At, Make, Origin, Others, Absent, Finished, runs, noteHistory, Open,
      Unsent, Single
  <2>3. (session.upload # None => session.upload \in uploaded)'
    BY <1>8 DEF Continue, At, Make, Origin, Others, Absent, Finished, runs, noteHistory, Open,
      Unsent, Single
  <2>4. (\A n \in Messages : desk[n].upload # None => desk[n].upload \in uploaded)'
    BY <1>8 DEF Continue, At, Make, Origin, Others, Absent, Finished, runs, noteHistory, Open,
      Unsent, Single
  <2>5. (\A n \in Messages : desk[n].context # None => desk[n].context \in uploaded)'
    BY <1>8 DEF Continue, At, Make, Origin, Others, Absent, Finished, runs, noteHistory, Open,
      Unsent, Single
  <2> QED
    BY <2>1, <2>2, <2>3, <2>4, <2>5 DEF Single
<1>9. ASSUME NEW m \in Messages, NEW t \in Tasks, Create(m, t)  PROVE Single'
  <2>1. (\A v \in Uploads : takers[v] # {} /\ v \notin shared =>
          /\ \A s1, s2 \in takers[v] : s1 = s2
          /\ session.upload # v
          /\ \A n \in Messages : desk[n].upload # v /\ desk[n].context # v)'
    <3>1. /\ desk'[m].upload = None /\ desk'[m].context = None
          /\ \A n \in Messages : n # m => desk'[n] = desk[n]
      <4>1. desk' = [desk EXCEPT ![m] = [Finished EXCEPT !.thread = desk[m].thread]]
        BY <1>9 DEF Create, Make
      <4>2. desk'[m] = [Finished EXCEPT !.thread = desk[m].thread]
        BY <4>1, DeskMoves
      <4>3. desk'[m].upload = None /\ desk'[m].context = None
        BY <4>2 DEF Finished, Unsent
      <4>4. \A n \in Messages : n # m => desk'[n] = desk[n]
        BY <4>1, DeskMoves
      <4> QED
        BY <4>3, <4>4
    <3> SUFFICES ASSUME NEW v \in Uploads, takers'[v] # {}, v \notin shared'
                 PROVE  /\ \A s1, s2 \in takers'[v] : s1 = s2
                        /\ session'.upload # v
                        /\ \A n \in Messages : desk'[n].upload # v /\ desk'[n].context # v
      OBVIOUS
    <3>2. v # None
      BY ConversationAssumption
    <3>3. takers'[v] = IF v = desk[m].upload THEN takers[v] \cup {t} ELSE takers[v]
      BY <1>9 DEF Create, Attach
    <3>4. session'.upload \in {None, desk[m].context}
      BY <1>9 DEF Create, TypeOK, Session
    <3>5. CASE v = desk[m].upload
      <4>1. v \notin shared
        BY <1>9 DEF Create, Attach
      <4>2. takers[v] = {}
        BY <3>5, <4>1 DEF Single
      <4>3. \A n \in Others(m) : v \notin {desk[n].upload, desk[n].context}
        BY <1>9, <3>2, <3>5 DEF Create, Attach
      <4>4. \A n \in Messages : n # m => desk[n].upload # v /\ desk[n].context # v
        BY <3>2, <4>3 DEF Others, Open, Shape
      <4>5. session'.upload = None
        BY <1>9, <3>2, <3>5 DEF Create, TypeOK, Session, Shape
      <4> QED
        BY <3>1, <3>2, <3>3, <3>5, <4>2, <4>4, <4>5
    <3>6. CASE v # desk[m].upload
      <4>1. takers[v] # {} /\ v \notin shared
        BY <1>9, <3>3, <3>6 DEF Create, Attach
      <4>2. /\ \A s1, s2 \in takers[v] : s1 = s2
            /\ session.upload # v
            /\ \A n \in Messages : desk[n].upload # v /\ desk[n].context # v
        BY <4>1 DEF Single
      <4> QED
        BY <3>1, <3>2, <3>3, <3>4, <3>6, <4>2
    <3> QED
      BY <3>5, <3>6
  <2>2. (\A v \in Uploads : takers[v] # {} => v \in uploaded)'
    BY <1>9, ConversationAssumption DEF Create, At, Make, Attach, Absent, Finished, runs,
      noteHistory, Others, Unsent, Open, Single
  <2>3. (session.upload # None => session.upload \in uploaded)'
    BY <1>9 DEF Create, At, Make, Attach, Absent, Finished, runs, noteHistory, Others, Unsent,
      Open, Single
  <2>4. (\A n \in Messages : desk[n].upload # None => desk[n].upload \in uploaded)'
    BY <1>9 DEF Create, At, Make, Attach, Absent, Finished, runs, noteHistory, Others, Unsent,
      Open, Single
  <2>5. (\A n \in Messages : desk[n].context # None => desk[n].context \in uploaded)'
    BY <1>9 DEF Create, At, Make, Attach, Absent, Finished, runs, noteHistory, Others, Unsent,
      Open, Single
  <2> QED
    BY <2>1, <2>2, <2>3, <2>4, <2>5 DEF Single
<1>10. ASSUME NEW m \in Messages, NEW t \in Tasks, Reply(m, t)  PROVE Single'
  <2>1. (\A v \in Uploads : takers[v] # {} /\ v \notin shared =>
          /\ \A s1, s2 \in takers[v] : s1 = s2
          /\ session.upload # v
          /\ \A n \in Messages : desk[n].upload # v /\ desk[n].context # v)'
    BY <1>10, ConversationAssumption DEF Reply, At, Absent, Unsent, rows, runs, noteHistory,
      uploadHistory, chatHistory, Single
  <2>2. (\A v \in Uploads : takers[v] # {} => v \in uploaded)'
    BY <1>10 DEF Reply, At, Absent, Unsent, rows, runs, noteHistory, uploadHistory,
      chatHistory, Single
  <2>3. (session.upload # None => session.upload \in uploaded)'
    BY <1>10 DEF Reply, At, Absent, Unsent, rows, runs, noteHistory, uploadHistory,
      chatHistory, Single
  <2>4. (\A n \in Messages : desk[n].upload # None => desk[n].upload \in uploaded)'
    BY <1>10 DEF Reply, At, Absent, Unsent, rows, runs, noteHistory, uploadHistory,
      chatHistory, Single
  <2>5. (\A n \in Messages : desk[n].context # None => desk[n].context \in uploaded)'
    BY <1>10 DEF Reply, At, Absent, Unsent, rows, runs, noteHistory, uploadHistory,
      chatHistory, Single
  <2> QED
    BY <2>1, <2>2, <2>3, <2>4, <2>5 DEF Single
<1>16. ASSUME NEW t \in Tasks, Ended(t)  PROVE Single'
  BY <1>16 DEF Ended, InRun, Becomes, Releases, NoRun, runOnly, uploadHistory, Single
<1>22. ASSUME NEW u \in Uploads, Upload(u)  PROVE Single'
  <2>1. (\A v \in Uploads : takers[v] # {} /\ v \notin shared =>
          /\ \A s1, s2 \in takers[v] : s1 = s2
          /\ session.upload # v
          /\ \A n \in Messages : desk[n].upload # v /\ desk[n].context # v)'
    BY <1>22 DEF Upload, Event, Open, At, rows, runs, noteHistory, chatHistory, Single
  <2>2. (\A v \in Uploads : takers[v] # {} => v \in uploaded)'
    BY <1>22 DEF Upload, Event, Open, At, rows, runs, noteHistory, chatHistory, Single
  <2>3. (session.upload # None => session.upload \in uploaded)'
    BY <1>22 DEF Upload, Event, Open, At, rows, runs, noteHistory, chatHistory, Single
  <2>4. (\A n \in Messages : desk[n].upload # None => desk[n].upload \in uploaded)'
    BY <1>22 DEF Upload, Event, Open, At, rows, runs, noteHistory, chatHistory, Single
  <2>5. (\A n \in Messages : desk[n].context # None => desk[n].context \in uploaded)'
    BY <1>22 DEF Upload, Event, Open, At, rows, runs, noteHistory, chatHistory, Single
  <2> QED
    BY <2>1, <2>2, <2>3, <2>4, <2>5 DEF Single
<1>23. ASSUME ClearUpload  PROVE Single'
  BY <1>23, ConversationAssumption DEF ClearUpload, Event, rows, runs, noteHistory,
    chatHistory, Single
<1>24. ASSUME NEW th \in Threads, ChangeThread(th)  PROVE Single'
  BY <1>24, ConversationAssumption DEF ChangeThread, Event, Elsewhere, Open, rows, runs,
    noteHistory, Single
<1>25. ASSUME NEW t \in Tasks,
           \/ Take(t)
           \/ Read(t)
           \/ FindTerminal(t)
           \/ NextStep(t)
           \/ Wait(t)
           \/ Requeue(t)
           \/ TimeLimit(t)
           \/ Cancel(t)
           \/ Resume(t)
      PROVE  Single'
  BY <1>25 DEF Take, Read, FindTerminal, NextStep, Wait, Requeue, TimeLimit, Cancel, Resume,
    InRun, Becomes, runOnly, ReadAgain, Goto, EndRun, Event, runs, uploadHistory, NoRun, Single
<1>26. ASSUME NEW t \in Tasks, NEW outcome \in {"COMPLETED", "FAILED"},
           End(t, outcome)
      PROVE  Single'
  BY <1>26 DEF End, InRun, runOnly, uploadHistory, Single
<1> QED
  BY <1>1, <1>2, <1>3, <1>4, <1>5, <1>6, <1>7, <1>8, <1>9, <1>10, <1>16, <1>22, <1>23, <1>24,
    <1>25, <1>26 DEF Next, Handling, Running

(* A step of Next keeps InThread. *)
LEMMA InThreadStep ==
    ASSUME TypeOK, Known, InThread, Next
    PROVE  InThread'
<1>1. ASSUME NEW m \in Messages, Snapshot(m)  PROVE InThread'
  <2>1. (session.active # None => \/ desk[maker[session.active]].thread = session.thread
                                \/ maker[session.active] \in overtaken)'
    BY <1>1 DEF Snapshot, At, Unsent, rows, runs, noteHistory, uploadHistory, chatHistory,
      InThread
  <2>2. (\A n \in Messages : desk[n].pc \in {"deciding", "continuing", "creating"} =>
          desk[n].thread = session.thread \/ n \in overtaken)'
    BY <1>1 DEF Snapshot, At, Unsent, rows, runs, noteHistory, uploadHistory, chatHistory,
      InThread
  <2> QED
    BY <2>1, <2>2 DEF InThread
<1>2. ASSUME NEW m \in Messages, Answer(m)  PROVE InThread'
  BY <1>2 DEF Answer, At, Done, rows, runs, noteHistory, uploadHistory, chatHistory, Finished,
    Unsent, TypeOK, Known, InThread, Session, Status, Run, Desk, Absent, Terminal
<1>3. ASSUME NEW m \in Messages, FollowUp(m)  PROVE InThread'
  BY <1>3 DEF FollowUp, At, Terminal, rows, runs, noteHistory, uploadHistory, chatHistory,
    InThread
<1>4. ASSUME NEW m \in Messages, Add(m)  PROVE InThread'
  BY <1>4 DEF Add, At, AddTo, Done, runs, uploadHistory, chatHistory, Appended, Overlapped,
    Finished, Others, Unsent, Open, TypeOK, Known, InThread, Session, Status, Run, Desk,
    Absent, Terminal
<1>5. ASSUME NEW m \in Messages, NewTask(m)  PROVE InThread'
  BY <1>5 DEF NewTask, At, Remaining, rows, runs, noteHistory, uploadHistory, chatHistory,
    TypeOK, Known, InThread, Session, Status, Run, Desk, Absent, Terminal
<1>6. ASSUME NEW m \in Messages, Resumed(m)  PROVE InThread'
  BY <1>6 DEF Resumed, At, AddTo, Attach, Done, runs, chatHistory, Appended, Overlapped,
    Others, Finished, Open, Unsent, TypeOK, Known, InThread, Session, Status, Run, Desk,
    Absent, Terminal
<1>7. ASSUME NEW m \in Messages, CutOff(m)  PROVE InThread'
  BY <1>7 DEF CutOff, Event, Open, Done, rows, runs, noteHistory, uploadHistory, chatHistory,
    Finished, Unsent, TypeOK, Known, InThread, Session, Status, Run, Desk, Absent, Terminal
<1>8. ASSUME NEW m \in Messages, NEW t \in Tasks, Continue(m, t)  PROVE InThread'
  <2>1. (session.active # None => \/ desk[maker[session.active]].thread = session.thread
                                \/ maker[session.active] \in overtaken)'
    BY <1>8 DEF Continue, At, Make, Origin, Others, Absent, Finished, runs, noteHistory, Open,
      Unsent, InThread, TypeOK, Session, Status, Run, Desk, Terminal
  <2>2. (\A n \in Messages : desk[n].pc \in {"deciding", "continuing", "creating"} =>
          desk[n].thread = session.thread \/ n \in overtaken)'
    BY <1>8 DEF Continue, At, Make, Origin, Others, Absent, Finished, runs, noteHistory, Open,
      Unsent, InThread
  <2> QED
    BY <2>1, <2>2 DEF InThread
<1>9. ASSUME NEW m \in Messages, NEW t \in Tasks, Create(m, t)  PROVE InThread'
  <2>1. (session.active # None => \/ desk[maker[session.active]].thread = session.thread
                                \/ maker[session.active] \in overtaken)'
    BY <1>9 DEF Create, At, Make, Attach, Absent, Finished, runs, noteHistory, Others, Unsent,
      Open, InThread, TypeOK, Session, Status, Run, Desk, Terminal
  <2>2. (\A n \in Messages : desk[n].pc \in {"deciding", "continuing", "creating"} =>
          desk[n].thread = session.thread \/ n \in overtaken)'
    BY <1>9 DEF Create, At, Make, Attach, Absent, Finished, runs, noteHistory, Others, Unsent,
      Open, InThread
  <2> QED
    BY <2>1, <2>2 DEF InThread
<1>10. ASSUME NEW m \in Messages, NEW t \in Tasks, Reply(m, t)  PROVE InThread'
  BY <1>10 DEF Reply, At, Absent, Unsent, rows, runs, noteHistory, uploadHistory, chatHistory,
    TypeOK, Known, InThread, Session, Status, Run, Desk, Terminal
<1>16. ASSUME NEW t \in Tasks, Ended(t)  PROVE InThread'
  BY <1>16 DEF Ended, InRun, Becomes, Releases, NoRun, runOnly, uploadHistory, InThread
<1>22. ASSUME NEW u \in Uploads, Upload(u)  PROVE InThread'
  BY <1>22 DEF Upload, Event, Open, At, rows, runs, noteHistory, chatHistory, InThread
<1>23. ASSUME ClearUpload  PROVE InThread'
  BY <1>23 DEF ClearUpload, Event, rows, runs, noteHistory, chatHistory, InThread
<1>24. ASSUME NEW th \in Threads, ChangeThread(th)  PROVE InThread'
  <2>1. (session.active # None => \/ desk[maker[session.active]].thread = session.thread
                                \/ maker[session.active] \in overtaken)'
    BY <1>24 DEF ChangeThread, Event, Elsewhere, Open, rows, runs, noteHistory, InThread
  <2>2. (\A n \in Messages : desk[n].pc \in {"deciding", "continuing", "creating"} =>
          desk[n].thread = session.thread \/ n \in overtaken)'
    BY <1>24 DEF ChangeThread, Event, Elsewhere, Open, rows, runs, noteHistory, InThread
  <2> QED
    BY <2>1, <2>2 DEF InThread
<1>25. ASSUME NEW t \in Tasks,
           \/ Take(t)
           \/ Read(t)
           \/ FindTerminal(t)
           \/ NextStep(t)
           \/ Wait(t)
           \/ Requeue(t)
           \/ TimeLimit(t)
           \/ Cancel(t)
           \/ Resume(t)
      PROVE  InThread'
  BY <1>25 DEF Take, Read, FindTerminal, NextStep, Wait, Requeue, TimeLimit, Cancel, Resume,
    InRun, Becomes, runOnly, ReadAgain, Goto, EndRun, Event, runs, uploadHistory, NoRun,
    InThread
<1>26. ASSUME NEW t \in Tasks, NEW outcome \in {"COMPLETED", "FAILED"},
           End(t, outcome)
      PROVE  InThread'
  BY <1>26 DEF End, InRun, runOnly, uploadHistory, InThread
<1> QED
  BY <1>1, <1>2, <1>3, <1>4, <1>5, <1>6, <1>7, <1>8, <1>9, <1>10, <1>16, <1>22, <1>23, <1>24,
    <1>25, <1>26 DEF Next, Handling, Running

(* A step of Next keeps Followed. *)
LEMMA FollowedStep ==
    ASSUME TypeOK, Followed, Next
    PROVE  Followed'
<1>6. ASSUME NEW m \in Messages, Resumed(m)  PROVE Followed'
  BY <1>6 DEF Resumed, At, AddTo, Attach, Done, runs, chatHistory, Appended, Overlapped,
    Others, Finished, Open, Unsent, Followed
<1>8. ASSUME NEW m \in Messages, NEW t \in Tasks, Continue(m, t)  PROVE Followed'
  BY <1>8 DEF Continue, At, Make, Origin, Others, Absent, Finished, runs, noteHistory, Open,
    Unsent, Followed
<1>9. ASSUME NEW m \in Messages, NEW t \in Tasks, Create(m, t)  PROVE Followed'
  BY <1>9 DEF Create, At, Make, Attach, Absent, Finished, runs, noteHistory, Others, Unsent,
    Open, Followed
<1>11. ASSUME NEW t \in Tasks, Take(t)  PROVE Followed'
  BY <1>11 DEF Take, InRun, Becomes, runOnly, uploadHistory, Followed
<1>12. ASSUME NEW t \in Tasks, Read(t)  PROVE Followed'
  BY <1>12 DEF Read, InRun, Terminal, ReadAgain, Becomes, Goto, runOnly, uploadHistory, Followed
<1>13. ASSUME NEW t \in Tasks, FindTerminal(t)  PROVE Followed'
  BY <1>13 DEF FindTerminal, InRun, Terminal, EndRun, runOnly, NoRun, uploadHistory, Followed
<1>14. ASSUME NEW t \in Tasks, NextStep(t)  PROVE Followed'
  BY <1>14 DEF NextStep, InRun, Goto, runOnly, uploadHistory, Followed
<1>15. ASSUME NEW t \in Tasks, Wait(t)  PROVE Followed'
  BY <1>15 DEF Wait, InRun, Becomes, EndRun, runOnly, NoRun, uploadHistory, Followed
<1>16. ASSUME NEW t \in Tasks, Ended(t)  PROVE Followed'
  BY <1>16 DEF Ended, InRun, Becomes, Releases, NoRun, runOnly, uploadHistory, Followed
<1>17. ASSUME NEW t \in Tasks, Requeue(t)  PROVE Followed'
  BY <1>17 DEF Requeue, Event, InRun, Becomes, EndRun, runOnly, NoRun, uploadHistory, Followed
<1>18. ASSUME NEW t \in Tasks, TimeLimit(t)  PROVE Followed'
  BY <1>18 DEF TimeLimit, Event, InRun, Becomes, EndRun, runOnly, NoRun, uploadHistory, Followed
<1>21. ASSUME NEW t \in Tasks, NEW outcome \in {"COMPLETED", "FAILED"}, End(t, outcome)  PROVE Followed'
  BY <1>21 DEF End, InRun, runOnly, uploadHistory, Followed, TypeOK, Session, Status, Run,
    Desk, Absent, Terminal
<1>22. ASSUME NEW u \in Uploads, Upload(u)  PROVE Followed'
  BY <1>22 DEF Upload, Event, Open, At, rows, runs, noteHistory, chatHistory, Followed
<1>23. ASSUME ClearUpload  PROVE Followed'
  BY <1>23 DEF ClearUpload, Event, rows, runs, noteHistory, chatHistory, Followed
<1>24. ASSUME NEW th \in Threads, ChangeThread(th)  PROVE Followed'
  BY <1>24 DEF ChangeThread, Event, Elsewhere, Open, rows, runs, noteHistory, Followed
<1>25. ASSUME NEW m \in Messages,
           \/ Snapshot(m)
           \/ Answer(m)
           \/ FollowUp(m)
           \/ Add(m)
           \/ NewTask(m)
           \/ CutOff(m)
      PROVE  Followed'
  BY <1>25 DEF Snapshot, Answer, FollowUp, Add, NewTask, CutOff, At, rows, runs, noteHistory,
    uploadHistory, chatHistory, Done, AddTo, Remaining, Event, Open, Finished, Appended,
    Overlapped, Others, Followed
<1>26. ASSUME NEW m \in Messages, NEW t \in Tasks,
           Reply(m, t)
      PROVE  Followed'
  BY <1>26 DEF Reply, At, rows, runs, noteHistory, uploadHistory, chatHistory, Followed
<1>27. ASSUME NEW t \in Tasks,
           \/ Cancel(t)
           \/ Resume(t)
      PROVE  Followed'
  BY <1>27 DEF Cancel, Resume, Event, Becomes, runOnly, runs, uploadHistory, Followed
<1> QED
  BY <1>6, <1>8, <1>9, <1>11, <1>12, <1>13, <1>14, <1>15, <1>16, <1>17, <1>18, <1>21, <1>22,
    <1>23, <1>24, <1>25, <1>26, <1>27 DEF Next, Handling, Running

(* A step of Next keeps Once. *)
LEMMA OnceStep ==
    ASSUME TypeOK, Shape, Known, Once, Next
    PROVE  Once'
<1>1. ASSUME NEW m \in Messages, Snapshot(m)  PROVE Once'
  <2>1. (\A s \in Tasks : parent[s] # None /\ parent[s] \notin forked =>
          /\ session.active # parent[s]
          /\ \A n \in Messages : desk[n].task = parent[s] => desk[n].pc \notin {"deciding", "continuing"})'
    BY <1>1 DEF Snapshot, At, Unsent, rows, runs, noteHistory, uploadHistory, chatHistory, Once
  <2>2. (\A s1, s2 \in Tasks :
          parent[s1] = parent[s2] /\ parent[s1] # None => s1 = s2 \/ parent[s1] \in forked)'
    BY <1>1 DEF Snapshot, At, Unsent, rows, runs, noteHistory, uploadHistory, chatHistory, Once
  <2> QED
    BY <2>1, <2>2 DEF Once
<1>2. ASSUME NEW m \in Messages, Answer(m)  PROVE Once'
  BY <1>2 DEF Answer, At, Done, rows, runs, noteHistory, uploadHistory, chatHistory, Finished,
    Unsent, Once
<1>3. ASSUME NEW m \in Messages, FollowUp(m)  PROVE Once'
  <2>1. (\A s \in Tasks : parent[s] # None /\ parent[s] \notin forked =>
          /\ session.active # parent[s]
          /\ \A n \in Messages : desk[n].task = parent[s] => desk[n].pc \notin {"deciding", "continuing"})'
    BY <1>3 DEF FollowUp, At, Terminal, rows, runs, noteHistory, uploadHistory, chatHistory,
      Once
  <2>2. (\A s1, s2 \in Tasks :
          parent[s1] = parent[s2] /\ parent[s1] # None => s1 = s2 \/ parent[s1] \in forked)'
    BY <1>3 DEF FollowUp, At, Terminal, rows, runs, noteHistory, uploadHistory, chatHistory,
      Once
  <2> QED
    BY <2>1, <2>2 DEF Once
<1>4. ASSUME NEW m \in Messages, Add(m)  PROVE Once'
  BY <1>4 DEF Add, At, AddTo, Done, runs, uploadHistory, chatHistory, Appended, Overlapped,
    Finished, Others, Unsent, Open, Once
<1>5. ASSUME NEW m \in Messages, NewTask(m)  PROVE Once'
  BY <1>5 DEF NewTask, At, Remaining, rows, runs, noteHistory, uploadHistory, chatHistory,
    Once, TypeOK, Session, Status, Run, Desk, Absent, Terminal
<1>6. ASSUME NEW m \in Messages, Resumed(m)  PROVE Once'
  BY <1>6 DEF Resumed, At, AddTo, Attach, Done, runs, chatHistory, Appended, Overlapped,
    Others, Finished, Open, Unsent, Once
<1>7. ASSUME NEW m \in Messages, CutOff(m)  PROVE Once'
  BY <1>7 DEF CutOff, Event, Open, Done, rows, runs, noteHistory, uploadHistory, chatHistory,
    Finished, Unsent, Once
<1>8. ASSUME NEW m \in Messages, NEW t \in Tasks, Continue(m, t)  PROVE Once'
  <2>1. (\A s \in Tasks : parent[s] # None /\ parent[s] \notin forked =>
          /\ session.active # parent[s]
          /\ \A n \in Messages : desk[n].task = parent[s] => desk[n].pc \notin {"deciding", "continuing"})'
    BY <1>8, ConversationAssumption DEF Continue, At, Make, Origin, Others, Absent, Finished,
      runs, noteHistory, Open, Unsent, TypeOK, Shape, Known, Once, Session, Status, Run, Desk,
      Terminal
  <2>2. (\A s1, s2 \in Tasks :
          parent[s1] = parent[s2] /\ parent[s1] # None => s1 = s2 \/ parent[s1] \in forked)'
    BY <1>8 DEF Continue, At, Make, Origin, Others, Absent, Finished, runs, noteHistory, Open,
      Unsent, Once
  <2> QED
    BY <2>1, <2>2 DEF Once
<1>9. ASSUME NEW m \in Messages, NEW t \in Tasks, Create(m, t)  PROVE Once'
  <2>1. (\A s \in Tasks : parent[s] # None /\ parent[s] \notin forked =>
          /\ session.active # parent[s]
          /\ \A n \in Messages : desk[n].task = parent[s] => desk[n].pc \notin {"deciding", "continuing"})'
    BY <1>9 DEF Create, At, Make, Attach, Absent, Finished, runs, noteHistory, Others, Unsent,
      Open, TypeOK, Shape, Known, Once, Session, Status, Run, Desk, Terminal
  <2>2. (\A s1, s2 \in Tasks :
          parent[s1] = parent[s2] /\ parent[s1] # None => s1 = s2 \/ parent[s1] \in forked)'
    BY <1>9 DEF Create, At, Make, Attach, Absent, Finished, runs, noteHistory, Others, Unsent,
      Open, Once
  <2> QED
    BY <2>1, <2>2 DEF Once
<1>10. ASSUME NEW m \in Messages, NEW t \in Tasks, Reply(m, t)  PROVE Once'
  <2>1. (\A s \in Tasks : parent[s] # None /\ parent[s] \notin forked =>
          /\ session.active # parent[s]
          /\ \A n \in Messages : desk[n].task = parent[s] => desk[n].pc \notin {"deciding", "continuing"})'
    BY <1>10 DEF Reply, At, Absent, Unsent, rows, runs, noteHistory, uploadHistory,
      chatHistory, Once
  <2>2. (\A s1, s2 \in Tasks :
          parent[s1] = parent[s2] /\ parent[s1] # None => s1 = s2 \/ parent[s1] \in forked)'
    BY <1>10 DEF Reply, At, Absent, Unsent, rows, runs, noteHistory, uploadHistory,
      chatHistory, Once
  <2> QED
    BY <2>1, <2>2 DEF Once
<1>16. ASSUME NEW t \in Tasks, Ended(t)  PROVE Once'
  BY <1>16 DEF Ended, InRun, Becomes, Releases, NoRun, runOnly, uploadHistory, Once
<1>22. ASSUME NEW u \in Uploads, Upload(u)  PROVE Once'
  BY <1>22 DEF Upload, Event, Open, At, rows, runs, noteHistory, chatHistory, Once
<1>23. ASSUME ClearUpload  PROVE Once'
  BY <1>23 DEF ClearUpload, Event, rows, runs, noteHistory, chatHistory, Once
<1>24. ASSUME NEW th \in Threads, ChangeThread(th)  PROVE Once'
  BY <1>24 DEF ChangeThread, Event, Elsewhere, Open, rows, runs, noteHistory, Once
<1>25. ASSUME NEW t \in Tasks,
           \/ Take(t)
           \/ Read(t)
           \/ FindTerminal(t)
           \/ NextStep(t)
           \/ Wait(t)
           \/ Requeue(t)
           \/ TimeLimit(t)
           \/ Cancel(t)
           \/ Resume(t)
      PROVE  Once'
  BY <1>25 DEF Take, Read, FindTerminal, NextStep, Wait, Requeue, TimeLimit, Cancel, Resume,
    InRun, Becomes, runOnly, ReadAgain, Goto, EndRun, Event, runs, uploadHistory, NoRun, Once
<1>26. ASSUME NEW t \in Tasks, NEW outcome \in {"COMPLETED", "FAILED"},
           End(t, outcome)
      PROVE  Once'
  BY <1>26 DEF End, InRun, runOnly, uploadHistory, Once
<1> QED
  BY <1>1, <1>2, <1>3, <1>4, <1>5, <1>6, <1>7, <1>8, <1>9, <1>10, <1>16, <1>22, <1>23, <1>24,
    <1>25, <1>26 DEF Next, Handling, Running

(* The inductive invariant.                                                 *)
Talks == TypeOK /\ Shape /\ Known /\ Kept /\ Heard /\ Waiting /\ Single /\ InThread /\ Followed /\ Once

(* The invariant holds at first, is kept, and so holds always.              *)
LEMMA TalksInit == Init => Talks
<1> SUFFICES ASSUME Init PROVE Talks
  OBVIOUS
<1>1. TypeOK
  BY ConversationAssumption DEF Init, TypeOK, Absent, NoRun, Unsent, Session, Status, Run,
    Desk, Terminal
<1>2. Shape
  BY ConversationAssumption DEF Init, Shape, Absent, NoRun, Unsent
<1>3. Known
  BY ConversationAssumption DEF Init, Known, Absent, NoRun, Unsent
<1>4. Kept
  BY ConversationAssumption DEF Init, Kept, Absent, NoRun, Unsent
<1>5. Heard
  BY ConversationAssumption DEF Init, Heard, Absent, NoRun, Unsent
<1>6. Waiting
  BY ConversationAssumption DEF Init, Waiting, Absent, NoRun, Unsent
<1>7. Single
  BY ConversationAssumption DEF Init, Single, Absent, NoRun, Unsent
<1>8. InThread
  BY ConversationAssumption DEF Init, InThread, Absent, NoRun, Unsent
<1>9. Followed
  BY ConversationAssumption DEF Init, Followed, Absent, NoRun, Unsent
<1>10. Once
  BY ConversationAssumption DEF Init, Once, Absent, NoRun, Unsent
<1> QED
  BY <1>1, <1>2, <1>3, <1>4, <1>5, <1>6, <1>7, <1>8, <1>9, <1>10 DEF Talks

LEMMA TalksStep == Talks /\ [Next]_vars => Talks'
<1> SUFFICES ASSUME Talks, [Next]_vars PROVE Talks'
  OBVIOUS
<1>1. CASE Next
  BY <1>1, TypeStep, ShapeStep, KnownStep, KeptStep, HeardStep, WaitingStep, SingleStep,
    InThreadStep, FollowedStep, OnceStep DEF Talks
<1>2. CASE UNCHANGED vars
  <2>1. TypeOK'
    BY <1>2 DEF Talks, vars, TypeOK, rows, runs, noteHistory, uploadHistory, chatHistory,
      Session, Status, Run, Desk, Absent, Terminal
  <2>2. Shape'
    BY <1>2 DEF Talks, vars, Shape, rows, runs, noteHistory, uploadHistory, chatHistory
  <2>3. Known'
    BY <1>2 DEF Talks, vars, Known, rows, runs, noteHistory, uploadHistory, chatHistory, Absent
  <2>4. Kept'
    BY <1>2 DEF Talks, vars, Kept, rows, runs, noteHistory, uploadHistory, chatHistory
  <2>5. Heard'
    BY <1>2 DEF Talks, vars, Heard, rows, runs, noteHistory, uploadHistory, chatHistory
  <2>6. Waiting'
    BY <1>2 DEF Talks, vars, Waiting, rows, runs, noteHistory, uploadHistory, chatHistory
  <2>7. Single'
    BY <1>2 DEF Talks, vars, Single, rows, runs, noteHistory, uploadHistory, chatHistory
  <2>8. InThread'
    BY <1>2 DEF Talks, vars, InThread, rows, runs, noteHistory, uploadHistory, chatHistory
  <2>9. Followed'
    BY <1>2 DEF Talks, vars, Followed, rows, runs, noteHistory, uploadHistory, chatHistory
  <2>10. Once'
    BY <1>2 DEF Talks, vars, Once, rows, runs, noteHistory, uploadHistory, chatHistory
  <2> QED
    BY <2>1, <2>2, <2>3, <2>4, <2>5, <2>6, <2>7, <2>8, <2>9, <2>10 DEF Talks
<1> QED
  BY <1>1, <1>2

LEMMA TalksAlways == Spec => []Talks
BY TalksInit, TalksStep, PTL DEF Spec

(* Every row of the chat's session, its tasks, messages and runs keeps its type. *)
THEOREM ConversationTypeCorrect == Spec => []TypeOK
BY TalksAlways, PTL DEF Talks

(* A follow-up or a reply that was confirmed stays in the task's request,
   unless another was being written at the time. *)
THEOREM ConversationFollowUpKept == Spec => []FollowUpKept
<1>1. Talks => FollowUpKept
  BY ConversationAssumption DEF Talks, Kept, FollowUpKept, TypeOK, Session, Status, Run, Desk,
    Absent, Terminal
<1> QED
  BY <1>1, TalksAlways, PTL

(* A task that answers has read what was added before its last look. *)
THEOREM ConversationFollowUpHeeded == Spec => []FollowUpHeeded
<1>1. Talks => FollowUpHeeded
  BY ConversationAssumption DEF Talks, Heard, FollowUpHeeded, TypeOK, Session, Status, Run,
    Desk, Absent, Terminal
<1> QED
  BY <1>1, TalksAlways, PTL

(* An upload waits or is attached, unless the owner gave it up or an earlier
   one was being attached when it came. *)
THEOREM ConversationUploadNotLost == Spec => []UploadNotLost
<1>1. Talks => UploadNotLost
  BY ConversationAssumption DEF Talks, Waiting, UploadNotLost, TypeOK, Session, Status, Run,
    Desk, Absent, Terminal
<1> QED
  BY <1>1, TalksAlways, PTL

(* An upload is attached to one task, unless two messages had it at a time. *)
THEOREM ConversationAttachedOnce == Spec => []AttachedOnce
<1>1. Talks => AttachedOnce
  BY ConversationAssumption DEF Talks, Single, AttachedOnce, TypeOK, Session, Status, Run,
    Desk, Absent, Terminal
<1> QED
  BY <1>1, TalksAlways, PTL

(* The chat's active task was asked for in its thread, unless the thread
   changed while the message was handled. *)
THEOREM ConversationThreadsStaySeparate == Spec => []ThreadsStaySeparate
<1>1. Talks => ThreadsStaySeparate
  BY ConversationAssumption DEF Talks, InThread, ThreadsStaySeparate, TypeOK, Session, Status,
    Run, Desk, Absent, Terminal
<1> QED
  BY <1>1, TalksAlways, PTL

(* The chat is about the task it made last until that ends or the thread
   changes, unless a release was in progress. *)
THEOREM ConversationNewTaskIsFollowed == Spec => []NewTaskIsFollowed
<1>1. Talks => NewTaskIsFollowed
  BY ConversationAssumption DEF Talks, Followed, NewTaskIsFollowed, TypeOK, Session, Status,
    Run, Desk, Absent, Terminal
<1> QED
  BY <1>1, TalksAlways, PTL

(* A finished task is continued once, unless two messages were about to
   continue it at a time. *)
THEOREM ConversationOneContinuation == Spec => []OneContinuation
<1>1. Talks => OneContinuation
  BY ConversationAssumption DEF Talks, Once, OneContinuation, TypeOK, Session, Status, Run,
    Desk, Absent, Terminal
<1> QED
  BY <1>1, TalksAlways, PTL
=============================================================================
