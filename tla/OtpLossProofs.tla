---------------------------- MODULE OtpLossProofs ----------------------------
(***************************************************************************)
(* No upload is lost, and no removal undone, but by operations that        *)
(* overlap: what every list held by an operation under way has to do with  *)
(* the rows it will be written over.                                       *)
(***************************************************************************)
EXTENDS OtpProofs

Excused == dropped \cup retired \cup overlapped

(* The strengthening of LossNeedsOverlap: but for what is excused, a queue *)
(* that was read lacks nothing of the queue that does not run, and has     *)
(* nothing that is in neither list; the queue about to be cleared runs;    *)
(* and the active files that were read are those that run.                 *)
Accounted ==
    /\ uploaded \subseteq Ids(queue) \cup Ids(active) \cup Excused
    /\ \A d \in Desks : HoldsQueue(d) =>
          /\ Ids(queue) \subseteq Ids(desk[d].list) \cup Ids(active) \cup Excused
          /\ Ids(desk[d].list) \subseteq Ids(queue) \cup Ids(active) \cup Excused
          /\ desk[d].pc = "clear" => Ids(queue) \subseteq Ids(active) \cup Excused
    /\ \A k \in Cyclers : HoldsActive(k) =>
          /\ Ids(active) \subseteq Ids(cycle[k].list) \cup Excused
          /\ Ids(cycle[k].list) \subseteq Ids(active) \cup Excused

(* The strengthening of RemovalStands: what was removed is not in a list   *)
(* that will be written back, nor in an upload that is being analysed.     *)
Removed ==
    /\ Ids(queue) \cup Ids(active) \cup gone \subseteq uploaded
    /\ gone \cap (Ids(queue) \cup Ids(active)) \subseteq overlapped
    /\ \A d \in Desks : HoldsQueue(d) =>
          Ids(desk[d].list) \subseteq uploaded /\ gone \cap Ids(desk[d].list) \subseteq overlapped
    /\ \A k \in Cyclers : HoldsActive(k) =>
          Ids(cycle[k].list) \subseteq uploaded /\ gone \cap Ids(cycle[k].list) \subseteq overlapped
    /\ \A d \in Desks : desk[d].pc = "enqueue" =>
          /\ \A c \in Countries : <<desk[d].file, c>> \notin uploaded
          /\ \A o \in Desks : desk[o].pc = "enqueue" /\ desk[o].file = desk[d].file => o = d

LEMMA HeldMembers ==
    /\ \A d \in Desks : HoldsQueue(d) => Ids(desk[d].list) \subseteq Held
    /\ \A k \in Cyclers : HoldsActive(k) => Ids(cycle[k].list) \subseteq Held
BY DEF Held

LEMMA IdsEmpty == Ids({}) = {}
BY DEF Ids

LEMMA IdsSplit ==
    ASSUME NEW S, NEW T
    PROVE  /\ Ids(S \cup T) = Ids(S) \cup Ids(T)
           /\ S \subseteq T => Ids(S) \subseteq Ids(T)
           /\ Ids(T) \subseteq Ids(T \ S) \cup Ids(S)
BY DEF Ids

LEMMA IdsPopped ==
    ASSUME NEW S \in SUBSET Entries, NEW id
    PROVE  Ids(Popped(S, id)) = Ids(S)
<1>1. \A e \in S : Id([e EXCEPT !.waiting = Unset]) = Id(e)
  BY DEF Entries, Id
<1> QED BY <1>1 DEF Ids, Popped

LEMMA IdsSorted ==
    ASSUME NEW d \in Desks, NEW S \in SUBSET Entries
    PROVE  Ids(Sorted(d, S)) = Ids(S)
<1>1. \A e \in S : \A w : Id([e EXCEPT !.waiting = w]) = Id(e)
  <2> TAKE e \in S
  <2> TAKE w
  <2>1. e \in Entries
    OBVIOUS
  <2> QED BY <2>1 DEF Entries, Id
<1> DEFINE wait(e) == IF IsNow(Gate(d, e.country)) THEN Unset ELSE Gate(d, e.country)
<1>2. Ids(Sorted(d, S)) = {Id([e EXCEPT !.waiting = wait(e)]) : e \in S}
  BY DEF Ids, Sorted
<1> HIDE DEF wait
<1>3. \A e \in S : Id([e EXCEPT !.waiting = wait(e)]) = Id(e)
  BY <1>1
<1> QED BY <1>2, <1>3, Zenon DEF Ids

LEMMA IdsRetagged ==
    ASSUME TypeOK, NEW e \in queue
    PROVE  Ids(Retagged(e)) = Ids(queue)
<1>1. Id(Tag(e)) = Id(e)
  BY DEF TypeOK, Entries, Id, Tag
<1> QED BY <1>1 DEF Ids, Retagged

(* An operation that leaves the ids in both lists, and those in the lists  *)
(* that operations hold, as they are; it may let go of such a list.        *)
DeskCalm(d) ==
    \/ desk'[d] = desk[d]
    \/ desk'[d].pc \in {"idle", "uploaded", "start"}
    \/ /\ desk[d].pc \in {"stock", "adding"} /\ desk'[d].pc \in {"adding", "merge"}
       /\ Ids(desk'[d].list) = Ids(desk[d].list)

CycleCalm(k) ==
    \/ cycle'[k] = cycle[k]
    \/ cycle'[k].pc # "waitadd"
    \/ cycle[k].pc = "waitadd" /\ Ids(cycle'[k].list) = Ids(cycle[k].list)

HoldersCalm == (\A d \in Desks : DeskCalm(d)) /\ (\A k \in Cyclers : CycleCalm(k))

LEMMA HoldersCalmly ==
    ASSUME HoldersCalm
    PROVE  /\ \A d \in Desks : HoldsQueue(d)' =>
                 HoldsQueue(d) /\ Ids(desk'[d].list) = Ids(desk[d].list)
           /\ \A d \in Desks : desk'[d].pc = "clear" => desk[d].pc = "clear"
           /\ \A d \in Desks : desk'[d].pc = "enqueue" => desk'[d] = desk[d]
           /\ \A k \in Cyclers : HoldsActive(k)' =>
                 HoldsActive(k) /\ Ids(cycle'[k].list) = Ids(cycle[k].list)
BY DEF HoldersCalm, DeskCalm, CycleCalm, HoldsQueue, HoldsActive

Sound == Accounted /\ Removed

LEMMA SoundCalm ==
    ASSUME Sound, HoldersCalm, Ids(queue') = Ids(queue), Ids(active') = Ids(active),
           UNCHANGED <<uploaded, dropped, gone, retired, overlapped>>
    PROVE  Sound'
<1>1. Accounted'
  BY HoldersCalmly DEF Sound, Accounted, Excused
<1>2. Removed'
  BY HoldersCalmly DEF Sound, Removed
<1> QED BY <1>1, <1>2 DEF Sound

(* An operation that takes entries out of the lists, as finished or at the *)
(* owner's word.                                                           *)
LEMMA AccountedLess ==
    ASSUME Accounted, HoldersCalm, uploaded' = uploaded,
           Ids(queue') \subseteq Ids(queue), Ids(active') \subseteq Ids(active),
           Excused \subseteq Excused',
           Ids(queue) \ Ids(queue') \subseteq Excused',
           Ids(active) \ Ids(active') \subseteq Excused'
    PROVE  Accounted'
BY HoldersCalmly DEF Accounted

LEMMA SoundDropping ==
    ASSUME Sound, HoldersCalm, Dropping, queue' \subseteq queue, active' \subseteq active
    PROVE  Sound'
<1> DEFINE removed == (Ids(queue) \ Ids(queue')) \cup (Ids(active) \ Ids(active'))
           left == Ids(queue') \cup Ids(active')
<1>1. /\ dropped' = dropped \cup removed
      /\ gone' = gone \cup (removed \ left)
      /\ overlapped' = overlapped \cup ((removed \ left) \cap Held)
      /\ uploaded' = uploaded /\ retired' = retired
  BY DEF Dropping
<1>2. Ids(queue') \subseteq Ids(queue) /\ Ids(active') \subseteq Ids(active)
  BY IdsSplit
<1>3. Accounted'
  BY <1>1, <1>2, AccountedLess DEF Sound, Excused
<1>4. removed \subseteq uploaded /\ left \subseteq Ids(queue) \cup Ids(active)
  BY <1>2 DEF Sound, Removed
<1>5. \A d \in Desks : HoldsQueue(d)' =>
         Ids(desk'[d].list) \subseteq uploaded' /\ gone' \cap Ids(desk'[d].list) \subseteq overlapped'
  BY <1>1, HoldersCalmly, HeldMembers DEF Sound, Removed
<1>6. \A k \in Cyclers : HoldsActive(k)' =>
         Ids(cycle'[k].list) \subseteq uploaded' /\ gone' \cap Ids(cycle'[k].list) \subseteq overlapped'
  BY <1>1, HoldersCalmly, HeldMembers DEF Sound, Removed
<1>7. \A d \in Desks : desk'[d].pc = "enqueue" =>
          /\ \A c \in Countries : <<desk'[d].file, c>> \notin uploaded'
          /\ \A o \in Desks : desk'[o].pc = "enqueue" /\ desk'[o].file = desk'[d].file => o = d
  BY <1>1, HoldersCalmly DEF Sound, Removed
<1>8. Ids(queue') \cup Ids(active') \cup gone' \subseteq uploaded'
  BY <1>1, <1>2, <1>4 DEF Sound, Removed
<1>9. gone' \cap (Ids(queue') \cup Ids(active')) \subseteq overlapped'
  BY <1>1, <1>4 DEF Sound, Removed
<1>10. Removed'
  BY <1>5, <1>6, <1>7, <1>8, <1>9 DEF Removed
<1> QED BY <1>3, <1>10 DEF Sound
-----------------------------------------------------------------------------
(* The operations of a desk. *)
LEMMA SoundUploadBegin == ASSUME TypeOK, Sound, NEW d \in Desks, NEW f \in Files, UploadBegin(d, f) PROVE Sound'
<1> USE DEF UploadBegin, rows, history
<1>1. /\ desk'[d].pc = "enqueue" /\ desk'[d].list = queue /\ desk'[d].file = f
      /\ \A o \in Desks : o # d => desk'[o] = desk[o]
  BY DEF TypeOK, Handlers, Idle
<1>2. \A c \in Countries : <<f, c>> \notin uploaded
  <2>1. \A c : <<f, c>>[1] = f
    OBVIOUS
  <2>2. f \notin {id[1] : id \in uploaded}
    OBVIOUS
  <2> QED BY <2>1, <2>2
<1>3. UNCHANGED <<queue, active, cycle, uploaded, gone, dropped, retired, overlapped>>
  OBVIOUS
<1>4. Accounted'
  BY <1>1, <1>3 DEF Sound, Accounted, Excused, HoldsQueue, HoldsActive
<1>5. \A o \in Desks : desk[o].file # f
  OBVIOUS
<1>6. Removed'
  BY <1>1, <1>2, <1>3, <1>5 DEF Sound, Removed, HoldsQueue, HoldsActive
<1> QED BY <1>4, <1>6 DEF Sound

LEMMA SoundUploadEnd == ASSUME TypeOK, Sound, NEW d \in Desks, UploadEnd(d) PROVE Sound'
<1>1. PICK new :
         /\ queue' = desk[d].list \cup new
         /\ uploaded' = uploaded \cup Ids(new)
         /\ overlapped' = IF \E o \in Desks \ {d} : HoldsQueue(o)
                          THEN overlapped \cup Ids(new) ELSE overlapped
         /\ Ids(new) \subseteq {desk[d].file} \X Countries
  <2>1. PICK from \in {"caption", "name", "memory"}, t \in Timings, split \in Holds[desk[d].file] :
         LET new == {[file |-> desk[d].file, country |-> c, waiting |-> Unset,
                      tagged |-> from # "memory" \/ c \in tagKnown] : c \in split}
         IN  /\ queue' = desk[d].list \cup new
             /\ uploaded' = uploaded \cup Ids(new)
             /\ overlapped' = IF \E o \in Desks \ {d} : HoldsQueue(o)
                              THEN overlapped \cup Ids(new) ELSE overlapped
    BY DEF UploadEnd
  <2>2. split \subseteq Countries
    BY OtpAssumption DEF UploadEnd, TypeOK, Handlers
  <2> DEFINE new == {[file |-> desk[d].file, country |-> c, waiting |-> Unset,
                      tagged |-> from # "memory" \/ c \in tagKnown] : c \in split}
  <2>3. Ids(new) \subseteq {desk[d].file} \X Countries
    BY <2>2 DEF Ids, Id
  <2> QED BY <2>1, <2>3
<1>2. /\ HoldsQueue(d) /\ desk[d].pc = "enqueue" /\ ~HoldsQueue(d)' /\ desk'[d].pc # "enqueue"
      /\ \A o \in Desks : o # d => desk'[o] = desk[o]
      /\ UNCHANGED <<active, cycle, dropped, gone, retired>>
  BY DEF UploadEnd, TypeOK, Handlers, Idle, HoldsQueue
<1>3. Ids(queue') = Ids(desk[d].list) \cup Ids(new)
  BY <1>1, IdsSplit
<1>4. \A o \in Desks : HoldsQueue(o)' =>
         o # d /\ HoldsQueue(o) /\ desk'[o] = desk[o] /\ Ids(new) \subseteq overlapped'
  BY <1>1, <1>2 DEF HoldsQueue
<1>5. overlapped \subseteq overlapped' /\ overlapped' \subseteq overlapped \cup Ids(new)
  BY <1>1
<1>6. Excused' = dropped \cup retired \cup overlapped'
  BY <1>2 DEF Excused
<1>7. Accounted'
  <2>1. uploaded' \subseteq Ids(queue') \cup Ids(active') \cup Excused'
    BY <1>1, <1>2, <1>3, <1>5, <1>6 DEF Sound, Accounted, Excused
  <2>2. \A o \in Desks : HoldsQueue(o)' =>
          /\ Ids(queue') \subseteq Ids(desk'[o].list) \cup Ids(active') \cup Excused'
          /\ Ids(desk'[o].list) \subseteq Ids(queue') \cup Ids(active') \cup Excused'
          /\ desk'[o].pc = "clear" => Ids(queue') \subseteq Ids(active') \cup Excused'
    BY <1>2, <1>3, <1>4, <1>5, <1>6 DEF Sound, Accounted, Excused
  <2>3. \A k \in Cyclers : HoldsActive(k)' =>
          /\ Ids(active') \subseteq Ids(cycle'[k].list) \cup Excused'
          /\ Ids(cycle'[k].list) \subseteq Ids(active') \cup Excused'
    BY <1>2, <1>5, <1>6 DEF Sound, Accounted, Excused, HoldsActive
  <2> QED BY <2>1, <2>2, <2>3 DEF Accounted
<1>8. Ids(new) \cap uploaded = {} /\ gone \subseteq uploaded
  BY <1>1, <1>2 DEF Sound, Removed
<1>9. Removed'
  <2>1. /\ Ids(queue') \cup Ids(active') \cup gone' \subseteq uploaded'
        /\ gone' \cap (Ids(queue') \cup Ids(active')) \subseteq overlapped'
    BY <1>1, <1>2, <1>3, <1>5, <1>8 DEF Sound, Removed
  <2>2. \A o \in Desks : HoldsQueue(o)' =>
          Ids(desk'[o].list) \subseteq uploaded' /\ gone' \cap Ids(desk'[o].list) \subseteq overlapped'
    BY <1>1, <1>2, <1>4, <1>5 DEF Sound, Removed
  <2>3. \A k \in Cyclers : HoldsActive(k)' =>
          Ids(cycle'[k].list) \subseteq uploaded' /\ gone' \cap Ids(cycle'[k].list) \subseteq overlapped'
    BY <1>1, <1>2, <1>5 DEF Sound, Removed, HoldsActive
  <2>4. ASSUME NEW o \in Desks, desk'[o].pc = "enqueue"
        PROVE  /\ \A c \in Countries : <<desk'[o].file, c>> \notin uploaded'
               /\ \A p \in Desks : desk'[p].pc = "enqueue" /\ desk'[p].file = desk'[o].file => p = o
    <3>1. o # d /\ desk'[o] = desk[o] /\ desk[o].file # desk[d].file
      BY <1>2, <2>4 DEF Sound, Removed
    <3>2. \A c \in Countries : <<desk[o].file, c>> \notin uploaded \cup Ids(new)
      BY <1>1, <2>4, <3>1 DEF Sound, Removed
    <3> QED BY <1>1, <1>2, <2>4, <3>1, <3>2 DEF Sound, Removed
  <2> QED BY <2>1, <2>2, <2>3, <2>4 DEF Removed
<1> QED BY <1>7, <1>9 DEF Sound

LEMMA SoundStartBegin == ASSUME TypeOK, Sound, NEW d \in Desks, StartBegin(d) PROVE Sound'
<1> USE DEF StartBegin, rows, history
<1>1. /\ desk'[d].pc = "stock" /\ desk'[d].list = queue
      /\ \A o \in Desks : o # d => desk'[o] = desk[o]
  BY DEF TypeOK, Handlers
<1>2. UNCHANGED <<queue, active, cycle, uploaded, gone, dropped, retired, overlapped>>
  OBVIOUS
<1>3. Accounted'
  BY <1>1, <1>2 DEF Sound, Accounted, Excused, HoldsQueue, HoldsActive
<1>4. Removed'
  BY ZenonT(60), <1>1, <1>2 DEF Sound, Removed, HoldsQueue, HoldsActive
<1> QED BY <1>3, <1>4 DEF Sound

LEMMA SoundStartMerge == ASSUME TypeOK, Sound, NEW d \in Desks, StartMerge(d) PROVE Sound'
<1> DEFINE L == desk[d].list
           out == {e \in active \ L : e.country \in CountriesOf(L)}
<1>1. /\ desk[d].pc = "merge" /\ desk'[d].pc = "clear" /\ desk'[d].list = L
      /\ \A o \in Desks : o # d => desk'[o] = desk[o]
  BY DEF StartMerge, TypeOK, Handlers
<1>2. /\ active' = Merged(active, L) /\ retired' = retired \cup Ids(out)
      /\ overlapped' = IF \E k \in Cyclers : HoldsActive(k)
                       THEN overlapped \cup Ids(L) ELSE overlapped
      /\ UNCHANGED <<queue, cycle, uploaded, dropped, gone>>
  BY DEF StartMerge
<1>3. /\ active' \subseteq active \cup L /\ L \subseteq active' /\ active \subseteq active' \cup out
      /\ out \subseteq active
  BY <1>2 DEF Merged
<1> HIDE DEF L, out
<1>4. /\ Ids(active') \subseteq Ids(active) \cup Ids(L) /\ Ids(L) \subseteq Ids(active')
      /\ Ids(active) \subseteq Ids(active') \cup Ids(out) /\ Ids(out) \subseteq Ids(active)
  <2>1. \A S, T : S \subseteq T => Ids(S) \subseteq Ids(T)
    BY IdsSplit
  <2>2. Ids(active \cup L) = Ids(active) \cup Ids(L) /\ Ids(active' \cup out) = Ids(active') \cup Ids(out)
    BY IdsSplit
  <2> QED BY <1>3, <2>1, <2>2
<1>5. HoldsQueue(d) /\ HoldsQueue(d)' /\ \A o \in Desks : o # d => HoldsQueue(o)' = HoldsQueue(o)
  BY <1>1 DEF HoldsQueue
<1>6. \A k \in Cyclers : HoldsActive(k)' => HoldsActive(k) /\ Ids(L) \subseteq overlapped'
  BY <1>2 DEF HoldsActive
<1>7. overlapped \subseteq overlapped'
  BY <1>2
<1>8. Excused' = dropped \cup retired \cup Ids(out) \cup overlapped'
  BY <1>2 DEF Excused
<1>9. Accounted'
  <2>1. uploaded' \subseteq Ids(queue') \cup Ids(active') \cup Excused'
    BY <1>2, <1>4, <1>7, <1>8 DEF Sound, Accounted, Excused
  <2>2. ASSUME NEW o \in Desks, HoldsQueue(o)'
        PROVE  /\ Ids(queue') \subseteq Ids(desk'[o].list) \cup Ids(active') \cup Excused'
               /\ Ids(desk'[o].list) \subseteq Ids(queue') \cup Ids(active') \cup Excused'
               /\ desk'[o].pc = "clear" => Ids(queue') \subseteq Ids(active') \cup Excused'
    <3>1. CASE o = d
      BY <1>1, <1>2, <1>4, <1>5, <1>7, <1>8, <3>1 DEF Sound, Accounted, Excused, L
    <3>2. CASE o # d
      BY <1>1, <1>2, <1>4, <1>5, <1>7, <1>8, <2>2, <3>2 DEF Sound, Accounted, Excused
    <3> QED BY <3>1, <3>2
  <2>3. \A k \in Cyclers : HoldsActive(k)' =>
          /\ Ids(active') \subseteq Ids(cycle'[k].list) \cup Excused'
          /\ Ids(cycle'[k].list) \subseteq Ids(active') \cup Excused'
    BY <1>2, <1>4, <1>6, <1>7, <1>8 DEF Sound, Accounted, Excused
  <2> QED BY <2>1, <2>2, <2>3 DEF Accounted
<1>10. Ids(L) \subseteq uploaded /\ gone \cap Ids(L) \subseteq overlapped
  BY <1>5 DEF Sound, Removed, L
<1>11. Removed'
  <2>1. /\ Ids(queue') \cup Ids(active') \cup gone' \subseteq uploaded'
        /\ gone' \cap (Ids(queue') \cup Ids(active')) \subseteq overlapped'
    BY <1>2, <1>4, <1>7, <1>10 DEF Sound, Removed
  <2>2. \A o \in Desks : HoldsQueue(o)' =>
          Ids(desk'[o].list) \subseteq uploaded' /\ gone' \cap Ids(desk'[o].list) \subseteq overlapped'
    BY <1>1, <1>2, <1>5, <1>7, <1>10 DEF Sound, Removed
  <2>3. \A k \in Cyclers : HoldsActive(k)' =>
          Ids(cycle'[k].list) \subseteq uploaded' /\ gone' \cap Ids(cycle'[k].list) \subseteq overlapped'
    BY <1>2, <1>6, <1>7 DEF Sound, Removed
  <2>4. \A o \in Desks : desk'[o].pc = "enqueue" =>
          /\ \A c \in Countries : <<desk'[o].file, c>> \notin uploaded'
          /\ \A p \in Desks : desk'[p].pc = "enqueue" /\ desk'[p].file = desk'[o].file => p = o
    BY <1>1, <1>2 DEF Sound, Removed
  <2> QED BY <2>1, <2>2, <2>3, <2>4 DEF Removed
<1> QED BY <1>9, <1>11 DEF Sound

LEMMA SoundStartClear == ASSUME TypeOK, Sound, NEW d \in Desks, StartClear(d) PROVE Sound'
<1>1. /\ desk[d].pc = "clear" /\ HoldsQueue(d) /\ queue' = {} /\ Ids(queue') = {}
      /\ UNCHANGED <<active, cycle, uploaded, gone, dropped, retired, overlapped>>
  BY IdsEmpty DEF StartClear, history, HoldsQueue
<1>2. HoldersCalm
  BY DEF StartClear, HoldersCalm, DeskCalm, CycleCalm, TypeOK, Handlers, Idle
<1>3. Ids(queue) \subseteq Ids(active) \cup Excused
  BY <1>1 DEF Sound, Accounted
<1>4. Accounted'
  BY <1>1, <1>2, <1>3, HoldersCalmly DEF Sound, Accounted, Excused
<1>5. Removed'
  BY <1>1, <1>2, HoldersCalmly DEF Sound, Removed
<1> QED BY <1>4, <1>5 DEF Sound

LEMMA SoundResume == ASSUME TypeOK, Sound, NEW d \in Desks, Resume(d) PROVE Sound'
<1>1. /\ queue' = active /\ overlapped' = overlapped \cup (Ids(queue) \ Ids(active))
      /\ UNCHANGED <<active, cycle, uploaded, gone, dropped, retired>>
  BY DEF Resume
<1>2. HoldersCalm
  BY DEF Resume, HoldersCalm, DeskCalm, CycleCalm, TypeOK, Handlers, Idle
<1>3. Accounted'
  BY <1>1, <1>2, HoldersCalmly DEF Sound, Accounted, Excused
<1>4. Removed'
  BY <1>1, <1>2, HoldersCalmly DEF Sound, Removed
<1> QED BY <1>3, <1>4 DEF Sound

LEMMA SoundAfterChatUpload == ASSUME TypeOK, Sound, NEW d \in Desks, AfterChatUpload(d) PROVE Sound'
<1> USE DEF AfterChatUpload, rows, history
<1>1. HoldersCalm
  <2>1. \/ desk' = [desk EXCEPT ![d] = Idle]
        \/ desk' = [desk EXCEPT ![d] = [Idle EXCEPT !.pc = "start", !.scheduled = TRUE]]
    OBVIOUS
  <2>2. Idle.pc = "idle" /\ [Idle EXCEPT !.pc = "start", !.scheduled = TRUE].pc = "start"
    BY DEF Idle
  <2>3. cycle' = cycle
    OBVIOUS
  <2> QED BY <2>1, <2>2, <2>3 DEF HoldersCalm, DeskCalm, CycleCalm, TypeOK
<1>2. Ids(queue') = Ids(queue) /\ Ids(active') = Ids(active)
  OBVIOUS
<1>3. UNCHANGED <<uploaded, dropped, gone, retired, overlapped>>
  OBVIOUS
<1> QED BY <1>1, <1>2, <1>3, SoundCalm

LEMMA SoundAfterPanelUpload == ASSUME TypeOK, Sound, NEW d \in Desks, AfterPanelUpload(d) PROVE Sound'
<1> USE DEF AfterPanelUpload, rows, history
<1>1. HoldersCalm
  BY DEF HoldersCalm, DeskCalm, CycleCalm, TypeOK, Handlers, Idle
<1>2. Ids(queue') = Ids(queue) /\ Ids(active') = Ids(active)
  OBVIOUS
<1>3. UNCHANGED <<uploaded, dropped, gone, retired, overlapped>>
  OBVIOUS
<1> QED BY <1>1, <1>2, <1>3, SoundCalm

LEMMA SoundStartRefused == ASSUME TypeOK, Sound, NEW d \in Desks, StartRefused(d) PROVE Sound'
<1> USE DEF StartRefused, rows, history
<1>1. HoldersCalm
  BY DEF HoldersCalm, DeskCalm, CycleCalm, TypeOK, Handlers, Idle
<1>2. Ids(queue') = Ids(queue) /\ Ids(active') = Ids(active)
  OBVIOUS
<1>3. UNCHANGED <<uploaded, dropped, gone, retired, overlapped>>
  OBVIOUS
<1> QED BY <1>1, <1>2, <1>3, SoundCalm

LEMMA SoundStartStock == ASSUME TypeOK, Sound, NEW d \in Desks, StartStock(d) PROVE Sound'
<1> USE DEF StartStock, rows, history
<1>1. HoldersCalm
  <2>1. PICK stocked \in SUBSET CountriesOf(desk[d].list) :
           desk' = [desk EXCEPT
                    ![d].pc = "adding", ![d].list = Sorted(d, @),
                    ![d].todo = {e \in Ready(Sorted(d, desk[d].list)) : e.country \notin stocked}]
    OBVIOUS
  <2>2. desk[d].list \in SUBSET Entries
    BY DEF TypeOK, Handlers
  <2>3. /\ desk[d].pc = "stock" /\ desk'[d].pc = "adding" /\ desk'[d].list = Sorted(d, desk[d].list)
        /\ \A o \in Desks : o # d => desk'[o] = desk[o]
    BY <2>1 DEF TypeOK, Handlers
  <2>4. Ids(desk'[d].list) = Ids(desk[d].list)
    BY <2>2, <2>3, IdsSorted
  <2> QED BY <2>3, <2>4 DEF HoldersCalm, DeskCalm, CycleCalm
<1>2. Ids(queue') = Ids(queue) /\ Ids(active') = Ids(active)
  OBVIOUS
<1>3. UNCHANGED <<uploaded, dropped, gone, retired, overlapped>>
  OBVIOUS
<1> QED BY <1>1, <1>2, <1>3, SoundCalm

LEMMA SoundStartAdded == ASSUME TypeOK, Sound, NEW d \in Desks, StartAdded(d) PROVE Sound'
<1> USE DEF StartAdded, rows, history
<1>1. HoldersCalm
  <2>1. PICK e \in desk[d].todo : desk' = [desk EXCEPT ![d].todo = @ \ {e}]
    OBVIOUS
  <2>2. /\ desk[d].pc = "adding" /\ desk'[d].pc = "adding" /\ desk'[d].list = desk[d].list
        /\ \A o \in Desks : o # d => desk'[o] = desk[o]
    BY <2>1 DEF TypeOK, Handlers
  <2> QED BY <2>2 DEF HoldersCalm, DeskCalm, CycleCalm
<1>2. Ids(queue') = Ids(queue) /\ Ids(active') = Ids(active)
  OBVIOUS
<1>3. UNCHANGED <<uploaded, dropped, gone, retired, overlapped>>
  OBVIOUS
<1> QED BY <1>1, <1>2, <1>3, SoundCalm

LEMMA SoundStartFails == ASSUME TypeOK, Sound, NEW d \in Desks, StartFails(d) PROVE Sound'
<1> USE DEF StartFails, rows, history
<1>1. HoldersCalm
  BY DEF HoldersCalm, DeskCalm, CycleCalm, TypeOK, Handlers, Idle
<1>2. Ids(queue') = Ids(queue) /\ Ids(active') = Ids(active)
  OBVIOUS
<1>3. UNCHANGED <<uploaded, dropped, gone, retired, overlapped>>
  OBVIOUS
<1> QED BY <1>1, <1>2, <1>3, SoundCalm

LEMMA SoundStartArm == ASSUME TypeOK, Sound, NEW d \in Desks, StartArm(d) PROVE Sound'
<1> USE DEF StartArm, rows, history
<1>1. HoldersCalm
  <2>1. /\ desk[d].pc = "adding" /\ desk'[d].pc = "merge" /\ desk'[d].list = desk[d].list
        /\ \A o \in Desks : o # d => desk'[o] = desk[o]
    BY DEF TypeOK, Handlers
  <2> QED BY <2>1 DEF HoldersCalm, DeskCalm, CycleCalm
<1>2. Ids(queue') = Ids(queue) /\ Ids(active') = Ids(active)
  OBVIOUS
<1>3. UNCHANGED <<uploaded, dropped, gone, retired, overlapped>>
  OBVIOUS
<1> QED BY <1>1, <1>2, <1>3, SoundCalm

LEMMA SoundPressStart == ASSUME TypeOK, Sound, NEW d \in Desks, PressStart(d) PROVE Sound'
<1> USE DEF PressStart, rows, history
<1>1. HoldersCalm
  BY DEF HoldersCalm, DeskCalm, CycleCalm, TypeOK, Handlers, Idle
<1>2. Ids(queue') = Ids(queue) /\ Ids(active') = Ids(active)
  OBVIOUS
<1>3. UNCHANGED <<uploaded, dropped, gone, retired, overlapped>>
  OBVIOUS
<1> QED BY <1>1, <1>2, <1>3, SoundCalm

LEMMA SoundSayStart == ASSUME TypeOK, Sound, NEW d \in Desks, SayStart(d) PROVE Sound'
<1> USE DEF SayStart, rows, history
<1>1. HoldersCalm
  BY DEF Continue, HoldersCalm, DeskCalm, CycleCalm, TypeOK, Handlers, Idle
<1>2. Ids(queue') = Ids(queue) /\ Ids(active') = Ids(active)
  OBVIOUS
<1>3. UNCHANGED <<uploaded, dropped, gone, retired, overlapped>>
  OBVIOUS
<1> QED BY <1>1, <1>2, <1>3, SoundCalm

LEMMA SoundTagEntry == ASSUME TypeOK, Sound, NEW d \in Desks, NEW e \in queue, TagEntry(d, e) PROVE Sound'
<1> USE DEF TagEntry, rows, history
<1>1. HoldersCalm
  BY DEF Continue, HoldersCalm, DeskCalm, CycleCalm, TypeOK, Handlers, Idle
<1>2. Ids(queue') = Ids(queue) /\ Ids(active') = Ids(active)
  BY IdsRetagged
<1>3. UNCHANGED <<uploaded, dropped, gone, retired, overlapped>>
  OBVIOUS
<1> QED BY <1>1, <1>2, <1>3, SoundCalm

LEMMA SoundAnswerRuntime == ASSUME TypeOK, Sound, NEW d \in Desks, NEW n \in {0, RunLength}, AnswerRuntime(d, n) PROVE Sound'
<1> USE DEF AnswerRuntime, rows, history
<1>1. HoldersCalm
  <2>1. desk' = desk \/ desk' = [desk EXCEPT ![d] = [Idle EXCEPT !.pc = "start"]]
    OBVIOUS
  <2>2. [Idle EXCEPT !.pc = "start"].pc = "start"
    BY DEF Idle
  <2> QED BY <2>1, <2>2 DEF HoldersCalm, DeskCalm, CycleCalm, TypeOK
<1>2. Ids(queue') = Ids(queue) /\ Ids(active') = Ids(active)
  OBVIOUS
<1>3. UNCHANGED <<uploaded, dropped, gone, retired, overlapped>>
  OBVIOUS
<1> QED BY <1>1, <1>2, <1>3, SoundCalm

LEMMA SoundPanelTag == ASSUME TypeOK, Sound, NEW e \in queue, PanelTag(e) PROVE Sound'
<1> USE DEF PanelTag, rows, history
<1>1. HoldersCalm
  BY DEF HoldersCalm, DeskCalm, CycleCalm
<1>2. Ids(queue') = Ids(queue) /\ Ids(active') = Ids(active)
  BY IdsRetagged
<1>3. UNCHANGED <<uploaded, dropped, gone, retired, overlapped>>
  OBVIOUS
<1> QED BY <1>1, <1>2, <1>3, SoundCalm

LEMMA SoundTogglePause == ASSUME TypeOK, Sound, NEW c \in Countries, TogglePause(c) PROVE Sound'
<1> USE DEF TogglePause, rows, history
<1>1. HoldersCalm
  BY DEF HoldersCalm, DeskCalm, CycleCalm
<1>2. Ids(queue') = Ids(queue) /\ Ids(active') = Ids(active)
  OBVIOUS
<1>3. UNCHANGED <<uploaded, dropped, gone, retired, overlapped>>
  OBVIOUS
<1> QED BY <1>1, <1>2, <1>3, SoundCalm

LEMMA SoundSetTiming == ASSUME TypeOK, Sound, NEW c \in Countries, SetTiming(c) PROVE Sound'
<1> USE DEF SetTiming, rows, history
<1>1. HoldersCalm
  BY DEF HoldersCalm, DeskCalm, CycleCalm
<1>2. Ids(queue') = Ids(queue) /\ Ids(active') = Ids(active)
  OBVIOUS
<1>3. UNCHANGED <<uploaded, dropped, gone, retired, overlapped>>
  OBVIOUS
<1> QED BY <1>1, <1>2, <1>3, SoundCalm

LEMMA SoundStop == ASSUME TypeOK, Sound, Stop PROVE Sound'
<1> USE DEF Stop, rows, history
<1>1. HoldersCalm
  BY DEF HoldersCalm, DeskCalm, CycleCalm
<1>2. Ids(queue') = Ids(queue) /\ Ids(active') = Ids(active)
  OBVIOUS
<1>3. UNCHANGED <<uploaded, dropped, gone, retired, overlapped>>
  OBVIOUS
<1> QED BY <1>1, <1>2, <1>3, SoundCalm

LEMMA SoundTurnOn == ASSUME TypeOK, Sound, TurnOn PROVE Sound'
<1> USE DEF TurnOn, rows, history
<1>1. HoldersCalm
  BY DEF HoldersCalm, DeskCalm, CycleCalm
<1>2. Ids(queue') = Ids(queue) /\ Ids(active') = Ids(active)
  OBVIOUS
<1>3. UNCHANGED <<uploaded, dropped, gone, retired, overlapped>>
  OBVIOUS
<1> QED BY <1>1, <1>2, <1>3, SoundCalm

LEMMA SoundTick == ASSUME TypeOK, Sound, Tick PROVE Sound'
<1> USE DEF Tick, rows, history
<1>1. HoldersCalm
  BY DEF HoldersCalm, DeskCalm, CycleCalm
<1>2. Ids(queue') = Ids(queue) /\ Ids(active') = Ids(active)
  OBVIOUS
<1>3. UNCHANGED <<uploaded, dropped, gone, retired, overlapped>>
  OBVIOUS
<1> QED BY <1>1, <1>2, <1>3, SoundCalm

LEMMA SoundRestart == ASSUME TypeOK, Sound, Restart PROVE Sound'
<1> USE DEF Restart, rows, history
<1>1. HoldersCalm
  BY DEF HoldersCalm, DeskCalm, CycleCalm, Idle, Resting
<1>2. Ids(queue') = Ids(queue) /\ Ids(active') = Ids(active)
  OBVIOUS
<1>3. UNCHANGED <<uploaded, dropped, gone, retired, overlapped>>
  OBVIOUS
<1> QED BY <1>1, <1>2, <1>3, SoundCalm

(* What the owner removes. *)
LEMMA SoundSkipEntry == ASSUME TypeOK, Sound, NEW d \in Desks, NEW e \in queue, SkipEntry(d, e) PROVE Sound'
<1> USE DEF SkipEntry
<1>1. HoldersCalm
  BY DEF Continue, HoldersCalm, DeskCalm, CycleCalm, TypeOK, Handlers, Idle
<1>2. queue' \subseteq queue /\ active' \subseteq active
  OBVIOUS
<1> QED BY <1>1, <1>2, SoundDropping

LEMMA SoundRemoveQueued == ASSUME TypeOK, Sound, NEW e \in queue, RemoveQueued(e) PROVE Sound'
<1> USE DEF RemoveQueued
<1>1. HoldersCalm
  BY DEF HoldersCalm, DeskCalm, CycleCalm
<1>2. queue' \subseteq queue /\ active' \subseteq active
  OBVIOUS
<1> QED BY <1>1, <1>2, SoundDropping

LEMMA SoundRemoveActive == ASSUME TypeOK, Sound, NEW e \in active, RemoveActive(e) PROVE Sound'
<1> USE DEF RemoveActive
<1>1. HoldersCalm
  BY DEF HoldersCalm, DeskCalm, CycleCalm
<1>2. queue' \subseteq queue /\ active' \subseteq active
  OBVIOUS
<1> QED BY <1>1, <1>2, SoundDropping

LEMMA SoundRemoveCountry == ASSUME TypeOK, Sound, NEW c \in Countries, RemoveCountry(c) PROVE Sound'
<1> USE DEF RemoveCountry
<1>1. HoldersCalm
  BY DEF HoldersCalm, DeskCalm, CycleCalm
<1>2. queue' \subseteq queue /\ active' \subseteq active
  OBVIOUS
<1> QED BY <1>1, <1>2, SoundDropping

LEMMA SoundClearQueue == ASSUME TypeOK, Sound, ClearQueue PROVE Sound'
<1> USE DEF ClearQueue
<1>1. HoldersCalm
  BY DEF HoldersCalm, DeskCalm, CycleCalm
<1>2. queue' \subseteq queue /\ active' \subseteq active
  OBVIOUS
<1> QED BY <1>1, <1>2, SoundDropping

(* The steps of a cycle. *)
LEMMA SoundScheduledCycle == ASSUME TypeOK, Sound, NEW k \in Cyclers, ScheduledCycle(k) PROVE Sound'
<1> USE DEF ScheduledCycle, rows, history, CycleBegin
<1>1. HoldersCalm
  BY DEF HoldersCalm, DeskCalm, CycleCalm, TypeOK, Passes, Resting
<1>2. Ids(queue') = Ids(queue) /\ Ids(active') = Ids(active)
  OBVIOUS
<1>3. UNCHANGED <<uploaded, dropped, gone, retired, overlapped>>
  OBVIOUS
<1> QED BY <1>1, <1>2, <1>3, SoundCalm

LEMMA SoundForcedCycle == ASSUME TypeOK, Sound, NEW k \in Cyclers, ForcedCycle(k) PROVE Sound'
<1> USE DEF ForcedCycle, rows, history, CycleBegin
<1>1. HoldersCalm
  BY DEF HoldersCalm, DeskCalm, CycleCalm, TypeOK, Passes, Resting
<1>2. Ids(queue') = Ids(queue) /\ Ids(active') = Ids(active)
  OBVIOUS
<1>3. UNCHANGED <<uploaded, dropped, gone, retired, overlapped>>
  OBVIOUS
<1> QED BY <1>1, <1>2, <1>3, SoundCalm

LEMMA SoundWaitRead == ASSUME TypeOK, Sound, NEW k \in Cyclers, WaitRead(k) PROVE Sound'
<1> USE DEF WaitRead, rows, history
<1>1. /\ cycle'[k].pc = "waitadd" => cycle'[k].list = active
      /\ \A o \in Cyclers : o # k => cycle'[o] = cycle[o]
  BY DEF TypeOK, Passes
<1>2. UNCHANGED <<queue, active, desk, uploaded, gone, dropped, retired, overlapped>>
  OBVIOUS
<1>3. Accounted'
  BY <1>1, <1>2 DEF Sound, Accounted, Excused, HoldsQueue, HoldsActive
<1>4. Removed'
  BY <1>1, <1>2 DEF Sound, Removed, HoldsQueue, HoldsActive
<1> QED BY <1>3, <1>4 DEF Sound

LEMMA SoundWaitSave == ASSUME TypeOK, Sound, NEW k \in Cyclers, WaitSave(k) PROVE Sound'
<1>1. /\ cycle[k].pc = "waitadd" /\ cycle'[k].pc = "stock"
      /\ \A o \in Cyclers : o # k => cycle'[o] = cycle[o]
      /\ UNCHANGED <<queue, desk, uploaded, gone, dropped, retired, overlapped>>
  BY DEF WaitSave, TypeOK, Passes, history
<1>2. active' = cycle[k].list \/ active' = active
  BY DEF WaitSave
<1>3. HoldsActive(k) /\ ~HoldsActive(k)' /\ Excused' = Excused
      /\ \A o \in Cyclers : HoldsActive(o)' => HoldsActive(o) /\ cycle'[o] = cycle[o]
  BY <1>1 DEF HoldsActive, Excused
<1>4. Ids(active) \subseteq Ids(active') \cup Excused /\ Ids(active') \subseteq Ids(active) \cup Excused
  BY <1>2, <1>3 DEF Sound, Accounted
<1>5. \A d \in Desks : HoldsQueue(d)' = HoldsQueue(d) /\ desk'[d] = desk[d]
  BY <1>1 DEF HoldsQueue
<1>6. Accounted'
  BY <1>1, <1>3, <1>4, <1>5 DEF Sound, Accounted
<1>7. Ids(active') \subseteq uploaded /\ gone \cap Ids(active') \subseteq overlapped
  BY <1>2, <1>3 DEF Sound, Removed
<1>8. Removed'
  BY <1>1, <1>3, <1>5, <1>7 DEF Sound, Removed
<1> QED BY <1>6, <1>8 DEF Sound

LEMMA SoundWaitAdded == ASSUME TypeOK, Sound, NEW k \in Cyclers, WaitAdded(k) PROVE Sound'
<1> USE DEF WaitAdded, rows, history
<1>1. HoldersCalm
  <2>1. PICK e \in Waiting(cycle[k].todo) :
         cycle' = [cycle EXCEPT ![k].list = Popped(@, Id(e)),
                                ![k].todo = Popped(@, Id(e)),
                                ![k].changed = @ \/ Id(e) \in Ids(cycle[k].list)]
    OBVIOUS
  <2>2. cycle[k].list \in SUBSET Entries /\ cycle[k].pc = "waitadd"
    BY DEF TypeOK, Passes
  <2>3. /\ cycle'[k].list = Popped(cycle[k].list, Id(e))
        /\ \A o \in Cyclers : o # k => cycle'[o] = cycle[o]
    BY <2>1 DEF TypeOK, Passes
  <2>4. Ids(cycle'[k].list) = Ids(cycle[k].list)
    BY <2>2, <2>3, IdsPopped
  <2> QED BY <2>2, <2>3, <2>4 DEF HoldersCalm, DeskCalm, CycleCalm
<1>2. Ids(queue') = Ids(queue) /\ Ids(active') = Ids(active)
  OBVIOUS
<1>3. UNCHANGED <<uploaded, dropped, gone, retired, overlapped>>
  OBVIOUS
<1> QED BY <1>1, <1>2, <1>3, SoundCalm

LEMMA SoundCycleStock == ASSUME TypeOK, Sound, NEW k \in Cyclers, CycleStock(k) PROVE Sound'
<1> USE DEF CycleStock, rows, history
<1>1. HoldersCalm
  <2>1. cycle'[k].pc # "waitadd" /\ \A o \in Cyclers : o # k => cycle'[o] = cycle[o]
    BY DEF TypeOK, Passes, Resting
  <2> QED BY <2>1 DEF HoldersCalm, DeskCalm, CycleCalm
<1>2. Ids(queue') = Ids(queue) /\ Ids(active') = Ids(active)
  OBVIOUS
<1>3. UNCHANGED <<uploaded, dropped, gone, retired, overlapped>>
  OBVIOUS
<1> QED BY <1>1, <1>2, <1>3, SoundCalm

LEMMA SoundCyclePick == ASSUME TypeOK, Sound, NEW k \in Cyclers, CyclePick(k) PROVE Sound'
<1> USE DEF CyclePick, rows, history
<1>1. HoldersCalm
  <2>1. cycle'[k].pc # "waitadd" /\ \A o \in Cyclers : o # k => cycle'[o] = cycle[o]
    BY DEF TypeOK, Passes, Resting
  <2> QED BY <2>1 DEF HoldersCalm, DeskCalm, CycleCalm
<1>2. Ids(queue') = Ids(queue) /\ Ids(active') = Ids(active)
  OBVIOUS
<1>3. UNCHANGED <<uploaded, dropped, gone, retired, overlapped>>
  OBVIOUS
<1> QED BY <1>1, <1>2, <1>3, SoundCalm

LEMMA SoundCycleAdded == ASSUME TypeOK, Sound, NEW k \in Cyclers, CycleAdded(k) PROVE Sound'
<1> USE DEF CycleAdded, rows, history
<1>1. HoldersCalm
  <2>1. cycle'[k].pc # "waitadd" /\ \A o \in Cyclers : o # k => cycle'[o] = cycle[o]
    BY DEF TypeOK, Passes, Resting
  <2> QED BY <2>1 DEF HoldersCalm, DeskCalm, CycleCalm
<1>2. Ids(queue') = Ids(queue) /\ Ids(active') = Ids(active)
  OBVIOUS
<1>3. UNCHANGED <<uploaded, dropped, gone, retired, overlapped>>
  OBVIOUS
<1> QED BY <1>1, <1>2, <1>3, SoundCalm

LEMMA SoundCycleEnd == ASSUME TypeOK, Sound, NEW k \in Cyclers, CycleEnd(k) PROVE Sound'
<1> USE DEF CycleEnd, rows, history
<1>1. HoldersCalm
  <2>1. cycle'[k].pc # "waitadd" /\ \A o \in Cyclers : o # k => cycle'[o] = cycle[o]
    BY DEF TypeOK, Passes, Resting
  <2> QED BY <2>1 DEF HoldersCalm, DeskCalm, CycleCalm
<1>2. Ids(queue') = Ids(queue) /\ Ids(active') = Ids(active)
  OBVIOUS
<1>3. UNCHANGED <<uploaded, dropped, gone, retired, overlapped>>
  OBVIOUS
<1> QED BY <1>1, <1>2, <1>3, SoundCalm

LEMMA SoundCycleRetire == ASSUME TypeOK, Sound, NEW k \in Cyclers, CycleRetire(k) PROVE Sound'
<1> DEFINE id == Id(cycle[k].cur)
<1>1. /\ active' = Without(active, id) /\ retired' = retired \cup {id}
      /\ UNCHANGED <<queue, desk, uploaded, gone, dropped, overlapped>>
  BY DEF CycleRetire
<1>2. HoldersCalm
  <2>1. cycle'[k].pc # "waitadd" /\ \A o \in Cyclers : o # k => cycle'[o] = cycle[o]
    BY DEF CycleRetire, TypeOK, Passes
  <2> QED BY <1>1, <2>1 DEF HoldersCalm, DeskCalm, CycleCalm
<1> HIDE DEF id
<1>3. Ids(active') \subseteq Ids(active) /\ Ids(active) \ Ids(active') \subseteq {id}
  BY <1>1 DEF Ids, Without
<1>4. Accounted'
  BY <1>1, <1>2, <1>3, AccountedLess DEF Sound, Excused
<1>5. Removed'
  BY <1>1, <1>2, <1>3, HoldersCalmly DEF Sound, Removed
<1> QED BY <1>4, <1>5 DEF Sound
-----------------------------------------------------------------------------
LEMMA SoundInit == Init => Sound
BY IdsEmpty DEF Init, Sound, Accounted, Removed, Excused, Idle, Resting, HoldsQueue, HoldsActive

LEMMA SoundStep == TypeOK /\ Sound /\ [Next]_vars => Sound'
<1> SUFFICES ASSUME TypeOK, Sound, [Next]_vars PROVE Sound'
  OBVIOUS
<1>1. CASE \E d \in Desks : Step(d)
  BY <1>1, SoundUploadBegin, SoundUploadEnd, SoundAfterChatUpload, SoundAfterPanelUpload,
     SoundStartBegin, SoundStartRefused, SoundStartStock, SoundStartAdded, SoundStartFails,
     SoundStartArm, SoundStartMerge, SoundStartClear DEF Step
<1>2. CASE \E k \in Cyclers : CycleStep(k)
  BY <1>2, SoundScheduledCycle, SoundWaitRead, SoundWaitAdded, SoundWaitSave, SoundCycleStock,
     SoundCyclePick, SoundCycleAdded, SoundCycleRetire, SoundCycleEnd DEF CycleStep
<1>3. CASE \E d \in Desks : Say(d)
  BY <1>3, SoundResume, SoundPressStart, SoundSayStart, SoundTagEntry, SoundSkipEntry,
     SoundAnswerRuntime DEF Say
<1>4. CASE Change
  BY <1>4, SoundPanelTag, SoundRemoveQueued, SoundRemoveActive, SoundRemoveCountry,
     SoundTogglePause, SoundSetTiming, SoundClearQueue, SoundStop, SoundTurnOn DEF Change
<1>5. CASE UNCHANGED vars
  <2>1. HoldersCalm
    BY <1>5 DEF vars, HoldersCalm, DeskCalm, CycleCalm
  <2> QED BY <1>5, <2>1, SoundCalm DEF vars, rows, history
<1> QED BY <1>1, <1>2, <1>3, <1>4, <1>5, SoundForcedCycle, SoundRestart, SoundTick DEF Next, Tap

LEMMA SoundAlways == Spec => []Sound
<1>1. Init => Sound
  BY SoundInit
<1>2. TypeOK /\ Sound /\ [Next]_vars => Sound'
  BY SoundStep
<1> QED BY <1>1, <1>2, OtpTypeCorrect, PTL DEF Spec

(* A file the owner uploaded is in the queue or runs until he drops it, it *)
(* finishes or is superseded: however uploads, starts, cycles, removals    *)
(* and restarts interleave, only one written or removed while an operation *)
(* held the list can vanish, or one a resume threw away.                   *)
THEOREM OtpLossNeedsOverlap == Spec => []LossNeedsOverlap
<1>1. Sound => LossNeedsOverlap
  BY DEF Sound, Accounted, Excused, LossNeedsOverlap
<1> QED BY <1>1, SoundAlways, PTL

(* What the owner removed stays removed, unless an operation held a list   *)
(* with it when he did: no start, resume or cycle begun later brings it    *)
(* back.                                                                   *)
THEOREM OtpRemovalStands == Spec => []RemovalStands
<1>1. Sound => RemovalStands
  BY DEF Sound, Removed, RemovalStands
<1> QED BY <1>1, SoundAlways, PTL
=============================================================================
