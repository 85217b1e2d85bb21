----------------------------- MODULE OtpProofs -----------------------------
(***************************************************************************)
(* Theorems of OtpSchedule and OtpAutomation, for any files, countries,    *)
(* handlers, cycles, settings and bounds.                                  *)
(***************************************************************************)
EXTENDS OtpAutomation, FiniteSetTheorems, TLAPS

LEMMA NextOccurrenceRange ==
    ASSUME NEW c \in WallClock, NEW after \in Nat
    PROVE  /\ NextOccurrence(c, after) \in Nat
           /\ after < NextOccurrence(c, after)
           /\ NextOccurrence(c, after) <= after + Day
           /\ \E m \in Nat : NextOccurrence(c, after) = m * Day + c
<1> DEFINE q == after \div Day
           r == after % Day
<1>1. Day \in Nat \ {0}
  BY DayAssumption
<1>2. q \in Nat /\ r \in 0 .. Day - 1 /\ after = Day * q + r
  BY <1>1, SMTT(30)
<1> HIDE DEF q, r
<1>3. q * Day \in Nat /\ (q + 1) * Day = q * Day + Day /\ Day * q = q * Day
  BY <1>1, <1>2, SMTT(30)
<1>4. CASE q * Day + c <= after
  <2>1. NextOccurrence(c, after) = q * Day + c + Day
    BY <1>4 DEF NextOccurrence, q
  <2>2. NextOccurrence(c, after) = (q + 1) * Day + c
    BY <2>1, <1>1, <1>2, <1>3 DEF WallClock
  <2> QED BY <2>1, <2>2, <1>1, <1>2, <1>3, <1>4 DEF WallClock
<1>5. CASE ~(q * Day + c <= after)
  <2>1. NextOccurrence(c, after) = q * Day + c
    BY <1>5 DEF NextOccurrence, q
  <2> QED BY <2>1, <1>1, <1>2, <1>3, <1>5 DEF WallClock
<1> QED BY <1>4, <1>5

LEMMA WholeDay ==
    ASSUME NEW m \in Nat, NEW l \in Nat, l < m
    PROVE  l * Day + Day <= m * Day
<1>1. Day \in Nat \ {0}
  BY DayAssumption
<1>2. PICK j \in Nat : m = l + 1 + j
  <2>1. m - l - 1 \in Nat /\ m = l + 1 + (m - l - 1)
    OBVIOUS
  <2> QED BY <2>1
<1>3. m * Day = l * Day + Day + j * Day /\ j * Day \in Nat
  BY <1>1, <1>2, SMTT(30)
<1>4. l * Day \in Nat
  BY <1>1, SMTT(30)
<1> QED BY <1>1, <1>3, <1>4

(* next_occurrence is the first instant after the given one at which the   *)
(* wall clock shows the time, and it is at most a day away.                *)
THEOREM NextOccurrenceIsNext ==
    ASSUME NEW c \in WallClock, NEW after \in Nat
    PROVE  /\ after < NextOccurrence(c, after)
           /\ NextOccurrence(c, after) <= after + Day
           /\ \E m \in Nat : NextOccurrence(c, after) = m * Day + c
           /\ \A l \in Nat : after < l * Day + c => NextOccurrence(c, after) <= l * Day + c
<1> DEFINE n == NextOccurrence(c, after)
<1>1. n \in Nat /\ after < n /\ n <= after + Day
  BY NextOccurrenceRange
<1>2. PICK m \in Nat : n = m * Day + c
  BY NextOccurrenceRange
<1>3. Day \in Nat \ {0} /\ c \in Nat
  BY DayAssumption DEF WallClock
<1> HIDE DEF n
<1>4. ASSUME NEW l \in Nat, after < l * Day + c
      PROVE  n <= l * Day + c
  <2>1. m * Day \in Nat /\ l * Day \in Nat
    BY <1>3, SMTT(30)
  <2>2. CASE l < m
    <3>1. l * Day + Day <= m * Day
      BY <2>2, WholeDay
    <3> QED BY <3>1, <2>1, <1>1, <1>2, <1>3, <1>4
  <2>3. CASE l = m
    BY <2>3, <2>1, <1>2, <1>3
  <2>4. CASE m < l
    <3>1. m * Day + Day <= l * Day
      BY <2>4, WholeDay
    <3> QED BY <3>1, <2>1, <1>2, <1>3
  <2> QED BY <2>2, <2>3, <2>4
<1> QED BY <1>1, <1>2, <1>4 DEF n

(* A run that has begun stays begun: nothing but a new start closes the    *)
(* gate again.                                                             *)
THEOREM BegunStaysBegun ==
    ASSUME NEW r \in Runs, NEW configured, NEW now \in Nat, NEW later \in Nat,
           now <= later, HasStarted(r, configured, now)
    PROVE  HasStarted(r, configured, later)
<1>1. r # NoRun
  BY DEF Runs, NoRun
<1>2. CASE IsNow(r.gate)
  BY <1>1, <1>2 DEF HasStarted
<1>3. CASE ~IsNow(r.gate)
  <2>1. now >= NextOccurrence(r.gate, r.started)
    BY <1>1, <1>3 DEF HasStarted
  <2>2. NextOccurrence(r.gate, r.started) \in Nat
    BY <1>3, NextOccurrenceRange DEF Runs, IsNow
  <2> QED BY <1>1, <2>1, <2>2 DEF HasStarted
<1> QED BY <1>2, <1>3

(* finished_reason: what is over stays over until it is started anew.      *)
THEOREM OverStaysOver ==
    ASSUME NEW r \in Runs, NEW configured, NEW stop \in WallClock \cup {Unset},
           NEW length \in Int, NEW limit \in Int,
           NEW now \in Nat, NEW later \in Nat, now <= later,
           Finished(r, configured, stop, length, limit, now)
    PROVE  Finished(r, configured, stop, length, limit, later)
<1>1. r # NoRun /\ HasStarted(r, configured, later)
  BY BegunStaysBegun DEF Finished
<1>2. EffectiveStart(r) \in Nat
  BY NextOccurrenceRange DEF EffectiveStart, Runs, IsNow
<1>3. CASE limit > 0 /\ r.refills >= limit
  BY <1>1, <1>3 DEF Finished
<1>4. CASE stop # Unset /\ StopTimePassed(stop, EffectiveStart(r), now)
  <2>1. NextOccurrence(stop, EffectiveStart(r)) \in Nat
    BY <1>2, <1>4, NextOccurrenceRange
  <2> QED BY <1>1, <1>4, <2>1 DEF Finished, StopTimePassed
<1>5. CASE length > 0 /\ now >= EffectiveStart(r) + length
  BY <1>1, <1>2, <1>5 DEF Finished
<1> QED BY <1>3, <1>4, <1>5 DEF Finished
-----------------------------------------------------------------------------
LEMMA TimingTypes ==
    /\ GlobalStart \in WallClock \cup {AtOnce}
    /\ RunLength \in Nat /\ Interval \in Nat
    /\ Timings \subseteq [start : WallClock \cup {Unset, AtOnce},
                          stop : WallClock \cup {Unset, Keep}, length : Nat \cup {Keep}]
    /\ \A f \in Files : Holds[f] \subseteq SUBSET Countries
    /\ WallClock \subseteq Nat
BY OtpAssumption, DayAssumption DEF WallClock

(* What TypeOK says, in parts.                                             *)
ListsTyped ==
    /\ clock \in Nat
    /\ queue \subseteq Entries /\ active \subseteq Entries /\ enabled \in BOOLEAN
    /\ awaiting \in (Files \X Countries) \cup {NoId}
    /\ asked \subseteq Countries /\ tagKnown \subseteq Countries

Settings == [start : WallClock \cup {Unset, AtOnce}, stop : WallClock \cup {Unset},
             length : Nat \cup {Unset}, paused : BOOLEAN]

CountriesTyped ==
    /\ settings \in [Countries -> Settings]
    /\ due \in [Countries -> Nat \cup {Unset}]
    /\ run \in [Countries -> Runs \cup {NoRun}]

DesksTyped == desk \in [Desks -> Handlers]

PassesTyped == cycle \in [Cyclers -> Passes]

LEMMA TypeParts ==
    TypeOK <=> ListsTyped /\ CountriesTyped /\ DesksTyped /\ PassesTyped
BY DEF TypeOK, ListsTyped, CountriesTyped, DesksTyped, PassesTyped, Settings

LEMMA EntryParts ==
    ASSUME NEW S \in SUBSET Entries
    PROVE  /\ Ids(S) \subseteq Files \X Countries
           /\ CountriesOf(S) \subseteq Countries
           /\ Untagged(S) \subseteq S
           /\ Waiting(S) \subseteq S
           /\ Needing(S) \subseteq Countries
           /\ \A e \in S : e \in Entries /\ e.country \in Countries /\ Id(e) \in Ids(S)
           /\ \A id : Without(S, id) \subseteq S
BY DEF Ids, Id, CountriesOf, Untagged, Waiting, Needing, Without, Entries

LEMMA EntryTyped ==
    ASSUME NEW S \in SUBSET Entries, NEW e \in S
    PROVE  /\ Tag(e) \in Entries
           /\ \A w \in WallClock \cup {Unset} : [e EXCEPT !.waiting = w] \in Entries
BY DEF Tag, Entries

LEMMA PoppedTyped ==
    ASSUME NEW S \in SUBSET Entries, NEW id
    PROVE  Popped(S, id) \in SUBSET Entries
BY DEF Popped, Entries

LEMMA RunTypes ==
    ASSUME NEW r \in Runs \cup {NoRun}, NEW now \in Nat
    PROVE  /\ \A g \in WallClock \cup {Unset, AtOnce} : Begun(now, g) \in Runs
           /\ Refilled(r, now) \in Runs
BY DEF Begun, Refilled, Runs, NoRun

LEMMA GateTyped ==
    ASSUME CountriesTyped, NEW d \in Desks, NEW c \in Countries
    PROVE  /\ Start(c) \in WallClock \cup {AtOnce}
           /\ Gate(d, c) \in WallClock \cup {Unset, AtOnce}
BY TimingTypes DEF Start, Gate, CountriesTyped, Settings

LEMMA TimedTyped ==
    ASSUME NEW s \in Settings, NEW t \in Timings
    PROVE  Timed(s, t) \in Settings
BY TimingTypes DEF Timed, Settings, Keep, Unset

LEMMA HandlerTyped ==
    ASSUME NEW p \in DeskPC \ {"enqueue"}
    PROVE  /\ Idle \in Handlers
           /\ [Idle EXCEPT !.pc = p] \in Handlers
           /\ [Idle EXCEPT !.pc = p, !.scheduled = TRUE] \in Handlers
           /\ \A h \in Handlers : [h EXCEPT !.pc = p] \in Handlers
           /\ \A h \in Handlers, L \in SUBSET Entries :
                [h EXCEPT !.pc = p, !.list = L] \in Handlers
           /\ \A h \in Handlers, L, T \in SUBSET Entries :
                [h EXCEPT !.pc = p, !.list = L, !.todo = T] \in Handlers
BY ZenonT(60) DEF Handlers, Idle, DeskPC

LEMMA PassTyped ==
    ASSUME NEW p \in CyclePC \ {"add", "retire"}
    PROVE  /\ Resting \in Passes
           /\ \A T \in SUBSET Entries : [Resting EXCEPT !.pc = p, !.todo = T] \in Passes
           /\ \A r \in Passes, L \in SUBSET Entries :
                /\ [r EXCEPT !.pc = p, !.list = L] \in Passes
                /\ [r EXCEPT !.pc = p, !.list = L, !.changed = FALSE] \in Passes
           /\ \A r \in Passes, L, T \in SUBSET Entries, b \in BOOLEAN :
                [r EXCEPT !.list = L, !.todo = T, !.changed = b] \in Passes
           /\ \A r \in Passes : [r EXCEPT !.pc = p, !.cur = NoId] \in Passes
BY ZenonT(60) DEF Passes, Resting, CyclePC

LEMMA SortedTyped ==
    ASSUME CountriesTyped, NEW d \in Desks, NEW S \in SUBSET Entries
    PROVE  Sorted(d, S) \in SUBSET Entries
<1>1. ASSUME NEW e \in S
      PROVE  (IF IsNow(Gate(d, e.country)) THEN Unset ELSE Gate(d, e.country))
                 \in WallClock \cup {Unset}
  BY EntryParts, GateTyped DEF IsNow
<1> QED BY <1>1, EntryTyped DEF Sorted

LEMMA TypedUploadBegin == ASSUME TypeOK, NEW d \in Desks, NEW f \in Files, UploadBegin(d, f) PROVE TypeOK'
<1> USE TypeParts DEF UploadBegin, vars, rows
<1>1. ListsTyped'
  BY EntryParts, EntryTyped, TimingTypes DEF ListsTyped, PassesTyped, DesksTyped, Handlers, Passes
<1>2. CountriesTyped'
  BY EntryParts, RunTypes, GateTyped, TimedTyped, TimingTypes DEF ListsTyped, CountriesTyped, Settings, PassesTyped, DesksTyped, Handlers, Passes, Unset, NoRun, Keep
<1>3. DesksTyped'
  BY EntryParts, EntryTyped, GateTyped DEF ListsTyped, DesksTyped, Handlers, DeskPC, Idle, NoId
<1>4. PassesTyped'
  BY EntryParts, EntryTyped DEF ListsTyped, PassesTyped, Passes, CyclePC, Resting, NoId
<1> QED BY <1>1, <1>2, <1>3, <1>4 DEF TypeOK, ListsTyped, CountriesTyped, DesksTyped, PassesTyped, Settings

LEMMA TypedUploadEnd == ASSUME TypeOK, NEW d \in Desks, UploadEnd(d) PROVE TypeOK'
<1> USE TypeParts DEF UploadEnd, vars, rows
<1>1. ListsTyped'
  <2>1. PICK from \in {"caption", "name", "memory"}, split \in Holds[desk[d].file] :
           /\ queue' = desk[d].list \cup
                {[file |-> desk[d].file, country |-> c, waiting |-> Unset,
                  tagged |-> from # "memory" \/ c \in tagKnown] : c \in split}
           /\ tagKnown' = IF from = "caption" THEN tagKnown \cup split ELSE tagKnown
    OBVIOUS
  <2>2. desk[d].file \in Files /\ desk[d].list \in SUBSET Entries
    BY DEF DesksTyped, Handlers
  <2>3. split \in SUBSET Countries
    BY <2>1, <2>2, TimingTypes
  <2>4. \A c \in split : [file |-> desk[d].file, country |-> c, waiting |-> Unset,
                          tagged |-> from # "memory" \/ c \in tagKnown] \in Entries
    BY <2>2, <2>3 DEF Entries
  <2>5. queue' \in SUBSET Entries
    BY <2>1, <2>2, <2>4
  <2> QED BY <2>1, <2>3, <2>5 DEF ListsTyped
<1>2. CountriesTyped'
  BY EntryParts, RunTypes, GateTyped, TimedTyped, TimingTypes DEF ListsTyped, CountriesTyped, Settings, PassesTyped, DesksTyped, Handlers, Passes, Unset, NoRun, Keep
<1>3. DesksTyped'
  BY EntryParts, EntryTyped, GateTyped DEF ListsTyped, DesksTyped, Handlers, DeskPC, Idle, NoId
<1>4. PassesTyped'
  BY EntryParts, EntryTyped DEF ListsTyped, PassesTyped, Passes, CyclePC, Resting, NoId
<1> QED BY <1>1, <1>2, <1>3, <1>4 DEF TypeOK, ListsTyped, CountriesTyped, DesksTyped, PassesTyped, Settings

LEMMA TypedAfterChatUpload == ASSUME TypeOK, NEW d \in Desks, AfterChatUpload(d) PROVE TypeOK'
<1> USE TypeParts DEF AfterChatUpload, vars, rows
<1>1. ListsTyped'
  BY EntryParts, EntryTyped, TimingTypes DEF ListsTyped, PassesTyped, DesksTyped, Handlers, Passes
<1>2. CountriesTyped'
  BY EntryParts, RunTypes, GateTyped, TimedTyped, TimingTypes DEF ListsTyped, CountriesTyped, Settings, PassesTyped, DesksTyped, Handlers, Passes, Unset, NoRun, Keep
<1>3. DesksTyped'
  <2>1. [Idle EXCEPT !.pc = "start", !.scheduled = TRUE] \in Handlers /\ Idle \in Handlers
    BY HandlerTyped DEF DeskPC
  <2>2. \/ desk' = [desk EXCEPT ![d] = Idle]
        \/ desk' = [desk EXCEPT ![d] = [Idle EXCEPT !.pc = "start", !.scheduled = TRUE]]
    OBVIOUS
  <2> QED BY <2>1, <2>2 DEF DesksTyped
<1>4. PassesTyped'
  BY EntryParts, EntryTyped DEF ListsTyped, PassesTyped, Passes, CyclePC, Resting, NoId
<1> QED BY <1>1, <1>2, <1>3, <1>4 DEF TypeOK, ListsTyped, CountriesTyped, DesksTyped, PassesTyped, Settings

LEMMA TypedAfterPanelUpload == ASSUME TypeOK, NEW d \in Desks, AfterPanelUpload(d) PROVE TypeOK'
<1> USE TypeParts DEF AfterPanelUpload, vars, rows
<1>1. ListsTyped'
  BY EntryParts, EntryTyped, TimingTypes DEF ListsTyped, PassesTyped, DesksTyped, Handlers, Passes
<1>2. CountriesTyped'
  BY EntryParts, RunTypes, GateTyped, TimedTyped, TimingTypes DEF ListsTyped, CountriesTyped, Settings, PassesTyped, DesksTyped, Handlers, Passes, Unset, NoRun, Keep
<1>3. DesksTyped'
  BY EntryParts, EntryTyped, GateTyped DEF ListsTyped, DesksTyped, Handlers, DeskPC, Idle, NoId
<1>4. PassesTyped'
  BY EntryParts, EntryTyped DEF ListsTyped, PassesTyped, Passes, CyclePC, Resting, NoId
<1> QED BY <1>1, <1>2, <1>3, <1>4 DEF TypeOK, ListsTyped, CountriesTyped, DesksTyped, PassesTyped, Settings

LEMMA TypedStartBegin == ASSUME TypeOK, NEW d \in Desks, StartBegin(d) PROVE TypeOK'
<1> USE TypeParts DEF StartBegin, vars, rows
<1>1. ListsTyped'
  BY EntryParts, EntryTyped, TimingTypes DEF ListsTyped, PassesTyped, DesksTyped, Handlers, Passes
<1>2. CountriesTyped'
  BY EntryParts, RunTypes, GateTyped, TimedTyped, TimingTypes DEF ListsTyped, CountriesTyped, Settings, PassesTyped, DesksTyped, Handlers, Passes, Unset, NoRun, Keep
<1>3. DesksTyped'
  <2>1. [desk[d] EXCEPT !.pc = "stock", !.list = queue] \in Handlers
    BY HandlerTyped DEF DesksTyped, DeskPC, ListsTyped
  <2> QED BY <2>1 DEF DesksTyped
<1>4. PassesTyped'
  BY EntryParts, EntryTyped DEF ListsTyped, PassesTyped, Passes, CyclePC, Resting, NoId
<1> QED BY <1>1, <1>2, <1>3, <1>4 DEF TypeOK, ListsTyped, CountriesTyped, DesksTyped, PassesTyped, Settings

LEMMA TypedStartRefused == ASSUME TypeOK, NEW d \in Desks, StartRefused(d) PROVE TypeOK'
<1> USE TypeParts DEF StartRefused, vars, rows
<1>1. ListsTyped'
  BY EntryParts, EntryTyped, TimingTypes DEF ListsTyped, PassesTyped, DesksTyped, Handlers, Passes
<1>2. CountriesTyped'
  BY EntryParts, RunTypes, GateTyped, TimedTyped, TimingTypes DEF ListsTyped, CountriesTyped, Settings, PassesTyped, DesksTyped, Handlers, Passes, Unset, NoRun, Keep
<1>3. DesksTyped'
  BY EntryParts, EntryTyped, GateTyped DEF ListsTyped, DesksTyped, Handlers, DeskPC, Idle, NoId
<1>4. PassesTyped'
  BY EntryParts, EntryTyped DEF ListsTyped, PassesTyped, Passes, CyclePC, Resting, NoId
<1> QED BY <1>1, <1>2, <1>3, <1>4 DEF TypeOK, ListsTyped, CountriesTyped, DesksTyped, PassesTyped, Settings

LEMMA TypedStartStock == ASSUME TypeOK, NEW d \in Desks, StartStock(d) PROVE TypeOK'
<1> USE TypeParts DEF StartStock, vars, rows
<1>1. ListsTyped'
  BY EntryParts, EntryTyped, TimingTypes DEF ListsTyped, PassesTyped, DesksTyped, Handlers, Passes
<1>2. CountriesTyped'
  BY EntryParts, RunTypes, GateTyped, TimedTyped, TimingTypes DEF ListsTyped, CountriesTyped, Settings, PassesTyped, DesksTyped, Handlers, Passes, Unset, NoRun, Keep
<1>3. DesksTyped'
  <2>1. PICK stocked \in SUBSET CountriesOf(desk[d].list) :
           desk' = [desk EXCEPT
                    ![d].pc = "adding", ![d].list = Sorted(d, @),
                    ![d].todo = {e \in Ready(Sorted(d, desk[d].list)) : e.country \notin stocked}]
    OBVIOUS
  <2> DEFINE L == Sorted(d, desk[d].list)
             T == {e \in Ready(L) : e.country \notin stocked}
  <2>2. L \in SUBSET Entries
    BY SortedTyped DEF DesksTyped, Handlers
  <2>3. T \in SUBSET Entries
    BY <2>2 DEF Ready
  <2>4. desk' = [desk EXCEPT ![d] = [desk[d] EXCEPT !.pc = "adding", !.list = L, !.todo = T]]
    BY <2>1 DEF DesksTyped
  <2> HIDE DEF L, T
  <2>5. [desk[d] EXCEPT !.pc = "adding", !.list = L, !.todo = T] \in Handlers
    BY <2>2, <2>3, HandlerTyped DEF DesksTyped, DeskPC
  <2> QED BY <2>4, <2>5 DEF DesksTyped
<1>4. PassesTyped'
  BY EntryParts, EntryTyped DEF ListsTyped, PassesTyped, Passes, CyclePC, Resting, NoId
<1> QED BY <1>1, <1>2, <1>3, <1>4 DEF TypeOK, ListsTyped, CountriesTyped, DesksTyped, PassesTyped, Settings

LEMMA TypedStartAdded == ASSUME TypeOK, NEW d \in Desks, StartAdded(d) PROVE TypeOK'
<1> USE TypeParts DEF StartAdded, vars, rows
<1>1. ListsTyped'
  BY EntryParts, EntryTyped, TimingTypes DEF ListsTyped, PassesTyped, DesksTyped, Handlers, Passes
<1>2. CountriesTyped'
  BY EntryParts, RunTypes, GateTyped, TimedTyped, TimingTypes DEF ListsTyped, CountriesTyped, Settings, PassesTyped, DesksTyped, Handlers, Passes, Unset, NoRun, Keep
<1>3. DesksTyped'
  BY EntryParts, EntryTyped, GateTyped DEF ListsTyped, DesksTyped, Handlers, DeskPC, Idle, NoId
<1>4. PassesTyped'
  BY EntryParts, EntryTyped DEF ListsTyped, PassesTyped, Passes, CyclePC, Resting, NoId
<1> QED BY <1>1, <1>2, <1>3, <1>4 DEF TypeOK, ListsTyped, CountriesTyped, DesksTyped, PassesTyped, Settings

LEMMA TypedStartFails == ASSUME TypeOK, NEW d \in Desks, StartFails(d) PROVE TypeOK'
<1> USE TypeParts DEF StartFails, vars, rows
<1>1. ListsTyped'
  BY EntryParts, EntryTyped, TimingTypes DEF ListsTyped, PassesTyped, DesksTyped, Handlers, Passes
<1>2. CountriesTyped'
  BY EntryParts, RunTypes, GateTyped, TimedTyped, TimingTypes DEF ListsTyped, CountriesTyped, Settings, PassesTyped, DesksTyped, Handlers, Passes, Unset, NoRun, Keep
<1>3. DesksTyped'
  BY EntryParts, EntryTyped, GateTyped DEF ListsTyped, DesksTyped, Handlers, DeskPC, Idle, NoId
<1>4. PassesTyped'
  BY EntryParts, EntryTyped DEF ListsTyped, PassesTyped, Passes, CyclePC, Resting, NoId
<1> QED BY <1>1, <1>2, <1>3, <1>4 DEF TypeOK, ListsTyped, CountriesTyped, DesksTyped, PassesTyped, Settings

LEMMA TypedStartArm == ASSUME TypeOK, NEW d \in Desks, StartArm(d) PROVE TypeOK'
<1> USE TypeParts DEF StartArm, vars, rows
<1>1. ListsTyped'
  BY EntryParts, EntryTyped, TimingTypes DEF ListsTyped, PassesTyped, DesksTyped, Handlers, Passes
<1>2. CountriesTyped'
  BY EntryParts, RunTypes, GateTyped, TimedTyped, TimingTypes DEF ListsTyped, CountriesTyped, Settings, PassesTyped, DesksTyped, Handlers, Passes, Unset, NoRun, Keep
<1>3. DesksTyped'
  BY SMTT(60), EntryParts, EntryTyped, GateTyped DEF ListsTyped, DesksTyped, Handlers, DeskPC, Idle, NoId
<1>4. PassesTyped'
  BY EntryParts, EntryTyped DEF ListsTyped, PassesTyped, Passes, CyclePC, Resting, NoId
<1> QED BY <1>1, <1>2, <1>3, <1>4 DEF TypeOK, ListsTyped, CountriesTyped, DesksTyped, PassesTyped, Settings

LEMMA TypedStartMerge == ASSUME TypeOK, NEW d \in Desks, StartMerge(d) PROVE TypeOK'
<1> USE TypeParts DEF StartMerge, vars, rows, Merged
<1>1. ListsTyped'
  BY EntryParts, EntryTyped, TimingTypes DEF ListsTyped, PassesTyped, DesksTyped, Handlers, Passes
<1>2. CountriesTyped'
  BY EntryParts, RunTypes, GateTyped, TimedTyped, TimingTypes DEF ListsTyped, CountriesTyped, Settings, PassesTyped, DesksTyped, Handlers, Passes, Unset, NoRun, Keep
<1>3. DesksTyped'
  BY EntryParts, EntryTyped, GateTyped DEF ListsTyped, DesksTyped, Handlers, DeskPC, Idle, NoId
<1>4. PassesTyped'
  BY EntryParts, EntryTyped DEF ListsTyped, PassesTyped, Passes, CyclePC, Resting, NoId
<1> QED BY <1>1, <1>2, <1>3, <1>4 DEF TypeOK, ListsTyped, CountriesTyped, DesksTyped, PassesTyped, Settings

LEMMA TypedStartClear == ASSUME TypeOK, NEW d \in Desks, StartClear(d) PROVE TypeOK'
<1> USE TypeParts DEF StartClear, vars, rows
<1>1. ListsTyped'
  BY EntryParts, EntryTyped, TimingTypes DEF ListsTyped, PassesTyped, DesksTyped, Handlers, Passes
<1>2. CountriesTyped'
  BY EntryParts, RunTypes, GateTyped, TimedTyped, TimingTypes DEF ListsTyped, CountriesTyped, Settings, PassesTyped, DesksTyped, Handlers, Passes, Unset, NoRun, Keep
<1>3. DesksTyped'
  BY EntryParts, EntryTyped, GateTyped DEF ListsTyped, DesksTyped, Handlers, DeskPC, Idle, NoId
<1>4. PassesTyped'
  BY EntryParts, EntryTyped DEF ListsTyped, PassesTyped, Passes, CyclePC, Resting, NoId
<1> QED BY <1>1, <1>2, <1>3, <1>4 DEF TypeOK, ListsTyped, CountriesTyped, DesksTyped, PassesTyped, Settings

LEMMA TypedScheduledCycle == ASSUME TypeOK, NEW k \in Cyclers, ScheduledCycle(k) PROVE TypeOK'
<1> USE TypeParts DEF ScheduledCycle, vars, rows, CycleBegin
<1>1. ListsTyped'
  BY EntryParts, EntryTyped, TimingTypes DEF ListsTyped, PassesTyped, DesksTyped, Handlers, Passes
<1>2. CountriesTyped'
  BY EntryParts, RunTypes, GateTyped, TimedTyped, TimingTypes DEF ListsTyped, CountriesTyped, Settings, PassesTyped, DesksTyped, Handlers, Passes, Unset, NoRun, Keep
<1>3. DesksTyped'
  BY EntryParts, EntryTyped, GateTyped DEF ListsTyped, DesksTyped, Handlers, DeskPC, Idle, NoId
<1>4. PassesTyped'
  BY EntryParts, EntryTyped DEF ListsTyped, PassesTyped, Passes, CyclePC, Resting, NoId
<1> QED BY <1>1, <1>2, <1>3, <1>4 DEF TypeOK, ListsTyped, CountriesTyped, DesksTyped, PassesTyped, Settings

LEMMA TypedWaitRead == ASSUME TypeOK, NEW k \in Cyclers, WaitRead(k) PROVE TypeOK'
<1> USE TypeParts DEF WaitRead, vars, rows
<1>1. ListsTyped'
  BY EntryParts, EntryTyped, TimingTypes DEF ListsTyped, PassesTyped, DesksTyped, Handlers, Passes
<1>2. CountriesTyped'
  BY EntryParts, RunTypes, GateTyped, TimedTyped, TimingTypes DEF ListsTyped, CountriesTyped, Settings, PassesTyped, DesksTyped, Handlers, Passes, Unset, NoRun, Keep
<1>3. DesksTyped'
  BY EntryParts, EntryTyped, GateTyped DEF ListsTyped, DesksTyped, Handlers, DeskPC, Idle, NoId
<1>4. PassesTyped'
  <2> DEFINE quiet == Waiting(cycle[k].todo) = {}
             p == IF quiet THEN "stock" ELSE "waitadd"
             L == IF quiet THEN {} ELSE active
  <2>1. p \in {"stock", "waitadd"} /\ L \in SUBSET Entries
    BY DEF ListsTyped
  <2>2. cycle' = [cycle EXCEPT ![k] = [cycle[k] EXCEPT !.pc = p, !.list = L]]
    BY DEF PassesTyped
  <2> HIDE DEF p, L
  <2>3. [cycle[k] EXCEPT !.pc = p, !.list = L] \in Passes
    BY <2>1, PassTyped DEF PassesTyped, CyclePC
  <2> QED BY <2>2, <2>3 DEF PassesTyped
<1> QED BY <1>1, <1>2, <1>3, <1>4 DEF TypeOK, ListsTyped, CountriesTyped, DesksTyped, PassesTyped, Settings

LEMMA TypedWaitAdded == ASSUME TypeOK, NEW k \in Cyclers, WaitAdded(k) PROVE TypeOK'
<1> USE TypeParts DEF WaitAdded, vars, rows
<1>1. ListsTyped'
  BY EntryParts, EntryTyped, TimingTypes DEF ListsTyped, PassesTyped, DesksTyped, Handlers, Passes
<1>2. CountriesTyped'
  BY EntryParts, RunTypes, GateTyped, TimedTyped, TimingTypes DEF ListsTyped, CountriesTyped, Settings, PassesTyped, DesksTyped, Handlers, Passes, Unset, NoRun, Keep
<1>3. DesksTyped'
  BY EntryParts, EntryTyped, GateTyped DEF ListsTyped, DesksTyped, Handlers, DeskPC, Idle, NoId
<1>4. PassesTyped'
  <2>1. PICK e \in Waiting(cycle[k].todo) :
           cycle' = [cycle EXCEPT ![k].list = Popped(@, Id(e)),
                                  ![k].todo = Popped(@, Id(e)),
                                  ![k].changed = @ \/ Id(e) \in Ids(cycle[k].list)]
    OBVIOUS
  <2> DEFINE L == Popped(cycle[k].list, Id(e))
             T == Popped(cycle[k].todo, Id(e))
             b == cycle[k].changed \/ Id(e) \in Ids(cycle[k].list)
  <2>2. L \in SUBSET Entries /\ T \in SUBSET Entries /\ b \in BOOLEAN
    BY PoppedTyped DEF PassesTyped, Passes
  <2>3. cycle' = [cycle EXCEPT ![k] = [cycle[k] EXCEPT !.list = L, !.todo = T, !.changed = b]]
    BY <2>1 DEF PassesTyped
  <2> HIDE DEF L, T, b
  <2>4. [cycle[k] EXCEPT !.list = L, !.todo = T, !.changed = b] \in Passes
    BY <2>2, PassTyped DEF PassesTyped, CyclePC
  <2> QED BY <2>3, <2>4 DEF PassesTyped
<1> QED BY <1>1, <1>2, <1>3, <1>4 DEF TypeOK, ListsTyped, CountriesTyped, DesksTyped, PassesTyped, Settings

LEMMA TypedWaitSave == ASSUME TypeOK, NEW k \in Cyclers, WaitSave(k) PROVE TypeOK'
<1> USE TypeParts DEF WaitSave, vars, rows
<1>1. ListsTyped'
  BY EntryParts, EntryTyped, TimingTypes DEF ListsTyped, PassesTyped, DesksTyped, Handlers, Passes
<1>2. CountriesTyped'
  BY EntryParts, RunTypes, GateTyped, TimedTyped, TimingTypes DEF ListsTyped, CountriesTyped, Settings, PassesTyped, DesksTyped, Handlers, Passes, Unset, NoRun, Keep
<1>3. DesksTyped'
  BY EntryParts, EntryTyped, GateTyped DEF ListsTyped, DesksTyped, Handlers, DeskPC, Idle, NoId
<1>4. PassesTyped'
  <2>1. [cycle[k] EXCEPT !.pc = "stock", !.list = {}, !.changed = FALSE] \in Passes
    BY PassTyped DEF PassesTyped, CyclePC
  <2> QED BY <2>1 DEF PassesTyped
<1> QED BY <1>1, <1>2, <1>3, <1>4 DEF TypeOK, ListsTyped, CountriesTyped, DesksTyped, PassesTyped, Settings

LEMMA TypedCycleStock == ASSUME TypeOK, NEW k \in Cyclers, CycleStock(k) PROVE TypeOK'
<1> USE TypeParts DEF CycleStock, vars, rows
<1>1. ListsTyped'
  BY EntryParts, EntryTyped, TimingTypes DEF ListsTyped, PassesTyped, DesksTyped, Handlers, Passes
<1>2. CountriesTyped'
  BY EntryParts, RunTypes, GateTyped, TimedTyped, TimingTypes DEF ListsTyped, CountriesTyped, Settings, PassesTyped, DesksTyped, Handlers, Passes, Unset, NoRun, Keep
<1>3. DesksTyped'
  BY EntryParts, EntryTyped, GateTyped DEF ListsTyped, DesksTyped, Handlers, DeskPC, Idle, NoId
<1>4. PassesTyped'
  <2>1. PICK empty \in SUBSET CountriesOf(cycle[k].todo) :
           cycle' = [cycle EXCEPT
                ![k] = IF {e \in cycle[k].todo : e.country \in empty} = {} THEN Resting
                       ELSE [Resting EXCEPT !.pc = "refill",
                               !.todo = {e \in cycle[k].todo : e.country \in empty}]]
    OBVIOUS
  <2> DEFINE T == {e \in cycle[k].todo : e.country \in empty}
             r == IF T = {} THEN Resting ELSE [Resting EXCEPT !.pc = "refill", !.todo = T]
  <2>2. T \in SUBSET Entries
    BY DEF PassesTyped, Passes
  <2>3. cycle' = [cycle EXCEPT ![k] = r]
    BY <2>1
  <2> HIDE DEF T
  <2>4. r \in Passes
    BY <2>2, PassTyped DEF CyclePC, Resting
  <2> HIDE DEF r
  <2> QED BY <2>3, <2>4 DEF PassesTyped
<1> QED BY <1>1, <1>2, <1>3, <1>4 DEF TypeOK, ListsTyped, CountriesTyped, DesksTyped, PassesTyped, Settings

LEMMA TypedCyclePick == ASSUME TypeOK, NEW k \in Cyclers, CyclePick(k) PROVE TypeOK'
<1> USE TypeParts DEF CyclePick, vars, rows
<1>1. ListsTyped'
  BY EntryParts, EntryTyped, TimingTypes DEF ListsTyped, PassesTyped, DesksTyped, Handlers, Passes
<1>2. CountriesTyped'
  BY EntryParts, RunTypes, GateTyped, TimedTyped, TimingTypes DEF ListsTyped, CountriesTyped, Settings, PassesTyped, DesksTyped, Handlers, Passes, Unset, NoRun, Keep
<1>3. DesksTyped'
  BY EntryParts, EntryTyped, GateTyped DEF ListsTyped, DesksTyped, Handlers, DeskPC, Idle, NoId
<1>4. PassesTyped'
  BY EntryParts, EntryTyped DEF ListsTyped, PassesTyped, Passes, CyclePC, Resting, NoId
<1> QED BY <1>1, <1>2, <1>3, <1>4 DEF TypeOK, ListsTyped, CountriesTyped, DesksTyped, PassesTyped, Settings

LEMMA TypedCycleAdded == ASSUME TypeOK, NEW k \in Cyclers, CycleAdded(k) PROVE TypeOK'
<1> USE TypeParts DEF CycleAdded, vars, rows
<1>1. ListsTyped'
  BY EntryParts, EntryTyped, TimingTypes DEF ListsTyped, PassesTyped, DesksTyped, Handlers, Passes
<1>2. CountriesTyped'
  BY EntryParts, RunTypes, GateTyped, TimedTyped, TimingTypes DEF ListsTyped, CountriesTyped, Settings, PassesTyped, DesksTyped, Handlers, Passes, Unset, NoRun, Keep
<1>3. DesksTyped'
  BY EntryParts, EntryTyped, GateTyped DEF ListsTyped, DesksTyped, Handlers, DeskPC, Idle, NoId
<1>4. PassesTyped'
  <2>1. [cycle[k] EXCEPT !.pc = "refill", !.cur = NoId] \in Passes
    BY PassTyped DEF PassesTyped, CyclePC
  <2> QED BY <2>1 DEF PassesTyped
<1> QED BY <1>1, <1>2, <1>3, <1>4 DEF TypeOK, ListsTyped, CountriesTyped, DesksTyped, PassesTyped, Settings

LEMMA TypedCycleRetire == ASSUME TypeOK, NEW k \in Cyclers, CycleRetire(k) PROVE TypeOK'
<1> USE TypeParts DEF CycleRetire, vars, rows, StopsWhenEmpty
<1>1. ListsTyped'
  <2>1. Without(active, Id(cycle[k].cur)) \subseteq active
    BY EntryParts DEF ListsTyped
  <2> QED BY <2>1 DEF ListsTyped
<1>2. CountriesTyped'
  BY EntryParts, RunTypes, GateTyped, TimedTyped, TimingTypes DEF ListsTyped, CountriesTyped, Settings, PassesTyped, DesksTyped, Handlers, Passes, Unset, NoRun, Keep
<1>3. DesksTyped'
  BY EntryParts, EntryTyped, GateTyped DEF ListsTyped, DesksTyped, Handlers, DeskPC, Idle, NoId
<1>4. PassesTyped'
  <2>1. [cycle[k] EXCEPT !.pc = "refill", !.cur = NoId] \in Passes
    BY PassTyped DEF PassesTyped, CyclePC
  <2> QED BY <2>1 DEF PassesTyped
<1> QED BY <1>1, <1>2, <1>3, <1>4 DEF TypeOK, ListsTyped, CountriesTyped, DesksTyped, PassesTyped, Settings

LEMMA TypedCycleEnd == ASSUME TypeOK, NEW k \in Cyclers, CycleEnd(k) PROVE TypeOK'
<1> USE TypeParts DEF CycleEnd, vars, rows
<1>1. ListsTyped'
  BY EntryParts, EntryTyped, TimingTypes DEF ListsTyped, PassesTyped, DesksTyped, Handlers, Passes
<1>2. CountriesTyped'
  BY EntryParts, RunTypes, GateTyped, TimedTyped, TimingTypes DEF ListsTyped, CountriesTyped, Settings, PassesTyped, DesksTyped, Handlers, Passes, Unset, NoRun, Keep
<1>3. DesksTyped'
  BY EntryParts, EntryTyped, GateTyped DEF ListsTyped, DesksTyped, Handlers, DeskPC, Idle, NoId
<1>4. PassesTyped'
  BY EntryParts, EntryTyped DEF ListsTyped, PassesTyped, Passes, CyclePC, Resting, NoId
<1> QED BY <1>1, <1>2, <1>3, <1>4 DEF TypeOK, ListsTyped, CountriesTyped, DesksTyped, PassesTyped, Settings

LEMMA TypedResume == ASSUME TypeOK, NEW d \in Desks, Resume(d) PROVE TypeOK'
<1> USE TypeParts DEF Resume, vars, rows
<1>1. ListsTyped'
  BY EntryParts, EntryTyped, TimingTypes DEF ListsTyped, PassesTyped, DesksTyped, Handlers, Passes
<1>2. CountriesTyped'
  BY EntryParts, RunTypes, GateTyped, TimedTyped, TimingTypes DEF ListsTyped, CountriesTyped, Settings, PassesTyped, DesksTyped, Handlers, Passes, Unset, NoRun, Keep
<1>3. DesksTyped'
  BY EntryParts, EntryTyped, GateTyped DEF ListsTyped, DesksTyped, Handlers, DeskPC, Idle, NoId
<1>4. PassesTyped'
  BY EntryParts, EntryTyped DEF ListsTyped, PassesTyped, Passes, CyclePC, Resting, NoId
<1> QED BY <1>1, <1>2, <1>3, <1>4 DEF TypeOK, ListsTyped, CountriesTyped, DesksTyped, PassesTyped, Settings

LEMMA TypedPressStart == ASSUME TypeOK, NEW d \in Desks, PressStart(d) PROVE TypeOK'
<1> USE TypeParts DEF PressStart, vars, rows
<1>1. ListsTyped'
  BY EntryParts, EntryTyped, TimingTypes DEF ListsTyped, PassesTyped, DesksTyped, Handlers, Passes
<1>2. CountriesTyped'
  BY EntryParts, RunTypes, GateTyped, TimedTyped, TimingTypes DEF ListsTyped, CountriesTyped, Settings, PassesTyped, DesksTyped, Handlers, Passes, Unset, NoRun, Keep
<1>3. DesksTyped'
  BY EntryParts, EntryTyped, GateTyped DEF ListsTyped, DesksTyped, Handlers, DeskPC, Idle, NoId
<1>4. PassesTyped'
  BY EntryParts, EntryTyped DEF ListsTyped, PassesTyped, Passes, CyclePC, Resting, NoId
<1> QED BY <1>1, <1>2, <1>3, <1>4 DEF TypeOK, ListsTyped, CountriesTyped, DesksTyped, PassesTyped, Settings

LEMMA TypedSayStart == ASSUME TypeOK, NEW d \in Desks, SayStart(d) PROVE TypeOK'
<1> USE TypeParts DEF SayStart, vars, rows, Continue
<1>1. ListsTyped'
  BY EntryParts, EntryTyped, TimingTypes DEF ListsTyped, PassesTyped, DesksTyped, Handlers, Passes
<1>2. CountriesTyped'
  BY EntryParts, RunTypes, GateTyped, TimedTyped, TimingTypes DEF ListsTyped, CountriesTyped, Settings, PassesTyped, DesksTyped, Handlers, Passes, Unset, NoRun, Keep
<1>3. DesksTyped'
  <2>1. [Idle EXCEPT !.pc = "start"] \in Handlers
    BY HandlerTyped DEF DeskPC
  <2>2. desk' = desk \/ desk' = [desk EXCEPT ![d] = [Idle EXCEPT !.pc = "start"]]
    OBVIOUS
  <2> QED BY <2>1, <2>2 DEF DesksTyped
<1>4. PassesTyped'
  BY EntryParts, EntryTyped DEF ListsTyped, PassesTyped, Passes, CyclePC, Resting, NoId
<1> QED BY <1>1, <1>2, <1>3, <1>4 DEF TypeOK, ListsTyped, CountriesTyped, DesksTyped, PassesTyped, Settings

LEMMA TypedTagEntry == ASSUME TypeOK, NEW d \in Desks, NEW e \in queue, TagEntry(d, e) PROVE TypeOK'
<1> USE TypeParts DEF TagEntry, vars, rows, Continue, Retagged
<1>1. ListsTyped'
  <2>1. Tag(e) \in Entries /\ e.country \in Countries
    BY EntryParts, EntryTyped DEF ListsTyped
  <2>2. Retagged(e) \in SUBSET Entries
    BY <2>1 DEF ListsTyped, Retagged
  <2> HIDE DEF Retagged
  <2> QED BY <2>1, <2>2, EntryParts DEF ListsTyped
<1>2. CountriesTyped'
  BY EntryParts, RunTypes, GateTyped, TimedTyped, TimingTypes DEF ListsTyped, CountriesTyped, Settings, PassesTyped, DesksTyped, Handlers, Passes, Unset, NoRun, Keep
<1>3. DesksTyped'
  <2>1. [Idle EXCEPT !.pc = "start"] \in Handlers
    BY HandlerTyped DEF DeskPC
  <2>2. desk' = desk \/ desk' = [desk EXCEPT ![d] = [Idle EXCEPT !.pc = "start"]]
    OBVIOUS
  <2> QED BY <2>1, <2>2 DEF DesksTyped
<1>4. PassesTyped'
  BY EntryParts, EntryTyped DEF ListsTyped, PassesTyped, Passes, CyclePC, Resting, NoId
<1> QED BY <1>1, <1>2, <1>3, <1>4 DEF TypeOK, ListsTyped, CountriesTyped, DesksTyped, PassesTyped, Settings

LEMMA TypedSkipEntry == ASSUME TypeOK, NEW d \in Desks, NEW e \in queue, SkipEntry(d, e) PROVE TypeOK'
<1> USE TypeParts DEF SkipEntry, vars, rows, Continue, Unasked
<1>1. ListsTyped'
  BY EntryParts, EntryTyped, TimingTypes DEF ListsTyped, PassesTyped, DesksTyped, Handlers, Passes
<1>2. CountriesTyped'
  BY EntryParts, RunTypes, GateTyped, TimedTyped, TimingTypes DEF ListsTyped, CountriesTyped, Settings, PassesTyped, DesksTyped, Handlers, Passes, Unset, NoRun, Keep
<1>3. DesksTyped'
  <2>1. [Idle EXCEPT !.pc = "start"] \in Handlers
    BY HandlerTyped DEF DeskPC
  <2>2. desk' = desk \/ desk' = [desk EXCEPT ![d] = [Idle EXCEPT !.pc = "start"]]
    OBVIOUS
  <2> QED BY <2>1, <2>2 DEF DesksTyped
<1>4. PassesTyped'
  BY EntryParts, EntryTyped DEF ListsTyped, PassesTyped, Passes, CyclePC, Resting, NoId
<1> QED BY <1>1, <1>2, <1>3, <1>4 DEF TypeOK, ListsTyped, CountriesTyped, DesksTyped, PassesTyped, Settings

LEMMA TypedAnswerRuntime == ASSUME TypeOK, NEW d \in Desks, NEW n \in {0, RunLength}, AnswerRuntime(d, n) PROVE TypeOK'
<1> USE TypeParts DEF AnswerRuntime, vars, rows
<1>1. ListsTyped'
  BY EntryParts, EntryTyped, TimingTypes DEF ListsTyped, PassesTyped, DesksTyped, Handlers, Passes
<1>2. CountriesTyped'
  <2>1. settings' \in [Countries -> Settings]
    BY TimingTypes DEF CountriesTyped, Settings
  <2> QED BY <2>1 DEF CountriesTyped
<1>3. DesksTyped'
  <2>1. [Idle EXCEPT !.pc = "start"] \in Handlers
    BY HandlerTyped DEF DeskPC
  <2>2. desk' = desk \/ desk' = [desk EXCEPT ![d] = [Idle EXCEPT !.pc = "start"]]
    OBVIOUS
  <2> QED BY <2>1, <2>2 DEF DesksTyped
<1>4. PassesTyped'
  BY EntryParts, EntryTyped DEF ListsTyped, PassesTyped, Passes, CyclePC, Resting, NoId
<1> QED BY <1>1, <1>2, <1>3, <1>4 DEF TypeOK, ListsTyped, CountriesTyped, DesksTyped, PassesTyped, Settings

LEMMA TypedPanelTag == ASSUME TypeOK, NEW e \in queue, PanelTag(e) PROVE TypeOK'
<1> USE TypeParts DEF PanelTag, vars, rows, Retagged
<1>1. ListsTyped'
  <2>1. Tag(e) \in Entries /\ e.country \in Countries
    BY EntryParts, EntryTyped DEF ListsTyped
  <2>2. Retagged(e) \in SUBSET Entries
    BY <2>1 DEF ListsTyped, Retagged
  <2> HIDE DEF Retagged
  <2> QED BY <2>1, <2>2, EntryParts DEF ListsTyped
<1>2. CountriesTyped'
  BY EntryParts, RunTypes, GateTyped, TimedTyped, TimingTypes DEF ListsTyped, CountriesTyped, Settings, PassesTyped, DesksTyped, Handlers, Passes, Unset, NoRun, Keep
<1>3. DesksTyped'
  BY EntryParts, EntryTyped, GateTyped DEF ListsTyped, DesksTyped, Handlers, DeskPC, Idle, NoId
<1>4. PassesTyped'
  BY EntryParts, EntryTyped DEF ListsTyped, PassesTyped, Passes, CyclePC, Resting, NoId
<1> QED BY <1>1, <1>2, <1>3, <1>4 DEF TypeOK, ListsTyped, CountriesTyped, DesksTyped, PassesTyped, Settings

LEMMA TypedRemoveQueued == ASSUME TypeOK, NEW e \in queue, RemoveQueued(e) PROVE TypeOK'
<1> USE TypeParts DEF RemoveQueued, vars, rows, Unasked
<1>1. ListsTyped'
  BY EntryParts, EntryTyped, TimingTypes DEF ListsTyped, PassesTyped, DesksTyped, Handlers, Passes
<1>2. CountriesTyped'
  BY EntryParts, RunTypes, GateTyped, TimedTyped, TimingTypes DEF ListsTyped, CountriesTyped, Settings, PassesTyped, DesksTyped, Handlers, Passes, Unset, NoRun, Keep
<1>3. DesksTyped'
  BY EntryParts, EntryTyped, GateTyped DEF ListsTyped, DesksTyped, Handlers, DeskPC, Idle, NoId
<1>4. PassesTyped'
  BY EntryParts, EntryTyped DEF ListsTyped, PassesTyped, Passes, CyclePC, Resting, NoId
<1> QED BY <1>1, <1>2, <1>3, <1>4 DEF TypeOK, ListsTyped, CountriesTyped, DesksTyped, PassesTyped, Settings

LEMMA TypedRemoveActive == ASSUME TypeOK, NEW e \in active, RemoveActive(e) PROVE TypeOK'
<1> USE TypeParts DEF RemoveActive, vars, rows, StopsWhenEmpty
<1>1. ListsTyped'
  BY EntryParts, EntryTyped, TimingTypes DEF ListsTyped, PassesTyped, DesksTyped, Handlers, Passes
<1>2. CountriesTyped'
  BY EntryParts, RunTypes, GateTyped, TimedTyped, TimingTypes DEF ListsTyped, CountriesTyped, Settings, PassesTyped, DesksTyped, Handlers, Passes, Unset, NoRun, Keep
<1>3. DesksTyped'
  BY EntryParts, EntryTyped, GateTyped DEF ListsTyped, DesksTyped, Handlers, DeskPC, Idle, NoId
<1>4. PassesTyped'
  BY EntryParts, EntryTyped DEF ListsTyped, PassesTyped, Passes, CyclePC, Resting, NoId
<1> QED BY <1>1, <1>2, <1>3, <1>4 DEF TypeOK, ListsTyped, CountriesTyped, DesksTyped, PassesTyped, Settings

LEMMA TypedRemoveCountry == ASSUME TypeOK, NEW c \in Countries, RemoveCountry(c) PROVE TypeOK'
<1> USE TypeParts DEF RemoveCountry, vars, rows, Unasked, StopsWhenEmpty
<1>1. ListsTyped'
  BY EntryParts, EntryTyped, TimingTypes DEF ListsTyped, PassesTyped, DesksTyped, Handlers, Passes
<1>2. CountriesTyped'
  BY EntryParts, RunTypes, GateTyped, TimedTyped, TimingTypes DEF ListsTyped, CountriesTyped, Settings, PassesTyped, DesksTyped, Handlers, Passes, Unset, NoRun, Keep
<1>3. DesksTyped'
  BY EntryParts, EntryTyped, GateTyped DEF ListsTyped, DesksTyped, Handlers, DeskPC, Idle, NoId
<1>4. PassesTyped'
  BY EntryParts, EntryTyped DEF ListsTyped, PassesTyped, Passes, CyclePC, Resting, NoId
<1> QED BY <1>1, <1>2, <1>3, <1>4 DEF TypeOK, ListsTyped, CountriesTyped, DesksTyped, PassesTyped, Settings

LEMMA TypedTogglePause == ASSUME TypeOK, NEW c \in Countries, TogglePause(c) PROVE TypeOK'
<1> USE TypeParts DEF TogglePause, vars, rows
<1>1. ListsTyped'
  BY EntryParts, EntryTyped, TimingTypes DEF ListsTyped, PassesTyped, DesksTyped, Handlers, Passes
<1>2. CountriesTyped'
  <2>1. settings' \in [Countries -> Settings]
    BY ZenonT(60) DEF CountriesTyped, Settings
  <2>2. due' \in [Countries -> Nat \cup {Unset}]
    BY TimingTypes DEF CountriesTyped, ListsTyped
  <2> QED BY <2>1, <2>2 DEF CountriesTyped
<1>3. DesksTyped'
  BY EntryParts, EntryTyped, GateTyped DEF ListsTyped, DesksTyped, Handlers, DeskPC, Idle, NoId
<1>4. PassesTyped'
  BY EntryParts, EntryTyped DEF ListsTyped, PassesTyped, Passes, CyclePC, Resting, NoId
<1> QED BY <1>1, <1>2, <1>3, <1>4 DEF TypeOK, ListsTyped, CountriesTyped, DesksTyped, PassesTyped, Settings

LEMMA TypedSetTiming == ASSUME TypeOK, NEW c \in Countries, SetTiming(c) PROVE TypeOK'
<1> USE TypeParts DEF SetTiming, vars, rows
<1>1. ListsTyped'
  BY EntryParts, EntryTyped, TimingTypes DEF ListsTyped, PassesTyped, DesksTyped, Handlers, Passes
<1>2. CountriesTyped'
  <2>1. PICK t \in Timings :
           \/ t.start # Unset /\ settings' = [settings EXCEPT ![c].start = t.start]
           \/ t.stop # Keep /\ settings' = [settings EXCEPT ![c].stop = t.stop]
           \/ t.length # Keep /\ settings' = [settings EXCEPT ![c].length = t.length]
    OBVIOUS
  <2>2. /\ t.start \in WallClock \cup {Unset, AtOnce}
        /\ t.stop # Keep => t.stop \in WallClock \cup {Unset}
        /\ t.length # Keep => t.length \in Nat
    BY TimingTypes
  <2>3. settings' \in [Countries -> Settings]
    BY <2>1, <2>2 DEF CountriesTyped, Settings
  <2> QED BY <2>3 DEF CountriesTyped
<1>3. DesksTyped'
  BY EntryParts, EntryTyped, GateTyped DEF ListsTyped, DesksTyped, Handlers, DeskPC, Idle, NoId
<1>4. PassesTyped'
  BY EntryParts, EntryTyped DEF ListsTyped, PassesTyped, Passes, CyclePC, Resting, NoId
<1> QED BY <1>1, <1>2, <1>3, <1>4 DEF TypeOK, ListsTyped, CountriesTyped, DesksTyped, PassesTyped, Settings

LEMMA TypedClearQueue == ASSUME TypeOK, ClearQueue PROVE TypeOK'
<1> USE TypeParts DEF ClearQueue, vars, rows
<1>1. ListsTyped'
  BY EntryParts, EntryTyped, TimingTypes DEF ListsTyped, PassesTyped, DesksTyped, Handlers, Passes
<1>2. CountriesTyped'
  BY EntryParts, RunTypes, GateTyped, TimedTyped, TimingTypes DEF ListsTyped, CountriesTyped, Settings, PassesTyped, DesksTyped, Handlers, Passes, Unset, NoRun, Keep
<1>3. DesksTyped'
  BY EntryParts, EntryTyped, GateTyped DEF ListsTyped, DesksTyped, Handlers, DeskPC, Idle, NoId
<1>4. PassesTyped'
  BY EntryParts, EntryTyped DEF ListsTyped, PassesTyped, Passes, CyclePC, Resting, NoId
<1> QED BY <1>1, <1>2, <1>3, <1>4 DEF TypeOK, ListsTyped, CountriesTyped, DesksTyped, PassesTyped, Settings

LEMMA TypedStop == ASSUME TypeOK, Stop PROVE TypeOK'
<1> USE TypeParts DEF Stop, vars, rows
<1>1. ListsTyped'
  BY EntryParts, EntryTyped, TimingTypes DEF ListsTyped, PassesTyped, DesksTyped, Handlers, Passes
<1>2. CountriesTyped'
  BY EntryParts, RunTypes, GateTyped, TimedTyped, TimingTypes DEF ListsTyped, CountriesTyped, Settings, PassesTyped, DesksTyped, Handlers, Passes, Unset, NoRun, Keep
<1>3. DesksTyped'
  BY EntryParts, EntryTyped, GateTyped DEF ListsTyped, DesksTyped, Handlers, DeskPC, Idle, NoId
<1>4. PassesTyped'
  BY EntryParts, EntryTyped DEF ListsTyped, PassesTyped, Passes, CyclePC, Resting, NoId
<1> QED BY <1>1, <1>2, <1>3, <1>4 DEF TypeOK, ListsTyped, CountriesTyped, DesksTyped, PassesTyped, Settings

LEMMA TypedTurnOn == ASSUME TypeOK, TurnOn PROVE TypeOK'
<1> USE TypeParts DEF TurnOn, vars, rows
<1>1. ListsTyped'
  BY EntryParts, EntryTyped, TimingTypes DEF ListsTyped, PassesTyped, DesksTyped, Handlers, Passes
<1>2. CountriesTyped'
  BY EntryParts, RunTypes, GateTyped, TimedTyped, TimingTypes DEF ListsTyped, CountriesTyped, Settings, PassesTyped, DesksTyped, Handlers, Passes, Unset, NoRun, Keep
<1>3. DesksTyped'
  BY EntryParts, EntryTyped, GateTyped DEF ListsTyped, DesksTyped, Handlers, DeskPC, Idle, NoId
<1>4. PassesTyped'
  BY EntryParts, EntryTyped DEF ListsTyped, PassesTyped, Passes, CyclePC, Resting, NoId
<1> QED BY <1>1, <1>2, <1>3, <1>4 DEF TypeOK, ListsTyped, CountriesTyped, DesksTyped, PassesTyped, Settings

LEMMA TypedForcedCycle == ASSUME TypeOK, NEW k \in Cyclers, ForcedCycle(k) PROVE TypeOK'
<1> USE TypeParts DEF ForcedCycle, vars, rows, CycleBegin
<1>1. ListsTyped'
  BY EntryParts, EntryTyped, TimingTypes DEF ListsTyped, PassesTyped, DesksTyped, Handlers, Passes
<1>2. CountriesTyped'
  BY EntryParts, RunTypes, GateTyped, TimedTyped, TimingTypes DEF ListsTyped, CountriesTyped, Settings, PassesTyped, DesksTyped, Handlers, Passes, Unset, NoRun, Keep
<1>3. DesksTyped'
  BY EntryParts, EntryTyped, GateTyped DEF ListsTyped, DesksTyped, Handlers, DeskPC, Idle, NoId
<1>4. PassesTyped'
  BY EntryParts, EntryTyped DEF ListsTyped, PassesTyped, Passes, CyclePC, Resting, NoId
<1> QED BY <1>1, <1>2, <1>3, <1>4 DEF TypeOK, ListsTyped, CountriesTyped, DesksTyped, PassesTyped, Settings

LEMMA TypedRestart == ASSUME TypeOK, Restart PROVE TypeOK'
<1> USE TypeParts DEF Restart, vars, rows
<1>1. ListsTyped'
  BY EntryParts, EntryTyped, TimingTypes DEF ListsTyped, PassesTyped, DesksTyped, Handlers, Passes
<1>2. CountriesTyped'
  BY EntryParts, RunTypes, GateTyped, TimedTyped, TimingTypes DEF ListsTyped, CountriesTyped, Settings, PassesTyped, DesksTyped, Handlers, Passes, Unset, NoRun, Keep
<1>3. DesksTyped'
  BY EntryParts, EntryTyped, GateTyped DEF ListsTyped, DesksTyped, Handlers, DeskPC, Idle, NoId
<1>4. PassesTyped'
  BY EntryParts, EntryTyped DEF ListsTyped, PassesTyped, Passes, CyclePC, Resting, NoId
<1> QED BY <1>1, <1>2, <1>3, <1>4 DEF TypeOK, ListsTyped, CountriesTyped, DesksTyped, PassesTyped, Settings

LEMMA TypedTick == ASSUME TypeOK, Tick PROVE TypeOK'
<1> USE TypeParts DEF Tick, vars, rows
<1>1. ListsTyped'
  BY EntryParts, EntryTyped, TimingTypes DEF ListsTyped, PassesTyped, DesksTyped, Handlers, Passes
<1>2. CountriesTyped'
  BY EntryParts, RunTypes, GateTyped, TimedTyped, TimingTypes DEF ListsTyped, CountriesTyped, Settings, PassesTyped, DesksTyped, Handlers, Passes, Unset, NoRun, Keep
<1>3. DesksTyped'
  BY EntryParts, EntryTyped, GateTyped DEF ListsTyped, DesksTyped, Handlers, DeskPC, Idle, NoId
<1>4. PassesTyped'
  BY EntryParts, EntryTyped DEF ListsTyped, PassesTyped, Passes, CyclePC, Resting, NoId
<1> QED BY <1>1, <1>2, <1>3, <1>4 DEF TypeOK, ListsTyped, CountriesTyped, DesksTyped, PassesTyped, Settings

LEMMA TypedInit == Init => TypeOK
<1> SUFFICES ASSUME Init PROVE TypeOK
  OBVIOUS
<1> QED BY DEF Init, TypeOK, Handlers, Passes, DeskPC, CyclePC, Idle, Resting, NoRun

LEMMA TypedStep == TypeOK /\ [Next]_vars => TypeOK'
<1> SUFFICES ASSUME TypeOK, [Next]_vars PROVE TypeOK'
  OBVIOUS
<1>1. CASE \E d \in Desks : Step(d)
  BY <1>1, TypedUploadBegin, TypedUploadEnd, TypedAfterChatUpload, TypedAfterPanelUpload,
     TypedStartBegin, TypedStartRefused, TypedStartStock, TypedStartAdded, TypedStartFails,
     TypedStartArm, TypedStartMerge, TypedStartClear DEF Step
<1>2. CASE \E k \in Cyclers : CycleStep(k)
  BY <1>2, TypedScheduledCycle, TypedWaitRead, TypedWaitAdded, TypedWaitSave,
     TypedCycleStock, TypedCyclePick, TypedCycleAdded, TypedCycleRetire, TypedCycleEnd
     DEF CycleStep
<1>3. CASE \E d \in Desks : Say(d)
  BY <1>3, TypedResume, TypedPressStart, TypedSayStart, TypedTagEntry, TypedSkipEntry,
     TypedAnswerRuntime DEF Say
<1>4. CASE Change
  BY <1>4, TypedPanelTag, TypedRemoveQueued, TypedRemoveActive, TypedRemoveCountry,
     TypedTogglePause, TypedSetTiming, TypedClearQueue, TypedStop, TypedTurnOn DEF Change
<1>5. CASE UNCHANGED vars
  BY <1>5 DEF TypeOK, vars, rows
<1> QED BY <1>1, <1>2, <1>3, <1>4, <1>5, TypedForcedCycle, TypedRestart, TypedTick
           DEF Next, Tap

(* Every variable has its type: in particular no settings row ever holds   *)
(* what a silent caption would have put there.                             *)
THEOREM OtpTypeCorrect == Spec => []TypeOK
<1>1. Init => TypeOK
  BY TypedInit
<1>2. TypeOK /\ [Next]_vars => TypeOK'
  BY TypedStep
<1> QED BY <1>1, <1>2, PTL DEF Spec
-----------------------------------------------------------------------------
(* What is good enough to run: tagged, and served unless it waits.         *)
Good(e) == e.tagged /\ (e.waiting = Unset => Id(e) \in served)

(* The strengthening of OnlyTaggedRun and ActiveWasServed: it also holds   *)
(* of every list an operation has read and will write back.                *)
ListsInv ==
    /\ \A e \in active : Good(e)
    /\ \A k \in Cyclers : \A e \in cycle[k].list : Good(e)
    /\ \A d \in Desks : desk[d].pc = "stock" => \A e \in desk[d].list : e.tagged
    /\ \A d \in Desks : desk[d].pc = "adding" =>
           \A e \in desk[d].list : e.tagged /\ (Good(e) \/ e \in desk[d].todo)
    /\ \A d \in Desks : desk[d].pc \in {"merge", "clear"} =>
           \A e \in desk[d].list : Good(e)

Quiet == {"idle", "enqueue", "uploaded", "start"}

LEMMA ListsQuiet ==
    ASSUME ListsInv, active' \subseteq active, served' = served,
           \A k \in Cyclers : cycle'[k].list \subseteq cycle[k].list,
           \A d \in Desks : desk'[d] = desk[d] \/ desk'[d].pc \in Quiet
    PROVE  ListsInv'
BY DEF ListsInv, Good, Quiet

\* The operations that put nothing into a list that is written back.
LEMMA ListsUploadBegin == ASSUME TypeOK, ListsInv, NEW d \in Desks, NEW f \in Files, UploadBegin(d, f) PROVE ListsInv'
<1> USE DEF UploadBegin, vars, rows, history
<1>1. active' \subseteq active /\ served' = served
  OBVIOUS
<1>2. \A x \in Cyclers : cycle'[x].list \subseteq cycle[x].list
  BY DEF TypeOK, Passes, Resting
<1>3. \A x \in Desks : desk'[x] = desk[x] \/ desk'[x].pc \in Quiet
  BY DEF TypeOK, Handlers, Idle, Quiet
<1> QED BY <1>1, <1>2, <1>3, ListsQuiet

LEMMA ListsUploadEnd == ASSUME TypeOK, ListsInv, NEW d \in Desks, UploadEnd(d) PROVE ListsInv'
<1> USE DEF UploadEnd, vars, rows, history
<1>1. active' \subseteq active /\ served' = served
  OBVIOUS
<1>2. \A x \in Cyclers : cycle'[x].list \subseteq cycle[x].list
  BY DEF TypeOK, Passes, Resting
<1>3. \A x \in Desks : desk'[x] = desk[x] \/ desk'[x].pc \in Quiet
  BY DEF TypeOK, Handlers, Idle, Quiet
<1> QED BY <1>1, <1>2, <1>3, ListsQuiet

LEMMA ListsAfterChatUpload == ASSUME TypeOK, ListsInv, NEW d \in Desks, AfterChatUpload(d) PROVE ListsInv'
<1> USE DEF AfterChatUpload, vars, rows, history
<1>1. active' \subseteq active /\ served' = served
  OBVIOUS
<1>2. \A x \in Cyclers : cycle'[x].list \subseteq cycle[x].list
  BY DEF TypeOK, Passes, Resting
<1>3. \A x \in Desks : desk'[x] = desk[x] \/ desk'[x].pc \in Quiet
  <2>1. \/ desk' = [desk EXCEPT ![d] = Idle]
        \/ desk' = [desk EXCEPT ![d] = [Idle EXCEPT !.pc = "start", !.scheduled = TRUE]]
    OBVIOUS
  <2>2. Idle.pc \in Quiet /\ [Idle EXCEPT !.pc = "start", !.scheduled = TRUE].pc \in Quiet
    BY DEF Idle, Quiet
  <2> QED BY <2>1, <2>2 DEF TypeOK
<1> QED BY <1>1, <1>2, <1>3, ListsQuiet

LEMMA ListsAfterPanelUpload == ASSUME TypeOK, ListsInv, NEW d \in Desks, AfterPanelUpload(d) PROVE ListsInv'
<1> USE DEF AfterPanelUpload, vars, rows, history
<1>1. active' \subseteq active /\ served' = served
  OBVIOUS
<1>2. \A x \in Cyclers : cycle'[x].list \subseteq cycle[x].list
  BY DEF TypeOK, Passes, Resting
<1>3. \A x \in Desks : desk'[x] = desk[x] \/ desk'[x].pc \in Quiet
  BY DEF TypeOK, Handlers, Idle, Quiet
<1> QED BY <1>1, <1>2, <1>3, ListsQuiet

LEMMA ListsStartRefused == ASSUME TypeOK, ListsInv, NEW d \in Desks, StartRefused(d) PROVE ListsInv'
<1> USE DEF StartRefused, vars, rows, history
<1>1. active' \subseteq active /\ served' = served
  OBVIOUS
<1>2. \A x \in Cyclers : cycle'[x].list \subseteq cycle[x].list
  BY DEF TypeOK, Passes, Resting
<1>3. \A x \in Desks : desk'[x] = desk[x] \/ desk'[x].pc \in Quiet
  BY DEF TypeOK, Handlers, Idle, Quiet
<1> QED BY <1>1, <1>2, <1>3, ListsQuiet

LEMMA ListsStartFails == ASSUME TypeOK, ListsInv, NEW d \in Desks, StartFails(d) PROVE ListsInv'
<1> USE DEF StartFails, vars, rows, history
<1>1. active' \subseteq active /\ served' = served
  OBVIOUS
<1>2. \A x \in Cyclers : cycle'[x].list \subseteq cycle[x].list
  BY DEF TypeOK, Passes, Resting
<1>3. \A x \in Desks : desk'[x] = desk[x] \/ desk'[x].pc \in Quiet
  BY DEF TypeOK, Handlers, Idle, Quiet
<1> QED BY <1>1, <1>2, <1>3, ListsQuiet

LEMMA ListsStartClear == ASSUME TypeOK, ListsInv, NEW d \in Desks, StartClear(d) PROVE ListsInv'
<1> USE DEF StartClear, vars, rows, history
<1>1. active' \subseteq active /\ served' = served
  OBVIOUS
<1>2. \A x \in Cyclers : cycle'[x].list \subseteq cycle[x].list
  BY DEF TypeOK, Passes, Resting
<1>3. \A x \in Desks : desk'[x] = desk[x] \/ desk'[x].pc \in Quiet
  BY DEF TypeOK, Handlers, Idle, Quiet
<1> QED BY <1>1, <1>2, <1>3, ListsQuiet

LEMMA ListsScheduledCycle == ASSUME TypeOK, ListsInv, NEW k \in Cyclers, ScheduledCycle(k) PROVE ListsInv'
<1> USE DEF ScheduledCycle, vars, rows, history, CycleBegin
<1>1. active' \subseteq active /\ served' = served
  OBVIOUS
<1>2. \A x \in Cyclers : cycle'[x].list \subseteq cycle[x].list
  BY DEF TypeOK, Passes, Resting
<1>3. \A x \in Desks : desk'[x] = desk[x] \/ desk'[x].pc \in Quiet
  BY DEF TypeOK, Handlers, Idle, Quiet
<1> QED BY <1>1, <1>2, <1>3, ListsQuiet

LEMMA ListsCycleStock == ASSUME TypeOK, ListsInv, NEW k \in Cyclers, CycleStock(k) PROVE ListsInv'
<1> USE DEF CycleStock, vars, rows, history
<1>1. active' \subseteq active /\ served' = served
  OBVIOUS
<1>2. \A x \in Cyclers : cycle'[x].list \subseteq cycle[x].list
  BY DEF TypeOK, Passes, Resting
<1>3. \A x \in Desks : desk'[x] = desk[x] \/ desk'[x].pc \in Quiet
  BY DEF TypeOK, Handlers, Idle, Quiet
<1> QED BY <1>1, <1>2, <1>3, ListsQuiet

LEMMA ListsCyclePick == ASSUME TypeOK, ListsInv, NEW k \in Cyclers, CyclePick(k) PROVE ListsInv'
<1> USE DEF CyclePick, vars, rows, history
<1>1. active' \subseteq active /\ served' = served
  OBVIOUS
<1>2. \A x \in Cyclers : cycle'[x].list \subseteq cycle[x].list
  BY DEF TypeOK, Passes, Resting
<1>3. \A x \in Desks : desk'[x] = desk[x] \/ desk'[x].pc \in Quiet
  BY DEF TypeOK, Handlers, Idle, Quiet
<1> QED BY <1>1, <1>2, <1>3, ListsQuiet

LEMMA ListsCycleRetire == ASSUME TypeOK, ListsInv, NEW k \in Cyclers, CycleRetire(k) PROVE ListsInv'
<1> USE DEF CycleRetire, vars, rows, history, Without
<1>1. active' \subseteq active /\ served' = served
  OBVIOUS
<1>2. \A x \in Cyclers : cycle'[x].list \subseteq cycle[x].list
  BY DEF TypeOK, Passes, Resting
<1>3. \A x \in Desks : desk'[x] = desk[x] \/ desk'[x].pc \in Quiet
  BY DEF TypeOK, Handlers, Idle, Quiet
<1> QED BY <1>1, <1>2, <1>3, ListsQuiet

LEMMA ListsCycleEnd == ASSUME TypeOK, ListsInv, NEW k \in Cyclers, CycleEnd(k) PROVE ListsInv'
<1> USE DEF CycleEnd, vars, rows, history
<1>1. active' \subseteq active /\ served' = served
  OBVIOUS
<1>2. \A x \in Cyclers : cycle'[x].list \subseteq cycle[x].list
  BY DEF TypeOK, Passes, Resting
<1>3. \A x \in Desks : desk'[x] = desk[x] \/ desk'[x].pc \in Quiet
  BY DEF TypeOK, Handlers, Idle, Quiet
<1> QED BY <1>1, <1>2, <1>3, ListsQuiet

LEMMA ListsResume == ASSUME TypeOK, ListsInv, NEW d \in Desks, Resume(d) PROVE ListsInv'
<1> USE DEF Resume, vars, rows, history
<1>1. active' \subseteq active /\ served' = served
  OBVIOUS
<1>2. \A x \in Cyclers : cycle'[x].list \subseteq cycle[x].list
  BY DEF TypeOK, Passes, Resting
<1>3. \A x \in Desks : desk'[x] = desk[x] \/ desk'[x].pc \in Quiet
  BY DEF TypeOK, Handlers, Idle, Quiet
<1> QED BY <1>1, <1>2, <1>3, ListsQuiet

LEMMA ListsPressStart == ASSUME TypeOK, ListsInv, NEW d \in Desks, PressStart(d) PROVE ListsInv'
<1> USE DEF PressStart, vars, rows, history
<1>1. active' \subseteq active /\ served' = served
  OBVIOUS
<1>2. \A x \in Cyclers : cycle'[x].list \subseteq cycle[x].list
  BY DEF TypeOK, Passes, Resting
<1>3. \A x \in Desks : desk'[x] = desk[x] \/ desk'[x].pc \in Quiet
  BY DEF TypeOK, Handlers, Idle, Quiet
<1> QED BY <1>1, <1>2, <1>3, ListsQuiet

LEMMA ListsSayStart == ASSUME TypeOK, ListsInv, NEW d \in Desks, SayStart(d) PROVE ListsInv'
<1> USE DEF SayStart, vars, rows, history, Continue
<1>1. active' \subseteq active /\ served' = served
  OBVIOUS
<1>2. \A x \in Cyclers : cycle'[x].list \subseteq cycle[x].list
  BY DEF TypeOK, Passes, Resting
<1>3. \A x \in Desks : desk'[x] = desk[x] \/ desk'[x].pc \in Quiet
  BY DEF TypeOK, Handlers, Idle, Quiet
<1> QED BY <1>1, <1>2, <1>3, ListsQuiet

LEMMA ListsTagEntry == ASSUME TypeOK, ListsInv, NEW d \in Desks, NEW e \in queue, TagEntry(d, e) PROVE ListsInv'
<1> USE DEF TagEntry, vars, rows, history, Continue
<1>1. active' \subseteq active /\ served' = served
  OBVIOUS
<1>2. \A x \in Cyclers : cycle'[x].list \subseteq cycle[x].list
  BY DEF TypeOK, Passes, Resting
<1>3. \A x \in Desks : desk'[x] = desk[x] \/ desk'[x].pc \in Quiet
  BY DEF TypeOK, Handlers, Idle, Quiet
<1> QED BY <1>1, <1>2, <1>3, ListsQuiet

LEMMA ListsSkipEntry == ASSUME TypeOK, ListsInv, NEW d \in Desks, NEW e \in queue, SkipEntry(d, e) PROVE ListsInv'
<1> USE DEF SkipEntry, vars, rows, history, Continue, Dropping
<1>1. active' \subseteq active /\ served' = served
  OBVIOUS
<1>2. \A x \in Cyclers : cycle'[x].list \subseteq cycle[x].list
  BY DEF TypeOK, Passes, Resting
<1>3. \A x \in Desks : desk'[x] = desk[x] \/ desk'[x].pc \in Quiet
  BY DEF TypeOK, Handlers, Idle, Quiet
<1> QED BY <1>1, <1>2, <1>3, ListsQuiet

LEMMA ListsAnswerRuntime == ASSUME TypeOK, ListsInv, NEW d \in Desks, NEW n \in {0, RunLength}, AnswerRuntime(d, n) PROVE ListsInv'
<1> USE DEF AnswerRuntime, vars, rows, history
<1>1. active' \subseteq active /\ served' = served
  OBVIOUS
<1>2. \A x \in Cyclers : cycle'[x].list \subseteq cycle[x].list
  BY DEF TypeOK, Passes, Resting
<1>3. \A x \in Desks : desk'[x] = desk[x] \/ desk'[x].pc \in Quiet
  BY DEF TypeOK, Handlers, Idle, Quiet
<1> QED BY <1>1, <1>2, <1>3, ListsQuiet

LEMMA ListsPanelTag == ASSUME TypeOK, ListsInv, NEW e \in queue, PanelTag(e) PROVE ListsInv'
<1> USE DEF PanelTag, vars, rows, history
<1>1. active' \subseteq active /\ served' = served
  OBVIOUS
<1>2. \A x \in Cyclers : cycle'[x].list \subseteq cycle[x].list
  BY DEF TypeOK, Passes, Resting
<1>3. \A x \in Desks : desk'[x] = desk[x] \/ desk'[x].pc \in Quiet
  BY DEF TypeOK, Handlers, Idle, Quiet
<1> QED BY <1>1, <1>2, <1>3, ListsQuiet

LEMMA ListsRemoveQueued == ASSUME TypeOK, ListsInv, NEW e \in queue, RemoveQueued(e) PROVE ListsInv'
<1> USE DEF RemoveQueued, vars, rows, history, Dropping
<1>1. active' \subseteq active /\ served' = served
  OBVIOUS
<1>2. \A x \in Cyclers : cycle'[x].list \subseteq cycle[x].list
  BY DEF TypeOK, Passes, Resting
<1>3. \A x \in Desks : desk'[x] = desk[x] \/ desk'[x].pc \in Quiet
  BY DEF TypeOK, Handlers, Idle, Quiet
<1> QED BY <1>1, <1>2, <1>3, ListsQuiet

LEMMA ListsRemoveActive == ASSUME TypeOK, ListsInv, NEW e \in active, RemoveActive(e) PROVE ListsInv'
<1> USE DEF RemoveActive, vars, rows, history, Dropping
<1>1. active' \subseteq active /\ served' = served
  OBVIOUS
<1>2. \A x \in Cyclers : cycle'[x].list \subseteq cycle[x].list
  BY DEF TypeOK, Passes, Resting
<1>3. \A x \in Desks : desk'[x] = desk[x] \/ desk'[x].pc \in Quiet
  BY DEF TypeOK, Handlers, Idle, Quiet
<1> QED BY <1>1, <1>2, <1>3, ListsQuiet

LEMMA ListsRemoveCountry == ASSUME TypeOK, ListsInv, NEW c \in Countries, RemoveCountry(c) PROVE ListsInv'
<1> USE DEF RemoveCountry, vars, rows, history, Dropping
<1>1. active' \subseteq active /\ served' = served
  OBVIOUS
<1>2. \A x \in Cyclers : cycle'[x].list \subseteq cycle[x].list
  BY DEF TypeOK, Passes, Resting
<1>3. \A x \in Desks : desk'[x] = desk[x] \/ desk'[x].pc \in Quiet
  BY DEF TypeOK, Handlers, Idle, Quiet
<1> QED BY <1>1, <1>2, <1>3, ListsQuiet

LEMMA ListsTogglePause == ASSUME TypeOK, ListsInv, NEW c \in Countries, TogglePause(c) PROVE ListsInv'
<1> USE DEF TogglePause, vars, rows, history
<1>1. active' \subseteq active /\ served' = served
  OBVIOUS
<1>2. \A x \in Cyclers : cycle'[x].list \subseteq cycle[x].list
  BY DEF TypeOK, Passes, Resting
<1>3. \A x \in Desks : desk'[x] = desk[x] \/ desk'[x].pc \in Quiet
  BY DEF TypeOK, Handlers, Idle, Quiet
<1> QED BY <1>1, <1>2, <1>3, ListsQuiet

LEMMA ListsSetTiming == ASSUME TypeOK, ListsInv, NEW c \in Countries, SetTiming(c) PROVE ListsInv'
<1> USE DEF SetTiming, vars, rows, history
<1>1. active' \subseteq active /\ served' = served
  OBVIOUS
<1>2. \A x \in Cyclers : cycle'[x].list \subseteq cycle[x].list
  BY DEF TypeOK, Passes, Resting
<1>3. \A x \in Desks : desk'[x] = desk[x] \/ desk'[x].pc \in Quiet
  BY DEF TypeOK, Handlers, Idle, Quiet
<1> QED BY <1>1, <1>2, <1>3, ListsQuiet

LEMMA ListsClearQueue == ASSUME TypeOK, ListsInv, ClearQueue PROVE ListsInv'
<1> USE DEF ClearQueue, vars, rows, history, Dropping
<1>1. active' \subseteq active /\ served' = served
  OBVIOUS
<1>2. \A x \in Cyclers : cycle'[x].list \subseteq cycle[x].list
  BY DEF TypeOK, Passes, Resting
<1>3. \A x \in Desks : desk'[x] = desk[x] \/ desk'[x].pc \in Quiet
  BY DEF TypeOK, Handlers, Idle, Quiet
<1> QED BY <1>1, <1>2, <1>3, ListsQuiet

LEMMA ListsStop == ASSUME TypeOK, ListsInv, Stop PROVE ListsInv'
<1> USE DEF Stop, vars, rows, history
<1>1. active' \subseteq active /\ served' = served
  OBVIOUS
<1>2. \A x \in Cyclers : cycle'[x].list \subseteq cycle[x].list
  BY DEF TypeOK, Passes, Resting
<1>3. \A x \in Desks : desk'[x] = desk[x] \/ desk'[x].pc \in Quiet
  BY DEF TypeOK, Handlers, Idle, Quiet
<1> QED BY <1>1, <1>2, <1>3, ListsQuiet

LEMMA ListsTurnOn == ASSUME TypeOK, ListsInv, TurnOn PROVE ListsInv'
<1> USE DEF TurnOn, vars, rows, history
<1>1. active' \subseteq active /\ served' = served
  OBVIOUS
<1>2. \A x \in Cyclers : cycle'[x].list \subseteq cycle[x].list
  BY DEF TypeOK, Passes, Resting
<1>3. \A x \in Desks : desk'[x] = desk[x] \/ desk'[x].pc \in Quiet
  BY DEF TypeOK, Handlers, Idle, Quiet
<1> QED BY <1>1, <1>2, <1>3, ListsQuiet

LEMMA ListsForcedCycle == ASSUME TypeOK, ListsInv, NEW k \in Cyclers, ForcedCycle(k) PROVE ListsInv'
<1> USE DEF ForcedCycle, vars, rows, history, CycleBegin
<1>1. active' \subseteq active /\ served' = served
  OBVIOUS
<1>2. \A x \in Cyclers : cycle'[x].list \subseteq cycle[x].list
  BY DEF TypeOK, Passes, Resting
<1>3. \A x \in Desks : desk'[x] = desk[x] \/ desk'[x].pc \in Quiet
  BY DEF TypeOK, Handlers, Idle, Quiet
<1> QED BY <1>1, <1>2, <1>3, ListsQuiet

LEMMA ListsRestart == ASSUME TypeOK, ListsInv, Restart PROVE ListsInv'
<1> USE DEF Restart, vars, rows, history
<1>1. active' \subseteq active /\ served' = served
  OBVIOUS
<1>2. \A x \in Cyclers : cycle'[x].list \subseteq cycle[x].list
  BY DEF TypeOK, Passes, Resting
<1>3. \A x \in Desks : desk'[x] = desk[x] \/ desk'[x].pc \in Quiet
  BY DEF TypeOK, Handlers, Idle, Quiet
<1> QED BY <1>1, <1>2, <1>3, ListsQuiet

LEMMA ListsTick == ASSUME TypeOK, ListsInv, Tick PROVE ListsInv'
<1> USE DEF Tick, vars, rows, history
<1>1. active' \subseteq active /\ served' = served
  OBVIOUS
<1>2. \A x \in Cyclers : cycle'[x].list \subseteq cycle[x].list
  BY DEF TypeOK, Passes, Resting
<1>3. \A x \in Desks : desk'[x] = desk[x] \/ desk'[x].pc \in Quiet
  BY DEF TypeOK, Handlers, Idle, Quiet
<1> QED BY <1>1, <1>2, <1>3, ListsQuiet

\* The others: who reads a list, marks what was served and writes it back.
LEMMA ListsStartBegin == ASSUME TypeOK, ListsInv, NEW d \in Desks, StartBegin(d) PROVE ListsInv'
<1>1. \A e \in queue : e.tagged
  BY DEF StartBegin, Untagged
<1>2. /\ desk'[d].pc = "stock" /\ desk'[d].list = queue
      /\ \A x \in Desks : x # d => desk'[x] = desk[x]
  BY DEF StartBegin, TypeOK, Handlers
<1>3. active' = active /\ cycle' = cycle /\ served' = served
  BY DEF StartBegin, rows, history
<1> QED BY <1>1, <1>2, <1>3 DEF ListsInv, Good

LEMMA SortedGood ==
    ASSUME TypeOK, NEW d \in Desks, NEW S \in SUBSET Entries, \A e \in S : e.tagged
    PROVE  \A e \in Sorted(d, S) :
               /\ e \in Entries /\ e.tagged
               /\ e.waiting = Unset => e \in Ready(Sorted(d, S))
<1>1. CountriesTyped
  BY TypeParts
<1>2. Sorted(d, S) \in SUBSET Entries
  BY <1>1, SortedTyped
<1>3. \A e \in Sorted(d, S) : e.tagged
  BY DEF Sorted, Entries
<1> QED BY <1>2, <1>3 DEF Ready

LEMMA ListsStartStock == ASSUME TypeOK, ListsInv, NEW d \in Desks, StartStock(d) PROVE ListsInv'
<1>1. PICK stocked \in SUBSET CountriesOf(desk[d].list) :
           /\ desk' = [desk EXCEPT
                    ![d].pc = "adding", ![d].list = Sorted(d, @),
                    ![d].todo = {e \in Ready(Sorted(d, desk[d].list)) : e.country \notin stocked}]
           /\ served' = served \cup
                    Ids({e \in Ready(Sorted(d, desk[d].list)) : e.country \in stocked})
  BY DEF StartStock
<1> DEFINE L == Sorted(d, desk[d].list)
<1>2. desk[d] \in Handlers /\ desk[d].list \in SUBSET Entries
  BY DEF TypeOK, Handlers
<1>3. \A e \in desk[d].list : e.tagged
  BY DEF StartStock, ListsInv
<1>4. \A e \in L : e.tagged /\ (e.waiting = Unset => e \in Ready(L))
  BY <1>2, <1>3, SortedGood
<1>5. /\ desk'[d].pc = "adding" /\ desk'[d].list = L
      /\ desk'[d].todo = {e \in Ready(L) : e.country \notin stocked}
      /\ \A x \in Desks : x # d => desk'[x] = desk[x]
  BY <1>1, <1>2 DEF TypeOK, Handlers
<1>6. \A e \in Ready(L) : e.country \in stocked => Id(e) \in served'
  BY <1>1 DEF Ids
<1>7. active' = active /\ cycle' = cycle /\ served \subseteq served'
  BY <1>1 DEF StartStock, rows
<1> HIDE DEF L
<1>8. \A e \in L : e.tagged /\ (Good(e)' \/ e \in desk'[d].todo)
  BY <1>4, <1>5, <1>6 DEF Good
<1> QED BY <1>5, <1>7, <1>8 DEF ListsInv, Good

LEMMA ListsStartAdded == ASSUME TypeOK, ListsInv, NEW d \in Desks, StartAdded(d) PROVE ListsInv'
<1>1. PICK e \in desk[d].todo : /\ desk' = [desk EXCEPT ![d].todo = @ \ {e}]
                               /\ served' = served \cup {Id(e)}
  BY DEF StartAdded
<1>2. /\ desk[d].pc = "adding" /\ desk'[d].pc = "adding" /\ desk'[d].list = desk[d].list
      /\ desk'[d].todo = desk[d].todo \ {e}
      /\ \A x \in Desks : x # d => desk'[x] = desk[x]
  BY <1>1 DEF StartAdded, TypeOK, Handlers
<1>3. active' = active /\ cycle' = cycle
  BY DEF StartAdded, rows
<1> QED BY <1>1, <1>2, <1>3 DEF ListsInv, Good

LEMMA ListsStartArm == ASSUME TypeOK, ListsInv, NEW d \in Desks, StartArm(d) PROVE ListsInv'
<1>1. /\ desk[d].pc = "adding" /\ desk[d].todo = {}
      /\ desk'[d].pc = "merge" /\ desk'[d].list = desk[d].list
      /\ \A x \in Desks : x # d => desk'[x] = desk[x]
  BY DEF StartArm, TypeOK, Handlers
<1>2. active' = active /\ cycle' = cycle /\ served' = served
  BY DEF StartArm
<1> QED BY <1>1, <1>2 DEF ListsInv, Good

LEMMA ListsStartMerge == ASSUME TypeOK, ListsInv, NEW d \in Desks, StartMerge(d) PROVE ListsInv'
<1>1. /\ desk[d].pc = "merge" /\ desk'[d].pc = "clear" /\ desk'[d].list = desk[d].list
      /\ \A x \in Desks : x # d => desk'[x] = desk[x]
  BY DEF StartMerge, TypeOK, Handlers
<1>2. active' \subseteq active \cup desk[d].list /\ cycle' = cycle /\ served' = served
  BY DEF StartMerge, Merged
<1> QED BY <1>1, <1>2 DEF ListsInv, Good

LEMMA ListsWaitRead == ASSUME TypeOK, ListsInv, NEW k \in Cyclers, WaitRead(k) PROVE ListsInv'
<1>1. /\ cycle'[k].list \subseteq active
      /\ \A x \in Cyclers : x # k => cycle'[x] = cycle[x]
  BY DEF WaitRead, TypeOK, Passes
<1>2. active' = active /\ desk' = desk /\ served' = served
  BY DEF WaitRead, rows, history
<1> QED BY <1>1, <1>2 DEF ListsInv, Good

LEMMA ListsWaitAdded == ASSUME TypeOK, ListsInv, NEW k \in Cyclers, WaitAdded(k) PROVE ListsInv'
<1>1. PICK e \in Waiting(cycle[k].todo) :
         /\ cycle' = [cycle EXCEPT ![k].list = Popped(@, Id(e)),
                                   ![k].todo = Popped(@, Id(e)),
                                   ![k].changed = @ \/ Id(e) \in Ids(cycle[k].list)]
         /\ served' = served \cup {Id(e)}
  BY DEF WaitAdded
<1>2. /\ cycle'[k].list = Popped(cycle[k].list, Id(e))
      /\ \A x \in Cyclers : x # k => cycle'[x] = cycle[x]
  BY <1>1 DEF TypeOK, Passes
<1>3. active' = active /\ desk' = desk
  BY DEF WaitAdded
<1>4. cycle[k].list \in SUBSET Entries /\ \A g \in cycle[k].list : Good(g)
  BY DEF TypeOK, Passes, ListsInv
<1>5. \A g \in Popped(cycle[k].list, Id(e)) : Good(g)'
  <2> SUFFICES ASSUME NEW h \in cycle[k].list
               PROVE  LET g == IF Id(h) = Id(e) THEN [h EXCEPT !.waiting = Unset] ELSE h
                      IN  Good(g)'
    BY DEF Popped
  <2>1. h \in Entries /\ Good(h)
    BY <1>4
  <2>2. CASE Id(h) = Id(e)
    <3>1. [h EXCEPT !.waiting = Unset].tagged = h.tagged
          /\ Id([h EXCEPT !.waiting = Unset]) = Id(e)
      BY <2>1, <2>2 DEF Entries, Id
    <3> QED BY <1>1, <2>1, <2>2, <3>1 DEF Good
  <2>3. CASE Id(h) # Id(e)
    BY <1>1, <2>1, <2>3 DEF Good
  <2> QED BY <2>2, <2>3
<1> QED BY ZenonT(60), <1>1, <1>2, <1>3, <1>5 DEF ListsInv, Good

LEMMA ListsWaitSave == ASSUME TypeOK, ListsInv, NEW k \in Cyclers, WaitSave(k) PROVE ListsInv'
<1>1. /\ cycle'[k].list = {} /\ \A x \in Cyclers : x # k => cycle'[x] = cycle[x]
      /\ active' \subseteq active \cup cycle[k].list
  BY DEF WaitSave, TypeOK, Passes
<1>2. desk' = desk /\ served' = served
  BY DEF WaitSave, history
<1> QED BY <1>1, <1>2 DEF ListsInv, Good

LEMMA ListsCycleAdded == ASSUME TypeOK, ListsInv, NEW k \in Cyclers, CycleAdded(k) PROVE ListsInv'
<1>1. \A x \in Cyclers : cycle'[x].list = cycle[x].list
  BY DEF CycleAdded, TypeOK, Passes
<1>2. desk' = desk /\ active' = active /\ served \subseteq served'
  BY DEF CycleAdded
<1> QED BY <1>1, <1>2 DEF ListsInv, Good

LEMMA ListsInit == Init => ListsInv
BY DEF Init, ListsInv, Idle, Resting

LEMMA ListsStep == TypeOK /\ ListsInv /\ [Next]_vars => ListsInv'
<1> SUFFICES ASSUME TypeOK, ListsInv, [Next]_vars PROVE ListsInv'
  OBVIOUS
<1>1. CASE \E d \in Desks : Step(d)
  BY <1>1, ListsUploadBegin, ListsUploadEnd, ListsAfterChatUpload,
     ListsAfterPanelUpload, ListsStartBegin, ListsStartRefused,
     ListsStartStock, ListsStartAdded, ListsStartFails, ListsStartArm,
     ListsStartMerge, ListsStartClear DEF Step
<1>2. CASE \E k \in Cyclers : CycleStep(k)
  BY <1>2, ListsScheduledCycle, ListsWaitRead, ListsWaitAdded,
     ListsWaitSave, ListsCycleStock, ListsCyclePick, ListsCycleAdded,
     ListsCycleRetire, ListsCycleEnd DEF CycleStep
<1>3. CASE \E d \in Desks : Say(d)
  BY <1>3, ListsResume, ListsPressStart, ListsSayStart, ListsTagEntry,
     ListsSkipEntry, ListsAnswerRuntime DEF Say
<1>4. CASE Change
  BY <1>4, ListsPanelTag, ListsRemoveQueued, ListsRemoveActive,
     ListsRemoveCountry, ListsTogglePause, ListsSetTiming, ListsClearQueue,
     ListsStop, ListsTurnOn DEF Change
<1>5. CASE UNCHANGED vars
  BY <1>5 DEF ListsInv, Good, vars, rows, history
<1> QED BY <1>1, <1>2, <1>3, <1>4, <1>5, ListsForcedCycle, ListsRestart, ListsTick
           DEF Next, Tap

LEMMA ListsInvariant == Spec => []ListsInv
<1>1. Init => ListsInv
  BY ListsInit
<1>2. TypeOK /\ ListsInv /\ [Next]_vars => ListsInv'
  BY ListsStep
<1> QED BY <1>1, <1>2, OtpTypeCorrect, PTL DEF Spec

(* Nothing runs without its tag: start_automation checks the list it read, *)
(* and what it merges is that list, not the queue as it has become.        *)
THEOREM OtpOnlyTaggedRun == Spec => []OnlyTaggedRun
<1>1. ListsInv => OnlyTaggedRun
  BY DEF ListsInv, Good, OnlyTaggedRun, Untagged
<1> QED BY <1>1, ListsInvariant, PTL

(* A running file that no longer waits was accepted by the bot, or the bot *)
(* had stock, whatever was cut, rejected or written back late.             *)
THEOREM OtpActiveWasServed == Spec => []ActiveWasServed
<1>1. ListsInv => ActiveWasServed
  BY DEF ListsInv, Good, ActiveWasServed
<1> QED BY <1>1, ListsInvariant, PTL
-----------------------------------------------------------------------------
(* The strengthening of RefillsBounded and NothingBeforeStart: a cycle     *)
(* that is about to add counts as if it had.                               *)
Adders(c) == {k \in Cyclers : Adds(k, c)}
Count(c) == IF run[c] = NoRun THEN 0 ELSE run[c].refills

HasBegun(c) == run[c] = NoRun \/ HasStarted(run[c], Start(c), clock)
BegunInv == \A k \in Cyclers, c \in Countries \ rearmed : Handles(k, c) => HasBegun(c)

CountInv ==
    MaxRefills > 0 =>
        \A c \in Countries \ rearmed :
            Count(c) + Cardinality(Adders(c)) <= MaxRefills + Cardinality(Cyclers) - 1

LEMMA AddersFinite ==
    ASSUME NEW S \in SUBSET Cyclers
    PROVE  /\ IsFiniteSet(S) /\ Cardinality(S) \in Nat
           /\ Cardinality(S) <= Cardinality(Cyclers) /\ Cardinality(Cyclers) \in Nat
           /\ \A k \in Cyclers \ S :
                /\ Cardinality(S \cup {k}) = Cardinality(S) + 1
                /\ Cardinality(S) + 1 <= Cardinality(Cyclers)
           /\ \A k \in S : Cardinality(S \ {k}) = Cardinality(S) - 1
<1>1. IsFiniteSet(Cyclers)
  BY OtpAssumption
<1>2. /\ IsFiniteSet(S) /\ Cardinality(S) \in Nat
      /\ Cardinality(S) <= Cardinality(Cyclers) /\ Cardinality(Cyclers) \in Nat
  BY <1>1, FS_Subset, FS_CardinalityType
<1>3. ASSUME NEW k \in Cyclers \ S
      PROVE  /\ Cardinality(S \cup {k}) = Cardinality(S) + 1
             /\ Cardinality(S) + 1 <= Cardinality(Cyclers)
  <2>1. Cardinality(S \cup {k}) = Cardinality(S) + 1
    BY <1>2, <1>3, FS_AddElement
  <2>2. S \cup {k} \subseteq Cyclers
    BY <1>3
  <2>3. Cardinality(S \cup {k}) <= Cardinality(Cyclers)
    BY <1>1, <2>2, FS_Subset
  <2> QED BY <2>1, <2>3
<1>4. ASSUME NEW k \in S
      PROVE  Cardinality(S \ {k}) = Cardinality(S) - 1
  BY <1>2, <1>4, FS_RemoveElement
<1> QED BY <1>2, <1>3, <1>4

(* A step that leaves the runs alone and starts no add.                    *)
LEMMA RunsQuiet ==
    ASSUME TypeOK, TypeOK', BegunInv, CountInv, run' = run, clock' = clock,
           rearmed' = rearmed,
           \A k \in Cyclers, c \in Countries : Handles(k, c)' => Handles(k, c),
           \A k \in Cyclers, c \in Countries : Adds(k, c)' => Adds(k, c)
    PROVE  BegunInv' /\ CountInv'
<1>1. \A c \in Countries : HasBegun(c) => HasBegun(c)'
  BY DEF HasBegun, HasStarted
<1>2. BegunInv'
  BY <1>1 DEF BegunInv
<1>3. ASSUME NEW c \in Countries
      PROVE  Cardinality(Adders(c)') <= Cardinality(Adders(c)) /\ Cardinality(Adders(c)') \in Nat
             /\ Cardinality(Adders(c)) \in Nat /\ Count(c) \in Nat /\ Count(c)' = Count(c)
  <2>1. Adders(c)' \subseteq Adders(c) /\ Adders(c) \subseteq Cyclers
    BY DEF Adders
  <2>2. IsFiniteSet(Adders(c)) /\ Cardinality(Adders(c)) \in Nat
    BY <2>1, AddersFinite
  <2>3. Cardinality(Adders(c)') <= Cardinality(Adders(c)) /\ Cardinality(Adders(c)') \in Nat
    BY <2>1, <2>2, FS_Subset, FS_CardinalityType
  <2>4. Count(c) \in Nat /\ Count(c)' = Count(c)
    BY DEF Count, TypeOK, Runs
  <2> QED BY <2>2, <2>3, <2>4
<1>4. CountInv'
  <2> SUFFICES ASSUME MaxRefills > 0, NEW c \in Countries \ rearmed
               PROVE  (Count(c) + Cardinality(Adders(c)))' <= MaxRefills + Cardinality(Cyclers) - 1
    BY DEF CountInv
  <2>1. Count(c) + Cardinality(Adders(c)) <= MaxRefills + Cardinality(Cyclers) - 1
    BY DEF CountInv
  <2>2. MaxRefills \in Nat /\ Cardinality(Cyclers) \in Nat
    BY OtpAssumption, FS_CardinalityType
  <2> QED BY <1>3, <2>1, <2>2
<1> QED BY <1>2, <1>4

\* The operations that leave the runs alone.
LEMMA RunsUploadBegin == ASSUME TypeOK, BegunInv, CountInv, NEW d \in Desks, NEW f \in Files, UploadBegin(d, f) PROVE BegunInv' /\ CountInv'
<1> USE DEF UploadBegin, vars, rows, history
<1>1. TypeOK'
  BY TypedUploadBegin
<1>2. run' = run /\ clock' = clock /\ rearmed' = rearmed
  OBVIOUS
<1>3. cycle' = cycle
  OBVIOUS
<1> QED BY <1>1, <1>2, <1>3, RunsQuiet DEF Handles, Adds

LEMMA RunsUploadEnd == ASSUME TypeOK, BegunInv, CountInv, NEW d \in Desks, UploadEnd(d) PROVE BegunInv' /\ CountInv'
<1> USE DEF UploadEnd, vars, rows, history
<1>1. TypeOK'
  BY TypedUploadEnd
<1>2. run' = run /\ clock' = clock /\ rearmed' = rearmed
  OBVIOUS
<1>3. cycle' = cycle
  OBVIOUS
<1> QED BY <1>1, <1>2, <1>3, RunsQuiet DEF Handles, Adds

LEMMA RunsAfterChatUpload == ASSUME TypeOK, BegunInv, CountInv, NEW d \in Desks, AfterChatUpload(d) PROVE BegunInv' /\ CountInv'
<1> USE DEF AfterChatUpload, vars, rows, history
<1>1. TypeOK'
  BY TypedAfterChatUpload
<1>2. run' = run /\ clock' = clock /\ rearmed' = rearmed
  OBVIOUS
<1>3. cycle' = cycle
  OBVIOUS
<1> QED BY <1>1, <1>2, <1>3, RunsQuiet DEF Handles, Adds

LEMMA RunsAfterPanelUpload == ASSUME TypeOK, BegunInv, CountInv, NEW d \in Desks, AfterPanelUpload(d) PROVE BegunInv' /\ CountInv'
<1> USE DEF AfterPanelUpload, vars, rows, history
<1>1. TypeOK'
  BY TypedAfterPanelUpload
<1>2. run' = run /\ clock' = clock /\ rearmed' = rearmed
  OBVIOUS
<1>3. cycle' = cycle
  OBVIOUS
<1> QED BY <1>1, <1>2, <1>3, RunsQuiet DEF Handles, Adds

LEMMA RunsStartBegin == ASSUME TypeOK, BegunInv, CountInv, NEW d \in Desks, StartBegin(d) PROVE BegunInv' /\ CountInv'
<1> USE DEF StartBegin, vars, rows, history
<1>1. TypeOK'
  BY TypedStartBegin
<1>2. run' = run /\ clock' = clock /\ rearmed' = rearmed
  OBVIOUS
<1>3. cycle' = cycle
  OBVIOUS
<1> QED BY <1>1, <1>2, <1>3, RunsQuiet DEF Handles, Adds

LEMMA RunsStartRefused == ASSUME TypeOK, BegunInv, CountInv, NEW d \in Desks, StartRefused(d) PROVE BegunInv' /\ CountInv'
<1> USE DEF StartRefused, vars, rows, history
<1>1. TypeOK'
  BY TypedStartRefused
<1>2. run' = run /\ clock' = clock /\ rearmed' = rearmed
  OBVIOUS
<1>3. cycle' = cycle
  OBVIOUS
<1> QED BY <1>1, <1>2, <1>3, RunsQuiet DEF Handles, Adds

LEMMA RunsStartStock == ASSUME TypeOK, BegunInv, CountInv, NEW d \in Desks, StartStock(d) PROVE BegunInv' /\ CountInv'
<1> USE DEF StartStock, vars, rows, history
<1>1. TypeOK'
  BY TypedStartStock
<1>2. run' = run /\ clock' = clock /\ rearmed' = rearmed
  OBVIOUS
<1>3. cycle' = cycle
  OBVIOUS
<1> QED BY <1>1, <1>2, <1>3, RunsQuiet DEF Handles, Adds

LEMMA RunsStartAdded == ASSUME TypeOK, BegunInv, CountInv, NEW d \in Desks, StartAdded(d) PROVE BegunInv' /\ CountInv'
<1> USE DEF StartAdded, vars, rows, history
<1>1. TypeOK'
  BY TypedStartAdded
<1>2. run' = run /\ clock' = clock /\ rearmed' = rearmed
  OBVIOUS
<1>3. cycle' = cycle
  OBVIOUS
<1> QED BY <1>1, <1>2, <1>3, RunsQuiet DEF Handles, Adds

LEMMA RunsStartFails == ASSUME TypeOK, BegunInv, CountInv, NEW d \in Desks, StartFails(d) PROVE BegunInv' /\ CountInv'
<1> USE DEF StartFails, vars, rows, history
<1>1. TypeOK'
  BY TypedStartFails
<1>2. run' = run /\ clock' = clock /\ rearmed' = rearmed
  OBVIOUS
<1>3. cycle' = cycle
  OBVIOUS
<1> QED BY <1>1, <1>2, <1>3, RunsQuiet DEF Handles, Adds

LEMMA RunsStartMerge == ASSUME TypeOK, BegunInv, CountInv, NEW d \in Desks, StartMerge(d) PROVE BegunInv' /\ CountInv'
<1> USE DEF StartMerge, vars, rows, history
<1>1. TypeOK'
  BY TypedStartMerge
<1>2. run' = run /\ clock' = clock /\ rearmed' = rearmed
  OBVIOUS
<1>3. cycle' = cycle
  OBVIOUS
<1> QED BY <1>1, <1>2, <1>3, RunsQuiet DEF Handles, Adds

LEMMA RunsStartClear == ASSUME TypeOK, BegunInv, CountInv, NEW d \in Desks, StartClear(d) PROVE BegunInv' /\ CountInv'
<1> USE DEF StartClear, vars, rows, history
<1>1. TypeOK'
  BY TypedStartClear
<1>2. run' = run /\ clock' = clock /\ rearmed' = rearmed
  OBVIOUS
<1>3. cycle' = cycle
  OBVIOUS
<1> QED BY <1>1, <1>2, <1>3, RunsQuiet DEF Handles, Adds

LEMMA RunsWaitRead == ASSUME TypeOK, BegunInv, CountInv, NEW k \in Cyclers, WaitRead(k) PROVE BegunInv' /\ CountInv'
<1> USE DEF WaitRead, vars, rows, history
<1>1. TypeOK'
  BY TypedWaitRead
<1>2. run' = run /\ clock' = clock /\ rearmed' = rearmed
  OBVIOUS
<1>3. \A x \in Cyclers, c \in Countries :
          (Handles(x, c)' => Handles(x, c)) /\ (Adds(x, c)' => Adds(x, c))
  BY SMTT(60) DEF TypeOK, Passes, Resting, Handles, Adds, CountriesOf
<1> QED BY <1>1, <1>2, <1>3, RunsQuiet

LEMMA RunsWaitSave == ASSUME TypeOK, BegunInv, CountInv, NEW k \in Cyclers, WaitSave(k) PROVE BegunInv' /\ CountInv'
<1> USE DEF WaitSave, vars, rows, history
<1>1. TypeOK'
  BY TypedWaitSave
<1>2. run' = run /\ clock' = clock /\ rearmed' = rearmed
  OBVIOUS
<1>3. \A x \in Cyclers, c \in Countries :
          (Handles(x, c)' => Handles(x, c)) /\ (Adds(x, c)' => Adds(x, c))
  BY DEF TypeOK, Passes, Resting, Handles, Adds, CountriesOf
<1> QED BY <1>1, <1>2, <1>3, RunsQuiet

LEMMA RunsCycleStock == ASSUME TypeOK, BegunInv, CountInv, NEW k \in Cyclers, CycleStock(k) PROVE BegunInv' /\ CountInv'
<1> USE DEF CycleStock, vars, rows, history
<1>1. TypeOK'
  BY TypedCycleStock
<1>2. run' = run /\ clock' = clock /\ rearmed' = rearmed
  OBVIOUS
<1>3. \A x \in Cyclers, c \in Countries :
          (Handles(x, c)' => Handles(x, c)) /\ (Adds(x, c)' => Adds(x, c))
  BY DEF TypeOK, Passes, Resting, Handles, Adds, CountriesOf
<1> QED BY <1>1, <1>2, <1>3, RunsQuiet

LEMMA RunsCycleEnd == ASSUME TypeOK, BegunInv, CountInv, NEW k \in Cyclers, CycleEnd(k) PROVE BegunInv' /\ CountInv'
<1> USE DEF CycleEnd, vars, rows, history
<1>1. TypeOK'
  BY TypedCycleEnd
<1>2. run' = run /\ clock' = clock /\ rearmed' = rearmed
  OBVIOUS
<1>3. \A x \in Cyclers, c \in Countries :
          (Handles(x, c)' => Handles(x, c)) /\ (Adds(x, c)' => Adds(x, c))
  BY DEF TypeOK, Passes, Resting, Handles, Adds, CountriesOf
<1> QED BY <1>1, <1>2, <1>3, RunsQuiet

LEMMA RunsResume == ASSUME TypeOK, BegunInv, CountInv, NEW d \in Desks, Resume(d) PROVE BegunInv' /\ CountInv'
<1> USE DEF Resume, vars, rows, history
<1>1. TypeOK'
  BY TypedResume
<1>2. run' = run /\ clock' = clock /\ rearmed' = rearmed
  OBVIOUS
<1>3. cycle' = cycle
  OBVIOUS
<1> QED BY <1>1, <1>2, <1>3, RunsQuiet DEF Handles, Adds

LEMMA RunsPressStart == ASSUME TypeOK, BegunInv, CountInv, NEW d \in Desks, PressStart(d) PROVE BegunInv' /\ CountInv'
<1> USE DEF PressStart, vars, rows, history
<1>1. TypeOK'
  BY TypedPressStart
<1>2. run' = run /\ clock' = clock /\ rearmed' = rearmed
  OBVIOUS
<1>3. cycle' = cycle
  OBVIOUS
<1> QED BY <1>1, <1>2, <1>3, RunsQuiet DEF Handles, Adds

LEMMA RunsSayStart == ASSUME TypeOK, BegunInv, CountInv, NEW d \in Desks, SayStart(d) PROVE BegunInv' /\ CountInv'
<1> USE DEF SayStart, vars, rows, history
<1>1. TypeOK'
  BY TypedSayStart
<1>2. run' = run /\ clock' = clock /\ rearmed' = rearmed
  OBVIOUS
<1>3. cycle' = cycle
  OBVIOUS
<1> QED BY <1>1, <1>2, <1>3, RunsQuiet DEF Handles, Adds

LEMMA RunsTagEntry == ASSUME TypeOK, BegunInv, CountInv, NEW d \in Desks, NEW e \in queue, TagEntry(d, e) PROVE BegunInv' /\ CountInv'
<1> USE DEF TagEntry, vars, rows, history
<1>1. TypeOK'
  BY TypedTagEntry
<1>2. run' = run /\ clock' = clock /\ rearmed' = rearmed
  OBVIOUS
<1>3. cycle' = cycle
  OBVIOUS
<1> QED BY <1>1, <1>2, <1>3, RunsQuiet DEF Handles, Adds

LEMMA RunsSkipEntry == ASSUME TypeOK, BegunInv, CountInv, NEW d \in Desks, NEW e \in queue, SkipEntry(d, e) PROVE BegunInv' /\ CountInv'
<1> USE DEF SkipEntry, vars, rows, history, Dropping
<1>1. TypeOK'
  BY TypedSkipEntry
<1>2. run' = run /\ clock' = clock /\ rearmed' = rearmed
  OBVIOUS
<1>3. cycle' = cycle
  OBVIOUS
<1> QED BY <1>1, <1>2, <1>3, RunsQuiet DEF Handles, Adds

LEMMA RunsAnswerRuntime == ASSUME TypeOK, BegunInv, CountInv, NEW d \in Desks, NEW n \in {0, RunLength}, AnswerRuntime(d, n) PROVE BegunInv' /\ CountInv'
<1> USE DEF AnswerRuntime, vars, rows, history
<1>1. TypeOK'
  BY TypedAnswerRuntime
<1>2. run' = run /\ clock' = clock /\ rearmed' = rearmed
  OBVIOUS
<1>3. cycle' = cycle
  OBVIOUS
<1> QED BY <1>1, <1>2, <1>3, RunsQuiet DEF Handles, Adds

LEMMA RunsPanelTag == ASSUME TypeOK, BegunInv, CountInv, NEW e \in queue, PanelTag(e) PROVE BegunInv' /\ CountInv'
<1> USE DEF PanelTag, vars, rows, history
<1>1. TypeOK'
  BY TypedPanelTag
<1>2. run' = run /\ clock' = clock /\ rearmed' = rearmed
  OBVIOUS
<1>3. cycle' = cycle
  OBVIOUS
<1> QED BY <1>1, <1>2, <1>3, RunsQuiet DEF Handles, Adds

LEMMA RunsRemoveQueued == ASSUME TypeOK, BegunInv, CountInv, NEW e \in queue, RemoveQueued(e) PROVE BegunInv' /\ CountInv'
<1> USE DEF RemoveQueued, vars, rows, history, Dropping
<1>1. TypeOK'
  BY TypedRemoveQueued
<1>2. run' = run /\ clock' = clock /\ rearmed' = rearmed
  OBVIOUS
<1>3. cycle' = cycle
  OBVIOUS
<1> QED BY <1>1, <1>2, <1>3, RunsQuiet DEF Handles, Adds

LEMMA RunsRemoveActive == ASSUME TypeOK, BegunInv, CountInv, NEW e \in active, RemoveActive(e) PROVE BegunInv' /\ CountInv'
<1> USE DEF RemoveActive, vars, rows, history, Dropping
<1>1. TypeOK'
  BY TypedRemoveActive
<1>2. run' = run /\ clock' = clock /\ rearmed' = rearmed
  OBVIOUS
<1>3. cycle' = cycle
  OBVIOUS
<1> QED BY <1>1, <1>2, <1>3, RunsQuiet DEF Handles, Adds

LEMMA RunsRemoveCountry == ASSUME TypeOK, BegunInv, CountInv, NEW c \in Countries, RemoveCountry(c) PROVE BegunInv' /\ CountInv'
<1> USE DEF RemoveCountry, vars, rows, history, Dropping
<1>1. TypeOK'
  BY TypedRemoveCountry
<1>2. run' = run /\ clock' = clock /\ rearmed' = rearmed
  OBVIOUS
<1>3. cycle' = cycle
  OBVIOUS
<1> QED BY <1>1, <1>2, <1>3, RunsQuiet DEF Handles, Adds

LEMMA RunsTogglePause == ASSUME TypeOK, BegunInv, CountInv, NEW c \in Countries, TogglePause(c) PROVE BegunInv' /\ CountInv'
<1> USE DEF TogglePause, vars, rows, history
<1>1. TypeOK'
  BY TypedTogglePause
<1>2. run' = run /\ clock' = clock /\ rearmed' = rearmed
  OBVIOUS
<1>3. cycle' = cycle
  OBVIOUS
<1> QED BY <1>1, <1>2, <1>3, RunsQuiet DEF Handles, Adds

LEMMA RunsSetTiming == ASSUME TypeOK, BegunInv, CountInv, NEW c \in Countries, SetTiming(c) PROVE BegunInv' /\ CountInv'
<1> USE DEF SetTiming, vars, rows, history
<1>1. TypeOK'
  BY TypedSetTiming
<1>2. run' = run /\ clock' = clock /\ rearmed' = rearmed
  OBVIOUS
<1>3. cycle' = cycle
  OBVIOUS
<1> QED BY <1>1, <1>2, <1>3, RunsQuiet DEF Handles, Adds

LEMMA RunsClearQueue == ASSUME TypeOK, BegunInv, CountInv, ClearQueue PROVE BegunInv' /\ CountInv'
<1> USE DEF ClearQueue, vars, rows, history, Dropping
<1>1. TypeOK'
  BY TypedClearQueue
<1>2. run' = run /\ clock' = clock /\ rearmed' = rearmed
  OBVIOUS
<1>3. cycle' = cycle
  OBVIOUS
<1> QED BY <1>1, <1>2, <1>3, RunsQuiet DEF Handles, Adds

LEMMA RunsStop == ASSUME TypeOK, BegunInv, CountInv, Stop PROVE BegunInv' /\ CountInv'
<1> USE DEF Stop, vars, rows, history
<1>1. TypeOK'
  BY TypedStop
<1>2. run' = run /\ clock' = clock /\ rearmed' = rearmed
  OBVIOUS
<1>3. cycle' = cycle
  OBVIOUS
<1> QED BY <1>1, <1>2, <1>3, RunsQuiet DEF Handles, Adds

LEMMA RunsTurnOn == ASSUME TypeOK, BegunInv, CountInv, TurnOn PROVE BegunInv' /\ CountInv'
<1> USE DEF TurnOn, vars, rows, history
<1>1. TypeOK'
  BY TypedTurnOn
<1>2. run' = run /\ clock' = clock /\ rearmed' = rearmed
  OBVIOUS
<1>3. cycle' = cycle
  OBVIOUS
<1> QED BY <1>1, <1>2, <1>3, RunsQuiet DEF Handles, Adds

LEMMA RunsRestart == ASSUME TypeOK, BegunInv, CountInv, Restart PROVE BegunInv' /\ CountInv'
<1> USE DEF Restart, vars, rows, history
<1>1. TypeOK'
  BY TypedRestart
<1>2. run' = run /\ clock' = clock /\ rearmed' = rearmed
  OBVIOUS
<1>3. \A x \in Cyclers, c \in Countries :
          (Handles(x, c)' => Handles(x, c)) /\ (Adds(x, c)' => Adds(x, c))
  BY DEF TypeOK, Passes, Resting, Handles, Adds, CountriesOf
<1> QED BY <1>1, <1>2, <1>3, RunsQuiet

\* The operations that start, count or end a run, or take countries up.
LEMMA CountTypes ==
    ASSUME TypeOK, NEW c \in Countries
    PROVE  /\ Count(c) \in Nat /\ Cardinality(Adders(c)) \in Nat
           /\ MaxRefills \in Nat /\ Cardinality(Cyclers) \in Nat
           /\ Cardinality(Adders(c)) <= Cardinality(Cyclers)
BY AddersFinite, OtpAssumption DEF Count, TypeOK, Runs, Adders

LEMMA RunsTick == ASSUME TypeOK, BegunInv, CountInv, Tick PROVE BegunInv' /\ CountInv'
<1> USE DEF Tick, rows, history
<1>1. clock \in Nat /\ clock' \in Nat /\ clock <= clock'
  BY DEF TypeOK
<1>2. ASSUME NEW c \in Countries, HasBegun(c)
      PROVE  HasBegun(c)'
  <2>1. CASE run[c] = NoRun
    BY <2>1 DEF HasBegun
  <2>2. CASE run[c] # NoRun
    <3>1. run[c] \in Runs /\ HasStarted(run[c], Start(c), clock)
      BY <1>2, <2>2 DEF HasBegun, TypeOK
    <3>2. HasStarted(run[c], Start(c), clock')
      BY <1>1, <3>1, BegunStaysBegun
    <3> QED BY <2>2, <3>2 DEF HasBegun, HasStarted
  <2> QED BY <2>1, <2>2
<1>3. BegunInv'
  BY <1>2 DEF BegunInv, Handles, Adds
<1>4. CountInv'
  BY DEF CountInv, Count, Adders, Adds
<1> QED BY <1>3, <1>4

LEMMA RunsCycleBegin ==
    ASSUME TypeOK, BegunInv, CountInv, NEW k \in Cyclers, NEW ready, NEW arm,
           CycleBegin(k, ready, arm), \A c \in ready : Started(c)
    PROVE  BegunInv' /\ CountInv'
<1> USE DEF CycleBegin, history
<1>1. run' = run /\ clock' = clock /\ rearmed' = rearmed /\ settings' = settings
  OBVIOUS
<1>2. /\ \A x \in Cyclers : x # k => cycle'[x] = cycle[x]
      /\ cycle'[k] = cycle[k] \/ /\ cycle'[k].pc = "wait"
                                 /\ CountriesOf(cycle'[k].todo) \subseteq ready
  BY DEF TypeOK, Passes, Resting, CountriesOf
<1>3. \A x \in Cyclers, c \in Countries : Adds(x, c)' => Adds(x, c)
  BY <1>2 DEF Adds
<1>4. \A x \in Cyclers, c \in Countries : Handles(x, c)' => Handles(x, c) \/ Started(c)
  BY <1>2, <1>3 DEF Handles, Adds
<1>5. \A c \in Countries : HasBegun(c)' <=> HasBegun(c)
  BY <1>1 DEF HasBegun, Start
<1>6. BegunInv'
  BY <1>1, <1>4, <1>5 DEF BegunInv, HasBegun, Started
<1>7. \A c \in Countries : Adders(c)' = Adders(c)
  BY <1>2, <1>3 DEF Adders, Adds
<1>8. CountInv'
  BY <1>1, <1>7 DEF CountInv, Count
<1> QED BY <1>6, <1>8

LEMMA RunsScheduledCycle == ASSUME TypeOK, BegunInv, CountInv, NEW k \in Cyclers, ScheduledCycle(k)
                            PROVE BegunInv' /\ CountInv'
<1>1. \A c \in DueCountries : Started(c)
  BY DEF DueCountries, Looked
<1> QED BY <1>1, RunsCycleBegin DEF ScheduledCycle

LEMMA RunsForcedCycle == ASSUME TypeOK, BegunInv, CountInv, NEW k \in Cyclers, ForcedCycle(k)
                         PROVE BegunInv' /\ CountInv'
BY RunsCycleBegin DEF ForcedCycle

LEMMA BegunNow ==
    ASSUME NEW now \in Nat, NEW g
    PROVE  Begun(now, g).gate = g /\ Begun(now, g).refills = 0 /\ Begun(now, g) # NoRun
BY DEF Begun, NoRun

LEMMA RunsStartArm == ASSUME TypeOK, BegunInv, CountInv, NEW d \in Desks, StartArm(d)
                      PROVE BegunInv' /\ CountInv'
<1> DEFINE fresh == CountriesOf(desk[d].list)
<1>1. /\ cycle' = cycle /\ clock' = clock /\ settings' = settings
      /\ run' = [c \in Countries |-> IF c \in fresh THEN Begun(clock, Gate(d, c)) ELSE run[c]]
      /\ rearmed' = rearmed \cup {c \in fresh : \E k \in Cyclers : Handles(k, c)}
  BY DEF StartArm
<1> HIDE DEF fresh
<1>2. BegunInv'
  <2> SUFFICES ASSUME NEW k \in Cyclers, NEW c \in Countries \ rearmed', Handles(k, c)
               PROVE  HasBegun(c)'
    BY <1>1 DEF BegunInv, Handles, Adds
  <2>1. c \notin fresh /\ c \in Countries \ rearmed /\ run'[c] = run[c]
    BY <1>1
  <2> QED BY <1>1, <2>1 DEF BegunInv, HasBegun, Start
<1>3. CountInv'
  <2> SUFFICES ASSUME MaxRefills > 0, NEW c \in Countries \ rearmed'
               PROVE  Count(c)' + Cardinality(Adders(c)) <= MaxRefills + Cardinality(Cyclers) - 1
    BY <1>1 DEF CountInv, Adders, Adds
  <2>1. CASE c \in fresh
    <3>1. Adders(c) = {}
      BY <1>1, <2>1 DEF Adders, Handles
    <3>2. Count(c)' = 0 /\ Cardinality(Adders(c)) = 0
      BY <1>1, <2>1, <3>1, BegunNow, FS_EmptySet DEF Count, TypeOK
    <3> QED BY <3>2, CountTypes
  <2>2. CASE c \notin fresh
    BY <1>1, <2>2 DEF CountInv, Count
  <2> QED BY <2>1, <2>2
<1> QED BY <1>2, <1>3

LEMMA RunsWaitAdded == ASSUME TypeOK, BegunInv, CountInv, NEW k \in Cyclers, WaitAdded(k)
                       PROVE BegunInv' /\ CountInv'
<1>1. PICK e \in Waiting(cycle[k].todo) :
         /\ run' = [run EXCEPT ![e.country] = Begun(clock, Unset)]
         /\ cycle' = [cycle EXCEPT ![k].list = Popped(@, Id(e)),
                                   ![k].todo = Popped(@, Id(e)),
                                   ![k].changed = @ \/ Id(e) \in Ids(cycle[k].list)]
  BY DEF WaitAdded
<1>2. /\ clock' = clock /\ settings' = settings /\ rearmed' = rearmed /\ cycle[k].pc = "waitadd"
  BY DEF WaitAdded
<1>3. /\ cycle'[k].pc = "waitadd" /\ cycle'[k].todo = Popped(cycle[k].todo, Id(e))
      /\ \A x \in Cyclers : x # k => cycle'[x] = cycle[x]
  BY <1>1, <1>2 DEF TypeOK, Passes
<1>4. cycle[k].todo \in SUBSET Entries /\ e.country \in Countries
  BY <1>1 DEF TypeOK, Passes, Waiting, Entries
<1>5. CountriesOf(Popped(cycle[k].todo, Id(e))) \subseteq CountriesOf(cycle[k].todo)
  BY <1>4 DEF CountriesOf, Popped, Entries
<1>6. \A x \in Cyclers, c \in Countries :
          (Handles(x, c)' => Handles(x, c)) /\ (Adds(x, c)' <=> Adds(x, c))
  BY <1>2, <1>3, <1>5 DEF Handles, Adds
<1>7. \A c \in Countries : run'[c] = IF c = e.country THEN Begun(clock, Unset) ELSE run[c]
  BY <1>1, <1>4 DEF TypeOK
<1>8. \A c \in Countries : HasBegun(c) => HasBegun(c)'
  BY <1>2, <1>7, BegunNow DEF HasBegun, HasStarted, IsNow, TypeOK, Start
<1>9. BegunInv'
  BY <1>2, <1>6, <1>8 DEF BegunInv
<1>10. CountInv'
  <2> SUFFICES ASSUME MaxRefills > 0, NEW c \in Countries \ rearmed
               PROVE  Count(c)' + Cardinality(Adders(c)) <= MaxRefills + Cardinality(Cyclers) - 1
    BY <1>2, <1>6 DEF CountInv, Adders
  <2>1. Count(c)' = Count(c) \/ Count(c)' = 0
    BY <1>7, BegunNow DEF Count, TypeOK
  <2> QED BY <2>1, CountTypes DEF CountInv
<1> QED BY <1>9, <1>10

LEMMA RunsCyclePick == ASSUME TypeOK, BegunInv, CountInv, NEW k \in Cyclers, CyclePick(k)
                       PROVE BegunInv' /\ CountInv'
<1>1. PICK e \in cycle[k].todo :
         cycle' = [cycle EXCEPT ![k].pc = IF Done(e.country) THEN "retire" ELSE "add",
                                ![k].cur = e, ![k].todo = @ \ {e}]
  BY DEF CyclePick
<1>2. /\ run' = run /\ clock' = clock /\ settings' = settings /\ rearmed' = rearmed
      /\ cycle[k].pc = "refill"
  BY DEF CyclePick, rows, history
<1>3. /\ cycle'[k].pc = IF Done(e.country) THEN "retire" ELSE "add"
      /\ cycle'[k].cur = e /\ cycle'[k].todo = cycle[k].todo \ {e}
      /\ \A x \in Cyclers : x # k => cycle'[x] = cycle[x]
  BY <1>1 DEF TypeOK, Passes
<1>4. e.country \in Countries
  BY <1>1 DEF TypeOK, Passes, Entries
<1>5. \A x \in Cyclers, c \in Countries : Handles(x, c)' => Handles(x, c)
  BY <1>3 DEF Handles, Adds, CountriesOf
<1>6. BegunInv'
  BY <1>2, <1>5 DEF BegunInv, HasBegun, Start
<1>7. \A c \in Countries : Count(c)' = Count(c)
  BY <1>2 DEF Count
<1>8. CountInv'
  <2> SUFFICES ASSUME MaxRefills > 0, NEW c \in Countries \ rearmed
               PROVE  Count(c) + Cardinality(Adders(c)') <= MaxRefills + Cardinality(Cyclers) - 1
    BY <1>2, <1>7 DEF CountInv
  <2>1. CASE c # e.country \/ Done(e.country)
    <3>1. Adders(c)' = Adders(c)
      BY <1>2, <1>3, <2>1 DEF Adders, Adds
    <3> QED BY <3>1 DEF CountInv
  <2>2. CASE c = e.country /\ ~Done(c)
    <3>1. Adders(c) \subseteq Cyclers /\ k \notin Adders(c) /\ Adders(c)' = Adders(c) \cup {k}
      BY <1>2, <1>3, <2>2 DEF Adders, Adds
    <3>2. /\ Cardinality(Adders(c)') = Cardinality(Adders(c)) + 1
          /\ Cardinality(Adders(c)) + 1 <= Cardinality(Cyclers)
      BY <3>1, AddersFinite
    <3>3. HasBegun(c)
      BY <1>1, <2>2 DEF BegunInv, Handles, CountriesOf
    <3>4. Count(c) <= MaxRefills - 1
      <4>1. CASE run[c] = NoRun
        BY <4>1, CountTypes DEF Count
      <4>2. CASE run[c] # NoRun
        <5>1. ~(run[c].refills >= MaxRefills)
          BY <2>2, <3>3, <4>2 DEF Done, Finished, HasBegun
        <5> QED BY <4>2, <5>1, CountTypes DEF Count, TypeOK, Runs
      <4> QED BY <4>1, <4>2
    <3> QED BY <3>2, <3>4, CountTypes
  <2> QED BY <2>1, <2>2
<1> QED BY <1>6, <1>8

LEMMA RunsCycleAdded == ASSUME TypeOK, BegunInv, CountInv, NEW k \in Cyclers, CycleAdded(k)
                        PROVE BegunInv' /\ CountInv'
<1> DEFINE e == cycle[k].cur
<1>1. /\ run' = [run EXCEPT ![e.country] = Refilled(@, clock)]
      /\ cycle' = [cycle EXCEPT ![k].pc = "refill", ![k].cur = NoId]
      /\ clock' = clock /\ settings' = settings /\ rearmed' = rearmed /\ cycle[k].pc = "add"
  BY DEF CycleAdded
<1>2. e.country \in Countries
  BY <1>1 DEF TypeOK, Passes, Entries
<1> HIDE DEF e
<1>3. /\ cycle'[k].pc = "refill" /\ cycle'[k].todo = cycle[k].todo
      /\ \A x \in Cyclers : x # k => cycle'[x] = cycle[x]
  BY <1>1 DEF TypeOK, Passes
<1>4. \A x \in Cyclers, c \in Countries : Handles(x, c)' => Handles(x, c)
  BY <1>3 DEF Handles, Adds
<1>5. \A c \in Countries : run'[c] = IF c = e.country THEN Refilled(run[c], clock) ELSE run[c]
  BY <1>1, <1>2 DEF TypeOK
<1>6. ASSUME NEW c \in Countries, HasBegun(c)
      PROVE  HasBegun(c)'
  <2>1. CASE c # e.country
    BY <1>1, <1>5, <1>6, <2>1 DEF HasBegun, Start
  <2>2. CASE c = e.country /\ run[c] = NoRun
    <3>1. Refilled(run[c], clock).gate = Unset /\ Refilled(run[c], clock) # NoRun
      BY <2>2 DEF Refilled, Begun, NoRun
    <3> QED BY <1>5, <2>2, <3>1 DEF HasBegun, HasStarted, IsNow
  <2>3. CASE c = e.country /\ run[c] # NoRun
    <3>1. run[c] \in Runs
      BY <2>3 DEF TypeOK
    <3>2. /\ Refilled(run[c], clock).gate = run[c].gate
          /\ Refilled(run[c], clock).started = run[c].started
      BY <2>3, <3>1 DEF Refilled, Runs
    <3> QED BY <1>1, <1>5, <1>6, <2>3, <3>2 DEF HasBegun, HasStarted
  <2> QED BY <2>1, <2>2, <2>3
<1>7. BegunInv'
  BY <1>1, <1>4, <1>6 DEF BegunInv
<1>8. CountInv'
  <2> SUFFICES ASSUME MaxRefills > 0, NEW c \in Countries \ rearmed
               PROVE  Count(c)' + Cardinality(Adders(c)') <= MaxRefills + Cardinality(Cyclers) - 1
    BY <1>1 DEF CountInv
  <2>1. CASE c # e.country
    <3>1. \A x \in Cyclers : Adds(x, c)' <=> Adds(x, c)
      BY <1>1, <1>3, <2>1 DEF Adds, e
    <3>2. Adders(c)' = Adders(c)
      BY <3>1 DEF Adders
    <3>3. Count(c)' = Count(c)
      BY <1>5, <2>1 DEF Count
    <3> QED BY <3>2, <3>3 DEF CountInv
  <2>2. CASE c = e.country
    <3>1. Adders(c) \subseteq Cyclers /\ k \in Adders(c) /\ Adders(c)' = Adders(c) \ {k}
      BY <1>1, <1>3, <2>2 DEF Adders, Adds, e
    <3>2. Cardinality(Adders(c)') = Cardinality(Adders(c)) - 1
      BY <3>1, AddersFinite
    <3>3. Count(c)' = Count(c) + 1
      <4>1. CASE run[c] = NoRun
        <5>1. Refilled(run[c], clock).refills = 1
          BY <4>1 DEF Refilled, Begun
        <5>2. Refilled(run[c], clock) # NoRun
          BY <5>1 DEF NoRun
        <5> QED BY <1>5, <2>2, <4>1, <5>1, <5>2 DEF Count
      <4>2. CASE run[c] # NoRun
        <5>1. run[c] \in Runs
          BY <4>2 DEF TypeOK
        <5>2. /\ Refilled(run[c], clock) # NoRun
              /\ Refilled(run[c], clock).refills = run[c].refills + 1
          BY <4>2, <5>1 DEF Refilled, Runs, NoRun
        <5> QED BY <1>5, <2>2, <4>2, <5>2 DEF Count
      <4> QED BY <4>1, <4>2
    <3> QED BY <3>2, <3>3, CountTypes DEF CountInv
  <2> QED BY <2>1, <2>2
<1> QED BY <1>7, <1>8

LEMMA RunsCycleRetire == ASSUME TypeOK, BegunInv, CountInv, NEW k \in Cyclers, CycleRetire(k)
                         PROVE BegunInv' /\ CountInv'
<1> DEFINE e == cycle[k].cur
<1>1. /\ run' = [run EXCEPT ![e.country] = NoRun]
      /\ cycle' = [cycle EXCEPT ![k].pc = "refill", ![k].cur = NoId]
      /\ clock' = clock /\ settings' = settings /\ rearmed' = rearmed /\ cycle[k].pc = "retire"
  BY DEF CycleRetire
<1>2. e.country \in Countries
  BY <1>1 DEF TypeOK, Passes, Entries
<1> HIDE DEF e
<1>3. /\ cycle'[k].pc = "refill" /\ cycle'[k].todo = cycle[k].todo
      /\ \A x \in Cyclers : x # k => cycle'[x] = cycle[x]
  BY <1>1 DEF TypeOK, Passes
<1>4. \A x \in Cyclers, c \in Countries :
          (Handles(x, c)' => Handles(x, c)) /\ (Adds(x, c)' <=> Adds(x, c))
  BY <1>1, <1>3 DEF Handles, Adds
<1>5. \A c \in Countries : run'[c] = IF c = e.country THEN NoRun ELSE run[c]
  BY <1>1, <1>2 DEF TypeOK
<1>6. BegunInv'
  BY <1>1, <1>4, <1>5 DEF BegunInv, HasBegun, Start
<1>7. CountInv'
  <2> SUFFICES ASSUME MaxRefills > 0, NEW c \in Countries \ rearmed
               PROVE  Count(c)' + Cardinality(Adders(c)) <= MaxRefills + Cardinality(Cyclers) - 1
    BY <1>1, <1>4 DEF CountInv, Adders
  <2>1. Count(c)' = Count(c) \/ Count(c)' = 0
    BY <1>5 DEF Count
  <2> QED BY <2>1, CountTypes DEF CountInv
<1> QED BY <1>6, <1>7

LEMMA RunsInit == Init => BegunInv /\ CountInv
<1> SUFFICES ASSUME Init PROVE BegunInv /\ CountInv
  OBVIOUS
<1>1. TypeOK
  BY TypedInit
<1>2. BegunInv
  BY DEF Init, BegunInv, HasBegun
<1>3. \A c \in Countries : Adders(c) = {} /\ Count(c) = 0
  BY DEF Init, Adders, Adds, Resting, Count
<1>4. CountInv
  BY <1>1, <1>3, CountTypes, FS_EmptySet DEF CountInv
<1> QED BY <1>2, <1>4

LEMMA RunsStep == TypeOK /\ BegunInv /\ CountInv /\ [Next]_vars => BegunInv' /\ CountInv'
<1> SUFFICES ASSUME TypeOK, BegunInv, CountInv, [Next]_vars PROVE BegunInv' /\ CountInv'
  OBVIOUS
<1>1. CASE \E d \in Desks : Step(d)
  BY <1>1, RunsUploadBegin, RunsUploadEnd, RunsAfterChatUpload,
     RunsAfterPanelUpload, RunsStartBegin, RunsStartRefused, RunsStartStock,
     RunsStartAdded, RunsStartFails, RunsStartArm, RunsStartMerge,
     RunsStartClear DEF Step
<1>2. CASE \E k \in Cyclers : CycleStep(k)
  BY <1>2, RunsScheduledCycle, RunsWaitRead, RunsWaitAdded, RunsWaitSave,
     RunsCycleStock, RunsCyclePick, RunsCycleAdded, RunsCycleRetire,
     RunsCycleEnd DEF CycleStep
<1>3. CASE \E d \in Desks : Say(d)
  BY <1>3, RunsResume, RunsPressStart, RunsSayStart, RunsTagEntry,
     RunsSkipEntry, RunsAnswerRuntime DEF Say
<1>4. CASE Change
  BY <1>4, RunsPanelTag, RunsRemoveQueued, RunsRemoveActive,
     RunsRemoveCountry, RunsTogglePause, RunsSetTiming, RunsClearQueue,
     RunsStop, RunsTurnOn DEF Change
<1>5. CASE UNCHANGED vars
  BY <1>5 DEF BegunInv, CountInv, HasBegun, Handles, Adds, Adders, Count, Start, vars, rows, history
<1> QED BY <1>1, <1>2, <1>3, <1>4, <1>5, RunsForcedCycle, RunsRestart, RunsTick
           DEF Next, Tap

LEMMA RunsInvariant == Spec => [](TypeOK /\ BegunInv /\ CountInv)
<1>1. Init => BegunInv /\ CountInv
  BY RunsInit
<1>2. TypeOK /\ BegunInv /\ CountInv /\ [Next]_vars => BegunInv' /\ CountInv'
  BY RunsStep
<1> QED BY <1>1, <1>2, OtpTypeCorrect, PTL DEF Spec

(* The limit on refills is overrun by at most one less than the cycles     *)
(* that may run at once, however starts, checks and failures interleave.   *)
THEOREM OtpRefillsBounded == Spec => []RefillsBounded
<1>1. TypeOK /\ BegunInv /\ CountInv => RefillsBounded
  <2> SUFFICES ASSUME TypeOK, CountInv, MaxRefills > 0, NEW c \in Countries \ rearmed
               PROVE  run[c].refills <= MaxRefills + Cardinality(Cyclers) - 1
    BY DEF RefillsBounded
  <2>1. Count(c) + Cardinality(Adders(c)) <= MaxRefills + Cardinality(Cyclers) - 1
    BY DEF CountInv
  <2>2. run[c].refills \in Int /\ run[c].refills <= Count(c)
    BY DEF Count, TypeOK, Runs, NoRun
  <2> QED BY <2>1, <2>2, CountTypes
<1> QED BY <1>1, RunsInvariant, PTL

(* A cycle never has a country under way whose start time is still to come.*)
THEOREM OtpNothingBeforeStart == Spec => []NothingBeforeStart
<1>1. BegunInv => NothingBeforeStart
  BY DEF BegunInv, HasBegun, NothingBeforeStart
<1> QED BY <1>1, RunsInvariant, PTL
=============================================================================
