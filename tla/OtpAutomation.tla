--------------------------- MODULE OtpAutomation ---------------------------
(***************************************************************************)
(* The OTP automation of src/app/automation/otp_bot.py: files of numbers   *)
(* are queued, given a tag and a run length, started, and refilled on each *)
(* country's own timer.                                                    *)
(*                                                                         *)
(* The queue and the active files are two whole-list settings rows.  An    *)
(* operation that talks to the target bot, or parses an upload, reads a    *)
(* list, waits and writes it back: it is a `desk' (a chat or dashboard     *)
(* handler) or a `cycle' with a program counter and the list it read.  An  *)
(* operation that only touches settings rows is one step.  Everything runs *)
(* in one process, and Restart ends whatever was under way.                *)
(***************************************************************************)
EXTENDS OtpSchedule, FiniteSets

CONSTANTS
    Files,        \* uploads, each sent once
    Countries,
    Holds,        \* Holds[f]: the splits an upload of f may end in, by country
    Desks,        \* handlers that may be under way at once
    Cyclers,      \* cycles that may be under way at once
    Timings,      \* what a caption may state: [start, stop, length]
    GlobalStart,  \* start_at of the configuration
    MaxRefills,   \* max_refills; 0 for no limit
    RunLength,    \* default_run_minutes, in ticks
    Interval,     \* interval_minutes, in ticks
    MaxClock,     \* bound on the clock
    MaxTaps       \* bound on the owner's orders and the restarts

Keep == -3   \* a caption that says nothing of a setting

ASSUME OtpAssumption ==
    /\ Holds \in [Files -> SUBSET SUBSET Countries]
    /\ IsFiniteSet(Cyclers)
    /\ GlobalStart \in WallClock \cup {AtOnce}
    /\ MaxRefills \in Nat /\ RunLength \in Nat \ {0} /\ Interval \in Nat \ {0}
    /\ MaxClock \in Nat /\ MaxTaps \in Nat
    /\ Timings \subseteq [start : WallClock \cup {Unset, AtOnce},
                          stop : WallClock \cup {Unset, Keep},
                          length : Nat \cup {Keep}]

VARIABLES
    clock,
    queue, active,   \* the two lists, as sets of entries
    enabled,         \* the periodic monitor
    awaiting,        \* id of the entry whose tag is asked for, or NoId
    asked,           \* countries whose run length is asked for
    settings,        \* per-country settings
    run,             \* per-country run state
    due,             \* per-country next check; Unset when not armed
    tagKnown,        \* countries whose last tag is remembered
    desk, cycle,
    taps,            \* counts what MaxTaps bounds
    \* History: what the properties speak of, never read by an action.
    uploaded,        \* ids queued so far
    served,          \* ids the target bot accepted, or had in stock at a start
    dropped,         \* ids the owner removed from a list
    gone,            \* ids a removal left in neither list
    retired,         \* ids superseded by a new file or finished
    overlapped,      \* ids written or removed while another operation held a list
    rearmed          \* countries started while a cycle had them under way

rows == <<queue, active, enabled, awaiting, asked, settings, run, due, tagKnown>>
history == <<uploaded, served, dropped, gone, retired, overlapped, rearmed>>
vars == <<clock, rows, desk, cycle, taps, history>>

Entries == [file : Files, country : Countries, tagged : BOOLEAN,
            waiting : WallClock \cup {Unset}]
Id(e) == <<e.file, e.country>>
Ids(S) == {Id(e) : e \in S}
NoId == <<>>
CountriesOf(S) == {e.country : e \in S}
Untagged(S) == {e \in S : ~e.tagged}
Tag(e) == [e EXCEPT !.tagged = TRUE]

Idle == [pc |-> "idle", list |-> {}, todo |-> {}, scheduled |-> FALSE,
         file |-> NoId]
Resting == [pc |-> "idle", list |-> {}, todo |-> {}, changed |-> FALSE, cur |-> NoId]

DeskPC == {"idle", "enqueue", "uploaded", "start", "stock", "adding", "merge",
           "clear"}
CyclePC == {"idle", "wait", "waitadd", "stock", "refill", "add", "retire"}

Handlers == {h \in [pc : DeskPC, list : SUBSET Entries, todo : SUBSET Entries,
                     scheduled : BOOLEAN, file : Files \cup {NoId}] :
                h.pc = "enqueue" => h.file \in Files}
Passes == {r \in [pc : CyclePC, list : SUBSET Entries, todo : SUBSET Entries,
                  changed : BOOLEAN, cur : Entries \cup {NoId}] :
              r.pc \in {"add", "retire"} => r.cur \in Entries}

(* Who holds a list that a later step of his writes back.                  *)
HoldsQueue(d) == desk[d].pc \in {"enqueue", "stock", "adding", "merge", "clear"}
HoldsActive(k) == cycle[k].pc = "waitadd"
Held == UNION ({Ids(desk[d].list) : d \in {x \in Desks : HoldsQueue(x)}}
               \cup {Ids(cycle[k].list) : k \in {x \in Cyclers : HoldsActive(x)}})

(* A cycle that may yet add a country, and one that is about to.           *)
Adds(k, c) == cycle[k].pc = "add" /\ cycle[k].cur.country = c
Handles(k, c) == c \in CountriesOf(cycle[k].todo) \/ Adds(k, c)

Start(c) == IF settings[c].start = Unset THEN GlobalStart ELSE settings[c].start

(* countries_needing_runtime *)
Needing(S) ==
    {c \in CountriesOf(S) : settings[c].length \in {Unset, 0} /\ settings[c].stop = Unset}

Init ==
    /\ clock = 0
    /\ queue = {} /\ active = {} /\ enabled = FALSE
    /\ awaiting = NoId /\ asked = {}
    /\ settings = [c \in Countries |->
            [start |-> Unset, stop |-> Unset, length |-> Unset, paused |-> FALSE]]
    /\ run = [c \in Countries |-> NoRun]
    /\ due = [c \in Countries |-> Unset]
    /\ tagKnown = {}
    /\ desk = [d \in Desks |-> Idle]
    /\ cycle = [k \in Cyclers |-> Resting]
    /\ taps = 0
    /\ uploaded = {} /\ served = {} /\ dropped = {} /\ gone = {} /\ retired = {}
    /\ overlapped = {} /\ rearmed = {}

Tick ==
    /\ clock < MaxClock
    /\ clock' = clock + 1
    /\ UNCHANGED <<rows, desk, cycle, history>>
-----------------------------------------------------------------------------
(* enqueue_file: read the queue, analyse, write the queue. *)

UploadBegin(d, f) ==
    /\ desk[d].pc = "idle"
    /\ f \notin {id[1] : id \in uploaded}
    /\ \A x \in Desks : desk[x].file # f
    /\ desk' = [desk EXCEPT ![d] = [Idle EXCEPT !.pc = "enqueue", !.list = queue,
                                               !.file = f]]
    /\ UNCHANGED <<clock, rows, cycle, history>>

\* Mutant: what the caption leaves out is stored all the same.
Timed_SilenceStored(s, t) == [s EXCEPT !.start = t.start, !.stop = t.stop]

Timed(s, t) ==
    [s EXCEPT !.start = t.start,
              !.stop = IF t.stop = Keep THEN @ ELSE t.stop,
              !.length = IF t.length = Keep THEN @ ELSE t.length]

(* The tag comes from the caption, from the file's name or the default, or *)
(* from what was last used for the country.                                *)
UploadEnd(d) ==
    /\ desk[d].pc = "enqueue"
    /\ \E from \in {"caption", "name", "memory"}, t \in Timings,
          split \in Holds[desk[d].file] :
         LET new == {[file |-> desk[d].file, country |-> c, waiting |-> Unset,
                      tagged |-> from # "memory" \/ c \in tagKnown] : c \in split}
         IN  /\ queue' = desk[d].list \cup new
             /\ settings' = [c \in Countries |->
                    IF c \in split THEN Timed(settings[c], t) ELSE settings[c]]
             /\ tagKnown' = IF from = "caption" THEN tagKnown \cup split
                                                ELSE tagKnown
             /\ uploaded' = uploaded \cup Ids(new)
             /\ overlapped' = IF \E x \in Desks \ {d} : HoldsQueue(x)
                              THEN overlapped \cup Ids(new) ELSE overlapped
    /\ desk' = [desk EXCEPT ![d] = [Idle EXCEPT !.pc = "uploaded"]]
    /\ UNCHANGED <<clock, active, enabled, awaiting, asked, run, due, cycle,
                   served, dropped, gone, retired, rearmed>>

(* maybe_auto_start after an upload, and what is asked when it did not act. *)
AutoStarts == queue # {} /\ Untagged(queue) = {} /\ Needing(queue) = {}

AfterChatUpload(d) ==
    /\ desk[d].pc = "uploaded"
    /\ \/ /\ AutoStarts
          /\ desk' = [desk EXCEPT ![d] = [Idle EXCEPT !.pc = "start", !.scheduled = TRUE]]
          /\ UNCHANGED <<awaiting, asked>>
       \/ /\ ~AutoStarts
          /\ desk' = [desk EXCEPT ![d] = Idle]
          /\ \/ \E e \in Untagged(queue) : awaiting' = Id(e) /\ UNCHANGED asked
             \/ /\ Untagged(queue) = {}
                /\ asked' = IF Needing(queue) = {} THEN asked ELSE Needing(queue)
                /\ UNCHANGED awaiting
    /\ UNCHANGED <<clock, queue, active, enabled, settings, run, due, tagKnown, cycle,
                   history>>

AfterPanelUpload(d) ==
    /\ desk[d].pc = "uploaded"
    /\ ~AutoStarts
    /\ desk' = [desk EXCEPT ![d] = Idle]
    /\ asked' = IF Needing(queue) = {} THEN asked ELSE Needing(queue)
    /\ UNCHANGED <<clock, queue, active, enabled, awaiting, settings, run, due,
                   tagKnown, cycle, history>>
-----------------------------------------------------------------------------
(* start_automation *)

StartBegin(d) ==
    /\ desk[d].pc = "start"
    /\ queue # {} /\ Untagged(queue) = {}
    /\ desk' = [desk EXCEPT ![d].pc = "stock", ![d].list = queue]
    /\ UNCHANGED <<clock, rows, cycle, history>>

(* Refused: nothing queued, or a tag is missing and asked for.             *)
StartRefused(d) ==
    /\ desk[d].pc = "start"
    /\ queue = {} \/ Untagged(queue) # {}
    /\ awaiting' \in IF Untagged(queue) = {} THEN {awaiting}
                     ELSE {awaiting} \cup Ids(Untagged(queue))
    /\ desk' = [desk EXCEPT ![d] = Idle]
    /\ UNCHANGED <<clock, queue, active, enabled, asked, settings, run, due, tagKnown,
                   cycle, history>>

(* The stock is read; an entry waits for its start time, is held because   *)
(* the bot has stock, or is to be added.                                   *)
Gate(d, c) == IF desk[d].scheduled THEN Start(c) ELSE Unset

Sorted(d, S) ==
    {[e EXCEPT !.waiting = IF IsNow(Gate(d, e.country)) THEN Unset
                           ELSE Gate(d, e.country)] : e \in S}
Ready(S) == {e \in S : e.waiting = Unset}

StartStock(d) ==
    /\ desk[d].pc = "stock"
    /\ \E stocked \in SUBSET CountriesOf(desk[d].list) :
         LET ready == Ready(Sorted(d, desk[d].list))
         IN  /\ desk' = [desk EXCEPT
                    ![d].pc = "adding", ![d].list = Sorted(d, @),
                    ![d].todo = {e \in ready : e.country \notin stocked}]
             /\ served' = served \cup Ids({e \in ready : e.country \in stocked})
    /\ UNCHANGED <<clock, rows, cycle, uploaded, dropped, gone, retired, overlapped,
                   rearmed>>

StartAdded(d) ==
    /\ desk[d].pc = "adding"
    /\ \E e \in desk[d].todo :
         /\ desk' = [desk EXCEPT ![d].todo = @ \ {e}]
         /\ served' = served \cup {Id(e)}
    /\ UNCHANGED <<clock, rows, cycle, uploaded, dropped, gone, retired, overlapped,
                   rearmed>>

(* A rejected add, an unlinked account or a missing file ends the start:   *)
(* the queue stays, whatever was added before stays added.                 *)
StartFails(d) ==
    /\ desk[d].pc \in {"stock", "adding"}
    /\ desk' = [desk EXCEPT ![d] = Idle]
    /\ UNCHANGED <<clock, rows, cycle, history>>

StartArm(d) ==
    /\ desk[d].pc = "adding" /\ desk[d].todo = {}
    /\ LET fresh == CountriesOf(desk[d].list)
       IN  /\ due' = [c \in Countries |-> IF c \in fresh THEN clock + Interval ELSE due[c]]
           /\ run' = [c \in Countries |->
                  IF c \in fresh THEN Begun(clock, Gate(d, c)) ELSE run[c]]
           /\ rearmed' = rearmed \cup {c \in fresh : \E k \in Cyclers : Handles(k, c)}
    /\ enabled' = TRUE /\ awaiting' = NoId
    /\ desk' = [desk EXCEPT ![d].pc = "merge"]
    /\ UNCHANGED <<clock, queue, active, asked, settings, tagKnown, cycle, uploaded,
                   served, dropped, gone, retired, overlapped>>

\* Mutant: what runs in a country already is kept.
Merged_KeepsOld(existing, fresh) ==
    existing \cup {e \in fresh : e.country \notin CountriesOf(existing)}

Merged(existing, fresh) ==
    {e \in existing : e.country \notin CountriesOf(fresh)} \cup fresh

\* Mutant: the queue is read again for the merge.
StartMerge_QueueNow(d) ==
    /\ desk[d].pc = "merge"
    /\ active' = Merged(active, queue)
    /\ desk' = [desk EXCEPT ![d].pc = "clear"]
    /\ UNCHANGED <<clock, queue, enabled, awaiting, asked, settings, run, due, tagKnown,
                   cycle, history>>

StartMerge(d) ==
    /\ desk[d].pc = "merge"
    /\ active' = Merged(active, desk[d].list)
    /\ desk' = [desk EXCEPT ![d].pc = "clear"]
    /\ retired' = retired \cup
           Ids({e \in active \ desk[d].list : e.country \in CountriesOf(desk[d].list)})
    /\ overlapped' = IF \E k \in Cyclers : HoldsActive(k)
                     THEN overlapped \cup Ids(desk[d].list) ELSE overlapped
    /\ UNCHANGED <<clock, queue, enabled, awaiting, asked, settings, run, due, tagKnown,
                   cycle, uploaded, served, dropped, gone, rearmed>>

StartClear(d) ==
    /\ desk[d].pc = "clear"
    /\ queue' = {}
    /\ desk' = [desk EXCEPT ![d] = Idle]
    /\ UNCHANGED <<clock, active, enabled, awaiting, asked, settings, run, due, tagKnown,
                   cycle, history>>

(* handle_resume_trigger: the active files become the queue and start anew. *)
Resume(d) ==
    /\ desk[d].pc = "idle" /\ active # {}
    /\ queue' = active
    /\ desk' = [desk EXCEPT ![d] = [Idle EXCEPT !.pc = "start"]]
    /\ overlapped' = overlapped \cup (Ids(queue) \ Ids(active))
    /\ UNCHANGED <<clock, active, enabled, awaiting, asked, settings, run, due, tagKnown,
                   cycle, uploaded, served, dropped, gone, retired, rearmed>>

(* The Start button of the panel and the dashboard. *)
PressStart(d) ==
    /\ desk[d].pc = "idle"
    /\ desk' = [desk EXCEPT ![d] = [Idle EXCEPT !.pc = "start"]]
    /\ UNCHANGED <<clock, rows, cycle, history>>
-----------------------------------------------------------------------------
(* What the owner says or taps.  These operations only touch settings rows. *)

(* _continue_after_tagging: ask for the next tag, ask for the run length,  *)
(* or start.                                                               *)
Continue(d, q, aw) ==
    \/ /\ \E e \in Untagged(q) : awaiting' = Id(e)
       /\ UNCHANGED <<asked, desk>>
    \/ /\ Untagged(q) = {} /\ awaiting' = aw
       /\ IF q # {} /\ Needing(q) = {}
          THEN /\ desk' = [desk EXCEPT ![d] = [Idle EXCEPT !.pc = "start"]]
               /\ UNCHANGED asked
          ELSE /\ asked' = IF q = {} THEN asked ELSE Needing(q)
               /\ UNCHANGED desk

SayStart(d) ==
    /\ desk[d].pc = "idle"
    /\ queue # {} \/ active = {}
    /\ Continue(d, queue, awaiting)
    /\ UNCHANGED <<clock, queue, active, enabled, settings, run, due, tagKnown, cycle,
                   history>>

Retagged(e) == (queue \ {e}) \cup {Tag(e)}

(* A tag answered in the chat or tapped; set in the dashboard, nothing     *)
(* follows.                                                                *)
TagEntry(d, e) ==
    /\ desk[d].pc = "idle" /\ e \in queue
    /\ queue' = Retagged(e) /\ tagKnown' = tagKnown \cup {e.country}
    /\ Continue(d, Retagged(e), NoId)
    /\ UNCHANGED <<clock, active, enabled, settings, run, due, cycle, history>>

PanelTag(e) ==
    /\ e \in queue
    /\ queue' = Retagged(e) /\ tagKnown' = tagKnown \cup {e.country}
    /\ UNCHANGED <<clock, active, enabled, awaiting, asked, settings, run, due, desk,
                   cycle, history>>

(* The ids a removal took out of a list, and those it left in neither.     *)
Dropping ==
    LET removed == (Ids(queue) \ Ids(queue')) \cup (Ids(active) \ Ids(active'))
        left == Ids(queue') \cup Ids(active')
    IN  /\ dropped' = dropped \cup removed
        /\ gone' = gone \cup (removed \ left)
        /\ overlapped' = overlapped \cup ((removed \ left) \cap Held)
        /\ UNCHANGED <<uploaded, served, retired, rearmed>>

Unasked(ids) == IF awaiting \in ids THEN NoId ELSE awaiting

SkipEntry(d, e) ==
    /\ desk[d].pc = "idle" /\ e \in queue
    /\ queue' = queue \ {e} /\ active' = active
    /\ Continue(d, queue \ {e}, Unasked({Id(e)}))
    /\ Dropping
    /\ UNCHANGED <<clock, enabled, settings, run, due, tagKnown, cycle>>

RemoveQueued(e) ==
    /\ e \in queue
    /\ queue' = queue \ {e} /\ active' = active
    /\ awaiting' = Unasked({Id(e)})
    /\ Dropping
    /\ UNCHANGED <<clock, enabled, asked, settings, run, due, tagKnown, desk, cycle>>

(* remove_active_file: with nothing left to monitor the monitor goes off.  *)
Without(S, id) == {e \in S : Id(e) # id}

StopsWhenEmpty(before, after) ==
    enabled' = (enabled /\ (after # {} \/ before = after))

RemoveActive(e) ==
    /\ e \in active
    /\ active' = active \ {e} /\ queue' = queue
    /\ StopsWhenEmpty(active, active \ {e})
    /\ Dropping
    /\ UNCHANGED <<clock, awaiting, asked, settings, run, due, tagKnown, desk, cycle>>

(* remove_by_country; said in the chat, an open question is asked anew.    *)
RemoveCountry(c) ==
    LET rest(S) == {e \in S : e.country # c}
        removed == Ids(queue \ rest(queue)) \cup Ids(active \ rest(active))
        aw == Unasked(removed)
    IN  /\ removed # {}
        /\ queue' = rest(queue) /\ active' = rest(active)
        /\ StopsWhenEmpty(active, rest(active))
        /\ awaiting' \in {aw} \cup (IF aw \in Ids(rest(queue)) THEN {}
                                   ELSE Ids(Untagged(rest(queue))))
        /\ Dropping
        /\ UNCHANGED <<clock, asked, settings, run, due, tagKnown, desk, cycle>>

ClearQueue ==
    /\ queue # {}
    /\ queue' = {} /\ active' = active /\ awaiting' = NoId
    /\ Dropping
    /\ UNCHANGED <<clock, enabled, asked, settings, run, due, tagKnown, desk, cycle>>

AnswerRuntime(d, length) ==
    /\ desk[d].pc = "idle" /\ asked # {}
    /\ settings' = [c \in Countries |->
           IF c \in asked THEN [settings[c] EXCEPT !.length = length] ELSE settings[c]]
    /\ asked' = {}
    /\ \/ /\ \E e \in Untagged(queue) : awaiting' = Id(e)
          /\ UNCHANGED desk
       \/ /\ Untagged(queue) = {}
          /\ desk' = IF queue = {} THEN desk
                     ELSE [desk EXCEPT ![d] = [Idle EXCEPT !.pc = "start"]]
          /\ UNCHANGED awaiting
    /\ UNCHANGED <<clock, queue, active, enabled, run, due, tagKnown, cycle, history>>

Stop ==
    /\ enabled
    /\ enabled' = FALSE
    /\ UNCHANGED <<clock, queue, active, awaiting, asked, settings, run, due, tagKnown,
                   desk, cycle, history>>

TurnOn ==
    /\ ~enabled
    /\ enabled' = TRUE
    /\ UNCHANGED <<clock, queue, active, awaiting, asked, settings, run, due, tagKnown,
                   desk, cycle, history>>

(* set_paused: resuming arms the country from now.                         *)
TogglePause(c) ==
    /\ c \in CountriesOf(queue \cup active)
    /\ settings' = [settings EXCEPT ![c].paused = ~@]
    /\ due' = IF settings[c].paused THEN [due EXCEPT ![c] = clock + Interval] ELSE due
    /\ UNCHANGED <<clock, queue, active, enabled, awaiting, asked, run, tagKnown, desk,
                   cycle, history>>

SetTiming(c) ==
    /\ c \in CountriesOf(queue \cup active)
    /\ \E t \in Timings :
         \/ t.start # Unset /\ settings' = [settings EXCEPT ![c].start = t.start]
         \/ t.stop # Keep /\ settings' = [settings EXCEPT ![c].stop = t.stop]
         \/ t.length # Keep /\ settings' = [settings EXCEPT ![c].length = t.length]
    /\ UNCHANGED <<clock, queue, active, enabled, awaiting, asked, run, due, tagKnown,
                   desk, cycle, history>>
-----------------------------------------------------------------------------
(* run_cycle *)

Started(c) == HasStarted(run[c], Start(c), clock)

(* due_countries: paused and waiting countries are passed over, one never  *)
(* armed is armed, one whose time has come is due and armed again.         *)
Looked(c) == c \in CountriesOf(active) /\ ~settings[c].paused /\ Started(c)
DueCountries == {c \in Countries : Looked(c) /\ due[c] # Unset /\ clock >= due[c]}
Armed(c) == Looked(c) /\ (due[c] = Unset \/ clock >= due[c])

CycleBegin(k, ready, arm) ==
    /\ cycle[k].pc = "idle" /\ active # {}
    /\ due' = [c \in Countries |-> IF c \in arm THEN clock + Interval ELSE due[c]]
    /\ cycle' = IF ready = {} THEN cycle
                ELSE [cycle EXCEPT ![k] =
                        [Resting EXCEPT !.pc = "wait",
                                        !.todo = {e \in active : e.country \in ready}]]
    /\ UNCHANGED <<clock, queue, active, enabled, awaiting, asked, settings, run,
                   tagKnown, desk, history>>

ScheduledCycle(k) ==
    /\ enabled
    /\ CycleBegin(k, DueCountries, {c \in Countries : Armed(c)})

\* Mutant: "Check now" overrides the start time.
ForcedCycle_Everything(k) == CycleBegin(k, CountriesOf(active), CountriesOf(active))

(* "Check now": every country that has started, whatever its timer.        *)
ForcedCycle(k) ==
    LET ready == {c \in CountriesOf(active) : Started(c)}
    IN  CycleBegin(k, ready, ready)

(* _add_after_wait: the list of active files is read once the cleanup was  *)
(* sent, and written back after the last add.                              *)
Waiting(S) == {e \in S : e.waiting # Unset}

\* Mutant: the list written back is what the cycle read at its beginning.
WaitRead_Stale(k) ==
    /\ cycle[k].pc = "wait"
    /\ cycle' = [cycle EXCEPT
           ![k].pc = IF Waiting(cycle[k].todo) = {} THEN "stock" ELSE "waitadd",
           ![k].list = IF Waiting(cycle[k].todo) = {} THEN {} ELSE cycle[k].todo]
    /\ UNCHANGED <<clock, rows, desk, history>>

WaitRead(k) ==
    /\ cycle[k].pc = "wait"
    /\ cycle' = [cycle EXCEPT
           ![k].pc = IF Waiting(cycle[k].todo) = {} THEN "stock" ELSE "waitadd",
           ![k].list = IF Waiting(cycle[k].todo) = {} THEN {} ELSE active]
    /\ UNCHANGED <<clock, rows, desk, history>>

\* Mutant: one accepted add takes the marker off every file.
Popped_All(S, id) == {[e EXCEPT !.waiting = Unset] : e \in S}

Popped(S, id) == {IF Id(e) = id THEN [e EXCEPT !.waiting = Unset] ELSE e : e \in S}

WaitAdded(k) ==
    /\ cycle[k].pc = "waitadd"
    /\ \E e \in Waiting(cycle[k].todo) :
         /\ run' = [run EXCEPT ![e.country] = Begun(clock, Unset)]
         /\ cycle' = [cycle EXCEPT ![k].list = Popped(@, Id(e)),
                                   ![k].todo = Popped(@, Id(e)),
                                   ![k].changed = @ \/ Id(e) \in Ids(cycle[k].list)]
         /\ served' = served \cup {Id(e)}
    /\ UNCHANGED <<clock, queue, active, enabled, awaiting, asked, settings, due,
                   tagKnown, desk, uploaded, dropped, gone, retired, overlapped,
                   rearmed>>

(* The adds that were not accepted stay for the next cycle.                *)
WaitSave(k) ==
    /\ cycle[k].pc = "waitadd"
    /\ active' = IF cycle[k].changed THEN cycle[k].list ELSE active
    /\ cycle' = [cycle EXCEPT ![k].pc = "stock", ![k].list = {},
                              ![k].changed = FALSE]
    /\ UNCHANGED <<clock, queue, enabled, awaiting, asked, settings, run, due, tagKnown,
                   desk, history>>

CycleStock(k) ==
    /\ cycle[k].pc = "stock"
    /\ \E empty \in SUBSET CountriesOf(cycle[k].todo) :
         LET refill == {e \in cycle[k].todo : e.country \in empty}
         IN  cycle' = [cycle EXCEPT
                ![k] = IF refill = {} THEN Resting
                       ELSE [Resting EXCEPT !.pc = "refill", !.todo = refill]]
    /\ UNCHANGED <<clock, rows, desk, history>>

Done(c) == Finished(run[c], Start(c), settings[c].stop,
                    IF settings[c].length = Unset THEN 0 ELSE settings[c].length,
                    MaxRefills, clock)

CyclePick(k) ==
    /\ cycle[k].pc = "refill"
    /\ \E e \in cycle[k].todo :
         cycle' = [cycle EXCEPT
             ![k].pc = IF Done(e.country) THEN "retire" ELSE "add",
             ![k].cur = e, ![k].todo = @ \ {e}]
    /\ UNCHANGED <<clock, rows, desk, history>>

CycleAdded(k) ==
    /\ cycle[k].pc = "add"
    /\ LET e == cycle[k].cur
       IN  /\ run' = [run EXCEPT ![e.country] = Refilled(@, clock)]
           /\ served' = served \cup {Id(e)}
    /\ cycle' = [cycle EXCEPT ![k].pc = "refill", ![k].cur = NoId]
    /\ UNCHANGED <<clock, queue, active, enabled, awaiting, asked, settings, due,
                   tagKnown, desk, uploaded, dropped, gone, retired, overlapped,
                   rearmed>>

(* _finish_country, its delete answered or not.                            *)
CycleRetire(k) ==
    /\ cycle[k].pc = "retire"
    /\ LET e == cycle[k].cur
       IN  /\ active' = Without(active, Id(e))
           /\ StopsWhenEmpty(active, Without(active, Id(e)))
           /\ run' = [run EXCEPT ![e.country] = NoRun]
           /\ retired' = retired \cup {Id(e)}
    /\ cycle' = [cycle EXCEPT ![k].pc = "refill", ![k].cur = NoId]
    /\ UNCHANGED <<clock, queue, awaiting, asked, settings, due, tagKnown, desk,
                   uploaded, served, dropped, gone, overlapped, rearmed>>

(* The loop is through, or an add was rejected and ended it.               *)
CycleEnd(k) ==
    /\ \/ cycle[k].pc = "refill" /\ cycle[k].todo = {}
       \/ cycle[k].pc = "add"
       \/ cycle[k].pc = "stock"
    /\ cycle' = [cycle EXCEPT ![k] = Resting]
    /\ UNCHANGED <<clock, rows, desk, history>>

Restart ==
    /\ \E d \in Desks : desk[d] # Idle \/ \E k \in Cyclers : cycle[k] # Resting
    /\ desk' = [d \in Desks |-> Idle]
    /\ cycle' = [k \in Cyclers |-> Resting]
    /\ UNCHANGED <<clock, rows, history>>
-----------------------------------------------------------------------------
(* What goes on by itself once ordered; uploads are bounded by Files.       *)
Step(d) ==
    \/ \E f \in Files : UploadBegin(d, f)
    \/ UploadEnd(d) \/ AfterChatUpload(d) \/ AfterPanelUpload(d)
    \/ StartBegin(d) \/ StartRefused(d) \/ StartStock(d) \/ StartAdded(d)
    \/ StartFails(d) \/ StartArm(d) \/ StartMerge(d) \/ StartClear(d)

CycleStep(k) ==
    \/ ScheduledCycle(k)
    \/ WaitRead(k) \/ WaitAdded(k) \/ WaitSave(k)
    \/ CycleStock(k) \/ CyclePick(k) \/ CycleAdded(k) \/ CycleRetire(k) \/ CycleEnd(k)

(* What the owner orders in the chat, and what he changes in the panel.     *)
Say(d) ==
    \/ Resume(d) \/ PressStart(d) \/ SayStart(d)
    \/ \E e \in queue : TagEntry(d, e) \/ SkipEntry(d, e)
    \/ \E length \in {0, RunLength} : AnswerRuntime(d, length)

Change ==
    \/ \E e \in queue : PanelTag(e) \/ RemoveQueued(e)
    \/ \E e \in active : RemoveActive(e)
    \/ \E c \in Countries : RemoveCountry(c) \/ TogglePause(c) \/ SetTiming(c)
    \/ ClearQueue \/ Stop \/ TurnOn

Tap ==
    /\ taps < MaxTaps
    /\ taps' = taps + 1
    /\ \/ \E d \in Desks : Say(d)
       \/ Change
       \/ \E k \in Cyclers : ForcedCycle(k)
       \/ Restart

Next ==
    \/ (\E d \in Desks : Step(d)) /\ UNCHANGED taps
    \/ (\E k \in Cyclers : CycleStep(k)) /\ UNCHANGED taps
    \/ Tick /\ UNCHANGED taps
    \/ Tap

Spec == Init /\ [][Next]_vars
-----------------------------------------------------------------------------
TypeOK ==
    /\ clock \in Nat
    /\ queue \subseteq Entries /\ active \subseteq Entries
    /\ enabled \in BOOLEAN
    /\ awaiting \in (Files \X Countries) \cup {NoId}
    /\ asked \subseteq Countries /\ tagKnown \subseteq Countries
    /\ settings \in [Countries -> [start : WallClock \cup {Unset, AtOnce},
                                   stop : WallClock \cup {Unset},
                                   length : Nat \cup {Unset}, paused : BOOLEAN]]
    /\ due \in [Countries -> Nat \cup {Unset}]
    /\ run \in [Countries -> Runs \cup {NoRun}]
    /\ desk \in [Desks -> Handlers]
    /\ cycle \in [Cyclers -> Passes]

(* "Every queued file needs a tag before starting": what runs has its tag, *)
(* whatever was uploaded, tagged or resumed while the start was under way. *)
OnlyTaggedRun == Untagged(active) = {}

(* A file that runs and no longer waits for its start time was accepted by *)
(* the target bot, or the bot had stock: a failed first add leaves the     *)
(* marker, for the next cycle.                                             *)
ActiveWasServed == \A e \in active : e.waiting = Unset => Id(e) \in served

(* The limit on refills, asked by finished_reason before each add, is      *)
(* overrun by no more than the cycles that may ask at once - unless the    *)
(* country was started anew while a cycle had it under way: the new run    *)
(* waits for its gate, and until then nothing is ever finished.            *)
RefillsBounded ==
    MaxRefills > 0 =>
        \A c \in Countries \ rearmed :
            run[c].refills <= MaxRefills + Cardinality(Cyclers) - 1

(* An upload is in one of the lists until the owner drops it, it finishes  *)
(* or a new file supersedes it - unless it was written while another       *)
(* operation held a list it was to write back, or resume threw the queue   *)
(* away.                                                                   *)
LossNeedsOverlap ==
    uploaded \subseteq Ids(queue) \cup Ids(active) \cup dropped \cup retired \cup overlapped

(* "Nothing happens before 21:00": while a cycle has a country under way,  *)
(* its run has begun or is over - with the same excuse.                    *)
NothingBeforeStart ==
    \A k \in Cyclers, c \in Countries \ rearmed :
        Handles(k, c) => run[c] = NoRun \/ HasStarted(run[c], Start(c), clock)

(* What the owner removed comes back only from a list that an operation    *)
(* held while he removed it.                                               *)
RemovalStands == (Ids(queue) \cup Ids(active)) \cap gone \subseteq overlapped
=============================================================================
