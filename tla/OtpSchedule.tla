----------------------------- MODULE OtpSchedule -----------------------------
(***************************************************************************)
(* The wall-clock arithmetic of src/app/automation/otp_schedule.py: when a *)
(* country of the OTP automation begins, and when it is done.              *)
(*                                                                         *)
(* Time is counted in ticks from midnight in Dubai; a day has Day of them  *)
(* and a wall-clock time "HH:MM" is one of 0 .. Day - 1.  Nothing here has *)
(* state: the automation applies these operators to its rows.              *)
(***************************************************************************)
EXTENDS Integers

CONSTANT Day   \* ticks in a day

ASSUME DayAssumption == Day \in Nat \ {0}

WallClock == 0 .. Day - 1

Unset == -1    \* no value stored
AtOnce == -2   \* START_NOW: begin immediately, chosen by the owner

(* A run: when it was armed (started_at and armed_at are the same instant: *)
(* nothing passes another), its gate and how often it was refilled.        *)
(* NoRun: no row.                                                          *)
Runs == [started : Nat, gate : WallClock \cup {Unset, AtOnce}, refills : Nat]
NoRun == [started |-> 0, gate |-> Unset, refills |-> -1]

IsNow(start) == start \in {Unset, AtOnce}

(* The next instant the wall clock shows c, strictly after an instant.     *)
NextOccurrence(c, after) ==
    LET today == (after \div Day) * Day + c
    IN  IF today <= after THEN today + Day ELSE today

(* has_started: the gate of the run decides; without a run the configured  *)
(* start time is measured from now, so it is always still to come.         *)
HasStarted(r, configured, now) ==
    IF r # NoRun
    THEN IsNow(r.gate) \/ now >= NextOccurrence(r.gate, r.started)
    ELSE IsNow(configured) \/ now >= NextOccurrence(configured, now)

EffectiveStart(r) ==
    IF IsNow(r.gate) THEN r.started ELSE NextOccurrence(r.gate, r.started)

StopTimePassed(stop, began, now) == now >= NextOccurrence(stop, began)

\* Mutant: the limit is taken as a number that may be exceeded.
Finished_OneMore(r, configured, stop, length, maxRefills, now) ==
    /\ r # NoRun
    /\ HasStarted(r, configured, now)
    /\ maxRefills > 0 /\ r.refills > maxRefills

(* finished_reason: a run that has begun is over when its refills, its     *)
(* stop time or its length say so.  0 means no limit.                      *)
Finished(r, configured, stop, length, maxRefills, now) ==
    /\ r # NoRun
    /\ HasStarted(r, configured, now)
    /\ \/ maxRefills > 0 /\ r.refills >= maxRefills
       \/ stop # Unset /\ StopTimePassed(stop, EffectiveStart(r), now)
       \/ length > 0 /\ now >= EffectiveStart(r) + length

(* begin_run and record_refill. *)
Begun(now, gate) ==
    [started |-> now, gate |-> gate, refills |-> 0]

Refilled(r, now) ==
    IF r = NoRun THEN [Begun(now, Unset) EXCEPT !.refills = 1]
                 ELSE [r EXCEPT !.refills = @ + 1]
=============================================================================
