----------------------------- MODULE EffectGate -----------------------------
(***************************************************************************)
(* What the executor promises the owner, without requests, patterns, desks *)
(* or places in the code: a call takes effect only while it is licensed    *)
(* and not known to have been performed, and knows afterwards that it was, *)
(* unless something came between the effect and its record.                *)
(***************************************************************************)
EXTENDS Autonomy

VARIABLES
    effects,   \* how often each call took effect
    excused,   \* how many of these effects were never recorded
    done,      \* calls recorded as performed
    open,      \* calls that took effect and are not recorded yet
    granted,   \* calls the owner has approved
    yes,       \* approving commands, per shape
    levels     \* autonomy levels that were in force

deeds    == <<effects, excused, done, open>>
licences == <<granted, yes, levels>>
vars     == <<deeds, licences>>

Init ==
    /\ effects = [c \in Calls |-> 0]
    /\ excused = [c \in Calls |-> 0]
    /\ done = {} /\ open = {}
    /\ granted = {}
    /\ yes = [s \in Shapes |-> 0]
    /\ levels = {DefaultLevel}

\* A risky call has its own approval or, outside protected places, the owner's
\* words, scratch space, a level that did not ask, or approvals of its kind.
Licensed(c) ==
    \/ ~c.gated \/ c \in granted
    \/ /\ c.place # "protected"
       /\ \/ c.named \/ c.place = "scratch" \/ "high" \in levels
          \/ yes[c.shape] >= AutoApproveAfter

TakesEffect(c) ==
    /\ Licensed(c)
    /\ c \notin done \cup open
    /\ effects' = [effects EXCEPT ![c] = @ + 1]
    /\ UNCHANGED <<done, licences>>

Perform(c) == TakesEffect(c) /\ open' = open \cup {c} /\ UNCHANGED excused

\* It takes effect and is reported failed.
Slip(c) ==
    /\ TakesEffect(c)
    /\ excused' = [excused EXCEPT ![c] = @ + 1]
    /\ UNCHANGED open

Record(c) ==
    /\ c \in open
    /\ done' = done \cup {c} /\ open' = open \ {c}
    /\ UNCHANGED <<effects, excused, licences>>

\* Effects that nobody is left to record.
Loses(cs) ==
    /\ open' = open \ cs
    /\ excused' = [c \in Calls |-> IF c \in cs THEN excused[c] + 1 ELSE excused[c]]
    /\ UNCHANGED <<effects, done, granted, yes>>

Lose(c) == c \in open /\ Loses({c}) /\ UNCHANGED levels
Restart == Loses(open) /\ levels' = levels \cup {DefaultLevel}

\* The owner answers a request for c, or sets the level.
Answer(c) ==
    /\ granted' \in {granted, granted \cup {c}}
    /\ yes' \in {yes, [yes EXCEPT ![c.shape] = @ + 1]}
    /\ UNCHANGED <<deeds, levels>>
SetLevel(l) == levels' = levels \cup {l} /\ UNCHANGED <<deeds, granted, yes>>

Next ==
    \/ \E c \in Calls :
            Perform(c) \/ Slip(c) \/ Record(c) \/ Lose(c) \/ Answer(c)
    \/ \E l \in Levels : SetLevel(l)
    \/ Restart

Spec == Init /\ [][Next]_vars
=============================================================================
