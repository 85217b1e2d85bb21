------------------------------ MODULE Autonomy ------------------------------
(***************************************************************************)
(* When a risky call may run without asking (app/security/autonomy.py).    *)
(*                                                                         *)
(* A call is a tool with its arguments, issued for a task.  Of the         *)
(* arguments a call keeps their identity, the shape the policy judges them *)
(* by (autonomy.signature), the kind of place their path lies in, and      *)
(* whether the owner's request names the action and its target             *)
(* (_explicitly_requested).                                                *)
(***************************************************************************)
EXTENDS Integers

CONSTANTS
    Calls,              \* the calls the model may decide on
    AutoApproveAfter,   \* AUTO_APPROVE_AFTER (3)
    DefaultLevel        \* settings.autonomy_level as the environment gives it

Levels == {"balanced", "high", "paranoid"}
Places == {"protected", "scratch", "other"}

Tasks  == {c.task : c \in Calls}
Shapes == {c.shape : c \in Calls}

ASSUME AutonomyAssumption ==
    /\ \A c \in Calls :
        /\ c.place \in Places
        /\ {c.named, c.gated} \subseteq BOOLEAN
    /\ AutoApproveAfter \in Nat \ {0}
    /\ DefaultLevel \in Levels

\* What is remembered of the owner's decisions about one shape; a row has
\* counted one decision at least, so there is none while both are 0.
Pattern    == [approved : Nat, rejected : Nat]
NewPattern == [approved |-> 0, rejected |-> 0]

\* Faulty variant: a refusal resets the approvals and is itself forgotten.
Recorded_RefusalForgotten(found, now, approve) ==
    IF approve THEN [now EXCEPT !.approved = found.approved + 1]
               ELSE [now EXCEPT !.approved = 0]

\* repo.record_approval_pattern: it writes the counters it changed, from the
\* values it found, over what the row holds now.
Recorded(found, now, approve) ==
    IF approve
    THEN [now EXCEPT !.approved = found.approved + 1]
    ELSE [approved |-> IF found.approved = 0 THEN now.approved ELSE 0,
          rejected |-> found.rejected + 1]

\* _learned_verdict: one refusal outweighs any number of approvals.
Trusted(p) == p.rejected = 0 /\ p.approved >= AutoApproveAfter

\* evaluate
MayAct(c, level, p) ==
    /\ level # "paranoid"
    /\ c.place # "protected"
    /\ level = "high" \/ c.named \/ c.place = "scratch" \/ Trusted(p)
=============================================================================
