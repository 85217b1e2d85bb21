--------------------------- MODULE MCConversation ---------------------------
(* Conversation after a first message has made a task, with one worker.     *)
EXTENDS Conversation, FiniteSets, TLC

CONSTANTS t1, m1

OnlyAt(S, x, value, others) == [e \in S |-> IF e = x THEN value ELSE others]
MCInit ==
    /\ session = [active |-> t1, upload |-> None, thread |-> Home]
    /\ status = OnlyAt(Tasks, t1, "PENDING", Absent)
    /\ request = OnlyAt(Tasks, t1, {m1}, {})
    /\ maker = OnlyAt(Tasks, t1, m1, None)
    /\ parent = [t \in Tasks |-> None]
    /\ run = [t \in Tasks |-> NoRun]
    /\ seen = [t \in Tasks |-> {}]
    /\ desk = OnlyAt(Messages, m1, Finished, Unsent)
    /\ takers = [u \in Uploads |-> {}]
    /\ events = 0
    /\ told = [m \in Messages |-> None]
    /\ unread = [t \in Tasks |-> {}]
    /\ overlapped = {}
    /\ uploaded = {} /\ forgone = {} /\ shared = {}
    /\ overtaken = {} /\ newest = t1 /\ parted = {} /\ forked = {}

MaxRuns == 1
MCNext == Next /\ Cardinality({t \in Tasks : ~InRun(t, "none")}') <= MaxRuns
MCSpec == MCInit /\ [][MCNext]_vars

Symmetry ==
    Permutations(Tasks \ {t1}) \cup Permutations(Messages \ {m1}) \cup Permutations(Uploads)
=============================================================================
