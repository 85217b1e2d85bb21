-------------------------- MODULE LLMManagerProofs --------------------------
(***************************************************************************)
(* What of LLMManager holds for every number of providers, keys, models,   *)
(* handlers and calls, and any number of failures.                         *)
(***************************************************************************)
EXTENDS LLMManager, TLAPS, FiniteSetTheorems, WellFoundedInduction

(* Some provider of a set comes before the others in the order of fallbacks, *)
(* and some provider after them.                                            *)
LEMMA Least ==
    ASSUME NEW S, NEW f \in [S -> Nat], S # {}
    PROVE  \E p \in S : \A q \in S : f[p] <= f[q]
<1> DEFINE T == {f[q] : q \in S}
<1>1. T \subseteq Nat /\ T # {}
  OBVIOUS
<1>2. PICK n \in T : \A i \in T : ~ (<<i, n>> \in OpToRel(<, Nat))
  BY <1>1, NatLessThanWellFounded, WFMin
<1>3. \A i \in T : ~ (i < n)
  BY <1>1, <1>2 DEF OpToRel
<1>4. PICK p \in S : n = f[p]
  OBVIOUS
<1>5. \A q \in S : f[p] <= f[q]
  BY <1>3, <1>4
<1> QED
  BY <1>5

LEMMA Ranked ==
    ASSUME NEW S \in SUBSET Providers, S # {}
    PROVE  First(S) \in S /\ Last(S) \in S
<1> DEFINE N == Cardinality(Providers)
<1>1. N \in Nat /\ Rank \in [Providers -> 0..N]
  BY ManagerAssumption, FS_CardinalityType
<1>2. \E p \in S : \A q \in S : Rank[p] <= Rank[q]
  <2> DEFINE f == [p \in S |-> Rank[p]]
  <2>1. f \in [S -> Nat]
    BY <1>1
  <2>2. \E p \in S : \A q \in S : f[p] <= f[q]
    BY <2>1, Least
  <2> QED
    BY <2>2
<1>3. \E p \in S : \A q \in S : Rank[q] <= Rank[p]
  <2> DEFINE f == [p \in S |-> N - Rank[p]]
  <2>1. f \in [S -> Nat]
    BY <1>1
  <2> HIDE DEF f
  <2>2. PICK p \in S : \A q \in S : f[p] <= f[q]
    BY <2>1, Least
  <2>3. \A q \in S : f[q] = N - Rank[q] /\ Rank[q] \in 0..N
    BY <1>1 DEF f
  <2>4. \A q \in S : Rank[q] <= Rank[p]
    <3> TAKE q \in S
    <3>1. N - Rank[p] <= N - Rank[q]
      BY <2>2, <2>3
    <3> QED
      BY <1>1, <2>3, <3>1
  <2> QED
    BY <2>4
<1> QED
  BY <1>2, <1>3 DEF First, Last

(* Which step of which command a handler can be at.                         *)
Shaped(h) ==
    /\ h.pc = "idle" => h.op = "none"
    /\ h.pc \in {"store", "cache"} => h.op \in {"setkey", "paste", "addllm"} /\ h.key \in Keys
    /\ h.pc \in {"erase", "uncache"} => h.op \in {"delkey", "rmllm"}
    /\ h.pc = "register" => h.op \in {"addllm", "rmllm"}
    /\ h.op \in {"addllm", "rmllm"} => h.p \in Names
    /\ h.op = "rmllm" => h.pc \in {"erase", "uncache", "register"}
    /\ h.op = "paste" => h.p \in Catalogue
Shapes == \A d \in Desks : Shaped(desk[d])

(* What a handler holds between two commands has its type.                  *)
LEMMA IdleTyped == NoChoice \in Choice /\ Idle \in Desk
<1>1. NoChoice \in Choice
  BY DEF NoChoice, Choice
<1> QED
  BY <1>1 DEF Idle, Desk

(* A handler that takes a command, goes on or is done keeps the types.      *)
LEMMA DeskTaken ==
    ASSUME TypeOK, NEW d \in Desks, NEW p \in Providers, NEW k \in Keys \cup {None},
           NEW pc \in {"store", "erase", "register"},
           NEW op \in {"setkey", "delkey", "paste", "addllm", "rmllm"},
           AtWork(d, pc, op, p, k)
    PROVE  DesksTyped'
<1> DEFINE h == [Idle EXCEPT !.pc = pc, !.op = op, !.p = p, !.key = k]
<1>1. h \in Desk /\ h.p = p
  BY IdleTyped DEF Idle, Desk
<1>2. desk' = [desk EXCEPT ![d] = h]
  BY DEF AtWork
<1> HIDE DEF h
<1> QED
  BY <1>1, <1>2 DEF TypeOK, DesksTyped

LEMMA DeskGoesOn ==
    ASSUME TypeOK, NEW d \in Desks, desk[d].pc # "idle",
           \/ IsDone(d)
           \/ \E pc \in {"cache", "uncache", "verify", "register", "check"} : GoesTo(d, pc)
    PROVE  DesksTyped'
<1>1. CASE IsDone(d)
  BY <1>1, IdleTyped DEF IsDone, TypeOK, DesksTyped, Idle
<1>2. ASSUME NEW pc \in {"cache", "uncache", "verify", "register", "check"}, GoesTo(d, pc)
      PROVE  DesksTyped'
  <2>1. desk[d] \in Desk /\ desk[d].p \in Providers
    BY DEF TypeOK, DesksTyped
  <2>2. [desk[d] EXCEPT !.pc = pc] \in Desk /\ [desk[d] EXCEPT !.pc = pc].p = desk[d].p
    BY <2>1 DEF Desk
  <2> QED
    BY <1>2, <2>1, <2>2 DEF GoesTo, TypeOK, DesksTyped
<1> QED
  BY <1>1, <1>2

LEMMA DeskSelects ==
    ASSUME TypeOK, NEW d \in Desks, NEW p \in Providers, NEW m \in Models \cup {None},
           Select(d, p, m)
    PROVE  DesksTyped'
<1> DEFINE h == [Idle EXCEPT !.pc = "save", !.op = "switch", !.p = p, !.last = TRUE,
                             !.saved = Captured(p, m)]
<1>1. Captured(p, m) \in Choice
  BY DEF Captured, Overridden, Choice, TypeOK
<1>2. h \in Desk /\ h.p = p
  BY <1>1, IdleTyped DEF Idle, Desk
<1>3. \A e \in Desks : [desk[e] EXCEPT !.last = FALSE] \in Desk
                       /\ [desk[e] EXCEPT !.last = FALSE].pc = desk[e].pc
                       /\ [desk[e] EXCEPT !.last = FALSE].p = desk[e].p
  BY ZenonT(60) DEF TypeOK, DesksTyped, Desk
<1>4. desk' = [e \in Desks |-> IF e = d THEN h ELSE [desk[e] EXCEPT !.last = FALSE]]
  BY DEF Select
<1> HIDE DEF h
<1> QED
  BY <1>2, <1>3, <1>4 DEF TypeOK, DesksTyped

(* What a handler's step makes of it; the others stay as they are, but for  *)
(* which of them has the last selection.                                    *)
Stay(d) == \A e \in Desks : e # d => desk'[e] = desk[e]

LEMMA MoveTakes ==
    ASSUME TypeOK, NEW d \in Desks, NEW pc, NEW op, NEW p, NEW k, AtWork(d, pc, op, p, k)
    PROVE  /\ desk'[d].pc = pc /\ desk'[d].op = op /\ desk'[d].p = p /\ desk'[d].key = k
           /\ ~desk'[d].last
           /\ Stay(d)
BY DEF AtWork, Idle, Stay, TypeOK, DesksTyped

LEMMA MoveGoesOn ==
    ASSUME TypeOK, NEW d \in Desks, NEW pc, GoesTo(d, pc)
    PROVE  /\ desk'[d].pc = pc /\ desk'[d].op = desk[d].op /\ desk'[d].p = desk[d].p
           /\ desk'[d].key = desk[d].key /\ desk'[d].last = desk[d].last
           /\ desk'[d].saved = desk[d].saved
           /\ Stay(d)
BY DEF GoesTo, Stay, TypeOK, DesksTyped, Desk

LEMMA MoveEnds ==
    ASSUME TypeOK, NEW d \in Desks, IsDone(d)
    PROVE  /\ desk'[d].pc = "idle" /\ desk'[d].op = "none" /\ ~desk'[d].last
           /\ Stay(d)
BY DEF IsDone, Idle, Stay, TypeOK, DesksTyped

Others(d) ==
    \A e \in Desks : e # d =>
        /\ desk'[e].pc = desk[e].pc /\ desk'[e].op = desk[e].op /\ desk'[e].p = desk[e].p
        /\ desk'[e].key = desk[e].key /\ ~desk'[e].last

LEMMA MoveSelects ==
    ASSUME TypeOK, NEW d \in Desks, NEW p, NEW m, Select(d, p, m)
    PROVE  /\ desk'[d].pc = "save" /\ desk'[d].op = "switch" /\ desk'[d].p = p /\ desk'[d].last
           /\ desk'[d].saved = Captured(p, m)
           /\ Others(d)
           /\ active' = p /\ override' = Overridden(p, m)
           /\ clients' = Dropped(p) /\ crossed' = crossed \ {p}
<1>1. desk'[d] = [Idle EXCEPT !.pc = "save", !.op = "switch", !.p = p, !.last = TRUE,
                              !.saved = Captured(p, m)]
  BY DEF Select
<1>2. \A e \in Desks : e # d => desk[e] \in Desk /\ desk'[e] = [desk[e] EXCEPT !.last = FALSE]
  BY DEF Select, TypeOK, DesksTyped
<1>3. ASSUME NEW e \in Desks, e # d
      PROVE  /\ desk'[e].pc = desk[e].pc /\ desk'[e].op = desk[e].op /\ desk'[e].p = desk[e].p
             /\ desk'[e].key = desk[e].key /\ ~desk'[e].last
  BY <1>2, <1>3 DEF Desk
<1> QED
  BY <1>1, <1>3 DEF Others, Select, Idle

LEMMA MoveRemoves ==
    ASSUME TypeOK, NEW d \in Desks, UncacheRemoved(d)
    PROVE  /\ desk[d].pc = "uncache" /\ desk[d].op = "rmllm"
           /\ desk'[d].pc = "register" /\ desk'[d].op = "rmllm" /\ desk'[d].p = desk[d].p
           /\ desk'[d].key = desk[d].key /\ desk'[d].last = desk[d].last
           /\ desk'[d].saved = desk[d].saved
           /\ \/ /\ active = desk[d].p /\ active' = None
                 /\ unsaved' = unsaved \cup {"choice"} /\ Others(d)
              \/ active' = active /\ unsaved' = unsaved /\ Stay(d)
           /\ cache' = [cache EXCEPT ![desk[d].p] = None]
           /\ crossed' = IF Buildable(desk[d].p) THEN crossed \cup {desk[d].p} ELSE crossed
           /\ UNCHANGED <<phase, credentials, choice, registry, override, custom, clients>>
<1>0. d \in Desks /\ \A e \in Desks : desk[e] \in Desk
  BY DEF TypeOK, DesksTyped
<1>3. /\ desk[d].pc = "uncache" /\ desk[d].op = "rmllm"
      /\ cache' = [cache EXCEPT ![desk[d].p] = None]
      /\ crossed' = IF Buildable(desk[d].p) THEN crossed \cup {desk[d].p} ELSE crossed
      /\ UNCHANGED <<phase, credentials, choice, registry, override, custom, clients>>
  BY DEF UncacheRemoved, At, rows
<1>1. CASE active = desk[d].p
  <2>1. /\ desk' = [e \in Desks |-> IF e = d THEN [desk[e] EXCEPT !.pc = "register"]
                                 ELSE [desk[e] EXCEPT !.last = FALSE]]
        /\ active' = None /\ unsaved' = unsaved \cup {"choice"}
    BY <1>1 DEF UncacheRemoved, At
  <2>2. desk'[d] = [desk[d] EXCEPT !.pc = "register"]
    BY <2>1
  <2>3. \A e \in Desks : e # d => desk'[e] = [desk[e] EXCEPT !.last = FALSE]
    BY <2>1
  <2>4. Others(d)
    BY ZenonT(60), <1>0, <2>3 DEF Others, Desk
  <2> QED
    BY <1>0, <1>1, <1>3, <2>1, <2>2, <2>4 DEF Desk
<1>2. CASE active # desk[d].p
  BY <1>2, <1>3, MoveGoesOn DEF UncacheRemoved
<1> QED
  BY <1>1, <1>2

(* A key that is written while another handler has it in flight is excused; *)
(* the rest of what is excused stays so.                                    *)
LEMMA Writes ==
    ASSUME TypeOK, NEW d \in Desks, desk[d].pc # "idle", KeyWritten(d)
    PROVE  /\ desk[d].p \in Providers /\ desk[d].p \notin {"choice", "registry"}
           /\ \A x : x # desk[d].p => (x \in unsaved' <=> x \in unsaved)
           /\ desk[d].p \notin unsaved' =>
                  \A e \in Desks : e # d => desk[e].p # desk[d].p \/ desk[e].pc \notin {"cache", "uncache"}
<1>1. desk[d].p \in Providers
  BY DEF TypeOK, DesksTyped
<1>2. desk[d].p \notin {"choice", "registry"}
  BY <1>1, ManagerAssumption
<1> QED
  BY <1>1, <1>2 DEF KeyWritten, InFlight

(* A client built now is as it should be.                                   *)
LEMMA Builds ==
    ASSUME TypeOK, ClientsCurrent, NEW p \in Providers, clients[p] # None \/ Buildable(p),
           clients' = WithClient(p), UNCHANGED <<cache, selection, custom, crossed>>
    PROVE  ClientsCurrent'
<1>1. clients' = IF clients[p] = None
                   THEN [clients EXCEPT ![p] = [key |-> cache[p], model |-> override[p]]]
                   ELSE clients
  BY DEF WithClient
<1>2. UNCHANGED <<cache, override, custom, crossed>>
  BY DEF selection
<1>3. clients \in [Providers -> Client \cup {None}]
  BY DEF TypeOK
<1> QED
  BY <1>1, <1>2, <1>3 DEF ClientsCurrent, Buildable

(* A failed call keeps the types, however long the pause it leads to.       *)
LEMMA CallFails ==
    ASSUME TypeOK, NEW c \in Chats, NEW p \in Providers, NEW kind \in Kinds,
           NEW rest \in SUBSET Providers, Fails(c, p, kind, rest)
    PROVE  CallsTyped'
<1>1. strikes[p] \in 0..(FloatLimit + 1) /\ FloatLimit \in Nat /\ MaxCooldown \in Nat
  BY ManagerAssumption DEF TypeOK, CallsTyped
<1>2. strikes' \in [Providers -> 0..(FloatLimit + 1)]
  BY <1>1 DEF Fails, LeastOf, TypeOK, CallsTyped
<1>3. cooldown' \in [Providers -> {n \in Int : n <= MaxCooldown}]
  <2>1. BaseCooldown[kind] * 2 ^ strikes[p] \in Int
    <3>1. BaseCooldown[kind] \in Int /\ 2 ^ strikes[p] \in Int
      BY <1>1, ManagerAssumption
    <3> QED
      BY <3>1
  <2>2. LeastOf(BaseCooldown[kind] * 2 ^ strikes[p], MaxCooldown) \in {n \in Int : n <= MaxCooldown}
    BY <1>1, <2>1 DEF LeastOf
  <2> QED
    BY <2>2 DEF Fails, TypeOK, CallsTyped
<1>4. \A i \in Chats : chat[i] \in Chat
  BY DEF TypeOK, CallsTyped
<1>5. PICK h \in Chat : /\ chat' = [chat EXCEPT ![c] = h]
                        /\ h.pc = "waiting" => h.at \in Providers
                        /\ h.pc = "next" => h.left # {}
  <2>1. CASE strikes[p] < FloatLimit /\ rest = {}
    <3>1. chat' = [chat EXCEPT ![c] = Quiet]
      BY <1>1, <2>1 DEF Fails
    <3>2. Quiet \in Chat /\ Quiet.pc = "idle"
      BY DEF Quiet, Chat
    <3> QED
      BY <3>1, <3>2
  <2>3. CASE strikes[p] >= FloatLimit
    <3>1. chat' = [chat EXCEPT ![c] = [Quiet EXCEPT !.pc = "broken", !.left = rest]]
      BY <1>1, <2>3 DEF Fails
    <3>2. /\ [Quiet EXCEPT !.pc = "broken", !.left = rest] \in Chat
          /\ [Quiet EXCEPT !.pc = "broken", !.left = rest].pc = "broken"
      BY DEF Quiet, Chat
    <3> QED
      BY <3>1, <3>2
  <2>2. CASE strikes[p] < FloatLimit /\ rest # {}
    <3>1. [chat[c] EXCEPT !.pc = "next", !.at = None, !.left = rest] \in Chat
      BY <1>4 DEF Chat
    <3>2. chat' = [chat EXCEPT ![c] = [chat[c] EXCEPT !.pc = "next", !.at = None, !.left = rest]]
      BY <1>1, <2>2 DEF Fails, TypeOK, CallsTyped
    <3>3. /\ [chat[c] EXCEPT !.pc = "next", !.at = None, !.left = rest].pc = "next"
          /\ [chat[c] EXCEPT !.pc = "next", !.at = None, !.left = rest].left = rest
      BY <1>4 DEF Chat
    <3> QED
      BY <2>2, <3>1, <3>2, <3>3
  <2> QED
    BY <1>1, <2>1, <2>2, <2>3
<1> QED
  BY <1>2, <1>3, <1>5 DEF TypeOK, CallsTyped


(* A step of Next keeps TypeOK.                                              *)
LEMMA TypeStep ==
    ASSUME Shapes, TypeOK, Next
    PROVE  TypeOK'
<1>1. ASSUME NEW d \in Desks, NEW p \in Providers, NEW k \in Keys, SetKey(d, p, k)  PROVE TypeOK'
  <2>1. DesksTyped'
    BY <1>1, DeskTaken DEF SetKey, Take
  <2>2. (orders \in 0..MaxOrders /\ faults \in 0..MaxFaults)'
    BY <1>1, ManagerAssumption DEF SetKey, Take, Usable, AtWork, rows, vault, selection,
      pauses, history, Providers, Idle, NoChoice, TypeOK, Choice, Entry, Client, DesksTyped,
      CallsTyped, Desk, Chat
  <2>3. UNCHANGED <<phase, credentials, choice, registry, cache, reread, active, override,
  custom, clients, cooldown, strikes, chat, unsaved, crossed>>
    BY <1>1 DEF SetKey, Take, AtWork, rows, vault, selection, pauses, history
  <2> QED
    BY <2>1, <2>2, <2>3 DEF TypeOK, CallsTyped
<1>2. ASSUME NEW d \in Desks, NEW p \in Providers, DeleteKey(d, p)  PROVE TypeOK'
  <2>1. DesksTyped'
    BY <1>2, DeskTaken DEF DeleteKey, Take
  <2>2. (orders \in 0..MaxOrders /\ faults \in 0..MaxFaults)'
    BY <1>2, ManagerAssumption DEF DeleteKey, Take, AtWork, rows, vault, selection, pauses,
      history, Idle, NoChoice, Providers, TypeOK, Choice, Entry, Client, DesksTyped,
      CallsTyped, Desk, Chat
  <2>3. UNCHANGED <<phase, credentials, choice, registry, cache, reread, active, override,
  custom, clients, cooldown, strikes, chat, unsaved, crossed>>
    BY <1>2 DEF DeleteKey, Take, AtWork, rows, vault, selection, pauses, history
  <2> QED
    BY <2>1, <2>2, <2>3 DEF TypeOK, CallsTyped
<1>3. ASSUME NEW d \in Desks, NEW p \in Providers, NEW k \in Keys, Paste(d, p, k)  PROVE TypeOK'
  <2>1. DesksTyped'
    BY <1>3, DeskTaken DEF Paste, Take
  <2>2. (orders \in 0..MaxOrders /\ faults \in 0..MaxFaults)'
    BY <1>3, ManagerAssumption DEF Paste, Take, AtWork, rows, vault, selection, pauses,
      history, Idle, NoChoice, Providers, TypeOK, Choice, Entry, Client, DesksTyped,
      CallsTyped, Desk, Chat
  <2>3. UNCHANGED <<phase, credentials, choice, registry, cache, reread, active, override,
  custom, clients, cooldown, strikes, chat, unsaved, crossed>>
    BY <1>3 DEF Paste, Take, AtWork, rows, vault, selection, pauses, history
  <2> QED
    BY <2>1, <2>2, <2>3 DEF TypeOK, CallsTyped
<1>4. ASSUME NEW d \in Desks, NEW p \in Providers, NEW k \in Keys, AddWithKey(d, p, k)  PROVE TypeOK'
  <2>1. DesksTyped'
    BY <1>4, DeskTaken DEF AddWithKey, Take
  <2>2. (orders \in 0..MaxOrders /\ faults \in 0..MaxFaults)'
    BY <1>4, ManagerAssumption DEF AddWithKey, Take, AtWork, rows, vault, selection, pauses,
      history, Idle, NoChoice, Providers, TypeOK, Choice, Entry, Client, DesksTyped,
      CallsTyped, Desk, Chat
  <2>3. UNCHANGED <<phase, credentials, choice, registry, cache, reread, active, override,
  custom, clients, cooldown, strikes, chat, unsaved, crossed>>
    BY <1>4 DEF AddWithKey, Take, AtWork, rows, vault, selection, pauses, history
  <2> QED
    BY <2>1, <2>2, <2>3 DEF TypeOK, CallsTyped
<1>5. ASSUME NEW d \in Desks, NEW p \in Providers, AddWithoutKey(d, p)  PROVE TypeOK'
  <2>1. ({registry, custom} \subseteq [Providers -> Entry])'
    BY <1>5 DEF AddWithoutKey, Take, Dropped, AtWork, rows, vault, selection, pauses, Idle,
      NoChoice, Providers, TypeOK, Choice, Entry, Client, DesksTyped, CallsTyped, Desk, Chat
  <2>2. (\A q \in Providers \ Names : registry[q] = "absent" /\ custom[q] = "absent")'
    BY <1>5 DEF AddWithoutKey, Take, Dropped, AtWork, rows, vault, selection, pauses, Idle,
      NoChoice, Providers, TypeOK, Choice, Entry, Client, DesksTyped, CallsTyped, Desk, Chat
  <2>3. (clients \in [Providers -> Client \cup {None}])'
    BY <1>5 DEF AddWithoutKey, Take, Dropped, AtWork, rows, vault, selection, pauses, Idle,
      NoChoice, Providers, TypeOK, Choice, Entry, Client, DesksTyped, CallsTyped, Desk, Chat
  <2>4. DesksTyped'
    BY <1>5, DeskTaken DEF AddWithoutKey, Take
  <2>5. (orders \in 0..MaxOrders /\ faults \in 0..MaxFaults)'
    BY <1>5, ManagerAssumption DEF AddWithoutKey, Take, Dropped, AtWork, rows, vault,
      selection, pauses, Idle, NoChoice, Providers, TypeOK, Choice, Entry, Client, DesksTyped,
      CallsTyped, Desk, Chat
  <2>6. (crossed \subseteq Providers)'
    BY <1>5 DEF AddWithoutKey, Take, Dropped, AtWork, rows, vault, selection, pauses, Idle,
      NoChoice, Providers, TypeOK, Choice, Entry, Client, DesksTyped, CallsTyped, Desk, Chat
  <2>7. UNCHANGED <<phase, credentials, choice, cache, reread, active, override, cooldown,
  strikes, chat, unsaved>>
    BY <1>5 DEF AddWithoutKey, Take, AtWork, rows, vault, selection, pauses
  <2> QED
    BY <2>1, <2>2, <2>3, <2>4, <2>5, <2>6, <2>7 DEF TypeOK, CallsTyped
<1>6. ASSUME NEW d \in Desks, NEW p \in Providers, RemoveLLM(d, p)  PROVE TypeOK'
  <2>1. ({registry, custom} \subseteq [Providers -> Entry])'
    BY <1>6 DEF RemoveLLM, Take, Dropped, AtWork, rows, vault, selection, pauses, Idle,
      NoChoice, Providers, TypeOK, Choice, Entry, Client, DesksTyped, CallsTyped, Desk, Chat
  <2>2. (\A q \in Providers \ Names : registry[q] = "absent" /\ custom[q] = "absent")'
    BY <1>6 DEF RemoveLLM, Take, Dropped, AtWork, rows, vault, selection, pauses, Idle,
      NoChoice, Providers, TypeOK, Choice, Entry, Client, DesksTyped, CallsTyped, Desk, Chat
  <2>3. (clients \in [Providers -> Client \cup {None}])'
    BY <1>6 DEF RemoveLLM, Take, Dropped, AtWork, rows, vault, selection, pauses, Idle,
      NoChoice, Providers, TypeOK, Choice, Entry, Client, DesksTyped, CallsTyped, Desk, Chat
  <2>4. DesksTyped'
    BY <1>6, DeskTaken DEF RemoveLLM, Take
  <2>5. (orders \in 0..MaxOrders /\ faults \in 0..MaxFaults)'
    BY <1>6, ManagerAssumption DEF RemoveLLM, Take, Dropped, AtWork, rows, vault, selection,
      pauses, Idle, NoChoice, Providers, TypeOK, Choice, Entry, Client, DesksTyped, CallsTyped,
      Desk, Chat
  <2>6. (crossed \subseteq Providers)'
    BY <1>6 DEF RemoveLLM, Take, Dropped, AtWork, rows, vault, selection, pauses, Idle,
      NoChoice, Providers, TypeOK, Choice, Entry, Client, DesksTyped, CallsTyped, Desk, Chat
  <2>7. UNCHANGED <<phase, credentials, choice, cache, reread, active, override, cooldown,
  strikes, chat, unsaved>>
    BY <1>6 DEF RemoveLLM, Take, AtWork, rows, vault, selection, pauses
  <2> QED
    BY <2>1, <2>2, <2>3, <2>4, <2>5, <2>6, <2>7 DEF TypeOK, CallsTyped
<1>7. ASSUME NEW d \in Desks, NEW p \in Providers, NEW m \in Models \cup {None}, Switch(d, p, m)  PROVE TypeOK'
  <2>1. (active \in Providers \cup {None})'
    BY <1>7 DEF Switch, Take, Usable, Select, rows, vault, pauses, Providers, Overridden,
      Dropped, Idle, Captured, NoChoice, TypeOK, Choice, Entry, Client, DesksTyped, CallsTyped,
      Desk, Chat
  <2>2. (override \in [Providers -> Models \cup {None}])'
    BY <1>7 DEF Switch, Take, Usable, Select, rows, vault, pauses, Providers, Overridden,
      Dropped, Idle, Captured, NoChoice, TypeOK, Choice, Entry, Client, DesksTyped, CallsTyped,
      Desk, Chat
  <2>3. (clients \in [Providers -> Client \cup {None}])'
    BY <1>7 DEF Switch, Take, Usable, Select, rows, vault, pauses, Providers, Overridden,
      Dropped, Idle, Captured, NoChoice, TypeOK, Choice, Entry, Client, DesksTyped, CallsTyped,
      Desk, Chat
  <2>4. DesksTyped'
    BY <1>7, DeskSelects DEF Switch
  <2>5. (orders \in 0..MaxOrders /\ faults \in 0..MaxFaults)'
    BY <1>7, ManagerAssumption DEF Switch, Take, Usable, Select, rows, vault, pauses,
      Providers, Overridden, Dropped, Idle, Captured, NoChoice, TypeOK, Choice, Entry, Client,
      DesksTyped, CallsTyped, Desk, Chat
  <2>6. (crossed \subseteq Providers)'
    BY <1>7 DEF Switch, Take, Usable, Select, rows, vault, pauses, Providers, Overridden,
      Dropped, Idle, Captured, NoChoice, TypeOK, Choice, Entry, Client, DesksTyped, CallsTyped,
      Desk, Chat
  <2>7. UNCHANGED <<phase, credentials, choice, registry, cache, reread, custom, cooldown,
  strikes, chat, unsaved>>
    BY <1>7 DEF Switch, Take, Select, rows, vault, pauses
  <2> QED
    BY <2>1, <2>2, <2>3, <2>4, <2>5, <2>6, <2>7 DEF TypeOK, CallsTyped
<1>8. ASSUME NEW d \in Desks, StoreKey(d)  PROVE TypeOK'
  <2>1. ({credentials, cache} \subseteq [Providers -> Keys \cup {None}])'
    BY <1>8 DEF StoreKey, At, KeyWritten, GoesTo, vault, selection, pauses, InFlight, TypeOK,
      Providers, Choice, Entry, Client, DesksTyped, CallsTyped, Desk, Chat
  <2>2. DesksTyped'
    BY <1>8, DeskGoesOn DEF StoreKey, At
  <2>3. (unsaved \subseteq {"choice", "registry"} \cup Providers)'
    BY <1>8 DEF StoreKey, At, KeyWritten, GoesTo, vault, selection, pauses, InFlight, TypeOK,
      Providers, Choice, Entry, Client, DesksTyped, CallsTyped, Desk, Chat
  <2>4. UNCHANGED <<phase, choice, registry, reread, active, override, custom, clients,
  cooldown, strikes, chat, orders, faults, crossed>>
    BY <1>8 DEF StoreKey, At, KeyWritten, GoesTo, vault, selection, pauses
  <2> QED
    BY <2>1, <2>2, <2>3, <2>4 DEF TypeOK, CallsTyped
<1>9. ASSUME NEW d \in Desks, EraseKey(d)  PROVE TypeOK'
  <2>1. ({credentials, cache} \subseteq [Providers -> Keys \cup {None}])'
    BY <1>9 DEF EraseKey, At, Erased, KeyWritten, GoesTo, vault, selection, pauses, InFlight,
      TypeOK, Providers, Choice, Entry, Client, DesksTyped, CallsTyped, Desk, Chat
  <2>2. DesksTyped'
    BY <1>9, DeskGoesOn DEF EraseKey, At
  <2>3. (unsaved \subseteq {"choice", "registry"} \cup Providers)'
    BY <1>9 DEF EraseKey, At, Erased, KeyWritten, GoesTo, vault, selection, pauses, InFlight,
      TypeOK, Providers, Choice, Entry, Client, DesksTyped, CallsTyped, Desk, Chat
  <2>4. UNCHANGED <<phase, choice, registry, reread, active, override, custom, clients,
  cooldown, strikes, chat, orders, faults, crossed>>
    BY <1>9 DEF EraseKey, At, KeyWritten, GoesTo, vault, selection, pauses
  <2> QED
    BY <2>1, <2>2, <2>3, <2>4 DEF TypeOK, CallsTyped
<1>10. ASSUME NEW d \in Desks, CacheKey(d)  PROVE TypeOK'
  <2>1. ({credentials, cache} \subseteq [Providers -> Keys \cup {None}])'
    BY <1>10 DEF CacheKey, At, Dropped, GoesTo, rows, selection, pauses, TypeOK, Providers,
      Choice, Entry, Client, DesksTyped, CallsTyped, Desk, Chat
  <2>2. ({registry, custom} \subseteq [Providers -> Entry])'
    BY <1>10 DEF CacheKey, At, Dropped, GoesTo, rows, selection, pauses, Shapes, TypeOK,
      Shaped, Providers, Choice, Entry, Client, DesksTyped, CallsTyped, Desk, Chat
  <2>3. (\A q \in Providers \ Names : registry[q] = "absent" /\ custom[q] = "absent")'
    BY <1>10 DEF CacheKey, At, Dropped, GoesTo, rows, selection, pauses, Shapes, TypeOK,
      Shaped, Providers, Choice, Entry, Client, DesksTyped, CallsTyped, Desk, Chat
  <2>4. (clients \in [Providers -> Client \cup {None}])'
    BY <1>10, ManagerAssumption DEF CacheKey, At, Dropped, GoesTo, rows, selection, pauses,
      TypeOK, Providers, Choice, Entry, Client, DesksTyped, CallsTyped, Desk, Chat
  <2>5. DesksTyped'
    BY <1>10, DeskGoesOn DEF CacheKey, At
  <2>6. (crossed \subseteq Providers)'
    BY <1>10 DEF CacheKey, At, Dropped, GoesTo, rows, selection, pauses, TypeOK, Providers,
      Choice, Entry, Client, DesksTyped, CallsTyped, Desk, Chat
  <2>7. UNCHANGED <<phase, choice, reread, active, override, cooldown, strikes, chat, orders,
  faults, unsaved>>
    BY <1>10 DEF CacheKey, At, GoesTo, rows, selection, pauses
  <2> QED
    BY <2>1, <2>2, <2>3, <2>4, <2>5, <2>6, <2>7 DEF TypeOK, CallsTyped
<1>11. ASSUME NEW d \in Desks, UncacheDeleted(d)  PROVE TypeOK'
  <2>1. ({credentials, cache} \subseteq [Providers -> Keys \cup {None}])'
    BY <1>11 DEF UncacheDeleted, At, Dropped, IsDone, rows, selection, pauses, Idle, NoChoice,
      Providers, TypeOK, Choice, Entry, Client, DesksTyped, CallsTyped, Desk, Chat
  <2>2. (clients \in [Providers -> Client \cup {None}])'
    BY <1>11 DEF UncacheDeleted, At, Dropped, IsDone, rows, selection, pauses, Idle, NoChoice,
      Providers, TypeOK, Choice, Entry, Client, DesksTyped, CallsTyped, Desk, Chat
  <2>3. DesksTyped'
    BY <1>11, DeskGoesOn DEF UncacheDeleted, At
  <2>4. (crossed \subseteq Providers)'
    BY <1>11 DEF UncacheDeleted, At, Dropped, IsDone, rows, selection, pauses, Idle, NoChoice,
      Providers, TypeOK, Choice, Entry, Client, DesksTyped, CallsTyped, Desk, Chat
  <2>5. UNCHANGED <<phase, choice, registry, reread, active, override, custom, cooldown,
  strikes, chat, orders, faults, unsaved>>
    BY <1>11 DEF UncacheDeleted, At, IsDone, rows, selection, pauses
  <2> QED
    BY <2>1, <2>2, <2>3, <2>4, <2>5 DEF TypeOK, CallsTyped
<1>12. ASSUME NEW d \in Desks, UncacheRemoved(d)  PROVE TypeOK'
  <2>1. ({credentials, cache} \subseteq [Providers -> Keys \cup {None}])'
    BY <1>12 DEF UncacheRemoved, At, Buildable, GoesTo, rows, pauses, TypeOK, Providers,
      Choice, Entry, Client, DesksTyped, CallsTyped, Desk, Chat
  <2>2. (active \in Providers \cup {None})'
    BY <1>12 DEF UncacheRemoved, At, Buildable, GoesTo, rows, pauses, TypeOK, Providers,
      Choice, Entry, Client, DesksTyped, CallsTyped, Desk, Chat
  <2>3. DesksTyped'
    <3>1. CASE active = desk[d].p
      <4>1. DesksTyped /\ desk[d].pc # "idle"
        BY <1>12 DEF UncacheRemoved, At, TypeOK
      <4>2. \A e \in Desks : [desk[e] EXCEPT !.last = FALSE] \in Desk
                             /\ [desk[e] EXCEPT !.pc = "register"] \in Desk
        BY <4>1 DEF DesksTyped, Desk
      <4>3. desk' = [e \in Desks |-> IF e = d THEN [desk[e] EXCEPT !.pc = "register"]
                                     ELSE [desk[e] EXCEPT !.last = FALSE]]
        BY <1>12, <3>1 DEF UncacheRemoved
      <4>4. \A e \in Desks : desk'[e].p = desk[e].p /\ (desk'[e].pc # "idle" => desk[e].pc # "idle")
        BY <4>1, <4>3 DEF DesksTyped, Desk
      <4> QED
        BY <4>1, <4>2, <4>3, <4>4 DEF DesksTyped
    <3>2. CASE active # desk[d].p
      BY <1>12, <3>2, DeskGoesOn DEF UncacheRemoved, At
    <3> QED
      BY <3>1, <3>2
  <2>4. (unsaved \subseteq {"choice", "registry"} \cup Providers)'
    BY <1>12 DEF UncacheRemoved, At, Buildable, GoesTo, rows, pauses, TypeOK, Providers,
      Choice, Entry, Client, DesksTyped, CallsTyped, Desk, Chat
  <2>5. (crossed \subseteq Providers)'
    BY <1>12 DEF UncacheRemoved, At, Buildable, GoesTo, rows, pauses, TypeOK, Providers,
      Choice, Entry, Client, DesksTyped, CallsTyped, Desk, Chat
  <2>6. UNCHANGED <<phase, choice, registry, reread, override, custom, clients, cooldown,
  strikes, chat, orders, faults>>
    BY <1>12 DEF UncacheRemoved, At, GoesTo, rows, pauses
  <2> QED
    BY <2>1, <2>2, <2>3, <2>4, <2>5, <2>6 DEF TypeOK, CallsTyped
<1>13. ASSUME NEW d \in Desks, Register(d)  PROVE TypeOK'
  <2>1. ({registry, custom} \subseteq [Providers -> Entry])'
    BY <1>13 DEF Register, At, Written, AfterRegister, vault, selection, pauses, GoesTo,
      IsDone, Idle, NoChoice, Providers, TypeOK, Choice, Entry, Client, DesksTyped, CallsTyped,
      Desk, Chat
  <2>2. (\A q \in Providers \ Names : registry[q] = "absent" /\ custom[q] = "absent")'
    BY <1>13 DEF Register, At, Written, AfterRegister, vault, selection, pauses, GoesTo,
      IsDone, Idle, NoChoice, Providers, TypeOK, Choice, Entry, Client, DesksTyped, CallsTyped,
      Desk, Chat
  <2>3. DesksTyped'
    BY <1>13, DeskGoesOn DEF Register, At, AfterRegister
  <2>4. (unsaved \subseteq {"choice", "registry"} \cup Providers)'
    BY <1>13 DEF Register, At, Written, AfterRegister, vault, selection, pauses, GoesTo,
      IsDone, Idle, NoChoice, Providers, TypeOK, Choice, Entry, Client, DesksTyped, CallsTyped,
      Desk, Chat
  <2>5. UNCHANGED <<phase, credentials, choice, cache, reread, active, override, clients,
  cooldown, strikes, chat, orders, faults, crossed>>
    BY <1>13 DEF Register, At, AfterRegister, vault, selection, pauses, GoesTo, IsDone
  <2> QED
    BY <2>1, <2>2, <2>3, <2>4, <2>5 DEF TypeOK, CallsTyped
<1>14. ASSUME NEW d \in Desks, Save(d)  PROVE TypeOK'
  <2>1. (choice \in Choice)'
    BY <1>14 DEF Save, At, IsDone, vault, selection, pauses, Idle, NoChoice, Providers, TypeOK,
      Choice, Entry, Client, DesksTyped, CallsTyped, Desk, Chat
  <2>2. DesksTyped'
    BY <1>14, DeskGoesOn DEF Save, At
  <2>3. (unsaved \subseteq {"choice", "registry"} \cup Providers)'
    BY <1>14 DEF Save, At, IsDone, vault, selection, pauses, Idle, NoChoice, Providers, TypeOK,
      Choice, Entry, Client, DesksTyped, CallsTyped, Desk, Chat
  <2>4. UNCHANGED <<phase, credentials, registry, cache, reread, active, override, custom,
  clients, cooldown, strikes, chat, orders, faults, crossed>>
    BY <1>14 DEF Save, At, IsDone, vault, selection, pauses
  <2> QED
    BY <2>1, <2>2, <2>3, <2>4 DEF TypeOK, CallsTyped
<1>15. ASSUME NEW d \in Desks, WriteFails(d)  PROVE TypeOK'
  <2>1. DesksTyped'
    BY <1>15, DeskGoesOn DEF WriteFails, At, AfterRegister
  <2>2. (orders \in 0..MaxOrders /\ faults \in 0..MaxFaults)'
    BY <1>15, ManagerAssumption DEF WriteFails, Fault, At, IsDone, AfterRegister, rows, vault,
      selection, pauses, Idle, GoesTo, NoChoice, Providers, TypeOK, Choice, Entry, Client,
      DesksTyped, CallsTyped, Desk, Chat
  <2>3. (unsaved \subseteq {"choice", "registry"} \cup Providers)'
    BY <1>15 DEF WriteFails, Fault, At, IsDone, AfterRegister, rows, vault, selection, pauses,
      Idle, GoesTo, NoChoice, Providers, TypeOK, Choice, Entry, Client, DesksTyped, CallsTyped,
      Desk, Chat
  <2>4. UNCHANGED <<phase, credentials, choice, registry, cache, reread, active, override,
  custom, clients, cooldown, strikes, chat, crossed>>
    BY <1>15 DEF WriteFails, Fault, At, IsDone, AfterRegister, rows, vault, selection, pauses,
      GoesTo
  <2> QED
    BY <2>1, <2>2, <2>3, <2>4 DEF TypeOK, CallsTyped
<1>16. ASSUME NEW d \in Desks, Check(d)  PROVE TypeOK'
  <2>1. (clients \in [Providers -> Client \cup {None}])'
    BY <1>16 DEF Check, At, Buildable, WithClient, IsDone, rows, vault, selection, pauses,
      history, Idle, NoChoice, Providers, TypeOK, Choice, Entry, Client, DesksTyped,
      CallsTyped, Desk, Chat
  <2>2. DesksTyped'
    BY <1>16, DeskGoesOn DEF Check, At
  <2>3. UNCHANGED <<phase, credentials, choice, registry, cache, reread, active, override,
  custom, cooldown, strikes, chat, orders, faults, unsaved, crossed>>
    BY <1>16 DEF Check, At, IsDone, rows, vault, selection, pauses, history
  <2> QED
    BY <2>1, <2>2, <2>3 DEF TypeOK, CallsTyped
<1>17. ASSUME NEW d \in Desks, Verified(d)  PROVE TypeOK'
  <2>1. (active \in Providers \cup {None})'
    BY <1>17 DEF Verified, At, Usable, Select, rows, vault, pauses, Providers, Overridden,
      Dropped, Idle, Captured, NoChoice, TypeOK, Choice, Entry, Client, DesksTyped, CallsTyped,
      Desk, Chat
  <2>2. (override \in [Providers -> Models \cup {None}])'
    BY <1>17 DEF Verified, At, Usable, Select, rows, vault, pauses, Providers, Overridden,
      Dropped, Idle, Captured, NoChoice, TypeOK, Choice, Entry, Client, DesksTyped, CallsTyped,
      Desk, Chat
  <2>3. (clients \in [Providers -> Client \cup {None}])'
    BY <1>17 DEF Verified, At, Usable, Select, rows, vault, pauses, Providers, Overridden,
      Dropped, Idle, Captured, NoChoice, TypeOK, Choice, Entry, Client, DesksTyped, CallsTyped,
      Desk, Chat
  <2>4. DesksTyped'
    BY <1>17, DeskSelects DEF Verified, At, TypeOK, DesksTyped
  <2>5. (crossed \subseteq Providers)'
    BY <1>17 DEF Verified, At, Usable, Select, rows, vault, pauses, Providers, Overridden,
      Dropped, Idle, Captured, NoChoice, TypeOK, Choice, Entry, Client, DesksTyped, CallsTyped,
      Desk, Chat
  <2>6. UNCHANGED <<phase, credentials, choice, registry, cache, reread, custom, cooldown,
  strikes, chat, orders, faults, unsaved>>
    BY <1>17 DEF Verified, At, Select, rows, vault, pauses
  <2> QED
    BY <2>1, <2>2, <2>3, <2>4, <2>5, <2>6 DEF TypeOK, CallsTyped
<1>18. ASSUME NEW d \in Desks, NotVerified(d)  PROVE TypeOK'
  <2>1. DesksTyped'
    BY <1>18, DeskGoesOn DEF NotVerified, At
  <2>2. UNCHANGED <<phase, credentials, choice, registry, cache, reread, active, override,
  custom, clients, cooldown, strikes, chat, orders, faults, unsaved, crossed>>
    BY <1>18 DEF NotVerified, At, IsDone, rows, vault, selection, pauses, history
  <2> QED
    BY <2>1, <2>2 DEF TypeOK, CallsTyped
<1>19. ASSUME NEW p \in Providers, Health(p)  PROVE TypeOK'
  BY ZenonT(60),
    <1>19 DEF Health, Usable, WithClient, rows, vault, selection, pauses, history, Providers,
    TypeOK, Choice, Entry, Client, DesksTyped, CallsTyped, Desk, Chat
<1>20. ASSUME NEW c \in Chats, Begin(c)  PROVE TypeOK'
  <2>1. CallsTyped'
    <3> DEFINE others == {p \in Providers \ {ActiveKey} : Usable(p, cache, custom)}
    <3>1. ActiveKey \in Providers
      BY ManagerAssumption DEF ActiveKey, TypeOK, Providers
    <3>2. Asked(others) \subseteq Providers /\ Asked(others) # {}
      BY <3>1, Ranked DEF Asked, Live
    <3> HIDE DEF others
    <3>3. chat' = [chat EXCEPT ![c] = [Quiet EXCEPT !.pc = "next", !.first = ActiveKey,
                                                    !.left = Asked(others)]]
      BY <1>20 DEF Begin, others
    <3>4. [Quiet EXCEPT !.pc = "next", !.first = ActiveKey, !.left = Asked(others)] \in Chat
      BY <3>1, <3>2 DEF Quiet, Chat
    <3>5. UNCHANGED <<cooldown, strikes>>
      BY <1>20 DEF Begin, pauses
    <3> QED
      BY <3>2, <3>3, <3>4, <3>5 DEF TypeOK, CallsTyped, Quiet
  <2>2. (orders \in 0..MaxOrders /\ faults \in 0..MaxFaults)'
    BY <1>20, ManagerAssumption DEF Begin, Quiet, ActiveKey, Asked, Providers, Usable, rows,
      vault, selection, pauses, history, Live, TypeOK, Choice, Entry, Client, DesksTyped,
      CallsTyped, Desk, Chat
  <2>3. UNCHANGED <<phase, credentials, choice, registry, cache, reread, active, override,
  custom, clients, desk, unsaved, crossed>>
    BY <1>20 DEF Begin, rows, vault, selection, pauses, history
  <2> QED
    BY <2>1, <2>2, <2>3 DEF TypeOK, DesksTyped
<1>21. ASSUME NEW c \in Chats, Ask(c)  PROVE TypeOK'
  <2>1. (clients \in [Providers -> Client \cup {None}])'
    <3>1. \A p \in Providers : [key |-> cache[p], model |-> override[p]] \in Client
      BY DEF TypeOK, Client
    <3>2. \A p \in Providers : WithClient(p) \in [Providers -> Client \cup {None}]
      BY <3>1 DEF WithClient, TypeOK
    <3>3. NextIn(c) \in Providers
      BY <1>21, Ranked DEF NextIn, Ask, Chat, TypeOK, CallsTyped
    <3> QED
      BY <1>21, <3>2, <3>3 DEF Ask, TypeOK
  <2>2. CallsTyped'
    <3> DEFINE p == NextIn(c)
    <3>1. chat[c] \in Chat /\ chat[c].left # {}
      BY <1>21 DEF Ask, TypeOK, CallsTyped
    <3>2. p \in Providers /\ p \in chat[c].left
      BY <3>1, Ranked DEF NextIn, Chat
    <3>3. CASE clients[p] # None \/ Buildable(p)
      <4>1. [chat[c] EXCEPT !.pc = "waiting", !.at = p, !.left = @ \ {p}] \in Chat
        BY <3>1, <3>2 DEF Chat
      <4>2. /\ chat' = [chat EXCEPT ![c] = [chat[c] EXCEPT !.pc = "waiting", !.at = p, !.left = @ \ {p}]]
            /\ UNCHANGED <<cooldown, strikes>>
        BY <1>21, <3>3 DEF Ask, pauses, TypeOK, CallsTyped
      <4> HIDE DEF p
      <4> QED
        BY <3>2, <4>1, <4>2 DEF TypeOK, CallsTyped
    <3>4. CASE clients[p] = None /\ ~Buildable(p)
      <4>1. PICK kind \in Kinds : Fails(c, p, kind, chat[c].left \ {p})
        BY <1>21, <3>4 DEF Ask
      <4>2. chat[c].left \ {p} \subseteq Providers
        BY <3>1 DEF Chat
      <4> HIDE DEF p
      <4> QED
        BY <3>2, <4>1, <4>2, CallFails
    <3> QED
      BY <3>3, <3>4
  <2>3. UNCHANGED <<phase, credentials, choice, registry, cache, reread, active, override,
  custom, desk, orders, faults, unsaved, crossed>>
    BY <1>21 DEF Ask, pauses, Fails, rows, vault, selection, history
  <2> QED
    BY <2>1, <2>2, <2>3 DEF TypeOK, DesksTyped
<1>22. ASSUME NEW c \in Chats, Answers(c)  PROVE TypeOK'
  <2>1. CallsTyped'
    <3>1. chat[c].at \in Providers
      BY <1>22 DEF Answers, TypeOK, CallsTyped
    <3> QED
      BY <1>22, <3>1, ManagerAssumption DEF Answers, TypeOK, CallsTyped, Quiet, Chat
  <2>2. UNCHANGED <<phase, credentials, choice, registry, cache, reread, active, override,
  custom, clients, desk, orders, faults, unsaved, crossed>>
    BY <1>22 DEF Answers, rows, vault, selection, history
  <2> QED
    BY <2>1, <2>2 DEF TypeOK, DesksTyped
<1>23. ASSUME NEW c \in Chats, NEW kind \in Kinds, DoesNotAnswer(c, kind)  PROVE TypeOK'
  <2>1. CallsTyped'
    <3>1. chat[c].at \in Providers /\ chat[c].left \subseteq Providers
      BY <1>23 DEF DoesNotAnswer, TypeOK, CallsTyped, Chat
    <3> QED
      BY <1>23, <3>1, CallFails DEF DoesNotAnswer
  <2>2. UNCHANGED <<phase, credentials, choice, registry, cache, reread, active, override,
  custom, clients, desk, orders, faults, unsaved, crossed>>
    BY <1>23 DEF DoesNotAnswer, Fails, rows, vault, selection, history
  <2> QED
    BY <2>1, <2>2 DEF TypeOK, DesksTyped
<1>24. ASSUME Reread  PROVE TypeOK'
  <2>1. (reread \in [Providers -> Keys \cup {None}] \cup {None})'
    BY <1>24 DEF Reread, rows, selection, pauses, history, TypeOK, Providers, Choice, Entry,
      Client, DesksTyped, CallsTyped, Desk, Chat
  <2>2. (orders \in 0..MaxOrders /\ faults \in 0..MaxFaults)'
    BY <1>24, ManagerAssumption DEF Reread, rows, selection, pauses, history, TypeOK,
      Providers, Choice, Entry, Client, DesksTyped, CallsTyped, Desk, Chat
  <2>3. UNCHANGED <<phase, credentials, choice, registry, cache, active, override, custom,
  clients, cooldown, strikes, desk, chat, unsaved, crossed>>
    BY <1>24 DEF Reread, rows, selection, pauses, history
  <2> QED
    BY <2>1, <2>2, <2>3 DEF TypeOK, DesksTyped, CallsTyped
<1>25. ASSUME Reloaded  PROVE TypeOK'
  BY <1>25 DEF Reloaded, Providers, rows, selection, pauses, TypeOK, Choice, Entry, Client,
    DesksTyped, CallsTyped, Desk, Chat
<1>26. ASSUME Tick  PROVE TypeOK'
  <2>1. CallsTyped'
    <3>1. /\ cooldown' = [p \in Providers |-> IF cooldown[p] > 0 THEN cooldown[p] - 1 ELSE 0]
          /\ UNCHANGED <<strikes, chat>>
      BY <1>26 DEF Tick
    <3>2. MaxCooldown \in Nat /\ \A p \in Providers : cooldown[p] \in Int /\ cooldown[p] <= MaxCooldown
      BY ManagerAssumption DEF TypeOK, CallsTyped
    <3>3. \A p \in Providers : cooldown'[p] \in Int /\ cooldown'[p] <= MaxCooldown
      BY <3>1, <3>2
    <3> QED
      BY <3>1, <3>3 DEF TypeOK, CallsTyped
  <2>2. UNCHANGED <<phase, credentials, choice, registry, cache, reread, active, override,
  custom, clients, desk, orders, faults, unsaved, crossed>>
    BY <1>26 DEF Tick, rows, vault, selection, history
  <2> QED
    BY <2>1, <2>2 DEF TypeOK, DesksTyped
<1>27. ASSUME Stop  PROVE TypeOK'
  <2>1. (phase \in {"up", "down"})'
    BY <1>27 DEF Stop, Fault, Pending, Providers, Idle, Quiet, rows, selection, NoChoice,
      TypeOK, Choice, Entry, Client, DesksTyped, CallsTyped, Desk, Chat
  <2>2. (reread \in [Providers -> Keys \cup {None}] \cup {None})'
    BY <1>27 DEF Stop, Fault, Pending, Providers, Idle, Quiet, rows, selection, NoChoice,
      TypeOK, Choice, Entry, Client, DesksTyped, CallsTyped, Desk, Chat
  <2>3. (clients \in [Providers -> Client \cup {None}])'
    BY <1>27 DEF Stop, Fault, Pending, Providers, Idle, Quiet, rows, selection, NoChoice,
      TypeOK, Choice, Entry, Client, DesksTyped, CallsTyped, Desk, Chat
  <2>4. DesksTyped'
    BY <1>27, IdleTyped DEF Stop, DesksTyped, Idle
  <2>5. CallsTyped'
    BY <1>27, ManagerAssumption DEF Stop, Quiet, Chat, CallsTyped
  <2>6. (orders \in 0..MaxOrders /\ faults \in 0..MaxFaults)'
    BY <1>27, ManagerAssumption DEF Stop, Fault, Pending, Providers, Idle, Quiet, rows,
      selection, NoChoice, TypeOK, Choice, Entry, Client, DesksTyped, CallsTyped, Desk, Chat
  <2>7. (unsaved \subseteq {"choice", "registry"} \cup Providers)'
    <3>1. \A d \in Desks : Pending(d) \subseteq {"choice", "registry"} \cup Providers
      BY DEF Pending, TypeOK, DesksTyped
    <3>2. UNION {Pending(e) : e \in Desks} \subseteq {"choice", "registry"} \cup Providers
      BY <3>1
    <3>3. unsaved' = unsaved \cup UNION {Pending(e) : e \in Desks}
      BY <1>27 DEF Stop
    <3> QED
      BY <3>2, <3>3 DEF TypeOK
  <2>8. (crossed \subseteq Providers)'
    BY <1>27 DEF Stop, Fault, Pending, Providers, Idle, Quiet, rows, selection, NoChoice,
      TypeOK, Choice, Entry, Client, DesksTyped, CallsTyped, Desk, Chat
  <2>9. UNCHANGED <<credentials, choice, registry, cache, active, override, custom>>
    BY <1>27 DEF Stop, Fault, rows, selection
  <2> QED
    BY <2>1, <2>2, <2>3, <2>4, <2>5, <2>6, <2>7, <2>8, <2>9 DEF TypeOK
<1>28. ASSUME NEW vaultRead \in BOOLEAN, NEW settingsRead \in BOOLEAN, Start(vaultRead, settingsRead)  PROVE TypeOK'
  <2>1. (phase \in {"up", "down"})'
    BY <1>28 DEF Start, NoChoice, Fault, Providers, Usable, rows, pauses, TypeOK, Choice,
      Entry, Client, DesksTyped, CallsTyped, Desk, Chat
  <2>2. ({credentials, cache} \subseteq [Providers -> Keys \cup {None}])'
    BY <1>28 DEF Start, NoChoice, Fault, Providers, Usable, rows, pauses, TypeOK, Choice,
      Entry, Client, DesksTyped, CallsTyped, Desk, Chat
  <2>3. ({registry, custom} \subseteq [Providers -> Entry])'
    BY <1>28 DEF Start, NoChoice, Fault, Providers, Usable, rows, pauses, TypeOK, Choice,
      Entry, Client, DesksTyped, CallsTyped, Desk, Chat
  <2>4. (\A q \in Providers \ Names : registry[q] = "absent" /\ custom[q] = "absent")'
    BY <1>28 DEF Start, NoChoice, Fault, Providers, Usable, rows, pauses, TypeOK, Choice,
      Entry, Client, DesksTyped, CallsTyped, Desk, Chat
  <2>5. (active \in Providers \cup {None})'
    BY <1>28 DEF Start, NoChoice, Fault, Providers, Usable, rows, pauses, TypeOK, Choice,
      Entry, Client, DesksTyped, CallsTyped, Desk, Chat
  <2>6. (override \in [Providers -> Models \cup {None}])'
    BY <1>28 DEF Start, NoChoice, Fault, Providers, Usable, rows, pauses, TypeOK, Choice,
      Entry, Client, DesksTyped, CallsTyped, Desk, Chat
  <2>7. (orders \in 0..MaxOrders /\ faults \in 0..MaxFaults)'
    BY <1>28, ManagerAssumption DEF Start, NoChoice, Fault, Providers, Usable, rows, pauses,
      TypeOK, Choice, Entry, Client, DesksTyped, CallsTyped, Desk, Chat
  <2>8. (unsaved \subseteq {"choice", "registry"} \cup Providers)'
    BY <1>28 DEF Start, NoChoice, Fault, Providers, Usable, rows, pauses, TypeOK, Choice,
      Entry, Client, DesksTyped, CallsTyped, Desk, Chat
  <2>9. UNCHANGED <<choice, reread, clients, cooldown, strikes, desk, chat, crossed>>
    BY <1>28 DEF Start, Fault, rows, pauses
  <2> QED
    BY <2>1, <2>2, <2>3, <2>4, <2>5, <2>6, <2>7, <2>8, <2>9 DEF TypeOK, DesksTyped, CallsTyped
<1> QED
  BY <1>1, <1>2, <1>3, <1>4, <1>5, <1>6, <1>7, <1>8, <1>9, <1>10, <1>11, <1>12, <1>13, <1>14,
    <1>15, <1>16, <1>17, <1>18, <1>19, <1>20, <1>21, <1>22, <1>23, <1>24, <1>25, <1>26, <1>27,
    <1>28 DEF Next, Commands, Steps, Calls

-----------------------------------------------------------------------------

(* While the process is down nobody is at work, and no client is kept.      *)
AllIdle == \A d \in Desks : desk[d].pc = "idle"
NoClients == \A p \in Providers : clients[p] = None
Down == phase = "down" => AllIdle /\ NoClients

(* A step of Next keeps Shapes.                                              *)
LEMMA ShapesStep ==
    ASSUME TypeOK, Shapes, Next
    PROVE  Shapes'
<1>1. ASSUME NEW d \in Desks, NEW p \in Providers, NEW k \in Keys, SetKey(d, p, k)  PROVE Shapes'
  BY <1>1, MoveTakes DEF SetKey, Take, rows, vault, selection, pauses, history, Stay, Shapes,
    Shaped
<1>2. ASSUME NEW d \in Desks, NEW p \in Providers, DeleteKey(d, p)  PROVE Shapes'
  BY <1>2, MoveTakes DEF DeleteKey, Take, rows, vault, selection, pauses, history, Stay,
    Shapes, Shaped
<1>3. ASSUME NEW d \in Desks, NEW p \in Providers, NEW k \in Keys, Paste(d, p, k)  PROVE Shapes'
  BY <1>3, MoveTakes DEF Paste, Take, rows, vault, selection, pauses, history, Stay, Shapes,
    Shaped
<1>4. ASSUME NEW d \in Desks, NEW p \in Providers, NEW k \in Keys, AddWithKey(d, p, k)  PROVE Shapes'
  BY <1>4, MoveTakes DEF AddWithKey, Take, rows, vault, selection, pauses, history, Stay,
    Shapes, Shaped
<1>5. ASSUME NEW d \in Desks, NEW p \in Providers, AddWithoutKey(d, p)  PROVE Shapes'
  BY <1>5, MoveTakes DEF AddWithoutKey, Take, rows, vault, selection, pauses, Stay, Shapes,
    Shaped
<1>6. ASSUME NEW d \in Desks, NEW p \in Providers, RemoveLLM(d, p)  PROVE Shapes'
  BY <1>6, MoveTakes DEF RemoveLLM, Take, rows, vault, selection, pauses, Stay, Shapes, TypeOK,
    Shaped, DesksTyped
<1>7. ASSUME NEW d \in Desks, NEW p \in Providers, NEW m \in Models \cup {None}, Switch(d, p, m)  PROVE Shapes'
  BY <1>7, MoveSelects DEF Switch, Take, rows, vault, pauses, Others, Shapes, Shaped
<1>8. ASSUME NEW d \in Desks, StoreKey(d)  PROVE Shapes'
  BY <1>8, MoveGoesOn DEF StoreKey, At, vault, selection, pauses, Stay, Shapes, Shaped
<1>9. ASSUME NEW d \in Desks, EraseKey(d)  PROVE Shapes'
  BY <1>9, MoveGoesOn DEF EraseKey, At, Erased, vault, selection, pauses, Stay, Shapes, Shaped
<1>10. ASSUME NEW d \in Desks, CacheKey(d)  PROVE Shapes'
  BY <1>10, MoveGoesOn DEF CacheKey, At, rows, selection, pauses, Stay, Shapes, Shaped
<1>11. ASSUME NEW d \in Desks, UncacheDeleted(d)  PROVE Shapes'
  BY <1>11, MoveEnds DEF UncacheDeleted, At, rows, selection, pauses, Stay, Shapes, Shaped
<1>12. ASSUME NEW d \in Desks, UncacheRemoved(d)  PROVE Shapes'
  BY <1>12, MoveRemoves DEF Stay, Others, Shapes, TypeOK, Shaped, DesksTyped
<1>13. ASSUME NEW d \in Desks, Register(d)  PROVE Shapes'
  BY <1>13, MoveGoesOn, MoveEnds DEF Register, At, Written, AfterRegister, vault, selection,
    pauses, Stay, Shapes, Shaped
<1>14. ASSUME NEW d \in Desks, Save(d)  PROVE Shapes'
  BY <1>14, MoveEnds DEF Save, At, vault, selection, pauses, Stay, Shapes, Shaped
<1>15. ASSUME NEW d \in Desks, WriteFails(d)  PROVE Shapes'
  BY <1>15, MoveGoesOn, MoveEnds DEF WriteFails, Fault, At, AfterRegister, rows, vault,
    selection, pauses, Stay, Shapes, Shaped
<1>16. ASSUME NEW d \in Desks, Check(d)  PROVE Shapes'
  BY <1>16, MoveEnds DEF Check, At, rows, vault, selection, pauses, history, Stay, Shapes,
    Shaped
<1>17. ASSUME NEW d \in Desks, Verified(d)  PROVE Shapes'
  BY <1>17, MoveSelects DEF Verified, At, rows, vault, pauses, Others, Shapes, Shaped
<1>18. ASSUME NEW d \in Desks, NotVerified(d)  PROVE Shapes'
  BY <1>18, MoveEnds DEF NotVerified, At, rows, vault, selection, pauses, history, Stay,
    Shapes, Shaped
<1>27. ASSUME Stop  PROVE Shapes'
  BY <1>27 DEF Stop, Fault, Idle, rows, selection, NoChoice, Shapes, Shaped
<1>29. ASSUME NEW p \in Providers, Health(p)
      PROVE  Shapes'
  BY <1>29 DEF Health, rows, vault, selection, pauses, history, Shapes, Shaped
<1>30. ASSUME NEW c \in Chats, (Begin(c) \/ Ask(c) \/ Answers(c))
      PROVE  Shapes'
  BY <1>30 DEF Begin, Ask, Answers, Providers, rows, vault, selection, pauses, history, Kinds,
    Fails, LeastOf, Shapes, Shaped
<1>31. ASSUME NEW c \in Chats, NEW kind \in Kinds, DoesNotAnswer(c, kind)
      PROVE  Shapes'
  BY <1>31 DEF DoesNotAnswer, Fails, rows, vault, selection, history, LeastOf, Shapes, Shaped
<1>32. ASSUME (Reread \/ Reloaded \/ Tick)
      PROVE  Shapes'
  BY <1>32 DEF Reread, Reloaded, Tick, rows, selection, pauses, history, Providers, vault,
    Shapes, Shaped
<1>33. ASSUME NEW vaultRead \in BOOLEAN, NEW settingsRead \in BOOLEAN,
           \/ Start(vaultRead, settingsRead)
      PROVE  Shapes'
  BY <1>33 DEF Start, NoChoice, Fault, Providers, rows, pauses, Shapes, Shaped
<1> QED
  BY <1>1, <1>2, <1>3, <1>4, <1>5, <1>6, <1>7, <1>8, <1>9, <1>10, <1>11, <1>12, <1>13, <1>14,
    <1>15, <1>16, <1>17, <1>18, <1>27, <1>29, <1>30, <1>31, <1>32, <1>33 DEF Next, Commands, Steps, Calls

(* A step of Next keeps Down.                                                *)
LEMMA DownStep ==
    ASSUME TypeOK, Down, Next
    PROVE  Down'
<1>1. ASSUME NEW d \in Desks, NEW p \in Providers, NEW k \in Keys, SetKey(d, p, k)  PROVE Down'
  BY <1>1, MoveTakes DEF SetKey, Take, rows, vault, selection, pauses, history, Stay, Down,
    AllIdle, NoClients
<1>2. ASSUME NEW d \in Desks, NEW p \in Providers, DeleteKey(d, p)  PROVE Down'
  BY <1>2, MoveTakes DEF DeleteKey, Take, rows, vault, selection, pauses, history, Stay, Down,
    AllIdle, NoClients
<1>3. ASSUME NEW d \in Desks, NEW p \in Providers, NEW k \in Keys, Paste(d, p, k)  PROVE Down'
  BY <1>3, MoveTakes DEF Paste, Take, rows, vault, selection, pauses, history, Stay, Down,
    AllIdle, NoClients
<1>4. ASSUME NEW d \in Desks, NEW p \in Providers, NEW k \in Keys, AddWithKey(d, p, k)  PROVE Down'
  BY <1>4, MoveTakes DEF AddWithKey, Take, rows, vault, selection, pauses, history, Stay, Down,
    AllIdle, NoClients
<1>5. ASSUME NEW d \in Desks, NEW p \in Providers, AddWithoutKey(d, p)  PROVE Down'
  BY <1>5, MoveTakes DEF AddWithoutKey, Take, Dropped, rows, vault, selection, pauses, Stay,
    Down, AllIdle, NoClients
<1>6. ASSUME NEW d \in Desks, NEW p \in Providers, RemoveLLM(d, p)  PROVE Down'
  BY <1>6, MoveTakes DEF RemoveLLM, Take, Dropped, rows, vault, selection, pauses, Stay, Down,
    AllIdle, NoClients
<1>7. ASSUME NEW d \in Desks, NEW p \in Providers, NEW m \in Models \cup {None}, Switch(d, p, m)  PROVE Down'
  BY <1>7, MoveSelects DEF Switch, Take, rows, vault, pauses, Dropped, Others, Down, AllIdle,
    NoClients
<1>8. ASSUME NEW d \in Desks, StoreKey(d)  PROVE Down'
  BY <1>8, MoveGoesOn DEF StoreKey, At, vault, selection, pauses, Stay, Down, AllIdle, NoClients
<1>9. ASSUME NEW d \in Desks, EraseKey(d)  PROVE Down'
  BY <1>9, MoveGoesOn DEF EraseKey, At, Erased, vault, selection, pauses, Stay, Down, AllIdle,
    NoClients
<1>10. ASSUME NEW d \in Desks, CacheKey(d)  PROVE Down'
  BY <1>10, MoveGoesOn DEF CacheKey, At, Dropped, rows, selection, pauses, Stay, Down, AllIdle,
    NoClients
<1>11. ASSUME NEW d \in Desks, UncacheDeleted(d)  PROVE Down'
  BY <1>11, MoveEnds DEF UncacheDeleted, At, Dropped, rows, selection, pauses, Stay, Down,
    AllIdle, NoClients
<1>12. ASSUME NEW d \in Desks, UncacheRemoved(d)  PROVE Down'
  BY <1>12, MoveRemoves DEF Stay, Others, Down, AllIdle, NoClients
<1>13. ASSUME NEW d \in Desks, Register(d)  PROVE Down'
  BY <1>13, MoveGoesOn, MoveEnds DEF Register, At, Written, AfterRegister, vault, selection,
    pauses, Stay, Down, AllIdle, NoClients
<1>14. ASSUME NEW d \in Desks, Save(d)  PROVE Down'
  BY <1>14, MoveEnds DEF Save, At, vault, selection, pauses, Stay, Down, AllIdle, NoClients
<1>15. ASSUME NEW d \in Desks, WriteFails(d)  PROVE Down'
  BY <1>15, MoveGoesOn, MoveEnds DEF WriteFails, Fault, At, AfterRegister, rows, vault,
    selection, pauses, Stay, Down, AllIdle, NoClients
<1>16. ASSUME NEW d \in Desks, Check(d)  PROVE Down'
  BY <1>16, MoveEnds DEF Check, At, Buildable, WithClient, rows, vault, selection, pauses,
    history, Stay, Down, AllIdle, NoClients
<1>17. ASSUME NEW d \in Desks, Verified(d)  PROVE Down'
  BY <1>17, MoveSelects DEF Verified, At, rows, vault, pauses, Dropped, Others, Down, AllIdle,
    NoClients
<1>18. ASSUME NEW d \in Desks, NotVerified(d)  PROVE Down'
  BY <1>18, MoveEnds DEF NotVerified, At, rows, vault, selection, pauses, history, Stay, Down,
    AllIdle, NoClients
<1>19. ASSUME NEW p \in Providers, Health(p)  PROVE Down'
  BY <1>19 DEF Health, WithClient, rows, vault, selection, pauses, history, Down, AllIdle,
    NoClients
<1>21. ASSUME NEW c \in Chats, Ask(c)  PROVE Down'
  BY <1>21 DEF Ask, NextIn, Buildable, WithClient, pauses, Kinds, Fails, rows, vault,
    selection, history, LeastOf, Quiet, Down, AllIdle, NoClients
<1>27. ASSUME Stop  PROVE Down'
  BY <1>27 DEF Stop, Fault, Idle, Quiet, rows, selection, NoChoice, Down, AllIdle, NoClients
<1>28. ASSUME NEW vaultRead \in BOOLEAN, NEW settingsRead \in BOOLEAN, Start(vaultRead, settingsRead)  PROVE Down'
  BY <1>28 DEF Start, NoChoice, Fault, rows, pauses, Down, AllIdle, NoClients
<1>29. ASSUME NEW c \in Chats, (Begin(c) \/ Answers(c))
      PROVE  Down'
  BY <1>29 DEF Begin, Answers, Providers, rows, vault, selection, pauses, history, Down,
    AllIdle, NoClients
<1>30. ASSUME NEW c \in Chats, NEW kind \in Kinds, DoesNotAnswer(c, kind)
      PROVE  Down'
  BY <1>30 DEF DoesNotAnswer, Fails, rows, vault, selection, history, LeastOf, Down, AllIdle,
    NoClients, Providers
<1>31. ASSUME (Reread \/ Reloaded \/ Tick)
      PROVE  Down'
  BY <1>31 DEF Reread, Reloaded, Tick, rows, selection, pauses, history, Providers, vault,
    Down, AllIdle, NoClients
<1> QED
  BY <1>1, <1>2, <1>3, <1>4, <1>5, <1>6, <1>7, <1>8, <1>9, <1>10, <1>11, <1>12, <1>13, <1>14,
    <1>15, <1>16, <1>17, <1>18, <1>19, <1>21, <1>27, <1>28, <1>29, <1>30, <1>31 DEF Next, Commands, Steps, Calls

(* A step of Next keeps ClientsCurrent.                                      *)
LEMMA ClientsStep ==
    ASSUME TypeOK, Shapes, Down, ClientsCurrent, Next
    PROVE  ClientsCurrent'
<1>5. ASSUME NEW d \in Desks, NEW p \in Providers, AddWithoutKey(d, p)  PROVE ClientsCurrent'
  BY <1>5, MoveTakes DEF AddWithoutKey, Take, Dropped, rows, vault, selection, pauses, Stay,
    ClientsCurrent, Shapes, TypeOK, Buildable, Shaped, DesksTyped
<1>6. ASSUME NEW d \in Desks, NEW p \in Providers, RemoveLLM(d, p)  PROVE ClientsCurrent'
  BY <1>6, MoveTakes DEF RemoveLLM, Take, Dropped, rows, vault, selection, pauses, Stay,
    ClientsCurrent, Shapes, TypeOK, Buildable, Shaped, DesksTyped
<1>7. ASSUME NEW d \in Desks, NEW p \in Providers, NEW m \in Models \cup {None}, Switch(d, p, m)  PROVE ClientsCurrent'
  BY <1>7, MoveSelects DEF Switch, Take, rows, vault, pauses, Dropped, Overridden, Others,
    ClientsCurrent, Shapes, TypeOK, Buildable, Shaped, DesksTyped
<1>10. ASSUME NEW d \in Desks, CacheKey(d)  PROVE ClientsCurrent'
  BY <1>10, MoveGoesOn DEF CacheKey, At, Dropped, rows, selection, pauses, Stay,
    ClientsCurrent, Shapes, TypeOK, Buildable, Shaped, DesksTyped
<1>11. ASSUME NEW d \in Desks, UncacheDeleted(d)  PROVE ClientsCurrent'
  BY <1>11, MoveEnds DEF UncacheDeleted, At, Dropped, rows, selection, pauses, Stay,
    ClientsCurrent, Shapes, TypeOK, Buildable, Shaped, DesksTyped
<1>12. ASSUME NEW d \in Desks, UncacheRemoved(d)  PROVE ClientsCurrent'
  BY <1>12, MoveRemoves DEF Buildable, Stay, Others, ClientsCurrent, Shapes, TypeOK, Shaped,
    DesksTyped
<1>16. ASSUME NEW d \in Desks, Check(d)  PROVE ClientsCurrent'
  BY <1>16, MoveEnds DEF Check, At, Buildable, WithClient, rows, vault, selection, pauses,
    history, Stay, ClientsCurrent, Shapes, Providers, Shaped
<1>17. ASSUME NEW d \in Desks, Verified(d)  PROVE ClientsCurrent'
  BY <1>17, MoveSelects DEF Verified, At, rows, vault, pauses, Dropped, Overridden, Others,
    ClientsCurrent, Shapes, TypeOK, Buildable, Shaped, DesksTyped
<1>19. ASSUME NEW p \in Providers, Health(p)  PROVE ClientsCurrent'
  <2>1. Buildable(p)
    BY <1>19 DEF Health, Usable, Buildable, Providers
  <2> QED
    BY <1>19, <2>1, Builds DEF Health, vault, history
<1>21. ASSUME NEW c \in Chats, Ask(c)  PROVE ClientsCurrent'
  <2> DEFINE p == NextIn(c)
  <2>1. chat[c] \in Chat /\ chat[c].left # {}
    BY <1>21 DEF Ask, TypeOK, CallsTyped
  <2>2. p \in Providers
    BY <2>1, Ranked DEF NextIn, Chat
  <2>3. UNCHANGED <<cache, selection, custom, crossed>>
    BY <1>21 DEF Ask, vault, history
  <2>4. clients' = clients \/ (clients' = WithClient(p) /\ (clients[p] # None \/ Buildable(p)))
    BY <1>21 DEF Ask
  <2> HIDE DEF p
  <2>5. CASE clients' = clients
    BY <2>3, <2>5 DEF ClientsCurrent, Buildable, selection
  <2> QED
    BY <2>2, <2>3, <2>4, <2>5, Builds
<1>25. ASSUME Reloaded  PROVE ClientsCurrent'
  BY <1>25 DEF Reloaded, rows, selection, pauses, ClientsCurrent, Shapes, Buildable, Shaped
<1>27. ASSUME Stop  PROVE ClientsCurrent'
  BY <1>27 DEF Stop, Fault, Idle, Quiet, rows, selection, NoChoice, ClientsCurrent, Shapes,
    Down, Buildable, Shaped, AllIdle, NoClients
<1>28. ASSUME NEW vaultRead \in BOOLEAN, NEW settingsRead \in BOOLEAN, Start(vaultRead, settingsRead)  PROVE ClientsCurrent'
  BY <1>28 DEF Start, NoChoice, Fault, Providers, rows, pauses, ClientsCurrent, Shapes, Down,
    Buildable, Shaped, AllIdle, NoClients
<1>29. ASSUME NEW d \in Desks, NEW p \in Providers, NEW k \in Keys,
           \/ SetKey(d, p, k)
           \/ Paste(d, p, k)
           \/ AddWithKey(d, p, k)
      PROVE  ClientsCurrent'
  BY <1>29 DEF SetKey, Paste, AddWithKey, Take, AtWork, rows, vault, selection, pauses,
    history, Idle, NoChoice, Providers, ClientsCurrent, Buildable
<1>30. ASSUME NEW d \in Desks, NEW p \in Providers, DeleteKey(d, p)
      PROVE  ClientsCurrent'
  BY <1>30 DEF DeleteKey, Take, AtWork, rows, vault, selection, pauses, history, Idle,
    NoChoice, Providers, ClientsCurrent, Buildable
<1>31. ASSUME NEW d \in Desks,
           \/ StoreKey(d)
           \/ EraseKey(d)
           \/ Register(d)
           \/ Save(d)
           \/ WriteFails(d)
           \/ NotVerified(d)
      PROVE  ClientsCurrent'
  BY <1>31 DEF StoreKey, EraseKey, Register, Save, WriteFails, NotVerified, At, KeyWritten,
    GoesTo, vault, selection, pauses, Erased, Written, AfterRegister, IsDone, Fault, rows,
    history, InFlight, Idle, NoChoice, Providers, ClientsCurrent, Buildable
<1>32. ASSUME NEW c \in Chats, (Begin(c) \/ Answers(c))
      PROVE  ClientsCurrent'
  BY <1>32 DEF Begin, Answers, Providers, rows, vault, selection, pauses, history,
    ClientsCurrent, Buildable
<1>33. ASSUME NEW c \in Chats, NEW kind \in Kinds, DoesNotAnswer(c, kind)
      PROVE  ClientsCurrent'
  BY <1>33 DEF DoesNotAnswer, Fails, rows, vault, selection, history, LeastOf, ClientsCurrent,
    Providers, Buildable
<1>34. ASSUME (Reread \/ Tick)
      PROVE  ClientsCurrent'
  BY <1>34 DEF Reread, Tick, rows, selection, pauses, history, Providers, vault,
    ClientsCurrent, Buildable
<1> QED
  BY <1>5, <1>6, <1>7, <1>10, <1>11, <1>12, <1>16, <1>17, <1>19, <1>21, <1>25, <1>27, <1>28,
    <1>29, <1>30, <1>31, <1>32, <1>33, <1>34 DEF Next, Commands, Steps, Calls

(* Whatever is to be saved of a selection that is still the last one is the *)
(* selection, and the row holds it once nothing of it is to be saved.       *)
ToSave(d) == desk[d].pc = "save" /\ desk[d].last
LastToSave == \A d \in Desks : desk[d].last => desk[d].pc = "save"
SavesChoice ==
    \A d \in Desks : ToSave(d) => desk[d].saved.provider = active /\ desk[d].saved.models = override
HoldsChoice ==
    "choice" \notin unsaved /\ (\A d \in Desks : ~ToSave(d)) =>
        choice.provider = active /\ choice.models = override
ChoiceSaved ==
    /\ LastToSave
    /\ SavesChoice
    /\ HoldsChoice

(* A step of Next keeps ChoiceSaved.                                         *)
LEMMA ChoiceStep ==
    ASSUME TypeOK, Shapes, Down, ChoiceSaved, Next
    PROVE  ChoiceSaved'
<1>1. ASSUME NEW d \in Desks, NEW p \in Providers, NEW k \in Keys, SetKey(d, p, k)  PROVE ChoiceSaved'
  BY <1>1, MoveTakes DEF SetKey, Take, Usable, rows, vault, selection, pauses, history, Stay,
    ChoiceSaved, Shapes, LastToSave, SavesChoice, HoldsChoice, Shaped, ToSave
<1>2. ASSUME NEW d \in Desks, NEW p \in Providers, DeleteKey(d, p)  PROVE ChoiceSaved'
  BY <1>2, MoveTakes DEF DeleteKey, Take, rows, vault, selection, pauses, history, Stay,
    ChoiceSaved, Shapes, LastToSave, SavesChoice, HoldsChoice, Shaped, ToSave
<1>3. ASSUME NEW d \in Desks, NEW p \in Providers, NEW k \in Keys, Paste(d, p, k)  PROVE ChoiceSaved'
  BY <1>3, MoveTakes DEF Paste, Take, rows, vault, selection, pauses, history, Stay,
    ChoiceSaved, Shapes, LastToSave, SavesChoice, HoldsChoice, Shaped, ToSave
<1>4. ASSUME NEW d \in Desks, NEW p \in Providers, NEW k \in Keys, AddWithKey(d, p, k)  PROVE ChoiceSaved'
  BY <1>4, MoveTakes DEF AddWithKey, Take, rows, vault, selection, pauses, history, Stay,
    ChoiceSaved, Shapes, LastToSave, SavesChoice, HoldsChoice, Shaped, ToSave
<1>5. ASSUME NEW d \in Desks, NEW p \in Providers, AddWithoutKey(d, p)  PROVE ChoiceSaved'
  BY <1>5, MoveTakes DEF AddWithoutKey, Take, rows, vault, selection, pauses, Stay,
    ChoiceSaved, Shapes, LastToSave, SavesChoice, HoldsChoice, Shaped, ToSave
<1>6. ASSUME NEW d \in Desks, NEW p \in Providers, RemoveLLM(d, p)  PROVE ChoiceSaved'
  BY <1>6, MoveTakes DEF RemoveLLM, Take, rows, vault, selection, pauses, Stay, ChoiceSaved,
    Shapes, LastToSave, SavesChoice, HoldsChoice, Shaped, ToSave
<1>7. ASSUME NEW d \in Desks, NEW p \in Providers, NEW m \in Models \cup {None}, Switch(d, p, m)  PROVE ChoiceSaved'
  <2>1. LastToSave'
    BY <1>7, MoveSelects DEF Switch, Take, Usable, rows, vault, pauses, Overridden, Captured,
      Others, ChoiceSaved, Shapes, LastToSave, SavesChoice, HoldsChoice, Shaped, ToSave
  <2>2. SavesChoice'
    <3>1. Select(d, p, m)
      BY <1>7 DEF Switch
    <3>2. desk'[d].saved.provider = active' /\ desk'[d].saved.models = override'
      <4>1. desk'[d].saved = Captured(p, m) /\ active' = p /\ override' = Overridden(p, m)
        BY <3>1, MoveSelects
      <4>2. Captured(p, m).provider = p /\ Captured(p, m).models = Overridden(p, m)
        BY DEF Captured
      <4> QED
        BY <4>1, <4>2
    <3>3. \A e \in Desks : e # d => ~desk'[e].last
      BY <3>1, MoveSelects DEF Others
    <3> QED
      BY <3>2, <3>3 DEF SavesChoice, ToSave
  <2>3. HoldsChoice'
    BY <1>7, MoveSelects DEF Switch, Take, Usable, rows, vault, pauses, Overridden, Captured,
      Others, ChoiceSaved, Shapes, LastToSave, SavesChoice, HoldsChoice, Shaped, ToSave
  <2> QED
    BY <2>1, <2>2, <2>3 DEF ChoiceSaved
<1>8. ASSUME NEW d \in Desks, StoreKey(d)  PROVE ChoiceSaved'
  <2>1. LastToSave'
    BY <1>8, Writes, MoveGoesOn DEF StoreKey, At, vault, selection, pauses, Stay, ChoiceSaved,
      Shapes, LastToSave, SavesChoice, HoldsChoice, Shaped, ToSave
  <2>2. SavesChoice'
    BY <1>8, Writes, MoveGoesOn DEF StoreKey, At, vault, selection, pauses, Stay, ChoiceSaved,
      Shapes, LastToSave, SavesChoice, HoldsChoice, Shaped, ToSave
  <2>3. HoldsChoice'
    BY <1>8, Writes, MoveGoesOn DEF StoreKey, At, vault, selection, pauses, Stay, ChoiceSaved,
      Shapes, LastToSave, SavesChoice, HoldsChoice, Shaped, ToSave
  <2> QED
    BY <2>1, <2>2, <2>3 DEF ChoiceSaved
<1>9. ASSUME NEW d \in Desks, EraseKey(d)  PROVE ChoiceSaved'
  <2>1. LastToSave'
    BY <1>9, Writes, MoveGoesOn DEF EraseKey, At, Erased, vault, selection, pauses, Stay,
      ChoiceSaved, Shapes, LastToSave, SavesChoice, HoldsChoice, Shaped, ToSave
  <2>2. SavesChoice'
    BY <1>9, Writes, MoveGoesOn DEF EraseKey, At, Erased, vault, selection, pauses, Stay,
      ChoiceSaved, Shapes, LastToSave, SavesChoice, HoldsChoice, Shaped, ToSave
  <2>3. HoldsChoice'
    BY <1>9, Writes, MoveGoesOn DEF EraseKey, At, Erased, vault, selection, pauses, Stay,
      ChoiceSaved, Shapes, LastToSave, SavesChoice, HoldsChoice, Shaped, ToSave
  <2> QED
    BY <2>1, <2>2, <2>3 DEF ChoiceSaved
<1>10. ASSUME NEW d \in Desks, CacheKey(d)  PROVE ChoiceSaved'
  <2>1. LastToSave'
    BY <1>10, MoveGoesOn DEF CacheKey, At, rows, selection, pauses, Stay, ChoiceSaved, Shapes,
      LastToSave, SavesChoice, HoldsChoice, Shaped, ToSave
  <2>2. SavesChoice'
    BY <1>10, MoveGoesOn DEF CacheKey, At, rows, selection, pauses, Stay, ChoiceSaved, Shapes,
      LastToSave, SavesChoice, HoldsChoice, Shaped, ToSave
  <2>3. HoldsChoice'
    BY <1>10, MoveGoesOn DEF CacheKey, At, rows, selection, pauses, Stay, ChoiceSaved, Shapes,
      LastToSave, SavesChoice, HoldsChoice, Shaped, ToSave
  <2> QED
    BY <2>1, <2>2, <2>3 DEF ChoiceSaved
<1>11. ASSUME NEW d \in Desks, UncacheDeleted(d)  PROVE ChoiceSaved'
  <2>1. LastToSave'
    BY <1>11, MoveEnds DEF UncacheDeleted, At, rows, selection, pauses, Stay, ChoiceSaved,
      Shapes, LastToSave, SavesChoice, HoldsChoice, Shaped, ToSave
  <2>2. SavesChoice'
    BY <1>11, MoveEnds DEF UncacheDeleted, At, rows, selection, pauses, Stay, ChoiceSaved,
      Shapes, LastToSave, SavesChoice, HoldsChoice, Shaped, ToSave
  <2>3. HoldsChoice'
    BY <1>11, MoveEnds DEF UncacheDeleted, At, rows, selection, pauses, Stay, ChoiceSaved,
      Shapes, LastToSave, SavesChoice, HoldsChoice, Shaped, ToSave
  <2> QED
    BY <2>1, <2>2, <2>3 DEF ChoiceSaved
<1>12. ASSUME NEW d \in Desks, UncacheRemoved(d)  PROVE ChoiceSaved'
  <2>1. LastToSave'
    BY <1>12, MoveRemoves DEF Stay, Others, ChoiceSaved, Shapes, TypeOK, LastToSave,
      SavesChoice, HoldsChoice, Shaped, DesksTyped, ToSave
  <2>2. SavesChoice'
    BY <1>12, MoveRemoves DEF Stay, Others, ChoiceSaved, Shapes, TypeOK, LastToSave,
      SavesChoice, HoldsChoice, Shaped, DesksTyped, ToSave
  <2>3. HoldsChoice'
    BY <1>12, MoveRemoves DEF Stay, Others, ChoiceSaved, Shapes, LastToSave, SavesChoice,
      HoldsChoice, Shaped, ToSave
  <2> QED
    BY <2>1, <2>2, <2>3 DEF ChoiceSaved
<1>13. ASSUME NEW d \in Desks, Register(d)  PROVE ChoiceSaved'
  <2>1. LastToSave'
    BY <1>13, MoveGoesOn, MoveEnds DEF Register, At, Written, AfterRegister, vault, selection,
      pauses, Stay, ChoiceSaved, Shapes, LastToSave, SavesChoice, HoldsChoice, Shaped, ToSave
  <2>2. SavesChoice'
    BY <1>13, MoveGoesOn, MoveEnds DEF Register, At, Written, AfterRegister, vault, selection,
      pauses, Stay, ChoiceSaved, Shapes, LastToSave, SavesChoice, HoldsChoice, Shaped, ToSave
  <2>3. HoldsChoice'
    BY <1>13, MoveGoesOn, MoveEnds DEF Register, At, Written, AfterRegister, vault, selection,
      pauses, Stay, ChoiceSaved, Shapes, LastToSave, SavesChoice, HoldsChoice, Shaped, ToSave
  <2> QED
    BY <2>1, <2>2, <2>3 DEF ChoiceSaved
<1>14. ASSUME NEW d \in Desks, Save(d)  PROVE ChoiceSaved'
  <2>1. LastToSave'
    BY <1>14, MoveEnds DEF Save, At, vault, selection, pauses, Stay, ChoiceSaved, Shapes,
      LastToSave, SavesChoice, HoldsChoice, Shaped, ToSave
  <2>2. SavesChoice'
    BY <1>14, MoveEnds DEF Save, At, vault, selection, pauses, Stay, ChoiceSaved, Shapes,
      LastToSave, SavesChoice, HoldsChoice, Shaped, ToSave
  <2>3. HoldsChoice'
    BY <1>14, MoveEnds DEF Save, At, vault, selection, pauses, Stay, ChoiceSaved, Shapes,
      LastToSave, SavesChoice, HoldsChoice, Shaped, ToSave
  <2> QED
    BY <2>1, <2>2, <2>3 DEF ChoiceSaved
<1>15. ASSUME NEW d \in Desks, WriteFails(d)  PROVE ChoiceSaved'
  <2>1. LastToSave'
    BY <1>15, MoveGoesOn, MoveEnds DEF WriteFails, Fault, At, AfterRegister, rows, vault,
      selection, pauses, Stay, ChoiceSaved, Shapes, LastToSave, SavesChoice, HoldsChoice,
      Shaped, ToSave
  <2>2. SavesChoice'
    BY <1>15, MoveGoesOn, MoveEnds DEF WriteFails, Fault, At, AfterRegister, rows, vault,
      selection, pauses, Stay, ChoiceSaved, Shapes, LastToSave, SavesChoice, HoldsChoice,
      Shaped, ToSave
  <2>3. HoldsChoice'
    BY <1>15, MoveGoesOn, MoveEnds DEF WriteFails, Fault, At, AfterRegister, rows, vault,
      selection, pauses, Stay, ChoiceSaved, Shapes, LastToSave, SavesChoice, HoldsChoice,
      Shaped, ToSave
  <2> QED
    BY <2>1, <2>2, <2>3 DEF ChoiceSaved
<1>16. ASSUME NEW d \in Desks, Check(d)  PROVE ChoiceSaved'
  BY <1>16, MoveEnds DEF Check, At, rows, vault, selection, pauses, history, Stay, ChoiceSaved,
    Shapes, LastToSave, SavesChoice, HoldsChoice, Shaped, ToSave
<1>17. ASSUME NEW d \in Desks, Verified(d)  PROVE ChoiceSaved'
  <2>1. LastToSave'
    BY <1>17, MoveSelects DEF Verified, At, Usable, rows, vault, pauses, Overridden, Captured,
      Others, ChoiceSaved, Shapes, LastToSave, SavesChoice, HoldsChoice, Shaped, ToSave
  <2>2. SavesChoice'
    <3>1. Select(d, desk[d].p, None)
      BY <1>17 DEF Verified
    <3>2. desk'[d].saved.provider = active' /\ desk'[d].saved.models = override'
      <4>1. desk'[d].saved = Captured(desk[d].p, None) /\ active' = desk[d].p /\ override' = Overridden(desk[d].p, None)
        BY <3>1, MoveSelects
      <4>2. Captured(desk[d].p, None).provider = desk[d].p /\ Captured(desk[d].p, None).models = Overridden(desk[d].p, None)
        BY DEF Captured
      <4> QED
        BY <4>1, <4>2
    <3>3. \A e \in Desks : e # d => ~desk'[e].last
      BY <3>1, MoveSelects DEF Others
    <3> QED
      BY <3>2, <3>3 DEF SavesChoice, ToSave
  <2>3. HoldsChoice'
    BY <1>17, MoveSelects DEF Verified, At, Usable, rows, vault, pauses, Overridden, Captured,
      Others, ChoiceSaved, Shapes, LastToSave, SavesChoice, HoldsChoice, Shaped, ToSave
  <2> QED
    BY <2>1, <2>2, <2>3 DEF ChoiceSaved
<1>18. ASSUME NEW d \in Desks, NotVerified(d)  PROVE ChoiceSaved'
  BY <1>18, MoveEnds DEF NotVerified, At, rows, vault, selection, pauses, history, Stay,
    ChoiceSaved, Shapes, LastToSave, SavesChoice, HoldsChoice, Shaped, ToSave
<1>25. ASSUME Reloaded  PROVE ChoiceSaved'
  BY <1>25 DEF Reloaded, rows, selection, pauses, ChoiceSaved, Shapes, LastToSave, SavesChoice,
    HoldsChoice, Shaped, ToSave
<1>27. ASSUME Stop  PROVE ChoiceSaved'
  <2>1. LastToSave'
    BY <1>27 DEF Stop, Fault, Pending, Idle, rows, selection, NoChoice, ChoiceSaved, Shapes,
      Down, LastToSave, SavesChoice, HoldsChoice, Shaped, AllIdle, NoClients, ToSave
  <2>2. SavesChoice'
    BY <1>27 DEF Stop, Fault, Pending, Idle, rows, selection, NoChoice, ChoiceSaved, Shapes,
      Down, LastToSave, SavesChoice, HoldsChoice, Shaped, AllIdle, NoClients, ToSave
  <2>3. HoldsChoice'
    BY <1>27 DEF Stop, Fault, Pending, Idle, rows, selection, NoChoice, ChoiceSaved, Shapes,
      Down, LastToSave, SavesChoice, HoldsChoice, Shaped, AllIdle, NoClients, ToSave
  <2> QED
    BY <2>1, <2>2, <2>3 DEF ChoiceSaved
<1>28. ASSUME NEW vaultRead \in BOOLEAN, NEW settingsRead \in BOOLEAN, Start(vaultRead, settingsRead)  PROVE ChoiceSaved'
  <2>1. LastToSave'
    BY <1>28 DEF Start, NoChoice, Fault, Usable, rows, pauses, ChoiceSaved, Shapes, Down,
      LastToSave, SavesChoice, HoldsChoice, Shaped, AllIdle, NoClients, ToSave
  <2>2. SavesChoice'
    BY <1>28 DEF Start, NoChoice, Fault, Usable, rows, pauses, ChoiceSaved, Shapes, Down,
      LastToSave, SavesChoice, HoldsChoice, Shaped, AllIdle, NoClients, ToSave
  <2>3. HoldsChoice'
    BY <1>28 DEF Start, NoChoice, Fault, Usable, rows, pauses, ChoiceSaved, Shapes, Down,
      LastToSave, SavesChoice, HoldsChoice, Shaped, AllIdle, NoClients, ToSave
  <2> QED
    BY <2>1, <2>2, <2>3 DEF ChoiceSaved
<1>29. ASSUME NEW p \in Providers, Health(p)
      PROVE  ChoiceSaved'
  BY <1>29 DEF Health, rows, vault, selection, pauses, history, ChoiceSaved, LastToSave,
    SavesChoice, HoldsChoice, ToSave
<1>30. ASSUME NEW c \in Chats, (Begin(c) \/ Ask(c) \/ Answers(c))
      PROVE  ChoiceSaved'
  BY <1>30 DEF Begin, Ask, Answers, Providers, rows, vault, selection, pauses, history, Kinds,
    Fails, LeastOf, ChoiceSaved, LastToSave, SavesChoice, HoldsChoice, ToSave
<1>31. ASSUME NEW c \in Chats, NEW kind \in Kinds, DoesNotAnswer(c, kind)
      PROVE  ChoiceSaved'
  BY <1>31 DEF DoesNotAnswer, Fails, rows, vault, selection, history, LeastOf, ChoiceSaved,
    LastToSave, SavesChoice, HoldsChoice, ToSave
<1>32. ASSUME (Reread \/ Tick)
      PROVE  ChoiceSaved'
  BY <1>32 DEF Reread, Tick, rows, selection, pauses, history, Providers, vault, ChoiceSaved,
    LastToSave, SavesChoice, HoldsChoice, ToSave
<1> QED
  BY <1>1, <1>2, <1>3, <1>4, <1>5, <1>6, <1>7, <1>8, <1>9, <1>10, <1>11, <1>12, <1>13, <1>14,
    <1>15, <1>16, <1>17, <1>18, <1>25, <1>27, <1>28, <1>29, <1>30, <1>31, <1>32 DEF Next, Commands, Steps, Calls

(* The row lists what is registered unless it is excused or a handler that  *)
(* has changed the list is still to write it.                               *)
ToRegister(d) == desk[d].pc = "register" \/ desk[d].op = "rmllm"
RegistrySaved ==
    "registry" \notin unsaved /\ (\A d \in Desks : ~ToRegister(d)) => registry = custom

(* A step of Next keeps RegistrySaved.                                       *)
LEMMA RegistryStep ==
    ASSUME TypeOK, Shapes, Down, RegistrySaved, Next
    PROVE  RegistrySaved'
<1>1. ASSUME NEW d \in Desks, NEW p \in Providers, NEW k \in Keys, SetKey(d, p, k)  PROVE RegistrySaved'
  BY <1>1, MoveTakes DEF SetKey, Take, rows, vault, selection, pauses, history, Stay,
    RegistrySaved, Shapes, ToRegister, Shaped
<1>2. ASSUME NEW d \in Desks, NEW p \in Providers, DeleteKey(d, p)  PROVE RegistrySaved'
  BY <1>2, MoveTakes DEF DeleteKey, Take, rows, vault, selection, pauses, history, Stay,
    RegistrySaved, Shapes, ToRegister, Shaped
<1>3. ASSUME NEW d \in Desks, NEW p \in Providers, NEW k \in Keys, Paste(d, p, k)  PROVE RegistrySaved'
  BY <1>3, MoveTakes DEF Paste, Take, rows, vault, selection, pauses, history, Stay,
    RegistrySaved, Shapes, ToRegister, Shaped
<1>4. ASSUME NEW d \in Desks, NEW p \in Providers, NEW k \in Keys, AddWithKey(d, p, k)  PROVE RegistrySaved'
  BY <1>4, MoveTakes DEF AddWithKey, Take, rows, vault, selection, pauses, history, Stay,
    RegistrySaved, Shapes, ToRegister, Shaped
<1>5. ASSUME NEW d \in Desks, NEW p \in Providers, AddWithoutKey(d, p)  PROVE RegistrySaved'
  BY <1>5, MoveTakes DEF AddWithoutKey, Take, rows, vault, selection, pauses, Stay,
    RegistrySaved, Shapes, ToRegister, Shaped
<1>6. ASSUME NEW d \in Desks, NEW p \in Providers, RemoveLLM(d, p)  PROVE RegistrySaved'
  BY <1>6, MoveTakes DEF RemoveLLM, Take, rows, vault, selection, pauses, Stay, RegistrySaved,
    Shapes, ToRegister, Shaped
<1>7. ASSUME NEW d \in Desks, NEW p \in Providers, NEW m \in Models \cup {None}, Switch(d, p, m)  PROVE RegistrySaved'
  BY <1>7, MoveSelects DEF Switch, Take, rows, vault, pauses, Others, RegistrySaved, Shapes,
    ToRegister, Shaped
<1>8. ASSUME NEW d \in Desks, StoreKey(d)  PROVE RegistrySaved'
  BY <1>8, Writes, MoveGoesOn DEF StoreKey, At, vault, selection, pauses, Stay, RegistrySaved,
    Shapes, ToRegister, Shaped
<1>9. ASSUME NEW d \in Desks, EraseKey(d)  PROVE RegistrySaved'
  BY <1>9, Writes, MoveGoesOn DEF EraseKey, At, Erased, vault, selection, pauses, Stay,
    RegistrySaved, Shapes, ToRegister, Shaped
<1>10. ASSUME NEW d \in Desks, CacheKey(d)  PROVE RegistrySaved'
  BY <1>10, MoveGoesOn DEF CacheKey, At, rows, selection, pauses, Stay, RegistrySaved, Shapes,
    ToRegister, Shaped
<1>11. ASSUME NEW d \in Desks, UncacheDeleted(d)  PROVE RegistrySaved'
  BY <1>11, MoveEnds DEF UncacheDeleted, At, rows, selection, pauses, Stay, RegistrySaved,
    Shapes, ToRegister, Shaped
<1>12. ASSUME NEW d \in Desks, UncacheRemoved(d)  PROVE RegistrySaved'
  BY <1>12, MoveRemoves DEF Stay, Others, RegistrySaved, Shapes, ToRegister, Shaped
<1>13. ASSUME NEW d \in Desks, Register(d)  PROVE RegistrySaved'
  BY <1>13, MoveGoesOn, MoveEnds DEF Register, At, Written, AfterRegister, vault, selection,
    pauses, Stay, RegistrySaved, Shapes, ToRegister, Shaped
<1>14. ASSUME NEW d \in Desks, Save(d)  PROVE RegistrySaved'
  BY <1>14, MoveEnds DEF Save, At, vault, selection, pauses, Stay, RegistrySaved, Shapes,
    ToRegister, Shaped
<1>15. ASSUME NEW d \in Desks, WriteFails(d)  PROVE RegistrySaved'
  BY <1>15, MoveGoesOn, MoveEnds DEF WriteFails, Fault, At, AfterRegister, rows, vault,
    selection, pauses, Stay, RegistrySaved, Shapes, ToRegister, Shaped
<1>16. ASSUME NEW d \in Desks, Check(d)  PROVE RegistrySaved'
  BY <1>16, MoveEnds DEF Check, At, rows, vault, selection, pauses, history, Stay,
    RegistrySaved, Shapes, ToRegister, Shaped
<1>17. ASSUME NEW d \in Desks, Verified(d)  PROVE RegistrySaved'
  BY <1>17, MoveSelects DEF Verified, At, rows, vault, pauses, Others, RegistrySaved, Shapes,
    ToRegister, Shaped
<1>18. ASSUME NEW d \in Desks, NotVerified(d)  PROVE RegistrySaved'
  BY <1>18, MoveEnds DEF NotVerified, At, rows, vault, selection, pauses, history, Stay,
    RegistrySaved, Shapes, ToRegister, Shaped
<1>25. ASSUME Reloaded  PROVE RegistrySaved'
  BY <1>25 DEF Reloaded, rows, selection, pauses, RegistrySaved, Shapes, ToRegister, Shaped
<1>27. ASSUME Stop  PROVE RegistrySaved'
  BY <1>27 DEF Stop, Fault, Pending, Idle, rows, selection, NoChoice, RegistrySaved, Shapes,
    Down, ToRegister, Shaped, AllIdle, NoClients
<1>28. ASSUME NEW vaultRead \in BOOLEAN, NEW settingsRead \in BOOLEAN, Start(vaultRead, settingsRead)  PROVE RegistrySaved'
  BY <1>28 DEF Start, NoChoice, Fault, rows, pauses, RegistrySaved, Shapes, Down, ToRegister,
    Shaped, AllIdle, NoClients
<1>29. ASSUME NEW p \in Providers, Health(p)
      PROVE  RegistrySaved'
  BY <1>29 DEF Health, rows, vault, selection, pauses, history, RegistrySaved, ToRegister
<1>30. ASSUME NEW c \in Chats, (Begin(c) \/ Ask(c) \/ Answers(c))
      PROVE  RegistrySaved'
  BY <1>30 DEF Begin, Ask, Answers, Providers, rows, vault, selection, pauses, history, Kinds,
    Fails, LeastOf, RegistrySaved, ToRegister
<1>31. ASSUME NEW c \in Chats, NEW kind \in Kinds, DoesNotAnswer(c, kind)
      PROVE  RegistrySaved'
  BY <1>31 DEF DoesNotAnswer, Fails, rows, vault, selection, history, LeastOf, RegistrySaved,
    ToRegister
<1>32. ASSUME (Reread \/ Tick)
      PROVE  RegistrySaved'
  BY <1>32 DEF Reread, Tick, rows, selection, pauses, history, Providers, vault, RegistrySaved,
    ToRegister
<1> QED
  BY <1>1, <1>2, <1>3, <1>4, <1>5, <1>6, <1>7, <1>8, <1>9, <1>10, <1>11, <1>12, <1>13, <1>14,
    <1>15, <1>16, <1>17, <1>18, <1>25, <1>27, <1>28, <1>29, <1>30, <1>31, <1>32 DEF Next, Commands, Steps, Calls

(* Between the commit of a key and its use there is one handler, and the    *)
(* row has what it will put in the cache, unless the key is excused.        *)
Flight(d, p) == desk[d].p = p /\ desk[d].pc \in {"cache", "uncache"}
BringsKey ==
    \A p \in Providers \ unsaved : \A d \in Desks : Flight(d, p) =>
        credentials[p] = IF desk[d].pc = "cache" THEN desk[d].key ELSE None
OneBrings ==
    \A p \in Providers \ unsaved : \A d, e \in Desks : Flight(d, p) /\ Flight(e, p) => d = e
HoldsKey ==
    \A p \in Providers \ unsaved : (\A d \in Desks : ~Flight(d, p)) => cache[p] = credentials[p]
KeysSaved ==
    /\ BringsKey
    /\ OneBrings
    /\ HoldsKey

(* A step of Next keeps KeysSaved.                                           *)
LEMMA KeysStep ==
    ASSUME TypeOK, Shapes, Down, KeysSaved, Next
    PROVE  KeysSaved'
<1>1. ASSUME NEW d \in Desks, NEW p \in Providers, NEW k \in Keys, SetKey(d, p, k)  PROVE KeysSaved'
  BY <1>1, MoveTakes DEF SetKey, Take, rows, vault, selection, pauses, history, Stay,
    KeysSaved, Shapes, BringsKey, OneBrings, HoldsKey, Shaped, Flight
<1>2. ASSUME NEW d \in Desks, NEW p \in Providers, DeleteKey(d, p)  PROVE KeysSaved'
  BY <1>2, MoveTakes DEF DeleteKey, Take, rows, vault, selection, pauses, history, Stay,
    KeysSaved, Shapes, BringsKey, OneBrings, HoldsKey, Shaped, Flight
<1>3. ASSUME NEW d \in Desks, NEW p \in Providers, NEW k \in Keys, Paste(d, p, k)  PROVE KeysSaved'
  BY <1>3, MoveTakes DEF Paste, Take, rows, vault, selection, pauses, history, Stay, KeysSaved,
    Shapes, BringsKey, OneBrings, HoldsKey, Shaped, Flight
<1>4. ASSUME NEW d \in Desks, NEW p \in Providers, NEW k \in Keys, AddWithKey(d, p, k)  PROVE KeysSaved'
  BY <1>4, MoveTakes DEF AddWithKey, Take, rows, vault, selection, pauses, history, Stay,
    KeysSaved, Shapes, BringsKey, OneBrings, HoldsKey, Shaped, Flight
<1>5. ASSUME NEW d \in Desks, NEW p \in Providers, AddWithoutKey(d, p)  PROVE KeysSaved'
  BY <1>5, MoveTakes DEF AddWithoutKey, Take, rows, vault, selection, pauses, Stay, KeysSaved,
    Shapes, BringsKey, OneBrings, HoldsKey, Shaped, Flight
<1>6. ASSUME NEW d \in Desks, NEW p \in Providers, RemoveLLM(d, p)  PROVE KeysSaved'
  BY <1>6, MoveTakes DEF RemoveLLM, Take, rows, vault, selection, pauses, Stay, KeysSaved,
    Shapes, BringsKey, OneBrings, HoldsKey, Shaped, Flight
<1>7. ASSUME NEW d \in Desks, NEW p \in Providers, NEW m \in Models \cup {None}, Switch(d, p, m)  PROVE KeysSaved'
  <2>1. BringsKey'
    BY <1>7, MoveSelects DEF Switch, Take, rows, vault, pauses, Others, KeysSaved, Shapes,
      BringsKey, OneBrings, HoldsKey, Shaped, Flight
  <2>2. OneBrings'
    BY <1>7, MoveSelects DEF Switch, Take, rows, vault, pauses, Others, KeysSaved, Shapes,
      BringsKey, OneBrings, HoldsKey, Shaped, Flight
  <2>3. HoldsKey'
    BY <1>7, MoveSelects DEF Switch, Take, rows, vault, pauses, Others, KeysSaved, Shapes,
      BringsKey, OneBrings, HoldsKey, Shaped, Flight
  <2> QED
    BY <2>1, <2>2, <2>3 DEF KeysSaved
<1>8. ASSUME NEW d \in Desks, StoreKey(d)  PROVE KeysSaved'
  <2>1. BringsKey'
    BY <1>8, Writes, MoveGoesOn DEF StoreKey, At, vault, selection, pauses, Stay, KeysSaved,
      Shapes, TypeOK, BringsKey, OneBrings, HoldsKey, Shaped, DesksTyped, Flight
  <2>2. OneBrings'
    BY <1>8, Writes, MoveGoesOn DEF StoreKey, At, vault, selection, pauses, Stay, KeysSaved,
      Shapes, BringsKey, OneBrings, HoldsKey, Shaped, Flight
  <2>3. HoldsKey'
    BY <1>8, Writes, MoveGoesOn DEF StoreKey, At, vault, selection, pauses, Stay, KeysSaved,
      Shapes, BringsKey, OneBrings, HoldsKey, Shaped, Flight
  <2> QED
    BY <2>1, <2>2, <2>3 DEF KeysSaved
<1>9. ASSUME NEW d \in Desks, EraseKey(d)  PROVE KeysSaved'
  <2>1. BringsKey'
    BY <1>9, Writes, MoveGoesOn DEF EraseKey, At, Erased, vault, selection, pauses, Stay,
      KeysSaved, Shapes, TypeOK, BringsKey, OneBrings, HoldsKey, Shaped, DesksTyped, Flight
  <2>2. OneBrings'
    BY <1>9, Writes, MoveGoesOn DEF EraseKey, At, Erased, vault, selection, pauses, Stay,
      KeysSaved, Shapes, BringsKey, OneBrings, HoldsKey, Shaped, Flight
  <2>3. HoldsKey'
    BY <1>9, Writes, MoveGoesOn DEF EraseKey, At, Erased, vault, selection, pauses, Stay,
      KeysSaved, Shapes, BringsKey, OneBrings, HoldsKey, Shaped, Flight
  <2> QED
    BY <2>1, <2>2, <2>3 DEF KeysSaved
<1>10. ASSUME NEW d \in Desks, CacheKey(d)  PROVE KeysSaved'
  <2>1. BringsKey'
    BY <1>10, MoveGoesOn DEF CacheKey, At, rows, selection, pauses, Stay, KeysSaved, Shapes,
      BringsKey, OneBrings, HoldsKey, Shaped, Flight
  <2>2. OneBrings'
    BY <1>10, MoveGoesOn DEF CacheKey, At, rows, selection, pauses, Stay, KeysSaved, Shapes,
      BringsKey, OneBrings, HoldsKey, Shaped, Flight
  <2>3. HoldsKey'
    BY <1>10, MoveGoesOn DEF CacheKey, At, rows, selection, pauses, Stay, KeysSaved, Shapes,
      TypeOK, BringsKey, OneBrings, HoldsKey, Shaped, DesksTyped, Flight
  <2> QED
    BY <2>1, <2>2, <2>3 DEF KeysSaved
<1>11. ASSUME NEW d \in Desks, UncacheDeleted(d)  PROVE KeysSaved'
  <2>1. BringsKey'
    BY <1>11, MoveEnds DEF UncacheDeleted, At, rows, selection, pauses, Stay, KeysSaved,
      Shapes, BringsKey, OneBrings, HoldsKey, Shaped, Flight
  <2>2. OneBrings'
    BY <1>11, MoveEnds DEF UncacheDeleted, At, rows, selection, pauses, Stay, KeysSaved,
      Shapes, BringsKey, OneBrings, HoldsKey, Shaped, Flight
  <2>3. HoldsKey'
    BY <1>11, MoveEnds DEF UncacheDeleted, At, rows, selection, pauses, Stay, KeysSaved,
      Shapes, TypeOK, BringsKey, OneBrings, HoldsKey, Shaped, DesksTyped, Flight
  <2> QED
    BY <2>1, <2>2, <2>3 DEF KeysSaved
<1>12. ASSUME NEW d \in Desks, UncacheRemoved(d)  PROVE KeysSaved'
  <2>1. BringsKey'
    BY <1>12, MoveRemoves DEF Stay, Others, KeysSaved, Shapes, TypeOK, BringsKey, OneBrings,
      HoldsKey, Shaped, DesksTyped, Flight
  <2>2. OneBrings'
    BY <1>12, MoveRemoves DEF Stay, Others, KeysSaved, Shapes, TypeOK, BringsKey, OneBrings,
      HoldsKey, Shaped, DesksTyped, Flight
  <2>3. HoldsKey'
    BY <1>12, MoveRemoves DEF Stay, Others, KeysSaved, Shapes, TypeOK, BringsKey, OneBrings,
      HoldsKey, Shaped, DesksTyped, Flight
  <2> QED
    BY <2>1, <2>2, <2>3 DEF KeysSaved
<1>13. ASSUME NEW d \in Desks, Register(d)  PROVE KeysSaved'
  <2>1. BringsKey'
    BY <1>13, MoveGoesOn, MoveEnds, ManagerAssumption DEF Register, At, Written, AfterRegister,
      vault, selection, pauses, Stay, KeysSaved, Shapes, BringsKey, OneBrings, HoldsKey,
      Shaped, Flight
  <2>2. OneBrings'
    BY <1>13, MoveGoesOn, MoveEnds, ManagerAssumption DEF Register, At, Written, AfterRegister,
      vault, selection, pauses, Stay, KeysSaved, Shapes, BringsKey, OneBrings, HoldsKey,
      Shaped, Flight
  <2>3. HoldsKey'
    BY <1>13, MoveGoesOn, MoveEnds, ManagerAssumption DEF Register, At, Written, AfterRegister,
      vault, selection, pauses, Stay, KeysSaved, Shapes, BringsKey, OneBrings, HoldsKey,
      Shaped, Flight
  <2> QED
    BY <2>1, <2>2, <2>3 DEF KeysSaved
<1>14. ASSUME NEW d \in Desks, Save(d)  PROVE KeysSaved'
  <2>1. BringsKey'
    BY <1>14, MoveEnds, ManagerAssumption DEF Save, At, vault, selection, pauses, Stay,
      KeysSaved, Shapes, BringsKey, OneBrings, HoldsKey, Shaped, Flight
  <2>2. OneBrings'
    BY <1>14, MoveEnds, ManagerAssumption DEF Save, At, vault, selection, pauses, Stay,
      KeysSaved, Shapes, BringsKey, OneBrings, HoldsKey, Shaped, Flight
  <2>3. HoldsKey'
    BY <1>14, MoveEnds, ManagerAssumption DEF Save, At, vault, selection, pauses, Stay,
      KeysSaved, Shapes, BringsKey, OneBrings, HoldsKey, Shaped, Flight
  <2> QED
    BY <2>1, <2>2, <2>3 DEF KeysSaved
<1>15. ASSUME NEW d \in Desks, WriteFails(d)  PROVE KeysSaved'
  <2>1. BringsKey'
    BY <1>15, MoveGoesOn, MoveEnds DEF WriteFails, Fault, At, AfterRegister, rows, vault,
      selection, pauses, Stay, KeysSaved, Shapes, BringsKey, OneBrings, HoldsKey, Shaped, Flight
  <2>2. OneBrings'
    BY <1>15, MoveGoesOn, MoveEnds DEF WriteFails, Fault, At, AfterRegister, rows, vault,
      selection, pauses, Stay, KeysSaved, Shapes, BringsKey, OneBrings, HoldsKey, Shaped, Flight
  <2>3. HoldsKey'
    BY <1>15, MoveGoesOn, MoveEnds DEF WriteFails, Fault, At, AfterRegister, rows, vault,
      selection, pauses, Stay, KeysSaved, Shapes, BringsKey, OneBrings, HoldsKey, Shaped, Flight
  <2> QED
    BY <2>1, <2>2, <2>3 DEF KeysSaved
<1>16. ASSUME NEW d \in Desks, Check(d)  PROVE KeysSaved'
  BY <1>16, MoveEnds DEF Check, At, rows, vault, selection, pauses, history, Stay, KeysSaved,
    Shapes, BringsKey, OneBrings, HoldsKey, Shaped, Flight
<1>17. ASSUME NEW d \in Desks, Verified(d)  PROVE KeysSaved'
  <2>1. BringsKey'
    BY <1>17, MoveSelects DEF Verified, At, rows, vault, pauses, Others, KeysSaved, Shapes,
      BringsKey, OneBrings, HoldsKey, Shaped, Flight
  <2>2. OneBrings'
    BY <1>17, MoveSelects DEF Verified, At, rows, vault, pauses, Others, KeysSaved, Shapes,
      BringsKey, OneBrings, HoldsKey, Shaped, Flight
  <2>3. HoldsKey'
    BY <1>17, MoveSelects DEF Verified, At, rows, vault, pauses, Others, KeysSaved, Shapes,
      BringsKey, OneBrings, HoldsKey, Shaped, Flight
  <2> QED
    BY <2>1, <2>2, <2>3 DEF KeysSaved
<1>18. ASSUME NEW d \in Desks, NotVerified(d)  PROVE KeysSaved'
  BY <1>18, MoveEnds DEF NotVerified, At, rows, vault, selection, pauses, history, Stay,
    KeysSaved, Shapes, BringsKey, OneBrings, HoldsKey, Shaped, Flight
<1>25. ASSUME Reloaded  PROVE KeysSaved'
  BY <1>25 DEF Reloaded, rows, selection, pauses, KeysSaved, Shapes, BringsKey, OneBrings,
    HoldsKey, Shaped, Flight
<1>27. ASSUME Stop  PROVE KeysSaved'
  <2>1. BringsKey'
    BY <1>27 DEF Stop, Fault, Pending, Idle, rows, selection, NoChoice, KeysSaved, Shapes,
      Down, BringsKey, OneBrings, HoldsKey, Shaped, AllIdle, NoClients, Flight
  <2>2. OneBrings'
    BY <1>27 DEF Stop, Fault, Pending, Idle, rows, selection, NoChoice, KeysSaved, Shapes,
      Down, BringsKey, OneBrings, HoldsKey, Shaped, AllIdle, NoClients, Flight
  <2>3. HoldsKey'
    BY <1>27 DEF Stop, Fault, Pending, Idle, rows, selection, NoChoice, KeysSaved, Shapes,
      Down, BringsKey, OneBrings, HoldsKey, Shaped, AllIdle, NoClients, Flight
  <2> QED
    BY <2>1, <2>2, <2>3 DEF KeysSaved
<1>28. ASSUME NEW vaultRead \in BOOLEAN, NEW settingsRead \in BOOLEAN, Start(vaultRead, settingsRead)  PROVE KeysSaved'
  <2>1. BringsKey'
    BY <1>28 DEF Start, NoChoice, Fault, rows, pauses, KeysSaved, Shapes, Down, BringsKey,
      OneBrings, HoldsKey, Shaped, AllIdle, NoClients, Flight
  <2>2. OneBrings'
    BY <1>28 DEF Start, NoChoice, Fault, rows, pauses, KeysSaved, Shapes, Down, BringsKey,
      OneBrings, HoldsKey, Shaped, AllIdle, NoClients, Flight
  <2>3. HoldsKey'
    BY <1>28 DEF Start, NoChoice, Fault, rows, pauses, KeysSaved, Shapes, Down, BringsKey,
      OneBrings, HoldsKey, Shaped, AllIdle, NoClients, Flight
  <2> QED
    BY <2>1, <2>2, <2>3 DEF KeysSaved
<1>29. ASSUME NEW p \in Providers, Health(p)
      PROVE  KeysSaved'
  BY <1>29 DEF Health, rows, vault, selection, pauses, history, KeysSaved, BringsKey,
    OneBrings, HoldsKey, Providers, Flight
<1>30. ASSUME NEW c \in Chats, (Begin(c) \/ Ask(c) \/ Answers(c))
      PROVE  KeysSaved'
  BY <1>30 DEF Begin, Ask, Answers, Providers, rows, vault, selection, pauses, history, Kinds,
    Fails, LeastOf, KeysSaved, BringsKey, OneBrings, HoldsKey, Flight
<1>31. ASSUME NEW c \in Chats, NEW kind \in Kinds, DoesNotAnswer(c, kind)
      PROVE  KeysSaved'
  BY <1>31 DEF DoesNotAnswer, Fails, rows, vault, selection, history, LeastOf, KeysSaved,
    BringsKey, OneBrings, HoldsKey, Providers, Flight
<1>32. ASSUME (Reread \/ Tick)
      PROVE  KeysSaved'
  BY <1>32 DEF Reread, Tick, rows, selection, pauses, history, Providers, vault, KeysSaved,
    BringsKey, OneBrings, HoldsKey, Flight
<1> QED
  BY <1>1, <1>2, <1>3, <1>4, <1>5, <1>6, <1>7, <1>8, <1>9, <1>10, <1>11, <1>12, <1>13, <1>14,
    <1>15, <1>16, <1>17, <1>18, <1>25, <1>27, <1>28, <1>29, <1>30, <1>31, <1>32 DEF Next, Commands, Steps, Calls

(* The inductive invariant.  TypeOK alone says nothing of rows and memory;  *)
(* the *Saved parts relate them through what the handlers have under way.   *)
ManagerInv ==
    /\ TypeOK /\ Shapes /\ Down /\ ClientsCurrent
    /\ ChoiceSaved /\ RegistrySaved /\ KeysSaved

LEMMA ManagerInitial ==
    ASSUME Init
    PROVE  ManagerInv
<1>1. TypeOK
  <2>1. active \in Providers \cup {None}
    BY DEF Init, Usable
  <2>2. override \in [Providers -> Models \cup {None}]
    BY DEF Init, Choice
  <2>3. DesksTyped
    BY IdleTyped DEF Init, DesksTyped, Idle
  <2>4. CallsTyped
    BY ManagerAssumption DEF Init, CallsTyped, Quiet, Chat
  <2>5. unsaved \subseteq {"choice", "registry"} \cup Providers /\ crossed \subseteq Providers
    BY DEF Init
  <2> QED
    BY <2>1, <2>2, <2>3, <2>4, <2>5, ManagerAssumption DEF Init, TypeOK
<1>2. \A d \in Desks : desk[d].pc = "idle" /\ desk[d].op = "none" /\ ~desk[d].last
  BY DEF Init, Idle
<1>3. Shapes /\ Down /\ ClientsCurrent
  BY <1>2 DEF Init, Shapes, Shaped, Down, AllIdle, NoClients, ClientsCurrent
<1>4. ChoiceSaved
  BY <1>2 DEF Init, ChoiceSaved, LastToSave, SavesChoice, HoldsChoice, ToSave
<1>5. RegistrySaved /\ KeysSaved
  BY <1>2 DEF Init, RegistrySaved, ToRegister, KeysSaved, BringsKey, OneBrings, HoldsKey, Flight
<1> QED
  BY <1>1, <1>3, <1>4, <1>5 DEF ManagerInv

LEMMA ManagerStep ==
    ASSUME ManagerInv, [Next]_vars
    PROVE  ManagerInv'
<1>1. CASE Next
  BY <1>1, TypeStep, ShapesStep, DownStep, ClientsStep, ChoiceStep, RegistryStep, KeysStep
     DEF ManagerInv
<1>2. CASE UNCHANGED vars
  <2>1. UNCHANGED <<phase, credentials, choice, registry, cache, reread, active, override, custom, clients,
                    cooldown, strikes, desk, chat, orders, faults, unsaved, crossed>>
    BY <1>2 DEF vars, rows, vault, selection, pauses, history
  <2>2. TypeOK' /\ Shapes' /\ Down'
    BY <2>1 DEF ManagerInv, TypeOK, DesksTyped, CallsTyped, Shapes, Down, AllIdle, NoClients
  <2>3. ClientsCurrent' /\ RegistrySaved'
    BY <2>1 DEF ManagerInv, ClientsCurrent, Buildable, RegistrySaved, ToRegister
  <2>4. ChoiceSaved' /\ KeysSaved'
    BY <2>1 DEF ManagerInv, ChoiceSaved, LastToSave, SavesChoice, HoldsChoice, ToSave,
                KeysSaved, BringsKey, OneBrings, HoldsKey, Flight
  <2> QED
    BY <2>2, <2>3, <2>4 DEF ManagerInv
<1> QED
  BY <1>1, <1>2

(* The invariant holds in every state of the manager.                       *)
THEOREM ManagerInvariant == Spec => []ManagerInv
<1>1. Init => ManagerInv
  BY ManagerInitial
<1>2. ManagerInv /\ [Next]_vars => ManagerInv'
  BY ManagerStep
<1> QED
  BY <1>1, <1>2, PTL DEF Spec

(* The variables of the manager keep their types, whatever commands and     *)
(* calls cross.                                                             *)
THEOREM ManagerTypeCorrect == Spec => []TypeOK
<1>1. ManagerInv => TypeOK
  BY DEF ManagerInv
<1> QED
  BY <1>1, ManagerInvariant, PTL

(* No call uses a client with a key or model the owner has replaced, except *)
(* of a name that could be used while it was being removed.                 *)
THEOREM ManagerClientsCurrent == Spec => []ClientsCurrent
<1>1. ManagerInv => ClientsCurrent
  BY DEF ManagerInv
<1> QED
  BY <1>1, ManagerInvariant, PTL

(* Only a start brings the process up.                                      *)
LEMMA OnlyStart ==
    ASSUME Next, Restarts
    PROVE  \E vaultRead, settingsRead \in BOOLEAN : Start(vaultRead, settingsRead)
<1>1. ASSUME NEW d \in Desks, NEW p \in Providers, NEW k \in Keys,
           \/ SetKey(d, p, k)
           \/ Paste(d, p, k)
           \/ AddWithKey(d, p, k)
      PROVE  FALSE
  BY <1>1 DEF Restarts, SetKey, Paste, AddWithKey, Take
<1>2. ASSUME NEW d \in Desks, NEW p \in Providers,
           \/ DeleteKey(d, p)
           \/ AddWithoutKey(d, p)
           \/ RemoveLLM(d, p)
      PROVE  FALSE
  BY <1>2 DEF Restarts, DeleteKey, AddWithoutKey, RemoveLLM, Take
<1>3. ASSUME NEW d \in Desks, NEW p \in Providers, NEW m \in Models \cup {None}, Switch(d, p, m)
      PROVE  FALSE
  BY <1>3 DEF Restarts, Switch, Take
<1>4. ASSUME NEW d \in Desks,
           \/ StoreKey(d)
           \/ EraseKey(d)
           \/ CacheKey(d)
           \/ UncacheDeleted(d)
           \/ UncacheRemoved(d)
           \/ Register(d)
           \/ Save(d)
           \/ WriteFails(d)
           \/ Check(d)
           \/ Verified(d)
           \/ NotVerified(d)
      PROVE  FALSE
  BY <1>4 DEF Restarts, StoreKey, EraseKey, CacheKey, UncacheDeleted, UncacheRemoved, Register,
    Save, WriteFails, Check, Verified, NotVerified, At
<1>5. ASSUME NEW p \in Providers, Health(p)
      PROVE  FALSE
  BY <1>5 DEF Restarts, Health
<1>6. ASSUME NEW c \in Chats,
           \/ Begin(c)
           \/ Ask(c)
           \/ Answers(c)
      PROVE  FALSE
  BY <1>6 DEF Restarts, Begin, Ask, Answers
<1>7. ASSUME NEW c \in Chats, NEW kind \in Kinds, DoesNotAnswer(c, kind)
      PROVE  FALSE
  BY <1>7 DEF Restarts, DoesNotAnswer
<1>8. ASSUME 
           \/ Reread
           \/ Reloaded
           \/ Tick
           \/ Stop
      PROVE  FALSE
  BY <1>8 DEF Restarts, Reread, Reloaded, Tick, Stop
<1> QED
  BY <1>1, <1>2, <1>3, <1>4, <1>5, <1>6, <1>7, <1>8 DEF Next, Commands, Steps, Calls

(* When the process comes up nothing is under way, so the rows tell what    *)
(* memory held, unless they are excused.                                    *)
LEMMA StartKeeps ==
    ASSUME ManagerInv, NEW vaultRead \in BOOLEAN, NEW settingsRead \in BOOLEAN,
           Start(vaultRead, settingsRead)
    PROVE  /\ "choice" \notin unsaved' => active' = active /\ override' = override
           /\ "registry" \notin unsaved' => custom' = custom
           /\ \A p \in Providers \ unsaved' : cache'[p] = cache[p]
<1>1. \A d \in Desks : ~ToSave(d) /\ ~ToRegister(d) /\ \A p \in Providers : ~Flight(d, p)
  BY DEF Start, ManagerInv, Down, AllIdle, Shapes, Shaped, ToSave, ToRegister, Flight
<1>2. unsaved \subseteq unsaved'
  BY DEF Start
<1>3. ASSUME "choice" \notin unsaved'  PROVE active' = active /\ override' = override
  <2>1. settingsRead /\ active' = choice.provider /\ override' = choice.models
    BY <1>3 DEF Start
  <2> QED
    BY <1>1, <1>2, <1>3, <2>1 DEF ManagerInv, ChoiceSaved, HoldsChoice
<1>4. ASSUME "registry" \notin unsaved'  PROVE custom' = custom
  <2>1. settingsRead /\ custom' = registry
    BY <1>4 DEF Start
  <2> QED
    BY <1>1, <1>2, <1>4, <2>1 DEF ManagerInv, RegistrySaved
<1>5. ASSUME NEW p \in Providers \ unsaved'  PROVE cache'[p] = cache[p]
  <2>1. vaultRead /\ cache' = credentials
    BY <1>5 DEF Start
  <2> QED
    BY <1>1, <1>2, <1>5, <2>1 DEF ManagerInv, KeysSaved, HoldsKey
<1> QED
  BY <1>3, <1>4, <1>5

(* "The selection is persisted in the database and restored on restart"     *)
(* (README.md), unless a failed or overtaken write, a removal or a provider *)
(* that cannot be used any more excuses.                                    *)
THEOREM ManagerChoiceKept == Spec => ChoiceKept
<1>1. ASSUME ManagerInv, [Next]_vars, Restarts, "choice" \notin unsaved'
      PROVE  (active' = active /\ override' = override) \/ UNCHANGED vars
  BY <1>1, OnlyStart, StartKeeps
<1>2. ManagerInv /\ [Next]_vars
        => [Restarts /\ "choice" \notin unsaved' => active' = active /\ override' = override]_vars
  BY <1>1
<1> QED
  BY <1>2, ManagerInvariant, PTL DEF Spec, ChoiceKept

(* The providers the owner registered survive a restart, unless a write of  *)
(* them failed or was cut off.                                              *)
THEOREM ManagerRegistryKept == Spec => RegistryKept
<1>1. ASSUME ManagerInv, [Next]_vars, Restarts, "registry" \notin unsaved'
      PROVE  custom' = custom \/ UNCHANGED vars
  BY <1>1, OnlyStart, StartKeeps
<1>2. ManagerInv /\ [Next]_vars => [Restarts /\ "registry" \notin unsaved' => custom' = custom]_vars
  BY <1>1
<1> QED
  BY <1>2, ManagerInvariant, PTL DEF Spec, RegistryKept

(* So do the keys, but for one that two handlers were changing at a time or *)
(* one when the process stopped.                                            *)
THEOREM ManagerKeysKept == Spec => KeysKept
<1>1. ASSUME ManagerInv, [Next]_vars, Restarts
      PROVE  (\A p \in Providers \ unsaved' : cache'[p] = cache[p]) \/ UNCHANGED vars
  BY <1>1, OnlyStart, StartKeeps
<1>2. ManagerInv /\ [Next]_vars
        => [Restarts => \A p \in Providers \ unsaved' : cache'[p] = cache[p]]_vars
  BY <1>1
<1> QED
  BY <1>2, ManagerInvariant, PTL DEF Spec, KeysKept
-----------------------------------------------------------------------------
(* Calls come to an end.                                                    *)

(* What a step makes of a call that is on: it ends, answered or not, or it  *)
(* asks one of the providers left to it and has one fewer left, or it goes  *)
(* back to those left.                                                      *)
MovesOn(c) ==
    \/ chat'[c] = Quiet
    \/ chat'[c].pc = "broken"
    \/ /\ chat[c].pc = "next" /\ NextIn(c) \in chat[c].left
       /\ chat'[c].left = chat[c].left \ {NextIn(c)}
    \/ /\ chat[c].pc = "waiting" /\ chat'[c].pc = "next"
       /\ chat'[c].left = chat[c].left /\ chat'[c].left # {}

LEMMA OnlyCallsMove ==
    ASSUME [Next]_vars, NEW c \in Chats, chat'[c] # chat[c]
    PROVE  Stop \/ \E d \in Chats : Calls(d)
<1>1. chat' # chat
  OBVIOUS
<1>2. ASSUME NEW d \in Desks, Commands(d) PROVE chat' = chat
  BY <1>2 DEF Commands, SetKey, Paste, AddWithKey, DeleteKey, AddWithoutKey, RemoveLLM, Switch
<1>3. ASSUME NEW d \in Desks, Steps(d) PROVE chat' = chat
  BY <1>3 DEF Steps, StoreKey, EraseKey, CacheKey, UncacheDeleted, UncacheRemoved, Register,
    Save, WriteFails, Check, Verified, NotVerified
<1>4. ASSUME NEW p \in Providers, Health(p) PROVE chat' = chat
  BY <1>4 DEF Health
<1>5. CASE Reread \/ Reloaded \/ Tick \/ UNCHANGED vars
  BY <1>5 DEF Reread, Reloaded, Tick, vars
<1>6. ASSUME NEW v \in BOOLEAN, NEW s \in BOOLEAN, Start(v, s) PROVE chat' = chat
  BY <1>6 DEF Start
<1> QED
  BY <1>1, <1>2, <1>3, <1>4, <1>5, <1>6 DEF Next

LEMMA FailureMoves ==
    ASSUME TypeOK, NEW c \in Chats, NEW p, NEW kind, NEW rest, Fails(c, p, kind, rest)
    PROVE  /\ \A d \in Chats : d # c => chat'[d] = chat[d]
           /\ \/ rest = {} /\ chat'[c] = Quiet
              \/ rest # {} /\ chat'[c].pc = "next" /\ chat'[c].left = rest
              \/ strikes[p] >= FloatLimit /\ chat'[c].pc = "broken"
<1>1. chat \in [Chats -> Chat]
  BY DEF TypeOK, CallsTyped
<1>2. chat[c] \in Chat
  BY <1>1
<1>3. \/ rest = {} /\ chat' = [chat EXCEPT ![c] = Quiet]
      \/ rest # {} /\ chat' = [chat EXCEPT ![c] = [@ EXCEPT !.pc = "next", !.at = None, !.left = rest]]
      \/ /\ strikes[p] >= FloatLimit
         /\ chat' = [chat EXCEPT ![c] = [Quiet EXCEPT !.pc = "broken", !.left = rest]]
  BY DEF Fails
<1>4. CASE rest = {} /\ chat' = [chat EXCEPT ![c] = Quiet]
  BY <1>1, <1>4
<1>5. CASE rest # {} /\ chat' = [chat EXCEPT ![c] = [@ EXCEPT !.pc = "next", !.at = None, !.left = rest]]
  BY <1>1, <1>2, <1>5 DEF Chat
<1>6. CASE /\ strikes[p] >= FloatLimit
           /\ chat' = [chat EXCEPT ![c] = [Quiet EXCEPT !.pc = "broken", !.left = rest]]
  BY <1>1, <1>6 DEF Quiet
<1> QED
  BY <1>3, <1>4, <1>5, <1>6

(* A call never comes back to a provider it has asked, whatever handlers    *)
(* and other calls do to the providers meanwhile: the providers left to it  *)
(* shrink with each that is asked, so it asks each at most once.            *)
CallsMoveOn ==
    \A c \in Chats :
        chat[c].pc \in {"next", "waiting"} /\ chat'[c] # chat[c] => MovesOn(c)

(* LLMManager.chat's loop over the providers ends after as many attempts as *)
(* there are providers, at most.                                            *)
THEOREM ManagerCallsMoveOn == Spec => [][CallsMoveOn]_vars
<1>1. TypeOK /\ [Next]_vars => [CallsMoveOn]_vars
  <2>1. SUFFICES ASSUME TypeOK, [Next]_vars, NEW c \in Chats,
                        chat[c].pc \in {"next", "waiting"}, chat'[c] # chat[c]
                 PROVE  MovesOn(c)
    BY DEF CallsMoveOn
  <2>2. chat \in [Chats -> Chat] /\ chat[c] \in Chat
    BY <2>1 DEF TypeOK, CallsTyped
  <2>3. CASE Stop
    BY <2>1, <2>3 DEF Stop, MovesOn
  <2>4. ASSUME NEW d \in Chats, Begin(d) PROVE FALSE
    BY <2>1, <2>2, <2>4 DEF Begin
  <2>5. ASSUME NEW d \in Chats, Answers(d) PROVE MovesOn(c)
    BY <2>1, <2>2, <2>5 DEF Answers, MovesOn
  <2>6. ASSUME NEW d \in Chats, NEW kind \in Kinds, DoesNotAnswer(d, kind) PROVE MovesOn(c)
    <3>1. Fails(d, chat[d].at, kind, chat[d].left) /\ chat[d].pc = "waiting"
      BY <2>6 DEF DoesNotAnswer
    <3>2. d = c
      BY <2>1, <3>1, FailureMoves
    <3> QED
      BY <2>1, <3>1, <3>2, FailureMoves DEF MovesOn
  <2>7. ASSUME NEW d \in Chats, Ask(d) PROVE MovesOn(c)
    <3>1. chat[d] \in Chat /\ chat[d].pc = "next" /\ chat[d].left # {}
      BY <2>1, <2>7 DEF Ask, TypeOK, CallsTyped
    <3>2. NextIn(d) \in chat[d].left
      BY <3>1, Ranked DEF NextIn, Chat
    <3>3. \/ chat' = [chat EXCEPT ![d].pc = "waiting", ![d].at = NextIn(d),
                                  ![d].left = @ \ {NextIn(d)}]
          \/ \E kind \in Kinds : Fails(d, NextIn(d), kind, chat[d].left \ {NextIn(d)})
      BY <2>7 DEF Ask
    <3>4. CASE chat' = [chat EXCEPT ![d].pc = "waiting", ![d].at = NextIn(d),
                                    ![d].left = @ \ {NextIn(d)}]
      <4>1. d = c
        BY <2>1, <2>2, <3>4
      <4>2. chat'[c].left = chat[c].left \ {NextIn(c)}
        BY <2>2, <3>4, <4>1 DEF Chat
      <4> QED
        BY <3>1, <3>2, <4>1, <4>2 DEF MovesOn
    <3>5. ASSUME NEW kind \in Kinds, Fails(d, NextIn(d), kind, chat[d].left \ {NextIn(d)})
          PROVE  MovesOn(c)
      <4>1. d = c
        BY <2>1, <3>5, FailureMoves
      <4> QED
        BY <2>1, <3>1, <3>2, <3>5, <4>1, FailureMoves DEF MovesOn
    <3> QED
      BY <3>3, <3>4, <3>5
  <2> QED
    BY <2>1, <2>3, <2>4, <2>5, <2>6, <2>7, OnlyCallsMove DEF Calls
<1> QED
  BY <1>1, ManagerTypeCorrect, PTL DEF Spec

(* Only the doubling of the pauses breaks a call off with an exception of   *)
(* its own, and not before some provider has failed FloatLimit times in a   *)
(* row: below that, a call that is not answered ends as such.               *)
BreaksOnlyAtLimit ==
    \A c \in Chats :
        chat[c].pc # "broken" /\ chat'[c].pc = "broken"
            => \E p \in Providers : strikes[p] >= FloatLimit

(* _mark_failed raises only past the limit: `2 ** (strikes - 1)`.           *)
THEOREM ManagerBreaksOnlyAtLimit == Spec => [][BreaksOnlyAtLimit]_vars
<1>1. TypeOK /\ [Next]_vars => [BreaksOnlyAtLimit]_vars
  <2>1. SUFFICES ASSUME TypeOK, [Next]_vars, NEW c \in Chats,
                        chat[c].pc # "broken", chat'[c].pc = "broken"
                 PROVE  \E p \in Providers : strikes[p] >= FloatLimit
    BY DEF BreaksOnlyAtLimit
  <2>2. chat \in [Chats -> Chat] /\ chat[c] \in Chat /\ chat'[c] # chat[c]
    BY <2>1 DEF TypeOK, CallsTyped
  <2>3. ~Stop
    BY <2>1 DEF Stop, Quiet
  <2>4. ASSUME NEW d \in Chats, Begin(d) \/ Answers(d) PROVE FALSE
    <3>1. \E q : q.pc # "broken" /\ chat' = [chat EXCEPT ![d] = q]
      BY <2>4 DEF Begin, Answers, Quiet
    <3> QED
      BY <2>1, <2>2, <3>1
  <2>5. ASSUME NEW d \in Chats, NEW p \in Providers, NEW kind, NEW rest, Fails(d, p, kind, rest)
        PROVE  strikes[p] >= FloatLimit
    <3>1. d = c
      BY <2>2, <2>1, <2>5, FailureMoves
    <3> QED
      BY <2>1, <2>5, <3>1, FailureMoves DEF Quiet
  <2>6. ASSUME NEW d \in Chats, NEW kind \in Kinds, DoesNotAnswer(d, kind)
        PROVE  \E p \in Providers : strikes[p] >= FloatLimit
    <3>1. chat[d].at \in Providers /\ Fails(d, chat[d].at, kind, chat[d].left)
      BY <2>1, <2>6 DEF DoesNotAnswer, TypeOK, CallsTyped
    <3> QED
      BY <2>5, <3>1
  <2>7. ASSUME NEW d \in Chats, Ask(d)
        PROVE  \E p \in Providers : strikes[p] >= FloatLimit
    <3>1. chat[d] \in Chat /\ chat[d].left # {}
      BY <2>1, <2>7 DEF Ask, TypeOK, CallsTyped
    <3>2. NextIn(d) \in Providers
      BY <3>1, Ranked DEF NextIn, Chat
    <3>3. \/ chat' = [chat EXCEPT ![d].pc = "waiting", ![d].at = NextIn(d),
                                  ![d].left = @ \ {NextIn(d)}]
          \/ \E kind \in Kinds : Fails(d, NextIn(d), kind, chat[d].left \ {NextIn(d)})
      BY <2>7 DEF Ask
    <3>4. chat' # [chat EXCEPT ![d].pc = "waiting", ![d].at = NextIn(d),
                               ![d].left = @ \ {NextIn(d)}]
      BY <2>1, <2>2 DEF Chat
    <3> QED
      BY <2>5, <3>2, <3>3, <3>4
  <2> QED
    BY <2>2, <2>3, <2>4, <2>6, <2>7, <2>1, OnlyCallsMove DEF Calls
<1> QED
  BY <1>1, ManagerTypeCorrect, PTL DEF Spec
=============================================================================
