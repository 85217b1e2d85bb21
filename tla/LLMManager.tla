----------------------------- MODULE LLMManager -----------------------------
(***************************************************************************)
(* The language models the agent can call: their keys in the vault         *)
(* (src/app/security/vault.py), which is active and with which model, those *)
(* the owner registers, the cached clients, and a call that falls back from *)
(* one provider to the next (src/app/llm/manager.py).  The commands that    *)
(* change them come from src/app/telegram/setup_commands.py, bot.py and     *)
(* src/app/api.py and are handled at the same time.                         *)
(*                                                                         *)
(* Code between two awaits runs undisturbed.  A desk is one handler; its pc *)
(* names the write it waits for, or what it does after the write.           *)
(* The .env file is taken to hold no keys and no endpoint of its own.       *)
(***************************************************************************)
EXTENDS Integers, FiniteSets

CONSTANTS
    Keyless,      \* providers that need no key: omniroute, ollama
    Catalogue,    \* providers that need one: anthropic, openai and the presets
    Native,       \* those of the catalogue that are listed without a key, too
    Names,        \* what the owner may call a provider of his own
    EnvProvider,  \* settings.llm_provider
    Gateway,      \* omniroute
    Rank,         \* place of a provider in the order of fallbacks
    Keys, Models,
    BaseCooldown, \* pause after the first failure, by kind of failure
    MaxCooldown,
    FloatLimit,   \* exponent from which 2 ** n is too large for a float
    Desks, Chats,
    MaxOrders,    \* bound on commands and calls
    MaxFaults,    \* bound on failed writes, failed starts and stops
    None

Providers == Keyless \cup Catalogue \cup Names
Kinds == DOMAIN BaseCooldown

ASSUME ManagerAssumption ==
    /\ Native \subseteq Catalogue
    /\ Names \cap (Native \cup Keyless) = {}   \* reserved by /addllm
    /\ EnvProvider \in Providers /\ Gateway \in Keyless
    /\ IsFiniteSet(Providers) /\ Rank \in [Providers -> 0..Cardinality(Providers)]
    /\ \A p, q \in Providers : Rank[p] = Rank[q] => p = q
    /\ BaseCooldown \in [Kinds -> Nat]
    /\ {MaxCooldown, FloatLimit, MaxOrders, MaxFaults} \subseteq Nat
    /\ None \notin Keys \cup Models \cup Providers
    /\ {"choice", "registry"} \cap Providers = {}   \* words of the history

VARIABLES
    phase,       \* of the process
    \* Rows
    credentials, \* key of each provider
    choice,      \* settings["llm.active"]
    registry,    \* settings["llm.custom_providers"]
    \* Memory; after a stop, what it last held
    cache,       \* the vault's _cache
    reread,      \* what a further vault.load() has read, or None
    active,      \* _active
    override,    \* _model_override
    custom,      \* _custom: whether a name is registered, and with a key
    clients,     \* _clients
    cooldown,    \* _cooldowns: what is left of each
    strikes,     \* _failures
    desk, chat,
    orders, faults,
    \* History: read by properties only.
    unsaved,     \* what is not in its row: its last write failed or was cut off, an older
                 \* write of it came later, or a load of the vault read its row before
    crossed      \* providers whose client outlived its key: the name could be used while
                 \* its removal was under way, or the vault was loaded again

rows == <<credentials, choice, registry>>
vault == <<cache, reread>>
selection == <<active, override>>
pauses == <<cooldown, strikes>>
history == <<unsaved, crossed>>
vars == <<phase, rows, vault, selection, custom, clients, pauses, desk, chat, orders, faults,
          history>>

Client == [key : Keys \cup {None}, model : Models \cup {None}]
Choice == [provider : Providers \cup {None}, models : [Providers -> Models \cup {None}]]
Entry == {"absent", "keyed", "open"}
NoChoice == [provider |-> None, models |-> [p \in Providers |-> None]]

\* A handler: the command, the provider and key it names, the selection it
\* will save, and whether that is the last one made.
Desk == [pc : {"idle", "store", "cache", "erase", "uncache", "verify", "register", "check", "save"},
         op : {"none", "setkey", "delkey", "paste", "addllm", "rmllm", "switch"},
         p : Providers \cup {None}, key : Keys \cup {None}, saved : Choice, last : BOOLEAN]
Idle == [pc |-> "idle", op |-> "none", p |-> None, key |-> None, saved |-> NoChoice, last |-> FALSE]

\* A call: the provider asked, the active one when it began, those left to try.
Chat == [pc : {"idle", "next", "waiting", "broken"}, at : Providers \cup {None},
         first : Providers \cup {None}, left : SUBSET Providers]
Quiet == [pc |-> "idle", at |-> None, first |-> None, left |-> {}]

\* configured_providers() lists p as configured: set_active accepts it.
Usable(p, keys, entries) ==
    /\ p \in Providers
    /\ \/ p \in Keyless
       \/ entries[p] = "open"
       \/ keys[p] # None /\ (p \in Catalogue \/ entries[p] = "keyed")

\* The process has just come up on what earlier ones left in the rows.
Init ==
    /\ phase = "up"
    /\ credentials \in [Providers -> Keys \cup {None}] /\ cache = credentials /\ reread = None
    /\ choice \in Choice
    /\ registry \in [Providers -> Entry] /\ custom = registry
    /\ \A p \in Providers \ Names : registry[p] = "absent"
    /\ active = IF Usable(choice.provider, cache, custom) THEN choice.provider ELSE None
    /\ override = choice.models
    /\ clients = [p \in Providers |-> None]
    /\ cooldown = [p \in Providers |-> 0] /\ strikes = [p \in Providers |-> 0]
    /\ desk = [d \in Desks |-> Idle] /\ chat = [c \in Chats |-> Quiet]
    /\ orders = 0 /\ faults = 0
    /\ unsaved = IF active = choice.provider THEN {} ELSE {"choice"}
    /\ crossed = {}

\* _build knows p.
Buildable(p) == p \in Catalogue \cup Keyless \/ custom[p] # "absent"

ActiveKey ==
    CASE active # None -> active
      [] active = None /\ EnvProvider \in Native /\ cache[EnvProvider] = None -> Gateway
      [] OTHER -> EnvProvider

\* client(p): a cached client stays as it was built.
WithClient(p) ==
    IF clients[p] = None
      THEN [clients EXCEPT ![p] = [key |-> cache[p], model |-> override[p]]]
      ELSE clients

\* The next use of p builds a client anew.
\* Mutant: the client of the old key or model stays.
Dropped_Kept(p) == clients
Dropped(p) == [clients EXCEPT ![p] = None]

(***************************************************************************)
(* Commands: up to the first await.                                        *)
(***************************************************************************)
Take(d) == phase = "up" /\ desk[d].pc = "idle" /\ orders < MaxOrders /\ orders' = orders + 1

AtWork(d, pc, op, p, key) ==
    desk' = [desk EXCEPT ![d] = [Idle EXCEPT !.pc = pc, !.op = op, !.p = p, !.key = key]]

SetKey(d, p, k) ==
    /\ Take(d)
    /\ p \in Keyless \cup Native \/ Usable(p, cache, custom) \/ custom[p] # "absent"
    /\ AtWork(d, "store", "setkey", p, k)
    /\ UNCHANGED <<phase, rows, vault, selection, custom, clients, pauses, chat, faults, history>>

DeleteKey(d, p) ==
    /\ Take(d)
    /\ AtWork(d, "erase", "delkey", p, None)
    /\ UNCHANGED <<phase, rows, vault, selection, custom, clients, pauses, chat, faults, history>>

Paste(d, p, k) ==
    /\ Take(d)
    /\ p \in Catalogue
    /\ AtWork(d, "store", "paste", p, k)
    /\ UNCHANGED <<phase, rows, vault, selection, custom, clients, pauses, chat, faults, history>>

AddWithKey(d, p, k) ==
    /\ Take(d)
    /\ p \in Names
    /\ AtWork(d, "store", "addllm", p, k)
    /\ UNCHANGED <<phase, rows, vault, selection, custom, clients, pauses, chat, faults, history>>

AddWithoutKey(d, p) ==
    /\ Take(d)
    /\ p \in Names
    /\ custom' = [custom EXCEPT ![p] = "open"]
    /\ clients' = Dropped(p)
    /\ crossed' = crossed \ {p}
    /\ AtWork(d, "register", "addllm", p, None)
    /\ UNCHANGED <<phase, rows, vault, selection, pauses, chat, faults, unsaved>>

RemoveLLM(d, p) ==
    /\ Take(d)
    /\ custom[p] # "absent"
    /\ custom' = [custom EXCEPT ![p] = "absent"]
    /\ clients' = Dropped(p)
    /\ crossed' = crossed \ {p}
    /\ AtWork(d, "erase", "rmllm", p, None)
    /\ UNCHANGED <<phase, rows, vault, selection, pauses, chat, faults, unsaved>>

\* What a switch to p, with model m if one is given, makes of the models, and
\* what is saved of it.  Mutant: the models as they were before.
Overridden(p, m) == IF m = None THEN override ELSE [override EXCEPT ![p] = m]
Captured_Before(p, m) == [provider |-> p, models |-> override]
Captured(p, m) == [provider |-> p, models |-> Overridden(p, m)]

\* set_active: checks, changes memory and reads what it will save, undisturbed.
Select(d, p, m) ==
    /\ active' = p
    /\ override' = Overridden(p, m)
    /\ clients' = Dropped(p)
    /\ crossed' = crossed \ {p}
    /\ desk' = [e \in Desks |->
                   IF e = d THEN [Idle EXCEPT !.pc = "save", !.op = "switch", !.p = p, !.last = TRUE,
                                              !.saved = Captured(p, m)]
                            ELSE [desk[e] EXCEPT !.last = FALSE]]

Switch(d, p, m) ==
    /\ Take(d)
    /\ Usable(p, cache, custom)
    /\ Select(d, p, m)
    /\ UNCHANGED <<phase, rows, vault, custom, pauses, chat, faults, unsaved>>

(***************************************************************************)
(* What follows.  A transaction orders the writes of a row; the handler    *)
(* goes on some time after its commit.                                     *)
(***************************************************************************)
At(d, pc) == phase = "up" /\ desk[d].pc = pc
GoesTo(d, pc) == desk' = [desk EXCEPT ![d].pc = pc]
IsDone(d) == desk' = [desk EXCEPT ![d] = Idle]

InFlight(p, d) == \E e \in Desks \ {d} : desk[e].p = p /\ desk[e].pc \in {"cache", "uncache"}
KeyWritten(d) ==
    LET p == desk[d].p
    IN unsaved' = IF InFlight(p, d) THEN unsaved \cup {p} ELSE unsaved \ {p}

StoreKey(d) ==
    /\ At(d, "store")
    /\ credentials' = [credentials EXCEPT ![desk[d].p] = desk[d].key]
    /\ KeyWritten(d)
    /\ GoesTo(d, "cache")
    /\ UNCHANGED <<phase, choice, registry, vault, selection, custom, clients, pauses, chat,
                   orders, faults, crossed>>

\* Mutant: not that of a name which is no longer registered.
Erased_IfKnown(p) == IF Buildable(p) THEN [credentials EXCEPT ![p] = None] ELSE credentials
Erased(p) == [credentials EXCEPT ![p] = None]

EraseKey(d) ==
    /\ At(d, "erase")
    /\ credentials' = Erased(desk[d].p)
    /\ KeyWritten(d)
    /\ GoesTo(d, "uncache")
    /\ UNCHANGED <<phase, choice, registry, vault, selection, custom, clients, pauses, chat,
                   orders, faults, crossed>>

\* The key is in force, and no client with another one is left; /paste tries
\* it at once, /addllm registers the name.
CacheKey(d) ==
    LET p == desk[d].p IN
    /\ At(d, "cache")
    /\ cache' = [cache EXCEPT ![p] = desk[d].key]
    /\ crossed' = crossed \ {p}
    /\ \/ /\ desk[d].op = "setkey"
          /\ clients' = Dropped(p)
          /\ GoesTo(d, "check")
          /\ UNCHANGED custom
       \/ /\ desk[d].op = "paste"
          /\ clients' = [clients EXCEPT ![p] = [key |-> desk[d].key, model |-> override[p]]]
          /\ GoesTo(d, "verify")
          /\ UNCHANGED custom
       \/ /\ desk[d].op = "addllm"
          /\ clients' = Dropped(p)
          /\ custom' = [custom EXCEPT ![p] = "keyed"]
          /\ GoesTo(d, "register")
    /\ UNCHANGED <<phase, rows, reread, selection, pauses, chat, orders, faults, unsaved>>

UncacheDeleted(d) ==
    LET p == desk[d].p IN
    /\ At(d, "uncache") /\ desk[d].op = "delkey"
    /\ cache' = [cache EXCEPT ![p] = None]
    /\ clients' = Dropped(p)
    /\ crossed' = crossed \ {p}
    /\ IsDone(d)
    /\ UNCHANGED <<phase, rows, reread, selection, custom, pauses, chat, orders, faults, unsaved>>

\* /rmllm has dropped the client before; one built since, because the name
\* was registered again or is one of the catalogue, stays.
UncacheRemoved(d) ==
    LET p == desk[d].p IN
    /\ At(d, "uncache") /\ desk[d].op = "rmllm"
    /\ cache' = [cache EXCEPT ![p] = None]
    /\ crossed' = IF Buildable(p) THEN crossed \cup {p} ELSE crossed
    /\ \/ /\ active = p
          /\ active' = None
          /\ unsaved' = unsaved \cup {"choice"}
          /\ desk' = [e \in Desks |-> IF e = d THEN [desk[e] EXCEPT !.pc = "register"]
                                      ELSE [desk[e] EXCEPT !.last = FALSE]]
       \/ active # p /\ GoesTo(d, "register") /\ UNCHANGED <<active, unsaved>>
    /\ UNCHANGED <<phase, rows, reread, override, custom, clients, pauses, chat, orders, faults>>

\* _persist_custom passes the dict itself: what is written is what it holds by
\* then.  Mutant: names that are gone from it are left in the row.
Written_Merged == [p \in Providers |-> IF custom[p] = "absent" THEN registry[p] ELSE custom[p]]
Written == custom

AfterRegister(d) == IF desk[d].op = "addllm" THEN GoesTo(d, "check") ELSE IsDone(d)

Register(d) ==
    /\ At(d, "register")
    /\ registry' = Written
    /\ unsaved' = unsaved \ {"registry"}
    /\ AfterRegister(d)
    /\ UNCHANGED <<phase, credentials, choice, vault, selection, custom, clients, pauses, chat,
                   orders, faults, crossed>>

\* _persist passes a copy made when the selection was.
Save(d) ==
    /\ At(d, "save")
    /\ choice' = desk[d].saved
    /\ unsaved' = IF desk[d].last THEN unsaved \ {"choice"} ELSE unsaved \cup {"choice"}
    /\ IsDone(d)
    /\ UNCHANGED <<phase, credentials, registry, vault, selection, custom, clients, pauses, chat,
                   orders, faults, crossed>>

\* A failed write of a setting is logged, one of a key ends the handler.
Fault == faults < MaxFaults /\ faults' = faults + 1

WriteFails(d) ==
    /\ Fault
    /\ \/ /\ At(d, "store") \/ At(d, "erase")
          /\ unsaved' = IF desk[d].op = "rmllm" THEN unsaved \cup {"registry"} ELSE unsaved
          /\ IsDone(d)
       \/ /\ At(d, "save")
          /\ unsaved' = IF desk[d].last THEN unsaved \cup {"choice"} ELSE unsaved
          /\ IsDone(d)
       \/ /\ At(d, "register")
          /\ unsaved' = unsaved \cup {"registry"}
          /\ AfterRegister(d)
    /\ UNCHANGED <<phase, rows, vault, selection, custom, clients, pauses, chat, orders, crossed>>

\* The handler tries the provider, if it is known, and answers the owner.
Check(d) ==
    /\ At(d, "check")
    /\ clients' = IF Buildable(desk[d].p) THEN WithClient(desk[d].p) ELSE clients
    /\ IsDone(d)
    /\ UNCHANGED <<phase, rows, vault, selection, custom, pauses, chat, orders, faults, history>>

Verified(d) ==
    /\ At(d, "verify") /\ Usable(desk[d].p, cache, custom)
    /\ Select(d, desk[d].p, None)
    /\ UNCHANGED <<phase, rows, vault, custom, pauses, chat, orders, faults, unsaved>>

NotVerified(d) ==
    /\ At(d, "verify")
    /\ IsDone(d)
    /\ UNCHANGED <<phase, rows, vault, selection, custom, clients, pauses, chat, orders, faults,
                   history>>

\* health_all, and the look at the local model as the process comes up.
Health(p) ==
    /\ phase = "up"
    /\ Usable(p, cache, custom)
    /\ clients' = WithClient(p)
    /\ UNCHANGED <<phase, rows, vault, selection, custom, pauses, desk, chat, orders, faults, history>>

\* The clients of external services load the vault again; what it then holds
\* is what the rows were when they were read.  No client is dropped.
Reread ==
    /\ phase = "up" /\ reread = None
    /\ orders < MaxOrders /\ orders' = orders + 1
    /\ reread' = credentials
    /\ UNCHANGED <<phase, rows, cache, selection, custom, clients, pauses, desk, chat, faults, history>>

Reloaded ==
    /\ phase = "up" /\ reread # None
    /\ cache' = reread /\ reread' = None
    /\ unsaved' = unsaved \cup {p \in Providers : reread[p] # credentials[p]}
    /\ crossed' = crossed \cup {p \in Providers : clients[p] # None /\ reread[p] # cache[p]}
    /\ UNCHANGED <<phase, rows, selection, custom, clients, pauses, desk, chat, orders, faults>>

(***************************************************************************)
(* A call.  No await separates its steps at "next" from the one before:    *)
(* the model lets others in between, too.                                  *)
(***************************************************************************)
First(S) == CHOOSE p \in S : \A q \in S : Rank[p] <= Rank[q]
Last(S) == CHOOSE p \in S : \A q \in S : Rank[q] <= Rank[p]

\* fallback_order() without those in a pause; if all are, the last of it.
\* Mutant: if all are in a pause, none is asked.
Live(others) == {p \in others \cup {ActiveKey} : cooldown[p] = 0}
Asked_NotInPause(others) == Live(others)
Asked(others) ==
    IF Live(others) # {} THEN Live(others)
    ELSE IF others # {} THEN {Last(others)} ELSE {ActiveKey}

Begin(c) ==
    /\ phase = "up" /\ chat[c].pc \in {"idle", "broken"}
    /\ orders < MaxOrders /\ orders' = orders + 1
    /\ chat' = [chat EXCEPT ![c] = [Quiet EXCEPT
                   !.pc = "next", !.first = ActiveKey,
                   !.left = Asked({p \in Providers \ {ActiveKey} : Usable(p, cache, custom)})]]
    /\ UNCHANGED <<phase, rows, vault, selection, custom, clients, pauses, desk, faults, history>>

\* _mark_failed(p): a longer pause each time; an exception of its own if the
\* doubling can no longer be multiplied.  Strikes beyond that make no difference.
LeastOf(x, y) == IF x <= y THEN x ELSE y
Fails(c, p, kind, rest) ==
    /\ strikes' = [strikes EXCEPT ![p] = LeastOf(@ + 1, FloatLimit + 1)]
    /\ \/ /\ strikes[p] < FloatLimit
          /\ cooldown' = [cooldown EXCEPT ![p] =
                             LeastOf(BaseCooldown[kind] * 2 ^ strikes[p], MaxCooldown)]
          /\ chat' = [chat EXCEPT ![c] = IF rest = {} THEN Quiet
                                         ELSE [@ EXCEPT !.pc = "next", !.at = None, !.left = rest]]
       \/ /\ strikes[p] >= FloatLimit
          /\ chat' = [chat EXCEPT ![c] = [Quiet EXCEPT !.pc = "broken", !.left = rest]]
          /\ UNCHANGED cooldown

NextIn(c) == IF chat[c].first \in chat[c].left THEN chat[c].first ELSE First(chat[c].left)

Ask(c) ==
    LET p == NextIn(c) IN
    /\ phase = "up" /\ chat[c].pc = "next"
    /\ \/ /\ clients[p] # None \/ Buildable(p)
          /\ clients' = WithClient(p)
          /\ chat' = [chat EXCEPT ![c].pc = "waiting", ![c].at = p, ![c].left = @ \ {p}]
          /\ UNCHANGED pauses
       \/ /\ clients[p] = None /\ ~Buildable(p)
          /\ \E kind \in Kinds : Fails(c, p, kind, chat[c].left \ {p})
          /\ UNCHANGED clients
    /\ UNCHANGED <<phase, rows, vault, selection, custom, desk, orders, faults, history>>

Answers(c) ==
    /\ phase = "up" /\ chat[c].pc = "waiting"
    /\ cooldown' = [cooldown EXCEPT ![chat[c].at] = 0]
    /\ strikes' = [strikes EXCEPT ![chat[c].at] = 0]
    /\ chat' = [chat EXCEPT ![c] = Quiet]
    /\ UNCHANGED <<phase, rows, vault, selection, custom, clients, desk, orders, faults, history>>

DoesNotAnswer(c, kind) ==
    /\ phase = "up" /\ chat[c].pc = "waiting"
    /\ Fails(c, chat[c].at, kind, chat[c].left)
    /\ UNCHANGED <<phase, rows, vault, selection, custom, clients, desk, orders, faults, history>>

Tick ==
    /\ \E p \in Providers : cooldown[p] > 0
    /\ cooldown' = [p \in Providers |-> IF cooldown[p] > 0 THEN cooldown[p] - 1 ELSE 0]
    /\ UNCHANGED <<phase, rows, vault, selection, custom, clients, strikes, desk, chat, orders,
                   faults, history>>

(***************************************************************************)
(* The process stops, with what its handlers had not written, and starts.  *)
(***************************************************************************)
Pending(d) ==
    (IF desk[d].pc = "save" THEN {"choice"} ELSE {}) \cup
    (IF desk[d].pc = "register" \/ desk[d].op = "rmllm" THEN {"registry"} ELSE {}) \cup
    (IF desk[d].pc \in {"cache", "uncache"} THEN {desk[d].p} ELSE {})

Stop ==
    /\ phase = "up" /\ Fault
    /\ phase' = "down"
    /\ unsaved' = unsaved \cup UNION {Pending(d) : d \in Desks}
    /\ crossed' = {}
    /\ clients' = [p \in Providers |-> None]
    /\ cooldown' = [p \in Providers |-> 0] /\ strikes' = [p \in Providers |-> 0]
    /\ desk' = [d \in Desks |-> Idle] /\ chat' = [c \in Chats |-> Quiet]
    /\ reread' = None
    /\ UNCHANGED <<rows, cache, selection, custom, orders>>

\* vault.load() and manager.load(): each of them goes on without its rows if
\* it cannot read them.  A selection that is no longer usable is left out.
Start(vaultRead, settingsRead) ==
    LET stored == IF settingsRead THEN choice ELSE NoChoice IN
    /\ phase = "down"
    /\ IF vaultRead /\ settingsRead THEN UNCHANGED faults ELSE Fault
    /\ phase' = "up"
    /\ cache' = IF vaultRead THEN credentials ELSE [p \in Providers |-> None]
    /\ custom' = IF settingsRead THEN registry ELSE [p \in Providers |-> "absent"]
    /\ override' = stored.models
    /\ active' = IF Usable(stored.provider, cache', custom') THEN stored.provider ELSE None
    /\ unsaved' = unsaved \cup (IF vaultRead THEN {} ELSE Providers)
                          \cup (IF settingsRead THEN {} ELSE {"registry"})
                          \cup (IF settingsRead /\ active' = stored.provider THEN {} ELSE {"choice"})
    /\ UNCHANGED <<rows, reread, clients, pauses, desk, chat, orders, crossed>>

Commands(d) ==
    \/ \E p \in Providers, k \in Keys : SetKey(d, p, k) \/ Paste(d, p, k) \/ AddWithKey(d, p, k)
    \/ \E p \in Providers : DeleteKey(d, p) \/ AddWithoutKey(d, p) \/ RemoveLLM(d, p)
    \/ \E p \in Providers, m \in Models \cup {None} : Switch(d, p, m)

Steps(d) ==
    \/ StoreKey(d) \/ EraseKey(d) \/ CacheKey(d) \/ UncacheDeleted(d) \/ UncacheRemoved(d)
    \/ Register(d) \/ Save(d) \/ WriteFails(d) \/ Check(d) \/ Verified(d) \/ NotVerified(d)

Calls(c) == Begin(c) \/ Ask(c) \/ Answers(c) \/ \E kind \in Kinds : DoesNotAnswer(c, kind)

Next ==
    \/ \E d \in Desks : Commands(d) \/ Steps(d)
    \/ \E c \in Chats : Calls(c)
    \/ \E p \in Providers : Health(p)
    \/ Reread \/ Reloaded \/ Tick \/ Stop
    \/ \E vaultRead, settingsRead \in BOOLEAN : Start(vaultRead, settingsRead)

Spec == Init /\ [][Next]_vars
-----------------------------------------------------------------------------
(***************************************************************************)
(* Properties                                                              *)
(***************************************************************************)
DesksTyped ==
    /\ desk \in [Desks -> Desk]
    /\ \A d \in Desks : desk[d].pc # "idle" => desk[d].p \in Providers
CallsTyped ==
    /\ cooldown \in [Providers -> {n \in Int : n <= MaxCooldown}]
    /\ strikes \in [Providers -> 0..(FloatLimit + 1)]
    /\ chat \in [Chats -> Chat]
    /\ \A c \in Chats : /\ chat[c].pc = "waiting" => chat[c].at \in Providers
                        /\ chat[c].pc = "next" => chat[c].left # {}
\* Every variable has its type; only names the owner may give are registered.
TypeOK ==
    /\ phase \in {"up", "down"}
    /\ {credentials, cache} \subseteq [Providers -> Keys \cup {None}]
    /\ reread \in [Providers -> Keys \cup {None}] \cup {None}
    /\ choice \in Choice
    /\ {registry, custom} \subseteq [Providers -> Entry]
    /\ \A q \in Providers \ Names : registry[q] = "absent" /\ custom[q] = "absent"
    /\ active \in Providers \cup {None}
    /\ override \in [Providers -> Models \cup {None}]
    /\ clients \in [Providers -> Client \cup {None}]
    /\ DesksTyped
    /\ CallsTyped
    /\ orders \in 0..MaxOrders /\ faults \in 0..MaxFaults
    /\ unsaved \subseteq {"choice", "registry"} \cup Providers
    /\ crossed \subseteq Providers

Restarts == phase = "down" /\ phase' = "up"

(* "The selection is persisted in the database and restored on restart"    *)
(* (README.md): the process comes up with the provider and the models it   *)
(* had, unless the last switch failed to be written, was written before an *)
(* older one, or met a removal, or its provider cannot be used any more.   *)
ChoiceKept ==
    [][Restarts /\ "choice" \notin unsaved' => active' = active /\ override' = override]_vars

(* The process comes up with the providers the owner had registered.  Of   *)
(* two handlers that write them at a time it does not matter which comes   *)
(* last: only a write that failed or was cut off excuses.                  *)
RegistryKept == [][Restarts /\ "registry" \notin unsaved' => custom' = custom]_vars

(* The process comes up with the keys it had, but for a key that two       *)
(* handlers were changing at a time, or one when it stopped or while the   *)
(* vault was being loaded.                                                 *)
KeysKept == [][Restarts => \A p \in Providers \ unsaved' : cache'[p] = cache[p]]_vars

(* A cached client is of a provider that still exists and was built with   *)
(* its present key and model, whatever changed since, except of a name     *)
(* that could be used while /rmllm was removing it, and of a key that a    *)
(* further load of the vault changed.                                      *)
ClientsCurrent ==
    \A p \in Providers \ crossed :
        clients[p] # None =>
            Buildable(p) /\ clients[p] = [key |-> cache[p], model |-> override[p]]
=============================================================================
