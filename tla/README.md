# A verification of the personal agent

The repository is an always-on personal assistant: a Telegram bot, a web
dashboard and two webhook bridges hand requests to a queue of *tasks* in a SQL
database; worker loops claim tasks and drive an LLM-and-tools loop until each one
finishes, fails, is cancelled or waits for its owner. Next to it runs an
automation that keeps another bot stocked with files of phone numbers.

This directory holds TLA+ modules translated from the source, the TLC runs that
check them on small instances, and theorems about them that TLAPS proves for
every value of their constants. `PROJECT.json` maps each definition to the lines
it stands for.

## Inventory

| Component | State | Operations | Interacts with | Hard part | What makes it correct |
|---|---|---|---|---|---|
| Task store `app/db/repo.py`, `models.py` | rows of `tasks`: status, worker_id, lease, run_after, step, retries | create, claim, renew, set status, requeue, recover | everything below | two claimers on one row; unconditional updates; READ COMMITTED | one runner per task; finished stays finished |
| Task worker `app/workers/task_worker.py` | worker loops, heartbeats, stop flag | start/recover, claim, run with time limit, stop | store, engine, notifier | crash, stop or time-out at any point of a run; failing handler | nothing left RUNNING; every task comes to rest |
| Agent engine `app/agent/engine.py` | step being counted, history, plan | read, count step, decide, apply, complete, fail, wait | store, executor, LLM, notifier, sessions | owner acts between its read and its write | statuses follow the protocol |
| Approvals (repo, bot, api) | rows of `approvals` | request, approve, reject, expire | executor, owner, store | an answer before the wait begins; two decisions at once | a waiting task can be woken |
| Owner commands (bot, api, task tools) | - | cancel, reply, decide | store | hit a task in any state | a command takes effect |
| Tool executor `app/agent/executor.py`, `tools/base.py` | `operations` ledger, `tool_calls` | permission, approval gate, idempotency, run, audit | approvals, autonomy, tools | crash between effect and record | no effect without approval or twice |
| Autonomy `app/security/autonomy.py` | counters per action shape | evaluate, remember | executor, owner | stale or repeated decisions | learned trust is revocable |
| Notifier `app/telegram/notifier.py` | `notified`, `notify:*` keys | send once, sweep at start | engine, worker, Telegram | crash or failed send after the mark | the owner is always told |
| Scheduler `app/workers/scheduler_worker.py` | rows of `scheduled_jobs` | tick, pause, edit, delete | store, owner, OTP | edits during a tick | one task per due run |
| Inbound `app/integrations/inbound.py` | `inbound_messages` | record, create task, mark | bridges, store | crash between two transactions, redelivery | each message becomes at most one task, and is not lost |
| Conversation `app/agent/conversation.py`, `router.py` | chat sessions, threads | route, follow up, create task, switch | store, engine, owner | snapshot used after an LLM call | a follow-up reaches its task |
| LLM manager `app/llm/manager.py`, `security/vault.py` | keys and their cache, active provider and models, registered providers, clients, cooldowns, strikes | set, paste, delete a key; switch; register, remove; chat with fallback; load | engine, router, owner, clients of services | memory and row changed in separate steps by handlers side by side | no stale client; a restart brings back what was in use |
| OTP automation `app/automation/otp_bot.py` | queue, active files, flags in settings rows | enqueue, tag, start, stop, resume, cycle | scheduler, chat, dashboard, the other bot | read-modify-write around long awaits | no file is lost or added twice |
| OTP schedule `app/automation/otp_schedule.py` | per-country times and quotas | due, arm, record | OTP automation | boundaries of intervals and quotas | a country runs when due, and ends |
| Planner, context, learning, skills, briefing; LLM clients; tools; bot menus; bridges; Telegram user, transcription and web sessions; security helpers | caches and notes only | - | - | prompt text, HTTP, rendering, pure checks | not modelled |

## Modules

* `TaskRow` - one row of `tasks` and the SQL statements of `repo.py` as operators
  from the row a transaction finds to the row it leaves.
* `TaskLifecycle` (extends it) - the worker loops, the engine's loop, the owner
  and the process around the rows. **One action is one transaction** (or the
  `await` between two): between any two actions of a worker anything else may
  happen to its row, as READ COMMITTED and asyncio allow.
* `TaskProtocol` - what the store promises, without leases, steps, back-off or
  places in the code: `Take`, `Work`, `LetGo`, `Drop`, `Cancel`, `Reopen`, `Halt`,
  `Recover` over `status`, `holders` and `loose`. `TaskLifecycle` implements it
  under `status <- row[t].status`, `holders <- {w : cur[w] = t}`,
  `loose <- disturbed`.
* `Autonomy` - `autonomy.evaluate` and the counters of `approval_patterns` as
  operators over calls.
* `Executor` (extends it) - the approval gate, the operations ledger and the tool's
  attempts for any number of workers, with the table of requests, the owner
  deciding at two desks (bot and dashboard), and the autonomy level.
* `EffectGate` - what the executor promises, without requests, patterns, desks or places
  in the code: a call takes effect (`Perform`, or `Slip` if it is reported failed)
  only while it is licensed and not known to have been performed; the effect is
  recorded (`Record`) unless something comes between (`Lose`, `Restart`). `Executor`
  implements it under `done <- ledger`, `open <- Unrecorded(Workers)`.
* `Delivery` - from what makes a task to what the owner is told of it: the bridges'
  messages, the scheduler's tick, the announcement of an end, the sweep at start.
  It implements `TaskProtocol` as well, so it and `TaskLifecycle` meet in one
  abstract store.
* `Conversation` - one chat, the messages that are routed in it, uploads and threads,
  and the runs as far as they read the request and release the session.
* `OtpSchedule` - the wall-clock arithmetic of the OTP automation, without state.
* `OtpAutomation` (extends it) - the queue, the active files, the handlers and the
  cycles that read a list, wait on another bot, and write the list back.
* `LLMManager` - the vault's keys, the provider in use, the registered ones, the clients
  built from them, and calls that fall back from one to the next, under handlers that
  change memory and rows in separate steps, and over restarts.
* `MC...` - symmetry, and constants that a .cfg cannot write.
* `...Proofs` - the theorems: `TaskLifecycleProofs`, `TaskRefinementProofs`,
  `ExecutorProofs`, `DeliveryProofs`, `ConversationProofs`, `OtpProofs`,
  `OtpLossProofs`, `LLMManagerProofs`.

### Tasks: state and actions against the code

| Model | Code |
|---|---|
| `row[t]` | the row; a time is kept only as the comparison made with it: `lease` none/live/expired, `delayed` for a `run_after` ahead of now; `wants` and `failure` keep the part of result and failure_kind that properties tell apart |
| `approval[t]` | status of the task's latest request: none, pending, decided, expired |
| `pc[w]`, `cur[w]`, `step[w]` | where worker loop `w` is in `_loop`, `_run_one` and `run_task`, the task it holds, the step it counts |
| `cand[w]` | what the SELECT of `claim_next_task` returned: task, status and worker_id as read |
| `ReadCandidates`, `Claim`, `MissClaim` | the SELECT; the UPDATE that matched; the UPDATE with rowcount 0 |
| `FindTerminal`, `ReadRow`, `GiveUp`, `CountStep` | engine.py:83-106 |
| `Continue`, `Complete`, `WaitForUser`, `RequestApproval`, `WaitForApproval`, `LlmFails`, `Return` | what a decision leads to, engine.py:108-135 and the helpers below |
| `AbortRun`, `LoseRun`, `Abandon` | the except clauses of `_run_one`; the log-only clause of `_loop`; CancelledError |
| `LeaseExpires`, `BackoffElapses` | time |
| `Crash`, `Stop`, `Exit`, `Restart` | the process; `Restart` includes `recover_stale_running` |
| `Cancel`, `Reply`, `Decide` | bot, HTTP API and the `task_cancel` tool; with and without their status guards |

`disturbed` is history: the tasks the owner resumed while a run held them, and
those whose run's last transaction failed. Both really can have two runners, or be
RUNNING without one, so the properties about exclusiveness are stated for the
others; `FollowsProtocol` still constrains them.

Abstractions: a task has one latest approval request, and a decision on an older
one acts like `Reply`; `WAITING` and `WAITING_FOR_EXTERNAL_EVENT` are never written
by any code and are left out; the self-check that may refuse "final" once is part
of `Continue`; "report" covers the message and the reflection; a handler whose own
transaction fails is `LoseRun`; a transaction commits or has no effect. The lease
of a live run does not expire: the heartbeat renews it, and `lease_s` is at least
`task_timeout_s`, so it outlives the run even if the heartbeat fails.

### Calls: state and actions against the code

| Model | Code |
|---|---|
| a call | tool, arguments, task; `shape` is `autonomy.signature`, `place` what the globs make of its path, `named` is `_explicitly_requested`, `gated` is HIGH_RISK |
| `requests` | the `approvals` table by `created_at`; `late` when `expires_at` has passed |
| `pattern`, `ledger` | `approval_patterns`, the keys in `operations`; a row of patterns exists when a count is not 0 |
| `waiting` | tasks in WAITING_FOR_USER; only the owner ends that |
| `level` | `settings.autonomy_level`, and what `app_settings` holds |
| `pc`, `cur`, `tries` | where each worker is in `Executor.execute`, the call, the attempts of `Tool.run` |
| `desk` | a decision under way: read, written and the task resumed, pattern read, pattern written |
| `Start`, `Judge`, `Look`, `Ask` | executor.py:44-130 and 185-235; `Ask` includes that the task comes to wait |
| `Lookup`, `Act`, `Fail`, `Slip`, `Record` | executor.py:132-159 around base.py:192-240; `Slip` takes effect and is reported failed |
| `Cut`, `Crash` | a run's time limit, stop or error; the process |
| `ReadRequest`, `Decide`, `Recall`, `Learn` | `decide_approval`, `_decide` or the dashboard's route, `remember_decision`; a read and a write each |
| `Reply`, `Forget`, `SetLevel`, `Overdue` | /reply, /forgetrule, /autonomy, time |

`effects`, `excused`, `granted`, `yes`, `unlearned` and `levels` are history: they are read
by properties only. Abstractions: calls are those that pass the checks before the
gate, and all have side effects; the audit log is left out; one worker runs a
task, as `SoleRunner` shows for tasks the owner does not resume during a run;
`TaskLifecycle` models how a run parks its task, here that is one step with the
request. `GetSetting` never returns the level, because `get_setting` returns
objects only and the level is stored as text.

### Delivery: state and actions against the code

| Model | Code |
|---|---|
| `status`, `notified`, `origin` | columns of `tasks`; `origin` is what made the row: the n-th run of a job, a message, the owner |
| `run` | what the task's run is at: working, reporting an end it has committed, or writing the FAILED of the time limit. `TaskLifecycle` has the rest |
| `notices`, `keys` | handlers of the notifier under way, by whom (the run, the time limit, the sweep); the `notify:*` keys |
| `inbound`, `receiving` | rows of `inbound_messages`; handlers that have stored a message and not returned |
| `job`, `tick` | rows of `scheduled_jobs`; what the tick's SELECT returned |
| `Deliver`, `MakeTask`, `LeaveInInbox`, `ReceiveFails` | inbound.py: the key and the message in one transaction, the task in another |
| `TickRead`, `TickCommit`, `TickFails`, `TimeComes`, `DeleteJob` | scheduler_worker.py: due rows read, runs counted and tasks made in the same transaction; the owner under it |
| `Take`, `CountStep`, `Park`, `Finish`, `TimeLimit`, `Release` | the run's transactions |
| `Look`, `Mark`, `Key`, `Send`, `NoticeFails` | notifier.py: read the flag and mark it, take the key, call Telegram |
| `Stop`, `Exit`, `Crash`, `Restart`, `SweepNext`, `SweepEnd` | the process; at start, recovery and sweep come before scheduler, bot and API server |

`sent`, `owed`, `excused`, `overtaken`, `dropped` and `backlog` are history. The
message of a run is shielded from the time limit and from a stop until the
process exits; the time limit's own message is not, and a stop cuts it off.

### Conversation: state and actions against the code

| Model | Code |
|---|---|
| `session` | `chat_sessions`: active_task_id, context["pending_upload"], current_thread_id |
| `status`, `request`, `maker`, `parent` | columns of `tasks`; `request` is the set of messages that user_request was put together from |
| `desk[m]` | how far message `m` is handled: the snapshot of the session taken before the model is asked, then what the writing transaction has read |
| `run[t]`, `seen[t]` | where the run is; user_request as it read it last; whether the session was on the task when it released it |
| `Snapshot`, `Answer` | conversation.py: the session is read; a chat or control message changes no task |
| `FollowUp`, `Add`, `Continue` | a follow-up: the task is read, then appended to, or continued as a linked child |
| `NewTask`, `Create` | a task is made, the session put on it and its upload taken: the session is read, then written |
| `Reply`, `Resumed` | /reply: bot and dashboard |
| `Upload`, `ClearUpload`, `ChangeThread` | a file is sent, dropped; reset_session, switch_thread |
| `Take`, `Read`, `NextStep`, `Wait`, `End`, `Ended`, `FindTerminal`, `Requeue`, `TimeLimit` | a run's reads of user_request and its ends; `End` and `Ended` are the two halves of `_release_session` |
| `Cancel`, `Resume`, `CutOff` | the owner, who leaves the chat on the task; a handler that fails |

Telegram's updates run side by side, and with the dashboard's requests, so any
number of messages may be handled at once. What a message is taken for is an
open choice: the mode, the patterns and the router's model only narrow it.
The stored turns and counters are left out, and so is a second run
beside one that was replied to, which `TaskLifecycle` has.

### OTP automation: state and actions against the code

| Model | Code |
|---|---|
| `queue`, `active`, `enabled`, `awaiting`, `asked` | settings rows of otp_bot.py; an entry is a file, a country, whether it is tagged, and the start time it waits for |
| `settings`, `run`, `due` | per-country rows of otp_schedule.py |
| `desk[d]` | a chat or dashboard handler: upload, auto-start or start, and the queue it read |
| `cycle[k]` | a pass of `run_cycle`, scheduled or by "Check now", and the active files it read |
| `UploadBegin`, `UploadEnd`, `AfterChatUpload`, `AfterPanelUpload` | enqueue_file and maybe_auto_start |
| `StartBegin` ... `StartClear`, `Resume`, `PressStart`, `SayStart` | start_automation between its awaits, and what leads to it |
| `TagEntry`, `PanelTag`, `SkipEntry`, `Remove...`, `ClearQueue`, `AnswerRuntime`, `Stop`, `TurnOn`, `TogglePause`, `SetTiming` | the owner's orders |
| `ScheduledCycle`, `ForcedCycle`, `Wait...`, `Cycle...` | run_cycle and _add_after_wait between their awaits |
| `Restart` | the process: whatever was under way is gone, the rows stay |

`uploaded`, `served`, `dropped`, `gone`, `retired`, `overlapped` and `rearmed` are
history. An operation that only touches settings rows is one step, since asyncio
interrupts nothing but awaits on the other bot and on the parser. The other bot
answers as it likes; captions are what they may state of tag, start, stop and
length. Some things the model shows a reader of the code: two cycles at a
time (a scheduled one and "Check now") each ask for the limit before they add,
so `max_refills` can be exceeded by one; a start clears the queue it read
earlier, with what was uploaded meanwhile; a resume overwrites the queue; a rejected
add ends the cycle for the countries behind it; "Check now" looks at paused countries.

### LLM manager: state and actions against the code

| Model | Code |
|---|---|
| `credentials`, `choice`, `registry` | rows of `credentials`; the settings `llm.active` and `llm.custom_providers` |
| `cache`, `reread` | the vault's `_cache`; the rows a further `vault.load()` has read and not yet put there |
| `active`, `override`, `custom`, `clients`, `cooldown`, `strikes` | `_active`, `_model_override`, `_custom`, `_clients`, `_cooldowns`, `_failures` |
| `desk[d]` | a handler: the command, the provider and key it names, the selection it will save, and the write it waits for |
| `chat[c]` | a call: the provider asked, those left to try; "broken" when it ended in an exception of its own |
| `SetKey`, `DeleteKey`, `Paste`, `AddWithKey`, `AddWithoutKey`, `RemoveLLM`, `Switch` | /setkey, /delkey, /paste, /addllm, /rmllm, and /provider, /model or the dashboard's switch, up to their first await |
| `StoreKey`, `CacheKey`, `EraseKey`, `UncacheDeleted`, `UncacheRemoved` | `vault.set` and `vault.delete`: the commit, then the cache and what the handler does after it |
| `Register`, `Save`, `WriteFails` | `_persist_custom`, which writes the dict as it is by then; `_persist`, which writes a copy made before; errors |
| `Check`, `Verified`, `NotVerified`, `Health` | the handlers' look at the provider, and `health_all`: they build clients |
| `Reread`, `Reloaded` | telegram_user.py:332, email_tools.py:117, transcription.py:116, web_session.py:219 load the vault again |
| `Begin`, `Ask`, `Answers`, `DoesNotAnswer`, `Tick` | `chat`, `_mark_failed`, `_clear_cooldown`, time |
| `Stop`, `Start` | the process; at start the vault, then the manager read their rows, or go on without |

`unsaved` and `crossed` are history. Asyncio interrupts nothing but awaits, so what
lies between two of them is one step. Taken as given: the .env file holds no keys
and no endpoint, fallbacks are enabled, and an owner's provider is not named like a preset.

## Runs

| Run | Question | Result |
|---|---|---|
| `task_lifecycle` | Two workers on one task, two owner commands, two outages, one crash or stop, one lost run: are exclusiveness, no orphan, answerable waits, finality and the protocol kept? | holds |
| `task_lifecycle_live` | Two workers, two tasks, a SELECT of one row, two outages, a crash or a lost run, nobody at the keyboard: does every task come to rest? | holds |
| `cancel_lost` | Does a cancelled task stop? (README.md:230) | violated: engine.py:105 overwrites a cancellation made since the read |
| `outage_abandons` | Do outages never abandon a task with `task_persist_forever`? (engine.py:344-348) | violated: retries use up `max_steps` |
| `reflection_breaks` | Does the reflection never break its task? (engine.py:406) | violated: a time-out or stop during it overwrites COMPLETED |
| `executor` | Two workers, three risky calls of two tasks (one protected), two requests, two owner commands at two desks, one fault, two of workers and desks at work at a time: does nothing take effect without a licence, has every repeat a cause, is every refusal learned, is every step one of the abstract gate? | holds |
| `refused_passes` | Does a rejected action never execute? (README.md:142) | violated: the task is resumed before the rejection is learned, and trust is asked first |
| `level_lost` | Is the owner's autonomy level kept over a restart? (main.py:42-44) | violated: it is stored as text and read as an object |
| `delivery` | Two tasks, a message, a job that may run once, two faults, one order: is every end announced, once, or its silence explained; is every message and every run one task; does the sweep find what was left? | holds |
| `conversation` | Two messages after the one that made a task, three tasks run one at a time, two files, two threads, two events: is every follow-up kept and read, no file lost or used twice, no thread mixed up, no job duplicated? | holds, with the excuses named |
| `otp_automation` | Two files of one country, any two of two handlers and two cycles, one order or restart: is a file only lost in an overlap, nothing run untagged, unserved, early or too often? | holds, with the excuses named |
| `llm_manager` | Two handlers, a call that falls back, three providers, three orders (commands, calls, vault loads), two faults: is no stale client used, and does a restart bring back the selection, the registered providers and the keys? | holds, with the excuses named |

Properties of `task_lifecycle`: `SoleRunner` (no two loops run a task), `RunningIsHeld`
(no path leaves a row RUNNING without a run), `WaitIsAnswerable` (a task never
waits for an approval already given), `FinishedStaysFinished` (only the owner
reopens), `FollowsProtocol` (refinement), and the type invariant with
`current_step <= max_steps`.

Properties of `executor`: `NoUnlicensedEffect` (an answer to other arguments, an
expired or an overwritten decision never lets a risky call through),
`RepeatsAreExcused` (the ledger fails only where a run was cut off between effect
and record, or an attempt failed after taking effect), `RefusalIsLearned`
(concurrent approvals do not undo a refusal), `KeepsTheGate` (refinement: every step is
one of `EffectGate` or a stutter) and the type invariant with the
number of attempts. `RefusedNeverPasses` leaves out a level that does not ask,
shapes the owner had forgotten and approvals that decided nothing, so what
TLC shows is the order of commit and lesson alone.

Properties of `delivery`: `ToldOnce` (no end is announced twice, by whatever of run, time
limit and sweep), `SilenceHasCause` (an end that is marked and not announced was
cut off, failed, was marked at an earlier end, or was overtaken), `NoContradiction`
(completed and failed are both told only after such an overtaking), `OneTaskPerMessage`,
`RunsAreCounted` (never more than `max_runs`, one task per run, through failing
ticks and deletions), `SweepIsThorough` and `FollowsProtocol`.

Properties of `conversation`: `FollowUpKept` (a message the owner was told was added stays in
the request), `FollowUpHeeded` (a task that answers has read it), `UploadNotLost`,
`AttachedOnce`, `ThreadsStaySeparate` (the task a thread is about was asked for in
it), `NewTaskIsFollowed` (the chat stays on the task it made last) and
`OneContinuation`. The code breaks each without its excuse; the excuse is a
variable that says exactly when: `overlapped` (two read-modify-writes of one
request), `unread` (added after the run's last look), `forgone` (replaced, cleared,
left in a thread, or sent while a message that takes an earlier file was handled),
`shared` (two messages had the file in their hands), `overtaken` (the thread changed
meanwhile), `parted` (the task ended, the thread changed, or a release was under
way when the task was made) and `forked` (two messages about to continue).

Properties of `otp_automation`: `OnlyTaggedRun`, `ActiveWasServed`, `RefillsBounded`,
`NothingBeforeStart`, `LossNeedsOverlap` (an uploaded file is in a list until it is
dropped, done or superseded) and `RemovalStands` (what was removed comes back only
from a list held at that moment). Their excuses are `overlapped` (a list was written or
removed from while another operation held one) and `rearmed` (a country was started
while a cycle had it in hand).

Properties of `llm_manager`: `ClientsCurrent` (a cached client has the present key and
model of a provider that exists, whatever was built or changed in between),
`ChoiceKept`, `RegistryKept` and `KeysKept` (the process comes up with the provider and
models, the registered providers and the keys it had). `unsaved` says when not: a
write that failed or was cut off, two handlers that change one key or selection at a
time, a removal of the active provider, which `/rmllm` does not save, or a load of
the vault that read its rows before a write. `RegistryKept` needs less: its writers
pass the dict itself, so the later write is the complete one. `crossed` names the
clients that stay: of a name that could be used while `/rmllm` was removing it, and of a key
that a load of the vault changed.

Some sentences of the documentation say more than these properties, and the
properties name the difference:

* README.md:164, "A finished task always reaches the owner": notifier.py:101-103 marks the
  task before it sends, and a send that fails or is cut off is not repeated
  (`SilenceHasCause`).
* README.md:53-55 and engine.py:390-395, a follow-up after completion continues the finished
  task as a linked child: `_release_session` clears active_task_id, and without
  it router.py:258-260 makes a follow-up a new task. A child comes about only when
  the session was left on the task: cancelled, timed out, or a snapshot older
  than the end. tests/test_conversation.py:332 sets active_task_id by hand.
* conversation.py:322, "let the running task pick it up": a follow-up after the
  run's last look is confirmed and never read (`FollowUpHeeded`).
* api.py:785-788, an upload "auto-attaches to whatever instruction comes next": only
  an instruction that makes a task takes it; a follow-up does not (`UploadNotLost`).
* README.md:146, "Restart never re-sends the same file": the tool acts at executor.py:153
  and its key is written to the ledger in a transaction of its own (155-159), so a crash
  in between lets the recovered task act again (`RepeatsAreExcused` excuses
  exactly this, and an attempt that failed after taking effect).
* manager.py:478-479, "a new key clears it immediately", of the pause after a refused key:
  neither /setkey nor /paste touches the cooldown; only an answer ends it early.
* manager.py:451-452, "OmniRoute is tried last-but-one and the local model last": a preset
  and a provider of the owner's own rank behind both (`rank.get(key, 9)`), so a personal
  key of theirs is tried after the shared gateway. `Rank` is any order.
* README.md:156, "A dead LLM provider falls back instead of failing": from the 1025th failure
  in a row of one provider, `2 ** (strikes - 1)` no longer fits a float, and
  manager.py:516 raises OverflowError inside the except block. The call ends without
  asking the others, and not as the LLMError that engine.py:110 waits for
  (`Fails`, with `FloatLimit` and the place "broken").

Bounds of the task runs. Claims, leases and statuses concern one row at a time, and rows meet only
in the candidate list, which the second run exercises with two tasks and a LIMIT
of one, the first with a LIMIT above the number of tasks. Two workers give every
race between two claimers, and a runner and a re-claimer. `MaxSteps = 2` lets a task
step, loop and hit the limit; two owner commands reach "resume and
cancel" under a live run and its re-claimer; two outages exceed `MaxRetries = 1`. In the
second run a crash and a lost run do not both happen (`MaxCrashOrLost`). `MaxOwnerOps`,
`MaxOutages`, `MaxCrashes`, `MaxLost` and this one are the only bounds that are not in the
code. The runs do not check deadlock: with the bounds spent and the task finished
the loops only poll.

Bounds of the executor runs. Three calls are the least for "same task, other
arguments" and "other task, same shape"; two requests and two commands allow a
decision to be overwritten, read late, or learned twice, and a rejection with an
approval beside it. `RequestWindow` is 1 in `executor`, so that older requests fall
out of sight with two requests (5 in the code); `AutoApproveAfter` is 1 where trust
must be reached (3 in the code): both are only compared with, and the theorems
hold for every value. One fault is enough for each of them. In `executor` any two of two
workers and two desks are at work at a time (`MaxUnderWay`): two runs, a run and a
decision, or two decisions. The theorems cover several of each. These runs end when the bounds are spent and every task waits, hence no
deadlock check.

Bounds of `delivery`. Two tasks are needed for a job that runs too often (its `max_runs` is one), a sweep beyond its limit
(`SweepLimit` is 1; 50 in the code, and only counted to) and a message beside a
job; two faults for a crash after a failed send, or a time limit and a stop; one
order reopens or cancels a task that was announced. No deadlock check: with every
task ended and told, and the bounds spent, the process idles.

Bounds of `conversation`. Three messages are one that has made a task, in the state the run
starts from (`MCInit`), and two that race to add to it or to continue it, or to make tasks of their own; three tasks are a parent and two children, two files
one that replaces or races with the other, two threads a change. Two events allow a cancellation
and a resume, or an upload's clearing and a thread change. One worker runs tasks one at a time (`MaxRuns`):
a run meets messages, not other runs, in the session. No deadlock check: when every
message is handled and every task has ended nothing is left to do.

Bounds of `otp_automation`. Any two of two handlers and two cycles (`MaxUnderWay`) are what
races over a list; two files of one country supersede each other, or are refilled together; files of
other countries meet them in the lists only, for which there are the theorems; a
day of two ticks and a clock of one give "before", "at" and "after" a start time. One order or
restart lets each meet every place of the handlers and cycles. `OtpSchedule`'s
arithmetic beyond these instants is in the theorems. No deadlock check: with the bounds
spent and the monitor off nothing happens.

Bounds of `llm_manager`. One provider that needs no key, one of the catalogue and one of the
owner's own are one of each kind; the owner's own is in use, with a model, as the run
starts, so that it can be removed, switched from and fallen back from. Two handlers and one
vault load are all that can cross over a key or a row; one key is told from none; three orders give two crossing
commands and a client built by a call between them; two faults are a failed write
and a stop, or a stop and a failed start. `FloatLimit` is 1 (1024 in the code) so that
the doubling is reached; a pause lasts one tick, and both are only compared with. No
deadlock check: with the bounds spent nothing is left to do.

Fairness (`FairSpec`, used by the liveness run only): worker loops keep polling and
a run goes on to its end (every await in it has a time limit, `task_timeout_s` above
all); time passes; a stop completes; the service manager restarts a process
(`restart: unless-stopped` in docker-compose.yml). Nothing is assumed of owners,
outages, crashes or lost transactions except that there are finitely many.
Fairness is weak: no action it covers is disabled and enabled again by others
for ever.

## Proofs

From `RowAssumption` (NoWorker is no worker; the limits are naturals) and
`LifecycleAssumption` (task ids and bounds are naturals), for any numbers of
tasks, workers, steps, retries, commands, outages and crashes:

* `TypeCorrect` - `Spec => []TypeOK`.
* `AlwaysInOrder` - the inductive invariant `InOrder`. `SoleRunner` is not inductive:
  a claim is exclusive only because a held row is RUNNING under its holder with a
  live lease, and because what another loop read about the row is stale in a way
  the UPDATE's WHERE clause notices. `InOrder` says so: loops hold a task exactly at
  the places inside a run; candidates were PENDING or RUNNING when read; a
  task in a run that the owner has not disturbed is RUNNING, finished, or waiting
  as its place in the engine says, and then either carries its holder's id and
  a live lease or has neither; a task nobody holds is not RUNNING while the process
  is up; a waiting task's request has not been decided.
* `OneRunner`, `NoneLeftRunning`, `WaitsAreAnswerable` - `SoleRunner`, `RunningIsHeld`
  and `WaitIsAnswerable` follow from it.
* `FinishedStays` - the action property, from `TypeOK` and `InOrder`.
* `ImplementsProtocol` - `Spec => Protocol!Spec`: initial states map to initial
  states, each action to the abstract step named beside it or to a stutter.

`RowIsWritten` says who changes a row and to what: one statement of the run that holds it, a
claim, the owner, recovery, or time passing. From it and `InOrder` follow the accounts
of a task, and how far the three promises fail that the runs refute:

* `RetriesStayBounded` - without `task_persist_forever` a task is put back at most `max_retries`
  times, whoever resumes it, also when two runs hold it.
* `StepsCountOneByOne` - an undisturbed task's steps are never counted twice, skipped or taken
  back, although `run_task` reads and writes the step in two transactions. The
  invariant is `AllCounted`: a run about to write holds one more than the row.
* `GivenUpOnlyAtLimit` - the reach of `outage_abandons`: a task that is undisturbed is PERMANENT only
  with its steps used up, so outages abandon a task by no other way than spending them.
* `CancelledRunsOnlyByCount` - the reach of `cancel_lost`: a cancelled row turns RUNNING
  in the window between `run_task`'s read and its write, and by nothing else: no claim,
  retry, stop, crash or recovery does it.
* `ResultsLostOnlyByCuts` - the reach of `reflection_breaks`: COMPLETED is lost at the end of a run
  only by the except clauses of `_run_one`; what the engine itself does after its commit
  leaves the row alone.

About `Executor`, from `AutonomyAssumption` (calls are classified; a positive
threshold) and `ExecutorAssumption` (a positive window, attempts and requests; no
call is NoCall), for any calls, workers and bounds:

* `TypeCorrect` - with the strengthening that a busy worker holds a call.
* `RepeatsExcused` - the invariant `Accounts`: one task is not run twice; a call about to
  be performed is not in the ledger, since no other run of its task can have put
  it there since `Lookup`; and effects exceed the excused ones by at most one, by
  none while the call is neither recorded nor about to be.
* `RefusalsLearned` - `Refusals`: a standing refusal has been counted, is in the hands
  of a desk that is learning it, or is lost. Counts written late cannot hurt: an
  approving desk never writes the count of refusals.
* `EffectsLicensed` - `Licences`: approved requests grant their call, whoever is past
  the gate has a licence, and `Credits`, which bounds each approval count, plus the
  lessons still owed by desks, by the approving commands given, also for counts a
  desk has read and will write later.
* `ExecutorKeepsTheGate` - `Spec => Gate!Spec`, from `Accounts` (whoever takes effect finds the call
  neither recorded nor open) and `Licences` (whoever does is licensed). One lemma each for the steps
  of a run, of the owner and of a crash.
* `RecordedNeverRepeats` - from the refinement: a call in the operations table never
  takes effect again and stays recorded, through retries, stops, crashes and restarts.
* `LedgerIsTrue` - from the refinement, too: each call's effects are exactly those that were excused,
  and one more if it is recorded or about to be. `RepeatsAreExcused` bounds them from
  above only; this also says that nothing is recorded that was not performed.
* `RefusedPassesOnlyUnasked` - the reach of `refused_passes`: a call whose newest decision is a
  refusal passes at `autonomy.evaluate`, outside protected places and not at level "paranoid";
  the search for a decision never lets it through.
* `LevelIsStoredOrDefault` - the reach of `level_lost`: the level in force is the one last stored
  or the default of the settings, never another.

About `Delivery`, from `DeliveryAssumption` (finitely many tasks; a job of one run has a
limit of one), for any tasks, messages, jobs and bounds: all its invariants, and that
it implements the protocol.

* The inductive invariant is `Delivers`. What makes `ToldOnce` true is not the mark alone: a
  task may be reopened, and two handlers may be at work for it. `Told`: whoever is about
  to send has taken the key, alone, and it has not been sent. `Marked` and `Keyed`: whoever is
  past the look has marked the task, and finds a key taken only if the time limit
  overtook a report. `Alone`: a task has one handler at a time, the one its
  run is waiting for, with the same exception. `Owing` follows an end from its
  commit to the message; `Quiet` says what a start finds; `Sourced` that a message still to be
  made into a task has none; `Counted` that what a tick read is the row or the row
  is gone, and bounds the runs; `Held` relates runs to rows.
* `DeliveryTypeCorrect`, `DeliveryToldOnce`, `DeliverySilenceHasCause`, `DeliveryNoContradiction`,
  `DeliveryOneTaskPerMessage`, `DeliveryRunsAreCounted`, `DeliveryImplementsProtocol`.
* `DeliverySweepIsThorough`, from `Swept`: all through a sweep, the unannounced ends that
  are neither to do nor in a handler's hands before its mark are no more than the
  handlers lost so far plus what was beyond the limit. The property compares
  the first state of a start with its last, so the invariant has to count in between.

About `Conversation`, from `ConversationAssumption` (the home thread is one; None is no
task, message or file), for any tasks, messages, files and threads: all its
invariants.

* The inductive invariant is `Talks`. Its parts say what a half-done transaction may rely
  on: `Shape` and `Known`, what a message's desk can hold at each place; `Kept` and `Waiting`, that a
  request about to be written back still contains what was confirmed, or is known to
  overlap; `Heard`, that a run's copy lags behind the row by `unread` only; `Single`
  and `Once`, that a file or a continuation in two hands is known to be; `InThread` and `Followed`,
  where the session may point.
* `ConversationTypeCorrect`, `ConversationFollowUpKept`, `ConversationFollowUpHeeded`, `ConversationUploadNotLost`,
  `ConversationAttachedOnce`, `ConversationThreadsStaySeparate`, `ConversationNewTaskIsFollowed`,
  `ConversationOneContinuation`.

About `OtpSchedule` and `OtpAutomation`, from `DayAssumption` (a day has ticks) and
`OtpAssumption` (finitely many cycles; limits are numbers; captions state times of the day):

* `NextOccurrenceIsNext` - the next occurrence is later, shows the time, and is at most a
  day away. `BegunStaysBegun`, `OverStaysOver` - a run that has begun, or is over,
  stays so as time passes.
* `OtpTypeCorrect`; `OtpOnlyTaggedRun` and `OtpActiveWasServed`, from `ListsInv`: what
  handlers and cycles hold to write back satisfies what the rows do, or is still to be added.
* `OtpNothingBeforeStart`, from `BegunInv`.
* `OtpRefillsBounded`, from `CountInv`: the refills of a country, plus the cycles that have
  asked and will add, are at most `MaxRefills` plus the number of cycles less one.
* `OtpLossNeedsOverlap` and `OtpRemovalStands`, from `Sound`. Its part `Accounted`: but for
  excused files, a queue somebody has read lacks nothing of the queue that does not run,
  and a list of active files somebody has read names those that run; the queue
  that a start is about to clear runs. Its part `Removed`: what was removed is in no
  list that will be written back, nor in an upload being analysed.

About `LLMManager`, from `ManagerAssumption` (finitely many providers, each with a rank of its
own; the names an owner may give are no others; limits are naturals), for any
providers, keys, models, handlers, calls and bounds:

* `ManagerInvariant`, with the inductive invariant `ManagerInv`. The three properties about
  restarts compare the memory of a process that is gone with the rows, so the invariant follows
  the difference while the process runs: `ChoiceSaved`, `RegistrySaved` and `KeysSaved` say
  that what is not `unsaved` is in its row, or in the hands of exactly the handler that will
  write it last (for a key: written, and about to be cached). `Shapes` says what a handler
  holds at each place, `Down` what is left of a stopped process.
* `ManagerTypeCorrect`, which needs that a nonempty set of providers has a first and a last
  by rank (a finite order is well-founded: the library's `WFMin`) and that a call that goes on has a
  provider to ask; `ManagerClientsCurrent`; `ManagerChoiceKept`, `ManagerRegistryKept` and
  `ManagerKeysKept`, each from its part and the lemma that only `Start` brings a process up.
* `ManagerCallsMoveOn` - whatever handlers and other calls do meanwhile, a call never comes back to
  a provider it has asked: the set of those left loses one with each that is asked, so the
  loop of `chat` ends after as many attempts as there are providers, at most.
* `ManagerBreaksOnlyAtLimit` - the reach of the overflow named above: an exception of
  `_mark_failed` ends a call only when some provider has `FloatLimit` strikes.

Each action has a lemma or a step of its own. Every property of a passing run is
proved but `EveryTaskSettles`, since fairness and ENABLED are outside the prover: it is
only model-checked. What the proofs give of it is its safety half: steps are counted one
by one up to `max_steps`, retries end, and a call to the models comes to an end. The
counterexamples are TLC's.

## Plan

What is left, in this order.

1. "The owner learns of every end" as liveness of `Delivery` under the fairness of
   `TaskLifecycle`, for ends that no fault meets (for TLC).
2. Theorems on how far the excuses of `Conversation` and `OtpAutomation` reach, as the ones above
   say for the refuted promises.

## Not modelled

Prompt text, plans and parsing of model output; HTTP clients; document, mail and
web tools beyond "an effect"; how captions and country tables are parsed; menus and the
dashboard's HTML; the Go bridges (external to the agent's state). This is most of the
repository by lines, and has no state that two actors share.

Of the LLM manager: endpoints and default models, the echo client, keys and providers set in
the .env file, and `chat_json`, which repeats a call over its text. That a call gets an answer
when some provider works is not stated as a property: it asks what is in its
list, and the exception is named above. That a second dry spell of the same countries
raises no stock alert (scheduler_worker.py:300: the key of the first stays in the
ledger) happens in every history, and needs no model.

`PROJECT.json` gives the reason for each component, and lists every hazard
with the properties that cover it or why none does.
