# TLA+ models of autoin

autoin takes orders from customers on several chat platforms and dispatches
them into WeChat. A Linux *control plane* reads an event stream in Redis,
debounces customer messages, decides between a reply and a dispatch, and puts
tasks on a task stream; Windows *workers* take tasks and drive the desktop under
a global lock; *observers* poll the desktop and publish what customers write.
Everything that is concurrent, repeated or lost in this system happens between
these processes and Redis, and that is what the modules here describe.

Line references are to `src/src/autoin/`, the package, unless another directory
is named; `task.md`, `docs/` and `tests/` are those of the repository.

## 1. Inventory

| Component | Code | State | Operations | Talks to |
|---|---|---|---|---|
| Global UI lock | `infrastructure/lock_manager.py` | one Redis key with a TTL and the owner's token | `acquire` (SET NX PX in a retry loop), `release` and `refresh` (scripts that compare tokens) | called by the executor |
| Executor adapter | `adapters/runtime.py` | lease and result of the task in hand | `execute_action` with rollback and `finally`, `rollback_last_action` | lock, event stream, platform handlers |
| Desktop drivers, platform handlers | `adapters/drivers/*.py`, `adapters/platforms/*.py`, `adapters/actions.py` | none of their own: focus, clipboard, search box, half-written messages of the one desktop | the registry's lookup, the handlers' recipient, a send key by key with a second attempt, the rollback's ESC | called by the executor; the WeChat window |
| Coordinator | `coordinator.py` | `TaskPlanState` of each plan, in Redis | dispatch, release, complete, fail, finalize, resume, checker and snapshot handlers, failure routing | plan state, event stream, task stream, called by workers and the control plane |
| Task stream and worker | `infrastructure/broker.py`, `adapters/runtime.py`, `tools/wechat_worker.py` | consumer group (last delivered, pending entries), retry counters, dead-letter stream | `poll_once`, `recover_pending`, `reclaim_stale`, `resume`, ack, retry, dead-letter | executor, coordinator (through callbacks and events) |
| Gateway and control plane | `gateway/*.py`, `tools/control_plane.py` | stream offset, buffers and deadlines, flushed batches: memory only | read, buffer, flush, compact, plan; start at the latest entry | event stream, coordinator |
| WeChat observer | `tools/wechat_observer.py` | a JSON file with the last message of each user | poll (wcferry or pywinauto), compare, publish, save | event stream, desktop |
| Compaction, router, brain, checker | `gateway/memory.py`, `coordinator.py`, `cognitive/*.py` | none; the data passes through the plan | split, route, extract, build tasks, judge, merge | each other, the plan state |
| Models | `infrastructure/models.py` | none | validation | all |
| Adapter directory | `adapters/directory.py` | manifests, heartbeats | register, validate, is_online | coordinator (never wired in) |
| CLI tools, settings | `tools/`, `config.py` | none | one-shot calls | broker |

What is hard, component by component, and what makes each correct:

- **Lock.** The TTL expires under a slow holder, a release comes after the next
  grant, Redis answers are lost, an executor dies with the key. Correct:
  leases do not overlap, only the holder removes its key, a key does not stay for
  ever, `acquire` ends.
- **Desktop.** What a dead or failed send leaves in the editor, the search box and the
  clipboard is found by the next one; the driver never reads back where it is typing;
  the executor that was refused the lock presses ESC. Correct: a text reaches its
  recipient only, once for each call, by itself, and what is reported was sent.
- **Coordinator.** Load, modify, save with no transaction, by two processes at
  once; handlers cut off between `enqueue_task` and the save; late, repeated
  and contradicting events. Correct: dependencies first, a plan deleted when, and only
  when, it is finished, a rejection final, no task reissued without a crash, an
  approval's fields in the arguments before the release.
- **Task stream.** A worker dies at any point; entries are handed out again while
  somebody works on them; retries and dead letters race with that. Correct: nothing
  acknowledged without an outcome, no repetition without a cause, dead letters
  only after all retries, every task settles.
- **Both together.** Correct: actions are performed in the plan's order, and a plan runs
  to its end or there is a known reason why not.
- **Gateway.** State in memory only, restarts, its own events coming back on the
  stream, clocks that differ. Correct: each message in exactly one place on its way
  to a plan, order kept, no flush before the last message is a window old, every
  message answered that was observed since the last start.
- **Observer.** A file shared without locks and written in two steps, messages that
  are delivered once, some without their sender, to a client that lives for one poll, a
  desktop that shows any conversation. Correct: no echo, no message published as
  somebody else's, and of what the polls receive nothing lost but by a death.
- **Intake.** The boundary of the recent messages, the branches of the router and
  the brain, the checker's rule. Correct: a short order is dispatched, what is
  dispatched can be acted on, and was checked but for the one kind of order the brain
  plans no check for.

`hazards` in `PROJECT.json` lists these at the line where they bite, with the
properties that would catch them, or why none does.

## 2. Modules

| Module | Models | Implements | Proofs |
|---|---|---|---|
| `UiLock` | lock and executor | `LeaseLock` | `UiLockProofs` |
| `Desktop` | handlers, live driver, the WeChat desktop | | `DesktopProofs` |
| `Coordinator` | every handler of one plan | `TaskGraph` | `CoordinatorProofs` |
| `TaskStream` | consumer group, workers, failure routing | | `TaskStreamProofs` |
| `Delivery` | `Coordinator` and `TaskStream` composed | `Coordinator` | `DeliveryProofs` |
| `Gateway` | control-plane loop, debouncer, pipeline | | `GatewayProofs` |
| `Observer` | observer processes and their file | | `ObserverProofs` |
| `Intake` | the data of one batch, from words to the sent dispatch | | `IntakeProofs` |
| `MC*` | constants of the instances TLC checks | | |

The abstraction steps are a chain: what `Delivery` does to the plan is what
`Coordinator` allows, and what `Coordinator` does to the tasks is what the dependency
graph `TaskGraph` allows. `UiLock` is a `LeaseLock`, and `Desktop` uses the lock as what
`LeaseLock` promises, without its clock.

Definitions headed `Bug:` are mutations: plausible mistakes in the definition
that follows them. No specification uses them; putting one in the place of its
original makes the run named with it in `PROJECT.json` (`mutants`) fail, which
shows that the property depends on that piece of code.

### UiLock

`key`, `keyTtl` are the Redis key; `pc[e]` is the place in `execute_action`
(runtime.py:133-211), `token[e]` the token of `acquire` and then of the lease,
`attempts` and `wait` the retry loop. `lease[e]` only observes: it runs from the
grant for `Ttl` ticks. `Start`: a task with or without `requires_ui_lock`;
`Grant`, `Refuse`, `Unheard`: the three outcomes of the SET (granted, taken, an
exception after which Redis may or may not have set the key); `GiveUp`: the
`LockAcquisitionError`; `Act`, `Announce`, `Report`: the `try`; `Rollback`: the
`except` clauses; `Release`, `Finish`: the `finally`; `Crash` anywhere; `Tick` is
time. `Refresh` exists in the code but nothing calls it; `MaxRenewals` bounds it.
`token` must be fresh in `Start`: that is what uuid4 gives. `LeaseLock` says what
the lock promises without keys and tokens: one lease at a time, at most `Ttl` long
unless renewed, given back only by its own holder.

### Desktop

`holder` is the lease; `pc[e]` the place in `execute_action` and, within it, in
`_send_wechat_message_once` (pywinauto_driver.py:169-196), one step for each thing the
driver does to the desktop; `attempt[e]` the loop of `_send_wechat_message`
(198-230), which starts over once, on a `DesktopAutomationError`. `clipboard`, `focus`,
`search`, `open`, `draft`, `sent` are the desktop. `Find` looks for the window and chooses
the first key, `SelectTarget` and `TypeMessage` are the keys, `Copy` the clipboard,
which may fail before or after `EmptyClipboard`; `Fail` is every exception the loop does
not catch; `Rollback` the ESC, after a failed action and after a refused lock; `Expire`
the end of a lease whose owner died or is slow. `Recipient` is what the
two handlers take (`resolve_dispatch_target_uid`, or the task's own uid).

Four assumptions about WeChat stand for the desktop (they are the external
definitions of `map`): CTRL-F shows an empty search box; ENTER in it opens the
conversation of exactly that name and does nothing if there is none; ESC leaves the
keyboard nowhere; a click puts it into the editor of the open conversation.

`overlapped` is history: an executor gave input in the middle of another one's send.
The lock is there to prevent that, and `ui_lock_exclusive` and `desktop_rollback` show
the two ways it happens anyway; the properties of the run `desktop` say what the driver
guarantees as long as it does not.

### Coordinator

One plan. `stored` is the `TaskPlanState` in Redis, `mem[c]` the copy a handler
works on; each call to Redis is an action, so handlers of several coordinators
interleave between any two. `Dispatch` is `build_and_dispatch_plan`, `LoadSuccess`
and `LoadDecision` start `handle_task_success` and `handle_checker_result`,
`Resume` `resume_all`; `Complete`, `Approve`, `Reject` are their first write;
`Enqueue` is one turn of the loop of `release_ready_tasks` (publish, enqueue, and
append to the copy), `SaveReleased` the write after it, `Finalize` the deletion,
`Abort` the end of a handler anywhere (a crash, a Redis error, or
`validate_task` raising). `done`, `approved`, `rejected` are facts that may be
handled late, repeatedly, or never. `copies` counts entries on the task stream and
`plain` those that went out without the checker's fields. `overlapped` is history: a
handler was started while another coordinator ran one. It guards nothing; the properties
that a single control plane has are stated as long as it is false, and so hold of a
deployment with one coordinator for ever.

A plan that `_validate_dependencies` accepts is an assumption (`ValidPlan`).
`create_plan` sorts by sequence; that two tasks have different sequence numbers is
part of it.

### TaskStream

`stream`, `delivered`, `owner` are the Redis stream, the group's last-delivered
entry and the pending list; `batch[w]`, `pc[w]` the worker. `Poll` reads new
entries, `Recover` those pending under the worker's name, `Reclaim` any
(XAUTOCLAIM's idle time is left out: any pending entry may be old enough).
`Execute` performs the action or fails, `Succeed` publishes and calls the success
handler, `FailLate` is an exception after the effect (poll_once then takes the task
for failed), `Retry` and `DeadLetter` are `route_task_failure`, `Forget` is what a
worker without a failure handler does, `Ack` the XACK, `Crash` the death of a worker
that is restarted under its name. `handled` says whether the workers have a failure
handler: `tools/wechat_worker.py` builds them without, `TaskWorker` takes one;
both are initial states. `redelivered` and `lateFailures` count the causes of
repetitions, task by task, and guard nothing.

### Delivery

The two modules are instantiated with their variables side by side, and each step is a
step of one, or of both where the code makes one call of two effects: `Release` is a turn
of the release loop together with its XADD on the stream, `Succeed` is the worker's success
together with `ACTION_COMPLETED` on the event stream. `FailLate` may fail before or after
that event. What `Coordinator` leaves to chance (a task on the stream is completed at some
time) is here done by workers. `performable` is their registry: `Perform` cannot take
effect for an action it does not know, which is what WeChat's registry does with a check
task of its own platform, for entries are handed to any worker of the group and nothing
compares `task.adapter`.

`Restart` is the control plane started again between two events: it begins at the latest
entry (control_plane.py:216), so the completions that are published and not yet handled are
`missed`. It may still hear them (`--last-stream-id` can reach back to them), but nothing
promises it. A restart in the middle of a handler is an `Abort`, which is a cause of its own.

### Gateway

`events` is the stream without the events the loop ignores and those it hands to the
coordinator's handlers (`ACTION_COMPLETED`, `SNAPSHOT_CAPTURED`: module `Coordinator`),
which is why a read of `Count` entries may yield fewer. `source` says in which type of
event each user's messages come: `MESSAGE_BUFFERED`, as the WeChat observer publishes
them, or `MESSAGE_DEBOUNCED`, which a producer with a debouncer of its own may publish.
`Read` is the XREAD, `Buffer`, `SkipOwn`,
`CompactForeign`, `Plan` are the branches of `process_event` (control_plane.py:39-112),
`StartFlush` the moment `flush_due` looks at the deadlines, `Flush(u)` the pop and
publication of one buffer, `Compact` the compaction of one flushed batch. `Crash`
loses offset, buffers and batches; `Start` begins at the latest entry
(`resolve_start_stream_id`'s default). Messages are numbers in the order of
observation; `observed` keeps their user and stamp. `Lags` lets an observer's clock
be behind.

### Observer

`chat` is the world: conversations and authors; `open` the conversation on the
desktop. `setup` says which processes run, how they poll, and whether with
`--allow-any-sender`; it is chosen at the start and stays. `Receive` is a poll through
wcferry, `Look` a poll through pywinauto (the newest text of the open
conversation). `Compare` loads the file and drops a duplicate; `Emit` publishes;
`Truncate` and `Save` are the two halves of `write_text`; `LoadFails` is the
exception a truncated file causes, which ends the loop. That the backend `auto` changes
its driver in the middle is left out.

The command line passes no client, so each poll makes a `WcferryObserverClient` and a `Wcf`
of its own (wechat_observer.py:180, 48), and what comes between two polls may be in neither
queue; a client that the caller of `observe_wechat_customer_message` passes keeps its queue.
`Receive` covers both: it delivers any message not passed over yet, the next one or a later
one, and what it passes over never comes. `heard` is history: the messages polls received. Of
wcferry this assumes that it delivers messages in the order they were written, to any client
of a process, none of them twice. A message may come without its sender (`signed` is false);
`UserOf` is `sender or customer_user_id` (209).

### Intake

One batch, sequentially: `Compact` splits it, `Route` is
`handle_memory_compaction` (intent, fields, and as target the file transfer assistant of
WeChat, or none and so the customer), `Plan` is `build_tasks` with the
first release, `Capture` the checker's verdict with the merge, `Complete` the
executor's completion, `Send` the dispatch handler. A message is a record of what the
router and the regular expressions find in it; fields are model values.

## 3. Runs

All runs use exhaustive breadth-first search. Bounds are constants (`Max...`), and
where a constraint cuts the search it is named.

| Run | Question | Bounds and why they are enough |
|---|---|---|
| `ui_lock` | Do leases exclude each other through crashes, lost answers, expiry and late releases; do they implement `LeaseLock`; is the key freed and does `acquire` end? | 2 executors, 3 tokens (a dead executor may have left its token in the key), TTL 3, 2 attempts, 2 faults, 1 renewal. With TTL 3 and delay 1 the loop can both outlast and miss the holder. |
| `ui_lock_exclusive` | Is only one executor acting on the desktop at a time? **Violated**: a handler outlives its TTL. | 2 executors, no faults, TTL 2. |
| `desktop` | Does a text reach its recipient, once, unmixed, and was it sent when it is reported? | 2 executors; an order for a group, a reply for a customer WeChat does not know, a dispatch without target, an action without handler; 3 calls (one to fail, one to find the leftovers, one beside them), 1 fault, slow handlers. Cut by `Undisturbed`: after an overlap nothing is claimed. |
| `desktop_rollback` | Is a message sent to its target? **Violated** by the ESC of an executor that was refused the lock. | 2 executors, one order, 2 calls, no fault, no slow handler. |
| `plan` | What holds of two coordinators that overwrite each other, and of one that runs alone? | 3 tasks (two independent, one on both), 2 coordinators, 2 cut-off handlers, 4 copies (one more than two aborts can cause). Cut by `Bounded`: once handlers have overlapped, one abort or repetition is enough. |
| `plan_checked` | Does the checker's approval come before the dispatch? **Violated** by the completion of the check task. | 1 coordinator, no abort. |
| `task_stream` | Two workers with one name (the default on one host) that take over each other's entries. | 2 tasks, 1 retry, 1 crash or late failure, 1 reclaim, batches of 2, 5 entries. |
| `task_stream_live` | Does every task settle? | 1 task, own names, 2 faults, 1 reclaim, 8 entries: more than the retries of all redeliveries can append. |
| `delivery` | Is the order kept from the plan to the desktop, is anything done twice without a cause, and does a plan end? | check and dispatch, 1 coordinator, 1 worker, with WeChat's registry and with one that knows both actions; with and without failure handler; 1 disturbance (cut-off handler, restart that skips a completion, death, late failure or reclaim), 6 entries. |
| `gateway` | One place, order, quiet window, and is every message answered? | 2 users, all buffered or one debounced elsewhere; 3 messages in events of 1 or 2, window 2, clock to 3, lag 0 or 1 for one user, 1 crash. |
| `observer` | Whose messages are published, in what order, how often, and what is lost? | 2 users, 2 texts, 3 messages (a text, another, and the first again); one observer of any sender over wcferry or pywinauto with 2 deaths, or two that share the file, of their customers or of any sender, with 1. Cut by `FewOdd`: beside another observer, one message is the account's or comes without its sender. `Symmetry` of texts and of observers with their customers; `View` leaves out what a poll held once it is over, and the open conversation over wcferry. |
| `intake` | What reaches the dispatch message? | batches up to 3, 2 recent: shorter than, equal to and longer than the split; 12 snapshots. |

Deadlock is checked for the lock and the gateway, whose processes never stop.
`CHECK_DEADLOCK FALSE` is said where everything may be over: a plan finished, all
tasks acknowledged, all calls made, observers with nothing new to see, a batch whose
order was sent. Symmetry is used for executors, coordinators and observers, in runs
without liveness.

### Properties

*Lock*: `OneLiveLease`, `LeaseIsTheKey` (why: a running lease and the key agree, and
the tokens tell the holders apart), `NoOrphanKey` (before the first fault a key belongs
to an execution in progress: every path reaches the `finally`), `LeaseSpec`
(refinement), `KeyIsFreedAgain`, `AcquireEnds`.

*Desktop*: `OnlyToRecipient`, `OncePerCall` (the second attempt starts only while
nothing was typed into an editor: the last call that raises what it catches is the
clipboard before the paste), `MixedOnlyByFaults` (what a dead send left in the editor goes
out with the next, once), `CompletedIsSent`.

*Coordinator*: `DependenciesFirst`, `DeletedWhenFinished`, `ApprovalFillsArguments`,
`TaskGraphSpec` hold for any number of coordinators. `ReissuedOnlyByAborts`,
`FinishedIsDeleted` (a completed plan is in Redis only while its handler runs, or after a
cut-off or a rejection), `BlockedForGood`, `NothingForgotten` (no record lost, no deleted
plan back) hold while handlers do not overlap: with two, a
handler may write back a copy that is older than the stored state, so a rejection
can be overwritten, a record lost, and a deleted plan written again. `task.md:9` asks
for a single coordinator; nothing in the code keeps a worker from being given
`handle_task_success` too.

*Task stream*: `AckedIsSettled`, `NoCauselessRepeat` (effects of a task are at most
one, plus redeliveries of its entries, plus its late failures),
`DeadAfterAllRetries`, `TaskSettles`.

*Delivery*: `EffectsInOrder`, `OnceUnlessCaused` (from end to end, an action is performed
once, and once more at most for each cut-off handler, redelivered entry and late failure, as
long as no two handlers overlap), `PlanSpec` (the refinement), `PlanSettles`: a plan is deleted,
or one of its tasks is dead-lettered (no dead letter fails a plan: it stays for ever), the
checker rejected it, a handler was cut off (nothing calls `resume_all`), or a restart of the
control plane skipped a completion, provided the workers have a failure handler. The deployed
worker has none, and then a failed task is simply gone.

*Gateway*: `InOnePlace`, `OrderedOnce`, `QuietWindow` (the last message of a batch is a
window old when it is flushed; of the others it says nothing), `AlwaysAnswered`. `InOnePlace`
and `AlwaysAnswered` speak of messages observed since the last start: what a restart loses
they confine, and do not prevent.

*Observer*: `InboundOnly` (nothing of the account's own; what names its sender is published
as that sender's; without `--allow-any-sender` only the customer's), `NoEcho` (as many echoes
as deaths at most), `EmittedInOrder`, `OneLostPerDeath` (of the messages that polls
received; what no poll received is not counted).

*Intake*: `ShortOrderIsDispatched`, `DispatchIsActionable`, `UncheckedDispatch` (what goes
out unchecked is a WeChat customer's who gave an id, and goes to the file transfer assistant).

`Desktop`, `Gateway`, `Observer` and `Intake` state a `TypeOK` that documents their variables
and that no run checks; the types their proofs need are stated there, and proved, and
`Desktop`'s is the theorem `TypesKept`.

### Fairness

- **UiLock**: time passes, and the loop of `acquire` goes on. Nothing is assumed of
  the handlers: `AcquireEnds` and `KeyIsFreedAgain` hold although they may hang.
- **TaskStream**: a worker processes what it took; polling and recovery are strongly
  fair, as a worker alternates between them and its batches. Recovery after a restart
  is `TaskWorker.resume()`, which exists and is tested but which no tool under `src/`
  calls: `TaskSettles` is a statement about workers that do.
- **Delivery**: a plan is dispatched, handlers and workers go on; taking entries is
  strongly fair as in TaskStream, and so is the hearing of a completion that no restart skipped
  (those in `missed` it may never hear), for the coordinator may be busy with other events
  for as long as they come. Nothing is assumed of the checker: its verdicts may never come.
- **Gateway**: the loop turns, time passes, a dead service is started again.
  `ReadSome` is strongly fair: the events left out come to an end.

The other modules make no liveness claim and state no fairness.

## 4. Proofs

Checked by TLAPS, for every value of the constants that the modules' assumptions
allow (`LockAssumption`, `PlanAssumption`, `StreamAssumption`, `DeliveryAssumption`,
`GatewayAssumption`, `ObserverAssumption`, `IntakeAssumption`, `DesktopAssumption`, which TLC
also evaluates in the runs). Each follows the same lines: initial states satisfy the
invariant, every action preserves it (one step for each action, or one lemma for a kind
of action), PTL draws the conclusion.

- `UiLockProofs`. `TypeInvariant`; then `LeaseIsAlwaysTheKey`: `TypeOK` and
  `LeaseIsTheKey` are inductive together. Exclusion alone is not: a release by a
  holder whose lease has run out would remove the next holder's key, if the key
  could carry its token; `LeaseIsTheKey` says it cannot. `MutualExclusion` follows
  from it (two running leases would both be the key's token), `NoOrphan` from it and
  from `FaultsStay`, and `Implements`: every step is a grant, a renewal, a
  giving-back, a tick or a stutter of `LeaseLock`.
- `DesktopProofs`. `ToRecipientOnly`. The driver reads nothing back, so the
  invariant `Prepared(e)` says for each step of a send what the desktop must look like when
  it comes (`search` empty before the paste, the name in it before ENTER, the recipient's
  conversation open before the click, ...). Input by another executor destroys it; but
  then `overlapped` is set (`InputKeeps`), and steps without input leave it alone
  (`QuietKeeps`). `DraftsBelong` covers what dead sends leave behind. `SentOncePerCall`,
  `CompletedWasSent` and `MixedFromFaults` count (`Counted`): a call is before the paste, or
  its text stands in one editor, or in one message (`SentWithinCalls`); whoever reports a
  recipient that was found has a message of its own (`ReportedIsSent`); an editor that holds
  what no ENTER will follow cost a fault, and so did the message it ended in
  (`SpoiledByFaults`). A step does one of three things to the editors and messages
  (`Quiet`, `Pastes`, `Posts`), and each lemma is about one of them. `TypesKept`: the
  types, with no third attempt in any call.
- `CoordinatorProofs`. The inductive invariant `Inv` joins the types,
  `CompletedIsFinished` (no copy of the state, in Redis or in any handler, records a
  completion that did not happen: `RecordsAreTrue`), `FilledEverywhere` (no copy
  records an approval without the merged arguments) and the three properties
  themselves. It is needed because `DependenciesFirst` speaks of the stream and
  the handlers read their own, possibly old, copies: an old copy may lack completions
  but never has a false one. From it: `DependenciesRespected`, `NoPlanDropped`,
  `ApprovalsFillArguments`, and `ImplementsTaskGraph`. All are for any number of
  coordinators, any valid plan, any number of cut-off handlers. `AloneInv` is the
  invariant of a control plane that runs alone: at most one handler runs, its copy and the
  stored state differ in no more than its step explains (`InTouch`), each entry beyond
  the first was caused by a cut-off handler (`CopiesCounted`), and a plan that is
  complete is being finalized. From it: `RepeatsNeedAborts`, `FinishedPlansGo`,
  `BlockedPlansStay`, `StoredStateGrows`.
- `TaskStreamProofs`. `TypeInvariant` and `NothingDropped`: whoever holds the
  entry under whatever name, an entry that was delivered and is no longer pending is
  settled. The strengthening `InHand` says that what a worker has in its batch was
  delivered, and `Settlement` that a worker acknowledges only what is settled.
  `DeadWereRetried`: an entry with a retry count was appended because the one before it
  was delivered (`RetriesUsed`), so the dead letter of a task has the whole chain behind it.
  `RepeatsHaveCauses`: a bound on the effects of a task alone is not inductive. What may still become
  an effect is an entry no worker has read (`Waiting`) or one in a worker's batch that it has
  not performed (`Undone`); those and the effects together never exceed the first entry,
  the redeliveries and the late failures (`EffectsCaused`): reading an entry moves it from
  one set to the other, a retry gives up the entry in hand for the one it appends. The
  lemmas leave open how many first entries there are (`CausedBy(t, n)`), so that they serve
  `DeliveryProofs` as well.
- `DeliveryProofs`. The two proof modules are instantiated, so their theorems hold of the
  parts. `ImplementsPlan`: a coordinator's step is a step of `Coordinator`, a worker's
  `Publish` is its `Execute` (the task was issued: `OnlyIssued`) or a stutter. `ActionsInOrder`
  follows from `DependenciesFirst` and two links: only what was issued is performed, and what
  is done was performed. `Restart` is a stutter of both parts: it concerns fairness only. `RepeatsHaveCauses` adds up the bounds of the parts: the entries that
  `TaskStreamProofs` takes for given are the copies (`Caused`), of which `AloneInv` allows one
  and one more for each cut-off handler.
- `GatewayProofs`. `WindowKept`: a buffer's deadline is a window after its own last message
  (`DeadlineIsLast`), what is due was due when the turn looked at it (`DueIsDue`), and no
  message is buffered between that look and the flush (`DueInFlush`). `PlannedInOrder` and
  `NothingLostOrTwice`: the places a message passes are one line, from unread events over
  buffers, flushed batches and compacted events to plans (`Line`, each message with its rank,
  batch and position). Along it a user's messages are in the order of observation
  (`InOrder`), which is inductive only with `Routed`: all messages of a user take the same
  way, through the buffer or around it, so none overtakes. Each action takes one batch one
  place further behind all that is there (lemma `Moves`); a crash takes messages away and
  puts none back (`Loses`), and `Kept` says that nothing else does.
- `ObserverProofs`. `OnlyInbound` and `PublishedInOrder`, over wcferry: whatever was
  published or is in hand was received, as the message of `UserOf`, the one in hand last
  (`InTurn`), whatever the polls passed over. `LossOnlyByDeath`, of the messages that polls
  received: every text in the file, or in a copy that may still be written over it, was
  published (`Known`), so what `Compare` drops is a repetition, whoever wrote the file; what
  remains lost was in the hand of an observer that died (`LostBounded`).
  `EchoOnlyByDeath`: a repetition needs a user whose last publication the file does not hold
  (`Stale`); echoes and such users together are at most the deaths (`EchoBounded`).
- `IntakeProofs`. `Checked` and `Actionable`: a dispatch in the plan waits for the check or
  is a WeChat customer's with an id and goes to the assistant, its fields are the order's or approved ones
  (`PlanIsGuarded`), and on the stream what it waited for is over (`ReleasedIsGuarded`).
  `ShortOrdersPlanned`: `KeywordReachesPlan` follows an order from the history, of which
  nothing is cut, over the router's intent to a task of the plan that no merge removes.

Where a property counts (repetitions, echoes, losses, messages per call), the proof follows
the sets that are counted from step to step, with the library's theorems about the
cardinality of finite sets; no induction over data is needed, for each step changes them by
known elements.

Every safety property of the passing runs is proved. Only model-checked are the liveness
properties (`KeyIsFreedAgain`, `AcquireEnds`, `TaskSettles`, `PlanSettles`,
`AlwaysAnswered`): they rest on fairness, and so on ENABLED, which the provers do not reach.
The three runs that expect a violation need TLC by their nature.

## 5. Where the code and its documents differ

Shown by runs:

- `ui_lock_exclusive`: the lease is not renewed while a handler runs
  (runtime.py:156); `docs/architecture-review.md:6` asks for a renewal heartbeat.
- `desktop_rollback`: after `LockAcquisitionError` the executor presses ESC without the
  lock (runtime.py:167; its class promises UI actions "under the global
  UI lock", runtime.py:105). Between the paste into the search box and ENTER of the holder's
  send this closes the search, and the message goes into the conversation that was open;
  `ACTION_COMPLETED` is published.
- `plan_checked`: the executor's completion of a check task releases the dispatch
  (coordinator.py:136); `task.md:27` lets only the checker do that.

Read in the code while modelling, and kept in the models as the code has them:

- Any worker of the group is given any adapter's tasks (broker.py:126). WeChat's worker
  dead-letters (or, as deployed, drops) a check it has no action for; another platform's
  reply it types into the conversation that happens to be open, because WeChat's search
  does not find the recipient. The latter is why `OnlyToRecipient` speaks of
  recipients in `Chats`. A dispatch without target goes to the open conversation as well.
- The checker looks only for fields in the snapshot and never compares them with
  the order (cognitive/checker.py:17; `task.md:27`).
- For the order of a WeChat customer who gave an id the brain plans a dispatch and no check
  (cognitive/brain.py:34-49), where `task.md:27` asks for an independent check before every
  dispatch. `UncheckedDispatch` says that this is the only such case and that it goes to the
  file transfer assistant.
- Orders from other platforms than WeChat are dispatched to the customer's own id,
  not into a WeChat group (coordinator.py:225; `task.md:4`).
- The router reads the recent messages and not the summary, so that an order named
  before the last `memory_recent_turns` messages of a batch gets a reply
  (coordinator.py:218; `task.md:11`). `ShortOrderIsDispatched` is limited to batches
  that fit.
- A restarted control plane starts at the latest event with empty buffers, and no
  message that was under way is answered (control_plane.py:216, gateway/debounce.py:29).
  Completions it had not come to are skipped as well, and their plans stay as they are.
- An observer started from the command line makes a wcferry client for every poll, and what
  is written between two polls may never be observed (wechat_observer.py:180, 48).
- With `--allow-any-sender` a message without a sender is published as the customer's,
  whoever wrote it (wechat_observer.py:209).
- The deadlines of the debouncer follow the observers' stamps and are looked at
  between reads: a burst that is read late is split (control_plane.py:137;
  `task.md:22`). `OrderedOnce` and `QuietWindow` say what is left.
- Through pywinauto the observer publishes the account's own replies as the
  customer's (wechat_observer.py:225), and a text again when another conversation
  was shown in between, unless it is the same as the last one published
  (wechat_observer.py:357). `InboundOnly` is therefore about wcferry.
- A dead-lettered task does not fail its plan (coordinator.py:330), and the plan's state
  stays in Redis.

## 6. What is not modelled

The adapter directory, because nothing builds a coordinator with one; its effect on a
release is an `Abort`. The one-shot tools and the settings: the former call
the broker once, the values of the latter are constants. Reading the screen (texts,
captures, OCR), whose outcome is a value of `Observer`. The stubs and the
mock driver, and the other platforms' handlers, which return a result and change nothing:
a task they get is reported as completed with nothing sent, so the properties of `Desktop`
are about the live WeChat driver. Within the modelled
components: `create_plan` as an algorithm, several plans at once, XAUTOCLAIM's clock,
entries without a task field, pydantic's validation, the wording of
summaries and messages, the regular expressions, how a text is told from noise, the `auto`
backend's switch.

## 7. What is left

1. **AdapterDirectory** in the release loop, once something builds a coordinator with one:
   heartbeats against `adapter_heartbeat_ttl_ms`, and the release that stops at the first
   task whose adapter is offline.
2. **Several plans**: `resume_all` over all plan states, one of which is blocked or
   finished but not finalized.
3. **Plan validation**: `create_plan` as functions over small sets of tasks, compared with
   `ValidPlan`.
4. **UiLock and Desktop in one state**, with the clock: today `Desktop` takes the lock for
   what `LeaseLock` promises.
5. **Abstract specifications**: a queue with at-least-once delivery for `TaskStream`, and
   "each message is answered once, in order" for `Gateway`.
