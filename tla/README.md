# AsterBridge in TLA+

AsterBridge lets Codex use a ChatGPT web conversation as its model. Codex sends
a Responses request to a local daemon; the daemon drives a ChatGPT page; ChatGPT
calls Codex's tools through an MCP server; those calls travel through a *turn
broker* back to the Codex turn, whose results go back to ChatGPT; the page's
final text becomes the answer. An Electron launcher owns the browser, the daemon
and the installation into Codex's configuration.

This directory holds the specification of the parts of that system in which
order, failure and concurrency matter, the TLC instances that check it, and the
proofs. Paths below are relative to the repository root (`src/` in
`PROJECT.json` stands for that root).

## 1. Inventory

| Component | State | Operations | Hard behaviour |
|---|---|---|---|
| **Turn broker** `src/adapters/chatgpt-web/turn-broker.ts` | turn channels, pending claims, bindings, session map, drain switch; per channel: open, queued and delivered calls, activities, waiters, batch timer, compaction, fence | register, claim, invoke, activity_begin/end, nextToolBatch, completeTool, begin/commitCompletionFence, requestCompaction, revoke*, close, prune | callers in three processes; batch timer against aborts; replay; expiry; completion fence |
| **Compaction transactions** `compaction-transaction.ts` | one-shot summaries with TTL and one waiter | begin, submit, wait, abort, abortTrace, close | timer, abort, submit and close race for one outcome |
| **Compaction handoff** `compaction-handoff.ts` | in-flight compaction per key, retained conversation | run once and join, settle source, request handoff, release | joiners share an abort; order of settle, consume, release |
| **Turn sessions** `turn-execution.ts` | sessions by execution key, heads by thread and conversation, retiring promises, bounded tombstones | getOrCreate, preempt, cancel*, close/retire conversation, prune, clear | stale retries; retirement awaited while new sessions appear; partial retirement |
| **Turn round loop** `index.ts` | one runtime (token, browser promise, abort) per session | prepare, register, run rounds, deliver results, cancel, compaction takeover | state used after `await register`; partial delivery of results |
| **Retry policy** `retry-policy.ts` | attempts per key with TTL | record, exhausted, clear | limit and expiry |
| **Turn progress** `turn-progress.ts` | tool batches, observation, results; a mirrored copy | record, acknowledge, wait, apply | lines out of order, waiters |
| **Browser worker** `browser-worker.ts` | browser, pages, retained conversations, surface slots, suspects | run turn, maintenance, evict, retain, close | surface ceiling across awaits; completion detection; fence |
| **Helper process** `launcher-helper-client.ts`, `browser-helper-main.ts` | child, turns in flight, pending acknowledgements | start, forward, fence, abort, exit | child crash, late lines, reused ids |
| **MCP server** `mcp-server.ts` | none of its own | claim, invoke, image route | an activity around native and fallback image calls |
| **HTTP daemon** `server.ts`, `event-queue.ts`, `bridge.ts` | counter of turns, drain flag, event queues | responses, compact, drain, resume, interrupt, cancel, shutdown | drain against turns that start; double close |
| **Codex integration** `codex-integration*.ts` | config, two journals, catalog, models cache | install, refresh, activate, deactivate, uninstall, preflight | crash between file writes; failing rollback |
| **Rolling checkpoints** `rolling-checkpoint.ts`, **responses state** `responses/state.ts` | persisted checkpoints; response chain | write, adopt, remember, expand | crash; eviction |
| **Launcher supervisor** `launcher/electron/runtime-supervisor.cjs` | daemon child, mode, recovery, drain | start, recover, drain, stop, shutdown | child exit against recovery, stop and shutdown |
| **Launcher browser host** `launcher/electron/browser-host.cjs`, `control-server.cjs` | turn tabs, leases | begin, heartbeat, end, reap, evict | ceiling of five tabs; lease expiry against end |
| Parsing and rendering: `responses/parser.ts`, `schema.ts`, `prompt.ts`, `markdown.ts`, `environment.ts`, `thread-environment.ts`, `direct-tool-bridge.ts`, `web-direct-image.ts`, `model*.ts`, `usage.ts`, `input-tokens.ts` | none | pure functions of a request | formats, not order |
| Setup and operation: `setup.ts`, `config.ts`, `cli.ts`, `doctor.ts`, `tunnel*.ts`, `service.ts`, `dev-chat/*`, `native-passthrough.ts`, `roxy-browser-host.ts`, `system-browser-host.ts`, launcher `main`, `update`, `runtime-install`, `state`, `logging`, `network-proxy` and the React UI | files, child processes | command line, installation, UI | mostly I/O; no protocol of their own |

How they interact: the daemon (`server.ts`) calls the adapter (`index.ts`), which
finds or creates a turn session, registers the turn with the broker, starts the
browser turn (in process, or over the helper's line protocol) and loops over
rounds: wait for a tool batch or for the browser's result, answer Codex, take
Codex's results, give them to the broker. ChatGPT reaches the broker from another
process through the MCP server. The browser asks the broker for the completion
fence before it accepts a page as final. The launcher's supervisor starts, drains
and restarts the daemon; its browser host owns the physical tabs.

What makes each part correct is listed hazard by hazard in `PROJECT.json`.

## 2. Plan

| # | Modules | About | State |
|---|---|---|---|
| 1 | `TurnBroker`, `ToolCallService` | the broker, and the call service it implements | modelled and proved, liveness apart |
| 2 | `CompactionTransactions` | one-shot summaries | modelled and proved |
| 3 | `CompactionHandoff` | one compaction: joiners, source, retained page, fallback | modelled and proved, liveness apart |
| 4 | `IntegrationJournal` | crash-safe switch of Codex's configuration | modelled and proved |
| 5 | `TurnSessions` | registry, tombstones, retirement, release of pages | modelled and proved, liveness apart |
| 6 | `TurnTabs`, `BrowserHost` | the launcher's tabs and leases; its home page | modelled; model-checked only |
| 7 | `RuntimeSupervisor`, `RuntimeHost` | life of daemon and tunnel; the operations on them | modelled; model-checked only |
| 8 | `ResponsesStream`, `HttpTurns` | a response; the daemon's requests, rounds and drain | modelled; types, accounting, shutdown, and the form and the text of a response proved; liveness model-checked |
| 9 | `TurnProgress`, `HelperProtocol` | the progress of a turn; daemon and helper over pipes | modelled; types and the lines between them proved |
| 10 | `SurfacePool`, `TurnPage`, `BrowserWorker` | pages of a browser; a turn on its page; both | modelled; types, pages, account and answers proved |
| 11 | `Services`, `Setup`, `LauncherUpdate`, `Installation` | service jobs, setup, update; one installation | modelled; setup and the update's safety proved |

The order follows the damage a fault does: first what loses or misroutes a
model's tool calls, then what loses a user's configuration, then what leaves
turns or pages behind, then processes and their supervision. Modules that are to
be proved about have no recursive operators, one action per operation and
invariants in named parts.

## 3. The modules

A module stands for one source file unless the table says otherwise. Everything
in the daemon runs on one JavaScript thread, so the code between two `await`s is
one action: what interleaves is the order in which handlers, timers, aborted
signals and continuations run. Other processes (the MCP server, the helper, the
launcher) appear as the calls they make, in any order.

### TurnBroker (and ToolCallService)

A *turn* stands for its token, its `TurnChannel` and its binding id, which the
code creates together and never reuses. `phase` is the life of the token in the
`channels` map, `pending`, `bindings` and `sessionOf` are the maps of those names
(`sessionBindings`), `channel` is the record of open, queued and delivered calls,
activities, waiters, batch timer, compaction flag, revision and commitment, and
`accepting` the drain switch. `lapsed` holds what has an `expiresAt` in the past.
The rest of the variables are the clients: what an `invoke` came to, which
activity still works, which bindings a session was given, which calls the owner
holds, which observers' connections are gone, and the revision the browser holds
from `beginCompletionFence`. `disturbed` is a history variable for the fence.

Actions are the handlers: `RegisterCall` and `RegisterResume` (the registration
over the socket has an `await` between its two looks at the switch), `Claim`,
`Invoke`, `InvokeIntercepted`, `ActivityBegin`, `ActivityEnd`, `NextToolBatch`,
`AbortWait`, `BatchTimer`, `CompleteTool`, `RequestCompaction`, the fence, the
revocations, `Close`, the switch and `Prune`. `LoseBatch` is an owner whose
connection broke after it was sent a batch; replay is the next `NextToolBatch`.
Every handler that calls `prune` first has `Pruned` as guard: a step of `Prune`
and the handler after it are the handler of the code.

`ToolCallService` is the abstract specification: calls are accepted, delivered,
answered, intercepted or rejected; turns are sealed. It has no sockets, bindings,
waiters or timers. `TurnBroker` instantiates it with the refinement mapping
`CallStatus` and `Sealed`.

### CompactionTransactions

`store` is the `transactions` map, `timers` the armed TTLs, `submitted` what
ChatGPT was told is accepted, `waiter` the promise of `wait`. Every method is an
action. `withdrawn` records which transactions their own owner ended: it is the
only excuse for an accepted summary that nobody gets.

### CompactionHandoff

It extends `CompactionTransactions` with the runs of one execution key
(`compaction-handoff.ts` and the compaction branch of `index.ts`). `pc` is the
await a run is at; the code between that await and the next is its action.
`verdict` is what the run will answer once what it awaits is over. The source
turn and the pages are three-valued: running, ended (they have a logical result)
and over (`/turn/end` is done), because the code waits sometimes for the one and
sometimes for the other. `CancelTrace` is `/admin/cancel-turn`, `ClientLeaves` the
signal of the HTTP request. One execution key is modelled; the transaction of a
third party shares the store. The `preserve` flag is left out: what becomes of a
preserved final session is in `TurnSessions`. The TTL of a run's own transaction
cannot be first, because the run's deadline has the same length and is armed
before it.

### IntegrationJournal

`codex-integration.ts`, `-journal.ts`, `-route.ts`, `-shared.ts` and what they use
of the documents. `disk` is the five files. An operation computes its list of
writes (`StateWrites` is `writeIntegrationState`), then `Write` performs one write at
a time; `WriteFails` starts the rollback, which `Undo`es one file at a time, last
one first; `Crash` stops the process between any two of them. `Selected` and
`Reconcile` are `readJournal`, which every operation begins with. A restore that fails too is
passed over, as in the code, which reports it: `unrestored` remembers it, and what such an
operation leaves is outside the promise (it may lose the user's routing). The config is what
it assigns to the managed keys. Journals have version 10; the migrations are left
out.

### TurnSessions

`turn-execution.ts` and a request's way through it in `index.ts`. A request creates
at most one session, so a session is named by its request. `entries`,
`conversationHeads`, `threadHeads` and the two tombstone lists are the maps of the
code, in their order of insertion where the code evicts by it. `cleanups` are the
promises the code awaits, or leaves in the background: whose settlement they wait
for and which pages they then release. `phase`, `over`, `queue` and `page` are the
browser worker as far as the registry can see it: a conversation's runs are
queued, a duplicate trace is refused, a finished turn leaves its page behind.
`stage` is where a request is between its awaits: retiring the response it
replaces, preempting older turns of its thread, running on a session.

Left out: `clear` (the process exits after it); eviction of pages by the worker
itself (`SurfacePool`); a failing release; cleanups nobody awaits and that release nothing. The
microtask of `waitForRetirement` is merged into `getOrCreate` after it. Expiry is
counted with the operations from outside.

### TurnTabs and BrowserHost

`TurnTabs` is the part of `browser-host.cjs` that lends tabs to turns, with
`control-server.cjs` in front. `tabs`, `retained`, `closedTurnOwners`,
`userCancelledTurnOwners`, `external`, `previews` and `actions` are its fields of
those names. The callers are in the model: a helper, whose calls are messages on
`wire` (delivered in order, possibly after their caller gave up), and the daemon,
which is asked to cancel a trace whose lease ran out and answers late, wrongly or
never. A turn is tried again by the same or another helper. `BrowserHost` adds
the manual operations that occupy the home page and the recovery from a
challenge page, which go on at the same time.

### RuntimeSupervisor and RuntimeHost

`RuntimeSupervisor` is `runtime-supervisor.cjs` with what the daemon does on its
control requests. It runs activities that interleave at their awaits: start,
stop (each shared by all who ask), forced stop, and the recoveries of daemon and
tunnel; `pc` is where each one is. A component has two recoveries (`RecoveriesOf`), because the code
clears its timer before it begins to recover, so that a second recovery can overlap the first; a third could
only with more restarts than a scenario allows. `mem` is its memory, which a launcher that dies
loses; `marker`, the ownership file, is what the next one knows. `RuntimeHost` is
the operations of `runtime.cjs` and `main.cjs` that are made of the supervisor's:
startup, connect, disconnect, setup, uninstall, proxy change and quit.
`lifecycleOperation` is `lock`; startup's start and the proxy's restart do not
take it, as in the code.

### ResponsesStream and HttpTurns

`ResponsesStream` has operators on a record, not a state machine: the bounded event
queue, the bridge's callbacks, the JSON body. `HttpTurns` is `HttpTurnCounter`, the
routes of `server.ts` that take turns or control them, and `runTurn` of `index.ts` with
the retry policy. A native turn is several requests; each reads its body,
gets a session, runs a round (waiting for trace, text, a batch of calls or the
outcome) and streams, while the client leaves and the launcher drains, interrupts,
cancels or shuts down. Sessions, broker and compaction are one step each here,
because they have modules of their own. Of the feeds between page and round, the text's
is a counter; the trace's has a waiter too, which holds an event of its own (`held`)
until it wins the race (section 6).

### TurnProgress and HelperProtocol

`TurnProgress` has the counts of `turn-progress.ts` as operators. `HelperProtocol` is
`launcher-helper-client.ts` in the daemon, `browser-helper-main.ts` with the worker's
turn in the helper, and two pipes, `down` and `up`, that keep order and lose what is
in them when the process dies. Lines name only the trace, as in the code, so runs
that repeat a trace can be confused; that is what the second half of the
scenarios is about. Around them: the broker's calls and fence, the round that hands
batches to Codex, the tab leased from the launcher.

### SurfacePool, TurnPage and BrowserWorker

All three are `browser-worker.ts`. `SurfacePool` is the pages of an external
browser: at most five in the code, `Limit` here; one retained page per
conversation, eviction of the one unused longest, and a connection that became
suspect. A page is a tab in the browser and a handle in the worker, and either
may go without the other. Closing a page may fail wherever the code closes one (`Stays`, `EvictionFails`):
only an eviction puts the page back, everywhere else it is forgotten with its tab open. What a filter or a deletion leaves of a list is an operator of
`Subsequences`, in the form the proofs need. `TurnPage` is one turn on its page: temporary chat,
effort, personalization, connector, the prompt in chunks, multipart messages,
the poll of the answer with its three trackers, and the errors of each. The page is the
environment: it loses, mangles or submits an edit, hides the connector, stalls,
rewrites its answer. When a stage's time is over the turn fails at once (`TimesOut`) while the
stage's action goes on by itself (`LateSteps`), for as long as its page has a handle, and with nobody to hear
how it ends. `BrowserWorker` runs the pool with one of its turns in detail.

### Services, Setup, LauncherUpdate and Installation

`Services` is the machine and the operations on it: config.json, the daemon's job and the
tunnel's under launchd, the daemon's drain (`service.ts`, `tunnel-service.ts`,
`tunnel.ts`). `Setup` is `setup.ts`, from a terminal or by the launcher, every step
with its failure. `LauncherUpdate` is `update.cjs`, the detached `update-worker.cjs`,
and the start after it (`runtime-install.cjs`). `Installation` puts them on one
machine: setups repeated after failures and deaths, the migration of a terminal install,
an update and the upgrade that follows it. Setups come one at a time (`Idle`). `history` keeps
what the properties look back at: which daemon the last bootout was meant for (`booted`), which were resumed while
launchd was unloading them (`resumed`), drains nobody will end (`abandoned`),
and whether the setup began on a machine the ones before it had left in order (`controlled`: the
daemon obeys the token that is saved and launchd unloads nothing; `profiled`: the native
profile, if there is one, is that of the configuration that is saved).

## 4. The runs

| Run | Asks | Shows |
|---|---|---|
| `broker_turn` | Can a batch, a timer, a lost batch, an abort, a compaction, an expiry and a revocation be ordered so that a call is lost, answered twice, or overtaken by the final text? | no (`CallsAreKept`, `CompletionIsFenced`, `CompactionTakesOver`); the turn implements `ToolCallService`; and every call settles, or compaction has taken the turn over |
| `broker_turns` | Can two turns and two MCP sessions get into each other's way, or a drained broker get a new owner? | no, although registrations await the socket (`SessionsAreApart`) |
| `compaction` | Are ChatGPT and Codex told the same about a summary, does a run own its key until its pages are over, leave no transaction, and settle? | yes, while pages may hang until they are told to stop |
| `journal` | Is the user's configuration always recoverable, are operations all or nothing, are stops while switching resolved and repairable? | yes, with two stops, two failing writes or restores, and two edits |
| `journal_install_stop` | Does every stop resolve? | violated: section 6 |
| `sessions` | Do dead turns stay dead, is every unreachable run told to stop, does a request end only its own session, does it get in, are abandoned pages released? | yes, with one outside cancellation, retirement or expiry at any point where a turn, its retry and a compaction, or two turns, meet |
| `host` | Does a running turn keep its page, is the user's closing told to the attempt it hit, is every page reclaimed that nobody works on? | yes, through evictions, late calls, deaths, expiries and manual operations |
| `supervisor` | Is what ownership file and route say in the end so, is a daemon with a turn never killed, does every operation end? | yes, while processes crash, requests fail and the launcher dies, with the exceptions named in the properties |
| `http` | Is every response whole and ended once, does work go on only for somebody and is none cut off, does every request end? | yes, under drain, interrupt, cancel, shutdown, disconnects and stalls |
| `helper` | Do text, batches and the completion cross the pipes whole and in order, does every turn get its result and its settlement, is a settled turn's tab free? | yes, with the exceptions `RunsEnd` names |
| `worker` | Is a page ever shared, lost or beyond the limit; a message sent twice or incomplete; an answer returned that a call or rewrite overtook; does every turn end? | no and yes, with the exceptions named in the properties |
| `install` | Does setup cut a turn of the daemon it drained or leave a drain, is what a finished setup reports what runs, does an update leave one whole installation and an open launcher? | no, yes and yes, with the exceptions named in the properties |

Several properties are conjunctions of named parts, each with a comment of its own
beside it: `CallsAreKept` is what can go wrong with a call, `SessionsAreApart` what
can with a session, and so on. An action property and an invariant that
belong together are one property of every step, `[][Inv' /\ A]_vars`; `TypeOK`, or plain
sight, covers the initial state, where everything is empty.

Every property of a passing run has a mutant in `PROJECT.json`: a plausible bug of
the code (the definitions marked "Mutant" beside the one they replace) under
which TLC finds that property violated in the same run. So no property holds by
the shape of the model.

Deadlock is not checked where the system may rest: when all requests, runs or
operations of a scenario are over and nothing more is asked for, there is nothing
left to do. The broker's two runs check it. `journal` does not, because a stop while
installing can leave a disk on which no operation starts (section 6).

### Bounds, and why they are enough

- *Broker.* Turns interact only through the session map, the pending claims and
  the drain switch; calls of one turn only through its channel. So one turn is
  given two calls, an activity and two observers (one parked, one new; an aborted
  one between others), and two turns are given two sessions, exact, stale and
  unknown handles. `MaxLosses = 1`: a batch that is lost twice is lost after a
  replay, and a replay leaves the state of a first delivery. Each turn, call and
  activity is used once, as in the code, where ids are random.
- *Compaction.* Two requests are enough for joining, for two runs in succession
  and for a race of the two; the third transaction checks that the store's
  shared operations keep to their own.
- *Journal.* Two routes and two catalogs make a refresh and a change of port
  differ; a plain and a routed baseline make the user's own route matter.
  `MaxCrashes = 2` lets the process stop in the operation after a stop,
  `MaxEdits = 2` puts edits before, between or after. With `MaxFaults = 2` a write fails and then a
  restore of the rollback it started, or the write of two operations.
- *Sessions.* `MaxActive = MaxEntries = 2` makes the limits bite with three
  requests; two tombstones make them overflow. Where three turns meet, nothing comes from
  outside; where two do, one control comes at any point. The code's tombstone bound is
  `max(4 * maxEntries, 256)`; the model assumes only that it is no smaller than
  `MaxEntries`.
- *Scenarios.* From `sessions` on, what is asked and what may fail is chosen in the initial
  state from a set of scenarios (`MCScenarios`): each brings one group of
  features together that can meet, so that the state space is their sum and not their
  product. A scenario's counts are budgets, and when they are used is free.
- *Host.* Room for one or two tabs instead of five; two turns of one conversation and one of
  another; up to two helpers, which each may die; two attempts of a turn, one that
  meets the other's leftovers. The home page has its own scenario.
- *Supervisor.* Three daemons (one left behind, its successor, that one's successor), one turn, one or two
  failures, one death of the launcher, and one restart before recovery gives up. In three scenarios of a full runtime
  (`Failing`) daemon and tunnel fail two or three times, also while they recover, with one or two restarts: so
  one can be given up while the other recovers, a recovery can overlap another of its own component, and a disconnect
  can meet both. There failures come between the operations (`Between`), because the other scenarios
  have those within them.
- *Http.* Three requests of two turns: one can be retried while another turn is served. One retry
  stands for the code's three; a buffer of four events for 10,000, and a
  scenario whose client reads slowly fills it. Two status rows in a row make the trace's waiter and its feed differ.
- *Helper.* Two runs, of one trace or of two; one text between any two events. Calls meet an
  abort, a death or each other, and an abort meets a death; not all of them at once.
- *Worker.* Four turns, three conversations and two pages, so that there is queueing, eviction
  and refusal; or a turn in detail with up to five changes of its answer, one fault, one
  call. A fault is a tab the user closes, a lost connection or a close that fails; that a stage's time runs out is not
  counted. One poll is one tick; the clocks' lengths (`Settle`, `Grace`) keep the
  order they have in the code.
- *Install.* Two releases, two tunnels, two setups in a row, one or two failures, one crash of the
  daemon, one death of a program, three launchers.

### Fairness, and why the code justifies it

- *Broker* (`FairSpec`). The batch timer is a `setTimeout` and fires. The owner's
  round loop calls `nextToolBatch` after every batch and after every broken
  stream, and Codex answers what it holds. `prune` runs at the head of every
  such call. Nothing is assumed of ChatGPT, of the browser, of revocations.
- *Compaction* (`StopSpec`). Continuations and timers run; the broker's socket opens
  or fails; an ordinary source turn ends; a turn that was told to stop ends and is
  cleaned up (the browser worker watches the signal throughout a turn; a helper
  that crashes ends its turns as well). A page that was *not* told to stop may hang for
  ever, which is what makes `WaitsEnd` worth checking; a run in its fallback is the
  exception (section 6).
- *Sessions* (`FairSpec`). Continuations run; a cancelled or refused run settles and
  is cleaned up. A live turn may run for ever: `turnTimeoutMs` has no default
  (`src/types.ts:274`). So a request that waits for a live turn of its thread may
  wait for ever, and `NobodyIsStuck` says that it waits for nothing else.
- *Host.* Calls that were sent are handled, the sweep's interval runs, a lease without a heartbeat runs
  out, and the daemon answers a cancellation or its fetch times out.
- *Supervisor.* The event loop runs every activity on; started processes come up or
  exit. That a turn ends, or that anything is asked for, is not assumed: the drain has a deadline.
- *Http.* The daemon's tasks run, a page ends, a client reads what it is sent or has left. That a stall
  timer fires, or that the launcher does anything, is not assumed.
- *Helper.* Both event loops run, the launcher answers a lease, Codex answers calls, the system reports
  a process that ended. No death, abort or start is assumed.
- *Worker.* The worker's own steps happen. Of the page only that every wait for
  it has its deadline; the final answer has none, which `Waits` is the exception for.
- *Install.* Programs run on, launchd unloads and starts, a quit is carried out or refused. Who asks, opens or dies
  is free.
- *Journal.* Safety only.

## 5. What is proved

The proofs are checked by TLAPS for every value of the constants that meets the
modules' assumptions: any number of turns, calls, sessions, transactions, requests; any
routings, routes and catalogs; any scenarios with any budgets of failures, crashes, stops,
edits and deaths. Each inductive invariant was checked by TLC, on the runs' instances and wider
ones, before it was proved.

`TurnBrokerProofs`:

- `TypeCorrect`: `Spec => []TypeOK`. It is inductive by itself.
- `CallsKept`: `Spec => []CallsAreKept`, from `CallsSound`, and `CommittedStaysQuiet`. None is
  inductive alone. `CallInv` is: per channel, the open calls are the disjoint union
  of the queued and the delivered ones, a queue beside a waiter has its timer, a
  commitment has quiescence, a compacted turn has nothing queued, and a turn that
  is not live has no open call; across channels, a call waits exactly in the turn it was issued in; and bindings lead
  only to live turns, which is what lets `Invoke` rely on a live channel. Each
  handler has an effect lemma that says what it makes of the channels and outcomes;
  one lemma for replacing one channel and one for dropping a set of turns carry the
  frame.
- `FenceHolds`: `Spec => CompletionIsFenced`, all three parts of it. `FenceInv` relates the revision the
  browser holds to the channel's: it is not ahead, and of a disturbed candidate it
  is strictly behind. So the comparison `commitCompletionFence` makes is
  exactly "nothing happened since", which quiescence at both ends would not show.
  `WorkingInv` adds that a working activity that has not lapsed is still listed in its
  turn's channel, so quiescence means that none works.

- `SessionsKeptApart`: `Spec => SessionsAreApart`. `SessionInv`: a session holds at most the
  binding of the turn it is mapped to, and the mapping leads to a claimed turn that lists it.
- `CompactionHolds`: `Spec => CompactionTakesOver`: what reaches the turn's owner after a compaction was
  requested is intercepted or was delivered before.
- `BrokerImplementsService`: `Spec => ImplementsService`. The initial states map to initial
  states; every handler maps to a step of `ToolCallService` or to a stutter, under the
  mapping `CallStatus`, with `CallInv` as what makes the mapping a function of the state.

`CompactionHandoffProofs` begins with the store: `StoreTypeCorrect` and `SidesAgree`
(`StoreSpec => []SummariesAgree`), from `StoreInv`. Its parts need each other:
that a waiter and a summary never meet in the store is what makes rejecting
waiters harmless to accepted summaries. They are about the store under any user.
The rest is about the handoff: `HandoffTypeCorrect`; `SidesAgreeInHandoff`, the same promise with
the handoff as the store's user; and `OwnershipHolds` (`Spec => []HandoffIsOwned`), from
`HandoffInv`: a run owns the key from its start until its turns are over (`Keys`), a transaction is in the store only
while its run waits for it (`Transaction`), how a run ends is settled when it leaves that wait
(`Outcome`), and a retired conversation gets no handoff (`Retirement`).

`TurnSessionsProofs`: `SessionsTypeCorrect` and `RegistryTellsTheTruth` (`RegistryIsTrue`), from
`SessionsInv`, which has a part for each group of variables. That no run is out of reach and that a dead
turn stays dead hold each other up: a tombstone is put for a key, and what is cancelled is the session under
that key, so `RegistryInv` says that a session that is active is under its own key (only a final one is ever moved);
and what left the registry while active was cancelled as it left, so that no tombstone put later can miss it. A request
between two awaits has no session yet (`RequestInv`), so what happens in between can cost it nothing of its own. The
limits need that eviction makes room for one before one is added. `NoSessionAssumption` says that the three markers
for "none" are none of the things they stand beside.

`HelperProtocolProofs`: `HelperTypeCorrect` and `StreamsAreWhole`, from `HelperInv`. A line of the protocol
names its trace and not its turn, so whether a line that arrives belongs to the turn that hears it is a
matter of the order of everything before it. `Dialogue` says it of one trace: at most one run line is on its way, and
while it is nobody works on the trace (`RunIsOne`); the turn at work is the pending one (`WorkIsOwned`); what it wrote comes
before its result and its settlement, and when those are on their way nothing is at work (`RepliesAreOwned`); text heard
and text on its way make up what the page wrote (`PendingIsTold`, `RunsAreTold`); and no line to the helper speaks
of more than the daemon has (`LinesHold`). The one exception is a turn that replaced a pending one: it never settles, and
its trace is never used again (`Dead`). A trace one of whose prompts failed has no such order (section 6): the
theorem is about the other traces, whatever happens to these, and where no prompt failed it is `StreamIsWhole`.

`IntegrationJournalProofs`: `JournalTypeCorrect`, `JournalLosesNothing` (`NothingIsLost`)
and `SwitchesRecover` (`SwitchRecovers`). The argument is about what a disk says.
`Sound(d)`: the user's routing is in the config or in the journal that matches it, and the catalog is the
active journal's where its route is in force; `Fit` adds what holds when no operation was stopped, or
only some kinds were. Each operation is shown once, where it begins, to lead through sound
disks only, whichever number of its writes is done (`Prepared`); that writing and
undoing walk along these disks is one lemma about all operations.

`InstallationProofs`: from `InstallationInv`,

- `InstallationTypeCorrect`, the bounds on boots, tokens and launchers included.
- `SetupsAreSafe` (`SetupIsSafe`): `LeaseInv` says that the daemon that was drained, as long as it is
  up, has had no turn since; and that whoever may still resume a draining daemon knows its token. The daemon launchd
  boots out need not be that one: it may have crashed and been started again since, which nothing rechecks. `SetupIsSafe`
  names that case, and a daemon that was resumed while launchd was already unloading it, as the two in which a
  turn ends.
- `SetupsServe` (`SetupIsServed`): one conjunct per part of the machine says what is known at
  each step, a drain counting as the step it leads to (`Toward`): whose the
  installation is (`OwnerInv`), what is saved (`SavedInv`), that a change of token comes with a
  restart (`ChangeInv`), that launchd's job goes before the launcher owns the configuration (`GoneInv`), that
  it runs the new release for a terminal (`ServiceInv`), and how far the tunnel is and whose profile
  it has (`WantedInv`, `TunnelInv`, `KeptProfile`). A terminal's tunnel runs with the profile it has, which is that of
  config.json unless the setup found the tunnel served (`ProfileIsKept`). Checking these on wider scenarios than the run's is what showed the leftovers of
  earlier setups that section 6 lists, which `SetupIsServed` now names.
- `UpdatesKeep`: the parts of `UpdateIsWhole` about the application, the worker and the runtime
  bundle, from `UpdateInv`, for any number of launchers and faults.

`HttpTurnsProofs`: `HttpTypeCorrect`, which says of every queue that it stays within its bound, and
`HttpWorkIsAccounted` (`WorkIsAccounted`). A counter that is right is not enough for the shutdown to be:
it counts responses, and a run outlives its response when the request is aborted. `IInv` closes that gap. `Tracked`
ties a request's phase, its round and its stream together, in particular that a round whose response is over has been told so;
`RunIsOwned` and `Scripted` say who a session works for, and that a batch and an outcome exclude each other;
`Budgeted` counts a session that lives, or may not come back, against the retries, which
is why `SendsAreBounded` needs the tombstone; and `Quiet` says that after a shutdown is accepted nothing is counted and
no round listens on a run under way, so that what begins later is a round its request has given up.
`ResponsesAreFormed` proves three of the four parts of `ResponsesAreWhole` for every page, backlog and abort: a
response is well formed, a completed compaction is its one item, and only a completed response is remembered.
Its invariant adds `Shaped`: a response is `Untold`, and every item it opened is closed under a smaller index
than the next will have or is the one the bridge has open, or it is `Told` and nothing follows. A cancelled
response stays `Untold`, which is why a reader that leaves can never be taken for one that was told.

`ResponsesWhole` (`ResponsesAreWhole`) adds the fourth, `RoundIsWhole`: a streamed turn reported as completed carries
every text its page wrote in that round once, and all its thoughts but one at most. Text is counted
on its way, by two invariants. `KeptInv` is about sessions: what the page wrote in the segment is as much as what waits
in its feeds, what it remembers to send again and what the one round that listens has taken (`Balanced`; the waiter's event
counts until the round ends, which is the thought that may be lost). It holds
while anybody may still be answered from the session, and for that it must know who that is: of two rounds of one
turn the older was given up and does not listen (`Alone`), so an aborted round takes nothing that a
living one needs. `Streamed` is about responses: what has been sent and what is queued is what the round took, and the
event that says "done" is the last, is queued only when all was said, and is the one that is lost when the queue is full.
So a response that overflows, stalls, fails or is cancelled may lack text, but is never reported as
completed. `PagesEnd` assumes that a scenario's page ends with the act that ends it; `PageActs` would not run what comes
after.

`BrowserWorkerProofs`, for any runs, conversations, plans, jobs, limit and number of faults:

- `WorkerTypeCorrect`: the tails, the retained pages and the clocks of the polls included.
- `PagesAccounted` (`PagesAreAccounted`), from `PoolInv`. That no page is shared needs to know every
  place a tab can be in and that it is in one only (`Apart`, `SlotsApart`, `ReleasesApart`), and that of a
  conversation only the head of its queue has begun (`Queued`). That the pages are not too many is an argument
  by counting: a page held is charged to a conversation, to a run without one, or to a failed
  eviction (`Doubled`, a page put back beside another of its conversation), and `Room` bounds the
  three together when a turn arrives. This proof is what showed that the
  limit is missed by one page for each eviction that failed, and not only while the page it put back is held
  (section 6); `SurfacesAreCounted` now says so. A tab is accounted for wherever it can be but one place: `stuck`, the tabs
  whose own closing failed. Every action of the pool is an instance of one of three step
  lemmas.
- `AccountRight` (`AccountIsRight`): the messages and the personalization, from `Composed` (what is in
  the composer, the connector and the mode at each stage), `Delivered` (one message for each part that is over; where
  the worker still is when the page took an edit for a message) and `Restored` (a choice that was changed
  without a proof is being tried or taken back, unless a stage's time ran out). What goes on of such a stage is the third
  part: `StragglersAreAlone` follows from `Apart` and from where its page can be.
- `AnswersFinal` (`AnswersAreFinal`): a candidate that is old enough is complete, differs from the text
  shown at the last batch, and no call is open, whatever the trackers saw before.

Only model-checked:

- *The tabs and the home page* (`BrowserHost`). The model takes its lists from the community modules, with operators
  handed to operators (`SelectSeq`, `SelectInSeq`), which the provers do not look into.
- *The runtime's supervision* (`RuntimeHost`). `TurnsSurvive` holds of the scenarios of the run and not of all: it is about a
  change of the configuration that is not made during another operation (`apart`), and section 6 has the overlaps.
- *Traces with a failing prompt* (`HelperProtocol`), of which the run checks what `StreamIsWhole` says of
  them.
- *The last two parts of `UpdateIsWhole`*: the profile and route of a launcher that upgraded.
- *Every liveness property*: fairness and ENABLED are out of the prover's reach.

## 6. Where code and documents disagree

`journal_install_stop` ends in a counterexample: a first installation stopped between the
recovery journal and the config cannot be read, repaired or removed by any
operation (`codex-integration-journal.ts:143`). `PROJECT.json` quotes the test it
contradicts.

Modelling met other cases. They are in the models, since the models are the code's; the properties
except them by name, or are about something else. Each can be reached by TLC when
the exception is taken away.

*Turns.*
- An activity's TTL may pass while the native image call it covers still runs; the
  completion can then be committed under the work (`turn-broker.ts:830` against
  `mcp-server.ts:316-318`). `CompletionIsFenced` is about activities that have not lapsed.
- Cancelling the trace of a compaction in its fallback does not reach the
  fallback's page; the canceller waits for as long as that page hangs
  (`index.ts:544` against `CHANGELOG.md:26`).
- A compaction that comes after the source's answer and before its cleanup starts
  the handoff on the page that is being cleaned up (`compaction-handoff.ts:432` against its
  comment at 298-299).
- A stale retry of a superseded turn stops the turn that superseded it, before its
  own tombstone refuses it (`index.ts:567` against `docs/architecture.md:81`).
- Two status rows arrive with the end of a round, as lines of the helper that are read in one chunk.
  The first wakes the round; the second goes to the waiter of `nextTrace`, and the outcome or a batch,
  ready as well and listed first, wins the race. The drain looks in the feed, where that row no
  longer is: it is neither streamed nor kept for a replay (`index.ts:777` against
  `docs/architecture.md:111-112`; `held`). `RoundIsWhole` lets a round lose one row, no
  more, and nothing of the text.
- A drained daemon refuses the next request of a native turn that is between two
  rounds (`server.ts:1041` against `docs/architecture.md:171-180`).

*Helper and pages.*
- A prompt that cannot be made settles the turn in the daemon without an abort line; the
  helper goes on waiting with the tab leased, and a repetition is refused
  (`launcher-helper-client.ts:517`; `Forgotten`). An abort while the helper waits for the
  prompt also leaves the lease (`browser-worker.ts:3832`). Both are before the turn had its page, where
  `SettledIsPhysical` begins.
- The prompt that fails knows its turn by the trace alone, and may fail after the turn has ended and its
  trace is tried again: it then ends the new attempt (`launcher-helper-client.ts:517-520`; `EndedForAnother`).
  The helper works on, and a third attempt is settled by, and may hear, the lines of the second (`Misled`).
- A run begun while its trace is still settling is refused as a duplicate; the refusal
  ends the older run, and the new one's promises never settle (`launcher-helper-client.ts:262`; `Unsettling`).
- An eviction whose close fails puts its page back, over a newer page of the
  conversation or beside a turn that works on one (`browser-worker.ts:2005`; `stuck`). Each that fails can
  leave the worker one page over its limit for good, because what is put back is not weighed against
  the turns that queue for its place (`Failed`). Where any other close fails, at the end of a turn, in a release
  or after a failed probe, the failure is swallowed and the page forgotten: its tab stays open and
  nobody closes it (`browser-worker.ts:4511`, 2036, 3934; `stuck`). And a suspect connection that is reset forgets pages
  whose tabs stay, so that there may be more than five tabs
  (`browser-worker.ts:2412` against `docs/architecture.md:81`; `lost`).
- A first edit that the page took as a message passes for one that did nothing, and the
  prompt is sent again without its connector (`browser-worker.ts:3322-3335`; `slip` in `MessagesAreWhole`).
- A stage whose time runs out inside a change of the personalization fails the turn at once. The
  choice is taken back by itself while the page is closed; where that fails, the error made to say so is the loser
  of a race and nobody hears it (`browser-worker.ts:2151`; outcome `expired` in `ChoiceIsRestored`).
- A Stop button that never goes, a call that never ends, and an answer
  without text, button or action keep a turn for ever (`Waits`).
- A tab whose turn failed in the daemon alone is never swept once daemon and helper are gone, and
  is found by a retry of its turn (`browser-host.cjs:790`, 440-451; `Shadowed`).

*Processes.*
- A disconnect whose drain fails leaves the tunnel unmonitored
  (`runtime-supervisor.cjs:1907` against `launcher/tests/runtime-supervisor.test.cjs:1111`).
- A start that overlaps a recovery can end the daemon the other started
  (`tangled`); startup's start does not take `lifecycleOperation`'s lock, and a launcher that dies
  during a drain leaves its daemon draining. `RuntimeIsAsRecorded` is about runtimes without the first.
- A component that is given up, restarted too often, while another recovery is under way is recorded as failed, and
  the recovery then writes ready over it without another look: the file says ready and there is no daemon, or no
  tunnel, and nobody restarts it (`runtime-supervisor.cjs:1309-1311` against 1273-1279; `outdated`). The same race
  can leave the monitor of a tunnel on, and the tunnel running, after a stop that reports success, because the file names
  no tunnel and memory has none (`runtime-supervisor.cjs:1925`).

*Installation.*
- Connecting with a refreshed catalog, stopped between catalog and config, leaves
  an inactive journal beside a catalog it does not know: connecting and
  uninstalling refuse (`codex-integration.ts:349`).
- Setup saves a new control token before the daemon that knows the old one has agreed to drain
  (`setup.ts:525`); if it does not, a later setup cannot control it (`controlled`).
- A setup from full to browser-only that fails after saving leaves the tunnel's job loaded
  (`setup.ts:531-538`).
- A terminal's setup that finds the tunnel served restarts it at most, and never makes its native profile anew: with a new
  tunnel id, key or release it reports success and the tunnel goes on with the old profile
  (`setup.ts:549-557`; `ProfileIsKept`).
- Nothing is looked at again between drain and bootout (`service.ts:267-274`): a daemon that crashed and was
  started again by launchd in between accepts turns, and is booted out with them. The same befalls a turn that comes
  when a setup gave up waiting for launchd and resumed the daemon launchd is still unloading (`service.ts:251-260`).
  `NoTurnIsCut` excepts both.
- `assertServiceIdle` gives its drain back before the setup goes on (`service.ts:262-265`), so a turn
  may begin and lose its tunnel when the setup stops or restarts that; `NoTurnIsCut` is about the daemon.
- A setup that begins while launchd still unloads the daemon's job, because the one before it gave up
  waiting, takes the job for loaded (`service.ts:103`; `controlled`); and after an upgrade that was
  interrupted or failed before its profile was made, a launcher's setup compares the configurations and
  keeps the profile of an older release (`setup.ts:209`; `profiled`).
- A setup that dies between drain and resume, or whose resume fails, leaves the daemon draining
  (`service.ts:228-243`; `abandoned`).
- A launcher that dies between saving its configuration and installing the integration does
  not refresh it at the next start (`setup.ts:567-574`, `runtime.cjs:1169-1172`).
- An update worker killed between its two renames leaves no application in place
  (`update-worker.cjs:60-62`).

## 7. What is not modelled

Whole parts: the MCP server (it keeps no state between calls; what it asks of the
broker is `TurnBroker`'s actions); parsing and rendering of requests, TOML and JSON
editing (conversions of one value, with no order to get wrong); rolling checkpoints and
the responses state (bounded maps of one process); the development chat; scripts; the
launcher's windows and interface.

In the parts that are modelled:

- *Worker.* How controls are found in the page; images and files; maintenance operations
  and `close`.
- *Helper.* Verification of the child's identity; maintenance requests; `close`.
- *Daemon.* The passthrough to the native upstream, native compaction and the direct tools; the time
  between the results of one batch (the broker's side of it is in `TurnBroker`, where any
  order and subset may be answered). A resume between an accepted shutdown and its timer: the
  daemon would take it (`server.ts:896-901` has no check), so a turn could begin that the timer
  ends; `HttpTurns` lets nobody send it, and says nothing of that case.
- *Sessions.* `clear`; eviction of pages by the worker (it is in `SurfacePool`); a
  failing release; cleanups nobody awaits and that release nothing.
- *Host.* External (Roxy) browsers beyond their leases; views and navigation policy.
- *Supervisor.* How a platform inspects and ends processes; logs.
- *Installation.* The development profile; the commands that stop, remove or show a
  service; signing in beyond whether it is needed; port conflicts (they are failures).

`PROJECT.json` has the list of components with their states, and the hazards that
no property covers, each with its reason.

Running: `tlc -config <cfg> <module>` for a run of `PROJECT.json`, `tlapm <module>` for a module
whose name ends in `Proofs`.
