# XMonitor in TLA+

XMonitor is a panel that monitors servers: a Go backend (`src/backend`) keeps
everything in in-memory stores behind HTTP handlers and background loops, a Go
agent (`src/agent`) runs on each monitored server and polls the panel, and a
Next.js frontend (`src/frontend`) shows it all. This directory holds TLA+ models
of its parts, TLC configurations that check them, and proofs for TLAPS.

Paths below are relative to `src/backend/internal/` unless they begin with
`agent/` or `frontend/`. `PROJECT.json` maps every definition to its lines.

## The system: inventory

| Component | Code | State | Operations | Model |
|---|---|---|---|---|
| Task store | `database/task_store.go`, `models/agent.go` | tasks with status pending, dispatched, completed, failed | Enqueue (prunes), ClaimPending, SetResult, Get, ListForServer | `TaskStore` |
| Agent channel | `agent/channel.go`, `handlers/agent.go`, `middleware/agent_auth.go`, `agent/main.go` | requests on the way, the agent's task list, callers that wait | RunCommand/WriteFile + WaitForResult, register, heartbeat, task result | `AgentChannel`, abstract `RemoteExecution` |
| Server store, liveness | `database/memory.go`, `monitor/agent_reaper.go`, `handlers/server.go` | rows with status, AgentConnected, LastAgentSeen | create, update, delete, register, heartbeat, reap, ReplaceAll | `ServerStore`, `AgentLoop` |
| Service checks | `database/service_store.go`, `monitor/checker.go` | services, history, derived status and uptime, probe goroutines | CRUD, DueServices, RecordResult | `ServiceChecks` |
| Alert engine | `database/alert_store.go`, `monitor/evaluator.go` | rules, cooldown anchors, events | rule CRUD, two evaluation loops, AddEvent, MarkFired | `AlertEngine` |
| Scheduled tasks | `database/cron_store.go`, `monitor/cron_runner.go` | tasks with NextRun, executions | CRUD, DueTasks, RecordExecution, TriggerNow | `CronScheduler` |
| Live updates | `ws/hub.go`, `frontend/lib/ws/hooks.ts`, `frontend/app/page.tsx` | clients with channels, a lock, two goroutines each; pages | add, remove, Broadcast, writer, reader, reconnect, REST seed | `LiveDashboard`, abstract `LiveFeed` |
| Metrics, simulator | `monitor/simulator.go`, `database/metrics_store.go` | ring buffers, the simulator's position | tickMetrics, Append, Get, Drop | `Telemetry` |
| Probes | `database/probe_store.go`, `handlers/probe.go` | probes, server x probe matrix | create, delete, Record, tickReachability | `Reachability` |
| Relay chains | `database/chain_store.go`, `handlers/chain.go` | chains with copied hops | create, update, test, delete, answers encoded without the lock | `Chains` |
| Backup | `handlers/system.go` | none of its own | export, import | what a restore does to the server table (`ServerStore`) and to chains (`Chains`) |
| Accounts and access | `handlers/auth.go`, `middleware/`, `database/user_store.go`, `database/system_store.go` | users, API tokens, audit trail, settings | login, password change, tokens, audit | `Access` (settings left out) |
| Admin session | `frontend/lib/auth`, `frontend/lib/api/client.ts`, `frontend/middleware.ts` | token in a cookie, user, requests out | login, logout, restore, 401, redirects | `Session` |
| Web terminal | `handlers/webssh.go`, `sshutil/`, `frontend/.../ssh/page.tsx` | a socket, an SSH session, a loop and a copier | connect, type, print, leave, fail | `Terminal` |
| Notifications | `notify/notify.go`, `frontend/.../notifications/page.tsx` | channels; the senders have none | Send, SendAll; the page's list | the page, in `AdminLists` |
| Files | `handlers/files.go`, `frontend/.../files/page.tsx` | the page's path and list, requests out, the server's disk | list, upload, delete, rename | `FilesPage` |
| List pages | `frontend/app/admin/(panel)/<page>/page.tsx`, `app/service-status`, `app/chains`, `lib/query-provider.tsx` | a shared cache of lists, dialogs, calls on their way | load, poll, change, invalidate, navigate | `QueryCache`, `AdminLists` |
| Servers page | `frontend/.../servers/page.tsx`, `components/admin/server-form-dialog.tsx` | filters, page, selection, dialogs | filter, page, select, add, edit, delete, bulk delete | `ServersPage` |
| Chain wizard | `components/admin/chain-wizard-dialog.tsx` | step, name, picked servers | open, steps, pick, move, save | `ChainWizard` |
| Tokens page | `frontend/.../users/page.tsx` | list, dialog, secret | create, show, revoke | `TokensPage` |
| Other pages, i18n, UI kit | `frontend/app`, `frontend/components` | view state | views | no |

How they interact. All stores are process globals, each with one RWMutex; a
handler or loop that needs two stores, or one store twice, takes the locks one
after the other, so everything in between is visible to the others. Stores hand
out pointers to live objects, which the evaluator, the simulator and the JSON
encoder then read, and the simulator writes, without a lock. Agents only ever
call the panel: commands travel in the answers to heartbeats and results in a
request of their own. Nothing is persisted: a restart of the panel empties every
store, while agents go on.

Where this is hard, and what makes each part correct:

- Agent channel: HTTP without retries, requests abandoned after 15s that are
  still handled, restarts of both sides, deletion of servers. A command must run
  at most once, in order, only on its server; a caller must be told the truth.
- Task store: a cap that prunes must never drop what is still to be done.
- Liveness: timeouts race heartbeats. A live agent must not be taken offline, a
  dead one must be, and the row's two flags must agree.
- Services: probes overlap and end out of order, targets are edited meanwhile.
- Alerts: rules are edited, muted, deleted between any two steps of the pass.
- Cron: NextRun and Schedule are written by four operations that interleave.
- Hub: two goroutines remove a connection while a broadcast holds the lock and
  sends to channels that the removal closes; slow clients, broken connections.
- Simulator and heartbeats write the same rows.
- Chains: answers are encoded from live objects while updates and tests change
  them; the chain page must show the entry and nothing behind it.
- Access: entries of the audit trail are made after the handlers, whatever their
  order; each successful write once, refused and failed ones never.
- Session: tabs share a cookie, and a 401, the gate and the page decide on
  redirects from different states of it; a tab must come to rest.
- Terminal: two goroutines, a socket and a remote shell, each of which may end or
  fall silent first; an abandoned terminal must not stay open on the server.
- Lists: loads, calls and answers of several pages overlap on one cache. A page
  must show what its user has just done, and follow what others do.
- Servers page: rows come, go and change order under page numbers and
  selections; a bulk deletion fails in part.
- Wizard, file manager, tokens: dialogs that are closed, reopened and answered
  late; listings in any order. What is saved is what a step demanded, what is
  listed is what the path says, and a secret is shown once.

## Modules

| Module | Contents |
|---|---|
| `TaskStore` | the store with its pruning; used by `AgentChannel` |
| `RemoteExecution` | what the channel promises: a task is submitted, begins at most once, ends, its result is learned |
| `AgentChannel` | EXTENDS `TaskStore`; handlers, connections, the agent process, waiters; `INSTANCE RemoteExecution` under the mapping `RX` |
| `ServerStore` | rows, agents' requests in flight between authentication and application, reaper, time |
| `AgentLoop` | EXTENDS `ServerStore`; the agent's loop in time, with tasks that take long |
| `ServiceChecks`, `AlertEngine`, `CronScheduler`, `LiveDashboard`, `Telemetry`, `Reachability`, `Chains`, `Access`, `Terminal`, `Session` | one component each |
| `QueryCache` | the react-query client the pages share: loads, joins, invalidations, retries; EXTENDed by the two below |
| `AdminLists` | eight pages of lists over the cache, their dialogs and calls |
| `ServersPage` | the servers page over the cache |
| `ChainWizard`, `FilesPage`, `TokensPage` | one page or dialog each |
| `LiveFeed` | what the live updates promise a page: it is brought from one list to the same or a later one, never to one that has not been; `LiveDashboard` implements it under the mapping `Feed` |
| `TaskStoreProofs`, `AgentChannelProofs`, `ServerStoreProofs`, `AgentLoopProofs` | theorems about one module |
| `PagesProofs` | theorems about the pages: `AdminLists` and `ServersPage` over `QueryCache`, `FilesPage`, `TokensPage`, `ChainWizard` |
| `StoresProofs` | theorems about `Chains` and `Access`, and about `MCStores` as a whole |
| `LoopsProofs` | theorems about `AlertEngine`, `CronScheduler`, `Telemetry` and `LiveDashboard`, and about `MCLoops` as a whole |
| `ProgressProofs` | theorems about `ServiceChecks`, `Reachability`, `Terminal` and `Session`, and about `MCProgress` as a whole |
| `MCStores`, `MCLoops`, `MCProgress`, `MCLiveLists` | TLC instances of several components, one of which moves |
| `MCAgentChannel`, `MCAgentLoop`, `MCLiveDashboard`, `MCServiceChecks`, `MCCronScheduler`, `MCTelemetry`, `MCReachability` | TLC instances of one component |

Conventions. One action per handler step between two points where another
goroutine can act; what happens under one lock is one action. Ids that the code
draws as UUIDs are constants used once (`bound` and `owner`, `usedRules`,
`usedTasks`, `usedRows`). A definition whose comment says "Mutant of X" is a
plausible wrong version of X, kept to show that the properties notice; it is not
part of any specification. Variables marked "history" only observe. Time is
counted in the ticker of the loop that matters; a comparison whose outcome
depends on the phase of two tickers is left open (`JustDue`).

`MCStores`, `MCLoops`, `MCProgress` and `MCLiveLists` explore components side by side: `part` is
chosen at the start and says which one moves, the others stay as they begin. In
`MCLoops` alert rules and tasks have two parts each, in one of which there are
several and in the other one with every edit. The
components of such a module share no variable and none reads another's state, so
this shows for each what a run of its own would: an invariant or a step property
of one speaks of its own variables only, and a liveness property is satisfied
trivially where its component rests and checked under its component's fairness
where that one moves.

### How state and actions correspond to the code

**TaskStore.** `taskStatus`, the tasks' owners and creation order stand for
`TaskStore.tasks`; a task is `none` before Enqueue and `dropped` after pruning.
`Prunable` is the loop of `pruneLocked`: the excess of stored tasks of a server,
completed ones only, oldest first. `ClaimPending` takes all pending tasks of a
server, `SetResult` finishes a task whatever its status was.

**AgentChannel.** The caller: `EnqueueServerTask` (the handler, which checks the
server first and enqueues later) and `RunAndWait`/`WaitForResult` (which polls
and ends with the result, a timeout, or "task not found"). The network: a request
per connection that is on its way, handled, answered, lost, or given up by the
agent (`GiveUp`, the client's 15s) while the panel still handles it. The agent:
`Register`, `Heartbeat`, `StartTask`, `FinishTask`, `ReportTask`, `Crash`,
`Start`. The panel: the handlers behind `Authenticate`, `DeleteServer`,
`PanelRestart`.

**ServerStore / AgentLoop.** A request is authenticated in one step and applied
in another (`AgentAuth`, then `RegisterAgent` or `ApplyHeartbeat`, which both are
`MarkSeen` as far as the row's liveness goes). `ReapStaleAgents` compares the
silence with the timeout every period. `AgentLoop` adds the loop of `main`:
register, heartbeat, tasks, sleep.

**ServiceChecks.** `RunChecks` is a scan with a goroutine (`probing`) per due
service; `ProbeEnds` is `RecordResult` with the time the probe was started.

**AlertEngine.** `stage` is the evaluator's position: it has a list of rules
(`rulesLeft`), a rule (`cur`), targets left for it, and performs the condition, the
event and the anchor in separate steps.

**CronScheduler.** `left` is the time until NextRun; `batch` is the slice that
`DueTasks` returned and the runner goes over.

**LiveDashboard.** `caster` is the broadcaster with the hub's read lock held in
"sending"; `writer` and `reader` are the goroutines of a connection; `sock` is
the socket as its two ends have left it; `remove` is cut at its unlock ("close" is
a goroutine on its way to `conn.Close`). `Feed` maps `version`, the pages that have
a connection and what each has received last to `LiveFeed`.

**Telemetry.** `sim` is the position of the simulator between its unlocked reads
and writes of a row; `beats` are the heartbeats in the handler.

**Reachability.** `stage`, `todo`, `cur`, `left` are the simulator's two loops.

**Chains.** `job` is the request that holds the store's lock, with the hops it has
built so far (`LookUp` is a turn of `buildHops`, which reads the server store and
may not find the server); `view` is an answer on its way through the encoder.

**Access.** `phase` is a request's position among middleware, handler and audit:
`AuthRequired`, one of the handlers, `AuditLog`; a login and a password change are
each cut at the bcrypt comparison. `noted` is history.

**Terminal.** `bridge` is the handler (deferred calls are `Return`), `copier` its
goroutine, `sock` the WebSocket as the ends know it; `mute` is a server that
neither answers nor closes.

**Session.** `at` and `going` are the tab's page and the one it is loading, `Gate`
is the Next.js middleware, `On401` the response interceptor together with the
restore's `catch`; `me` and `data` are requests with the token they carry.

**QueryCache / AdminLists.** react-query is a library: `QueryCache` is what the
pages rely on of it. A load is `asked`, `read` (the panel has answered) or idle;
`Polls` is `refetchInterval`, `Invalidates` is `invalidateQueries`, which starts
anew the load of a list that has data and joins the first load of one that has
none. A list is the number of the last change the panel had made when it was
read. `Sends` is a handler up to its `await`, `Applies` the panel serving it,
`Answered` the rest of the handler, on whatever page the admin is by then.

**ServersPage.** `Filtered`, `TotalPages`, `CurrentPage`, `ItemsOf` are the
expressions of those names; `DoDelete` ... `DeletionDone` are the two ends of
`Promise.allSettled`, with the outcome of each call in `deletion`. `submitting` is
`isSubmitting` of the form, and `saveStep` where each of its saves is. The panel
iterates a map, so that `Answers` are its rows in any order.

**ChainWizard.** One action per button; `OpensWizard` is the effect on `open`,
`Steps1` and `Steps2` the conditions of the button Next.

**FilesPage.** `StartLoad` and `LoadEnds` are `load` before and after its `await`;
each listing has a request of its own.

**TokensPage.** `creation` is the call of `create` with the secret it brings,
`newSecret` the state of that name; `putAway` is history.

## What the runs check

Every property of a passing run has a mutant of the code that breaks it
(`PROJECT.json` "mutants").

| Run | Instance | What it shows |
|---|---|---|
| `stores` | `MCStores`: 1 sample and 1 created server, timeout 2, reaper period 1; 5 tasks of 2 servers, cap 2; 2 chains of up to 3 hops and 1 viewer; 3 requests, 2 passwords, 1 token, 1 audit entry kept; the pages below | a request cannot bring a deleted server back; pruning never drops one of a server's newest tasks nor an unfinished one and goes oldest first, statuses only move forward; chains and answers about them show their entry only, also while they are rebuilt; the audit trail holds each successful write and login once, no failed one, and the newest ones; a page shows its own changes; the pages of the server list cover it; deleted servers leave it; the wizard saves what its steps demand; files are those of the path; a token's secret is shown once |
| `agent_channel` | 1 server, 2 tasks, 2 connections, cap 1 | a command runs at most once, in order of its enqueueing, and what the store and a caller are told of it is true; the refinement of `RemoteExecution` |
| `agent_channel_live` | 1 server, 2 tasks, 1 connection | a pending task is claimed, unless its agent stays down or in a command that does not end, or its server is deleted |
| `agent_loop` | 2 agents, timeout 4, interval 1, tasks of up to 2, heartbeats failing for up to 2 | the reaper never takes a live agent's server offline, a dead agent's server goes offline, one that is back comes online |
| `loops` | `MCLoops`: see the bounds below | alerts: cooldown, muting, completeness of a pass; cron: one run per slot, NextRun fits the schedule; simulator: at most one write of a row between two changes by its agent and the reaper; live updates: no send to or close of a closed channel, the refinement of `LiveFeed` |
| `progress` | `MCProgress`: 1 service, 2 intervals, 2 edits of the target; 2 servers, 2 probes; 1 terminal with channels of 2 messages; 1 tab, 2 logins, 1 request without answer | shown status and uptime are those of the history, overlap and staleness are bounded, every target gets a result; the matrix fills; a terminal that is left or cut off is released; a tab leaves a panel that refuses its token and is not redirected in circles |
| `live_pages` | `MCLiveLists`: 1 page, 1 connection, 2 breaks; or 1 of the polled lists at a time with its pages, 1 call and 1 change by others, 2 loads that fail (so that a load and its retry both do); fair | what is broken or left is cleaned up, and the page catches up; a polled list comes to hold what the panel has, also after loads that failed |

Five runs end in a counterexample: there the code departs from what its own
comments say of it. `PROJECT.json` "findings" quotes the line for each.

| Run | The comment | The code |
|---|---|---|
| `service_uptime` | UptimePct is "over stored history" (`models/service.go:16`) | an edit of the target empties the history and keeps the uptime |
| `cron_trigger` | the runner "fires due scheduled tasks" (`cron_runner.go:12`) | a manual trigger after the slot and before the scan moves NextRun on, and the scheduled run is dropped |
| `live_seed` | "seed initial data via REST; this hook then keeps it fresh" (`hooks.ts:20-22`) | the REST answer also replaces a newer live update, and an older update a newer answer |
| `telemetry_overwrite` | "don't overwrite" agents' metrics (`simulator.go:57`) | two flags are read without the lock, and the reaper or a heartbeat slips in between |
| `reach_delete` | deleting a probe removes its records (`probe_store.go:83`) | the simulator records once more for the deleted probe, and that record stays |

Other departures met while modelling, without a run of their own: the cap of the
task store is soft, as only completed tasks are dropped (`task_store.go:118`);
`WaitForResult` can end with "task not found", which its comment does not name
(`channel.go:40`); commands longer than the reaper's timeout take a healthy
agent's server offline (`agent_reaper.go:10`), which is why `Tolerant` in
`AgentLoopProofs` asks for short ones; a rule's condition and threshold are read one
after the other while an admin edits both (`evaluator.go:93`); the metrics
history is in the order of the appends, which is not that of its timestamps
(`metrics_store.go:43`), and nothing calls `Drop` when a server is deleted
(`metrics_store.go:54`); an update of a chain that fails for its servers has
changed its name already (`chain_store.go:219`); a task that is enabled when its
NextRun passed long ago is due at once, off its schedule (`cron_store.go:126`:
Update computes NextRun only with a new schedule), and `NextRunMatches` speaks of a
NextRun that is still to come; two changes of a password that
overlap both succeed with the same old one (`user_store.go:104`); a terminal whose
shell has ended stays in its handler until the next key, as the loop is in
`ReadMessage` (`webssh.go:103`).

And of the pages: a list that has never been loaded is joined, not started anew,
when a call invalidates it, so that it may show the state before the call until it
is next loaded; a chain whose server was deleted keeps a hop that the wizard
neither shows nor lets one remove, and its update is refused; the answer to a save
closes whatever dialog is open by then, and the server form, closed and opened again,
can be sent while an earlier save is still under way, as opening it resets
`isSubmitting` (`server-form-dialog.tsx:73`); on the dashboard a REST request that
fails hides the list that a push has brought, until the next one
(`app/page.tsx:28`); a bulk deletion confirmed after another one
has cleared the selection deletes nothing and says "Server deleted"; the last
listing to arrive wins, not the last asked, and so does its error; "Upload here"
goes to the path shown when the file is chosen; the tokens page may keep an older
list that was overtaken, a secret is lost when the dialog is closed before it
arrives, and a revocation that fails is not caught.

### Bounds and why they are enough

- Caps (`MaxTasksPerServer`, `MaxHistory`, `MaxEvents`, `Buffer`, `MaxPoints`)
  are 1 to 4 instead of 12 to 500: every store is driven over its cap, which is
  where the code behaves differently.
- `agent_channel` has two connections: an abandoned request can be handled after
  its successor; a third adds another such request and no new pair. It has one
  server; that several do not mix up each other's tasks is proved
  (`RecordedResultsTrue` for any number of servers, tasks and connections), and
  agents share nothing but the store, which `stores` runs with two.
- `loops`: two rules over one target with the threshold and cooldown they have at
  the start, or one with two thresholds, two cooldowns and three levels, edited at
  will (what several edited rules and several targets add is covered by
  `PassMissesNone` and `CooldownGates` only), one event kept; one scheduled task
  with periods 2 and 3 of a cycle of 6 and a schedule that never comes, or two
  tasks that share their slots, so that the runner has a batch of two, scans up to
  2 late (two tasks with different schedules are covered by `CronOncePerSlot`
  only); one sample and one created server, two heartbeats,
  rings of one point; one page, two connections (so that the page reconnects
  while the old one is served), one break, channels and sockets that are full
  after one message.
- `live_pages`: one page and one connection. The page itself is slow here, as its
  channel and socket are full after one message; that the other pages being slow
  does not matter is not exercised, and rests on `Send`, which never waits for a
  client. Two pages or two connections are beyond what a liveness check of this
  module reaches.
- `stores`: three servers are what seeds a chain, two the least a chain may have;
  a second viewer adds nothing, as answers do not touch what others read (it was
  tried once and held). Three requests let two overlap and a third be trimmed
  away or authenticate against what the first two did.
- `stores`, pages: a visit follows one list at a time over the pages that show it,
  as a step changes the lists of one key only; two calls where two buttons of one
  page overlap (`services`), one elsewhere; the others' changes and lost loads are
  one each. Servers page: two servers and one to come, two kinds, one or two rows
  per page, with a change by others; or one with two calls, which may be two saves
  of the form that overlap; or two with a bulk
  deletion of which each call may fail. Wizard: two servers, the least a chain has,
  so that each removal and each server that is gone brings it below, one edited
  chain and new ones, and two requests that overtake each other.
  Files: a folder with a file, a file beside it, two listings. Tokens: two tokens,
  two requests for the list.
- `progress`: one terminal, as handlers share nothing; two messages fill a channel
  and leave one unread. One tab, with what other tabs do to the cookie as actions.
- `agent_loop` satisfies its own hypothesis with equality: the longest task plus
  the time that heartbeats may fail is the timeout.
- Rows, services, cron tasks and probes of a store are independent of each other
  except through the loop that visits them: two where the loop matters (alerts,
  reachability, the reaper), one where it does not.
- Times: timeouts and intervals are small numbers in the same relation as the
  code's (an interval is longer than a probe, a timeout spans several rounds).
  Ages saturate one above the largest number they are compared with.
- `MaxTime`, `MaxEdits`, `MaxBreaks`, `MaxVersion`, `MaxLate` and the like only
  keep the state space finite.

### Fairness

Weak fairness of a loop's steps: goroutines are scheduled and tickers tick.

- `AgentChannel` assumes that an agent that keeps heartbeating gets through again
  and again (strong fairness of the authentication of its heartbeats), that a
  post returns (the client's timeout) and that the operator's systemd unit
  restarts the agent (`Restart=always` in `handlers/install.go`).
- `AgentLoop` assumes strong fairness of `Pass`: time goes on however often agents
  crash and start again; that heartbeats do not fail for ever is its bound
  `MaxDelay`.
- `LiveDashboard` assumes strong fairness for goroutines that wait for the hub's
  lock: Go's RWMutex blocks new readers once a writer waits, so a broadcaster that
  keeps coming back does not starve them; and for a page's reconnecting, which it
  retries every few seconds.

- `Terminal` assumes that goroutines run and that the kernel gives a dead peer up
  (Go's listener turns TCP keep-alive on). Nothing makes a server answer or a shell
  read: `TerminalReleased` asks for both, for the handler then waits in
  `ssh.Dial`, whose timeout only covers the TCP connection, or in `stdin.Write`.
- `AdminLists` assumes that a tab that is looked at fires its timers and that
  requests are answered; loads that fail are bounded (`MaxLostLoads`).
- `Session` assumes that browsers follow redirects and that requests end (axios
  gives up after ten seconds). It does not assume that a page sends requests: most
  pages of the panel poll only routes that need no token, so that one whose token
  expires stays until something is asked that does.

Nothing is assumed of administrators, of breaks, of crashes or of commands
ending unless a property says so.

## What is proved

TLAPS proves the following for all values of the constants (`PROJECT.json`
"theorems"); constants only need the named assumptions of the modules.

- **TaskStoreProofs.** `TSTypeCorrect`, `Retention`, `Lifecycle`, `OldestFirst`.
  The type invariant is inductive with one addition (a dropped task was created).
  Retention needs that creation order and the stored set fit together: `Enqueue`
  removes, of the completed tasks, only those among the oldest excess.
- **ServerStoreProofs.** `SSTypeCorrect`, `RowsConsistent` (the two flags of a row
  agree), `ReaperBound`, `DeletedStayDeleted`. The bound on a connected row's silence
  is inductive together with the reaper's own clock: silence is at most the timeout
  plus what has passed since its last pass.
- **AgentLoopProofs.** `LiveAgentStaysOnline`, under `Tolerant`: the timeout
  covers the longest task plus delay and the interval plus delay. The invariant
  bounds the row's silence by the agent's phase: in each phase, the time already
  spent since the heartbeat was handled plus what the phase may still take.
- **AgentChannelProofs.** `ChannelInvariant` (`ACInv`), from which
  `CommandsRunAtMostOnce`, `RecordedResultsTrue`, `StartedInOrder` and
  `ChannelImplementsRemoteExecution` follow. At-most-once alone is not inductive:
  a task can also be on its way in an answer or a report. `ACInv` says for each
  task where it can be (pending in the store; in an answer of one connection; in
  the agent's list; running; in a report) and that these exclude each other and
  agree with its status. The refinement maps a task's begin and end to the
  agent's steps and every other step to stuttering.
- **PagesProofs.** `OwnChangesAreShown`. The property says nothing of what a
  load under way will bring; the invariant adds that its answer is not older than
  what the page was told of, that the panel had made each change before it said
  so, and that each button reloads the lists its call changes.
  `DeletedServersGone`: what was deleted is nowhere from the panel's deletion on, and
  no answer on its way lists what the page was told is gone. `PagesCoverList`: the
  rows that match are numbered 1 to their count without gaps, so that each number
  falls on one page; no row comes twice in a list or in an answer on its way.
  `ListingIsOfPath`: every answer on its way brings entries of
  the directory it names, and the page takes both from one answer.
  `SecretsShownOnce`: a secret on its way was never shown, and one that a closed
  dialog still holds is dropped when it opens. `WizardSavesValid`: which step the
  wizard is at says what it holds (a name from the second on, two servers at the third),
  and no way to a step leaves that out; picking, moving and removing keep every server
  once; and the list that the wizard copies from holds valid chains too.
- **LoopsProofs.** `CronOncePerSlot`, `CronNextRunMatches`: a due task is due at a
  slot of its schedule, and one that is due or taken has not yet run for that slot;
  the rest is arithmetic of remainders. `BroadcastSafe`: what the hub still has to
  send to is a client, no client's channel is closed, and nothing is left to send
  to while the hub's lock is free. `SimulatesAtMostOnce`: a server that was heard of is
  online only while connected, so that the simulator, which reads the two flags
  apart, fakes it once at most. `OffFiresOnce` and `CooldownGates`: a rule's last firing is no older than
  its last event except between `AddEvent` and `MarkFired`, and a rule that fired
  while off is not among those the evaluation has still to visit. `PassMissesNone`
  follows a rule that is to fire through the pass: the loop its condition belongs to still
  has it or is still to come, and while the evaluator is at it, what was read
  of it is what it says and the target is still to be looked at. `LiveImplementsFeed`:
  channel, writer and wire of a page's connection hold snapshots in order, none newer
  than the last one taken and none older than what the page has received, so that each
  step of the dashboard is one of `LiveFeed` or none. `HubServesClients`: the hub's
  clients are connections it has not closed, each with both goroutines, and one it
  dropped has its channel closed and its socket closed or about to be, at which a
  goroutine that is left ends. `LoopsTypeCorrect` and `LoopsSafe`
  state the types and all of the above for `MCLoops`.
- **StoresProofs.** `OnlyEntryPublic`: every chain that the store or an answer holds
  shows its first hop only, the answer that is being built included.
  `TrailComplete`: the audit trail is the end of the list of all that was noted.
  `StoresTypeCorrect`, `StoresSafe` and `PagesSafe` state the types and the properties
  of all stores and pages for `MCStores`. The lists and the servers page share the
  cache of `QueryCache`: there the argument is that while one of them moves the other
  has cached nothing, which its invariant alone would not say.
- **ProgressProofs.** `ServiceShowsRecords`: cutting a history keeps its last result,
  which is the one shown. `ServicesCheckedInTime`: a service that is late is being
  probed, or will be by the scan of this unit of time. `DeletedProbeLeavesOne`: the run
  `reach_delete` shows that a record can stay behind its probe; the theorem bounds it:
  of each probe one at most, as the simulator takes the list of probes anew for each
  server and the deleted one is not on it. `TerminalClosesAll`: when the handler of a
  terminal has returned, nothing that it opened is open, so that its other goroutine
  ends too. `LoadingIsAnswered`: a tab that is loading waits for a request that is out
  or due. `ProgressTypeCorrect` and `ProgressSafe`
  state the types and these properties for `MCProgress`.

The theorems about `MCStores`, `MCLoops` and `MCProgress` are about `Spec` of those
modules, the one that TLC runs: which component moves is chosen at the start, and a
lemma (`StoreParts`, `DialogParts`, `LoopParts`, `ProgressParts`) shows that a
behaviour of the whole is one of each component's specification, where it rests as
stuttering; the two that share the cache are proved about together. `MCLiveLists`,
which checks liveness only, has no theorems.

All invariants and step properties of the passing runs are proved, and both
refinements. Assumptions beyond the types of the constants are few: `Tolerant`, a
hypothesis of `LiveAgentStaysOnline`, limits that are positive, and that a visit to
the servers page starts with finitely many servers (`FreshAssumption`), as its pages
are counted.

Only model-checked is what the prover cannot reach, liveness under fairness:
`PendingClaimed`, `UpComesOnline`, `DownGoesOffline`, `TargetGetsChecked`,
`MatrixFilled`, `TerminalReleased`, `VisitSettles`, `DeadRemoved`, `PageFresh` and
`PolledListsFollow`. Of `DeadRemoved`, `TerminalReleased` and `VisitSettles` the part
that is safety is proved: what waits has something to wait for (`HubServesClients`,
`TerminalClosesAll`, `LoadingIsAnswered`). Only proved, as they are steps to what
the runs check or need no run: these, the flags of a row, the bound on its silence,
the channel's inductive invariant, and the bound on what a deleted probe leaves.

## What is left out

- `UpdateServer`, names, addresses, metrics' values, command texts and outputs.
- Ties of creation times, clock skew between agent and panel, more than one
  process with the same secret, several admins enqueueing for the same server
  between the check and the enqueue.
- `RunCommand`/`WriteFile` callers are one waiter per task.
- Alert channels and sends; rules that name only some servers.
- A task's own command has no timeout in the code: a run may never end.
- Cron expressions: the parser is external, schedules are periods.
- Reads that only format.
- Restore of a backup, except of the server table and of chains, and there of a
  document that the panel exported: one made up by hand can hold anything. The
  handler only replaces one store after the other, each under its own lock: a
  model of it would restate that sequence.
- Senders of notifications, which keep no state; pages that only display; the
  settings and audit pages; layout, wording, translations and the UI kit.
- On the pages: rows' fields, toasts, sorting, and two tabs of the panel at once,
  which share nothing but the cookie (`Session`).
- What an encoder sees of a row that is being written.

## Plan

1. Core (done): `TaskStore`, `ServerStore`, `AgentChannel` with `RemoteExecution`,
   `AgentLoop`; their proofs.
2. Loops (done, with proofs).
3. Stores and pages (done, with proofs).
4. Abstract specifications: `RemoteExecution` and `LiveFeed` (done). Worth stating
   next: a bounded history (service results, alert events, cron executions, metric
   points) as one refinement target of four components, and the cache of a page as a
   register that its user reads.
5. The safety part of the other liveness properties, as it is proved for the hub, the
   terminal and the session: what a pass of the simulator has recorded so far, and
   where a task that is pending can be.
