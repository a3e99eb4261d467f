# Multica: TLA+ models of its concurrent cores

Multica is a project tracker whose issues can be assigned to coding agents. A
Go server keeps issues, a queue of *tasks* for the agents and the runs of
scheduled jobs in PostgreSQL; daemons on users' machines claim tasks over HTTP
and run agent processes; web and desktop clients show issues from caches that
events of a websocket keep up to date; the desktop application also keeps tabs
and drives the daemon of its machine. This directory models six of these
cores, checks them with TLC and proves their safety with TLAPS:

* the **task queue** with its agent badge and its empty-claim cache (server);
* the **task loop of a daemon**, with its directory locks and updates;
* the **database-leased scheduler** (server);
* the **issue caches** of a client;
* the **tabs** of the desktop application;
* the desktop application's **daemon manager**.

Paths below are relative to the repository without its prefixes: `server/...`
is `src/server/...`, `core/...` is `src/packages/core/...`, `desktop/...` is
`src/apps/desktop/src/...` in `PROJECT.json`.

## 1. Inventory

| Component | State | Operations | What makes it correct |
|---|---|---|---|
| **Agent task queue** `server/internal/service/task.go`, `server/pkg/db/queries/agent.sql` | rows: status, agent, runtime, issue / chat session / autopilot run, priority, attempt, parent, failure reason, timestamps | enqueue, claim, re-deliver, start, wait for a directory, complete, fail, cancel, rerun, retry, reset of the issue | lanes (one execution per issue and agent, per chat session, per agent for quick-creates), capacity, legal status edges, retries bounded and unique, every row ends |
| **Runtime sweeper** `server/cmd/server/runtime_sweeper.go` | none of its own | mark stale runtimes offline, fail their rows, time rows out, expire queued rows, delete old runtimes | nothing is stuck, nothing being claimed is failed underneath |
| **Daemon-facing handlers** `server/internal/handler/daemon.go`, `task_lifecycle.go` | none | register, deregister, heartbeat, claim, start, complete, fail, recover-orphans | an orphan report of a restarted daemon spares what running daemons hold |
| **Agent status badge** `ReconcileAgentStatus` | `agent.status` | read the queue, write the badge, in the handlers that claim or end rows | the badge agrees with the queue, a refresh is owed, or a named cause explains why not |
| **Empty-claim cache** `server/internal/service/empty_claim_cache.go` | two Redis keys per runtime | IsEmpty, CurrentVersion, MarkEmpty, Bump | a trusted empty verdict hides no announced row |
| **Leased scheduler** `server/internal/scheduler` | `sys_cron_executions`: status, attempt, lease token, `stale_after`, `next_retry_at`, error code of every plan | tick: sweep, list plans, claim / steal / retry, heartbeat, finish | one runner per attempt, a fenced one changes nothing, no lease pins a plan, failed plans are retried |
| **Issue caches of a client** `core/issues/*.ts`, `core/realtime/use-realtime-sync.ts`, `core/api/ws-client.ts` | queries with data, a stale flag and a request; snapshots of mutations; the socket | mount, read page by page, patch or invalidate on events, optimistic create / update / delete and their roll-back, reconnect, switch workspace | what is shown once all is quiet is what the server has |
| **Desktop tabs** `desktop/renderer/src/stores/tab-store.ts`, `platform/navigation.tsx`, `hooks/use-tab-router-sync.ts` | groups of tabs per workspace, a router per tab, counted history | open, close, move, pin, push / replace / back / forward, switch workspace, validate, persist, restart | an active tab exists, pinned first, no tab leaks to another workspace, the bars show the router, a restart keeps tabs |
| **Desktop daemon manager** `desktop/main/daemon-manager.ts`, `renderer/src/App.tsx` | token and owner files, `currentState`, `operationInProgress`, probe flags | login, logout, sync and clear token, start, stop, restart, auto-start, re-authenticate, poll | the daemon runs with the token of the session's user, a refused token is shown |
| **Daemon task loop** `server/internal/daemon/daemon.go` | slots, claim barrier, poller set, running tasks | poll, hand over, start, report, auto-update, re-register | a row runs once although it is re-delivered after 90 s while its daemon may still wait for a directory; the auto-update barrier lets no claim through between two counters; a deleted runtime is registered once by whichever goroutine notices, and pollers are not told before orphans are reported |
| **Local directory locks** `server/internal/daemon/local_directory.go` | a mutex per path | acquire, release, cancel while waiting | one holder per path, no waiter lost |
| **Runtime liveness** `server/internal/handler/runtime_liveness_store.go`, `heartbeat_scheduler.go` | Redis key, pending batch, `last_seen_at` | heartbeat, flush, stale filter | a runtime that beats is not marked offline: the window exceeds every delay on the way |
| **Autopilots** `server/internal/service/autopilot.go`, `server/cmd/server/autopilot_*.go` | triggers, runs | tick, dispatch, synchronise from task and issue events | one run per trigger time, a run ends when its work does |
| **Lark integration** `server/internal/integrations/lark` | connector leases, pending batches | acquire, renew, schedule, fire | one connector per installation, no message twice or lost |
| **Realtime hub and relays** `server/internal/realtime`, `server/internal/daemonws` | subscriptions, buffers, streams | subscribe, publish, relay | best effort; clients re-read after a reconnect |
| **Everything else** (issue, comment, squad and skill handlers, events bus, repository cache, agent backends, CLI, migrations, storage, auth, metrics, the views of the web and mobile clients) | | | not concurrent cores; see `components` in `PROJECT.json` |

How they interact. Users, comments, chats and autopilots **enqueue**; the
enqueue bumps the cache version and then wakes the daemon. The daemon's poll
runs `ClaimTaskForRuntime`: re-deliver a stale dispatched row, else ask the
cache, else list the candidate agents and call `ClaimTask` for each. Daemons
report progress about the rows they hold. The sweeper and the orphan reports fail
rows; `HandleFailedTasks` then retries and resets the issue. A daemon reports
orphans when it was restarted, and when a runtime of its was deleted and it
registers its workspace again. All of these but the cancels of `ArchiveAgent`
refresh `agent.status` afterwards. All of it is goroutines of
one or more server processes over one database: what is ordered is one SQL
statement or transaction, nothing else.

The scheduler shares nothing with the queue but the database: every server
instance ticks it, and its rows are its only coordination.

A handler that changes an issue commits, then **publishes** an event; the hub
sends it to the sockets registered at that moment. A client patches or flags
its cached queries on each event, and flags all of them after a reconnect;
queries are never re-read otherwise (`staleTime: Infinity`). Its own mutations
patch first and roll back on failure. In the desktop application each tab has a
memory router; a hook copies the visible tab's router into the tab store, which
is saved and merged at the next start. The renderer tells the main process who
is logged in, which writes the token files and starts, stops and polls the
daemon; the daemon reads the token once.

Hard behaviours: two claims between each other's reads and writes; sweeps and
cancels beside claims; late calls about rows that ended; lost claim responses
and orphan reports; restarts between a commit and its follow-up steps; a cache
consulted before the database; leases stolen from runners that are only slow;
ticks that work with the time at which they began; requests, events and
roll-backs that overtake each other; sockets that are acknowledged before they
are registered; navigations that end after their tab was left; asynchronous
operations of which only some respect a guard. `hazards` in `PROJECT.json`
lists them at their lines, with the properties that cover them; hazards of
components without a model are in the table above.

## 2. Modules

| Module | Content |
|---|---|
| `TaskStatus` | the status values, their sets, and the legal edges |
| `TaskLifecycle` | abstract specification: what the status column promises a reader |
| `TaskQueue` | the queue, the claim path, daemons as the server sees them, the sweeper, retries and issue resets; properties |
| `AgentStatus` | extends `TaskQueue` with the badge: every handler owes the refreshes the code makes it call, which overlap with those of others |
| `EmptyClaimCache` | the Redis protocol and the two code paths around it |
| `TaskDelivery` | one daemon: pollers, execution slots, `handleTask` with the directory lock, cancellation, updates, restart, over what the daemon sees of the queue |
| `PlanLifecycle` | abstract specification: what the rows of the scheduler promise a reader |
| `SchedulerLease` | the ticks of several server instances over the lease rows |
| `IssueCache` | server commits, hub and socket, three queries and their mutations |
| `TabStore` | the operations of the tab store, each an operator from store to store |
| `DesktopTabs` | extends `TabStore` with routers, hooks, adapters, late navigations, restart |
| `DesktopDaemon` | the asynchronous operations of the daemon manager over its files and the daemon |
| `MC*` | instances for TLC |
| `TaskQueueProofs`, `OverlapProofs`, `EmptyClaimCacheProofs`, `TaskDeliveryProofs`, `SchedulerLeaseProofs`, `IssueCacheProofs`, `DesktopTabsProofs`, `DesktopDaemonProofs` | theorems |

### TaskQueue: state and actions against the code

*Granularity.* One SQL statement, or one transaction, is one action; a
goroutine's program counter (`poll[p].pc`, `worker[w].pc`) lets others run
between two statements. `ClaimAgentTask` is split in two: under READ COMMITTED
its subquery reads a snapshot and locks one row with `FOR UPDATE SKIP LOCKED`
(`ClaimSelect`), and other statements commit before its write is visible
(`ClaimCommit`). A statement that would write a locked row waits: `CancelTasks`
and `RerunIssue` are disabled while a row of theirs is locked, and a sweep with
SKIP LOCKED leaves it out. Statements that only read and whose result nothing
later uses are not steps; the claim loop reads of the agent and the runtime are
folded into the step that uses them.

| Model | Code |
|---|---|
| `status`, `job`, `reason` | columns of `agent_task_queue`; `job` is what an INSERT fixes |
| `age` | `now() - dispatched_at / started_at / created_at`, in three classes: fresh, past the 90 s recovery window, past the timeout |
| `held` | rows whose claim response reached a daemon that still runs |
| `runtimeStatus`, `daemon` | `agent_runtime.status`; whether its daemon runs, has ended, or has registered again and not yet reported orphans |
| `issueStatus` | `in_progress` or not |
| `poll[p]` | one request in `ClaimTaskForRuntime` |
| `worker[w]` | a goroutine after its commit: the failed rows it still handles, the issues it has looked at or retried |
| `phase` | which sweep of the tick is next |
| `Enqueue`, `CancelTasks`, `RerunIssue`/`EnqueueRerun` | the enqueue functions, the five cancels, rerun's two statements |
| `Reclaim`, `ListCandidates`, `CountRunning`, `ClaimSelect`, `ClaimCommit`, `Deliver`, `LoseClaim`, `RejectClaim` | the claim request from its first statement to its answer |
| `StartTask`, `MarkTaskWaitingLocalDirectory`, `CompleteTask`, `FailTask` | a daemon's calls; enabled for held rows whose WHERE clause matches (a call that matches no row changes nothing) |
| `MaybeRetryFailedTask`, `CheckIssue`, `HasActiveTaskForIssue`, `ResetIssue` | the loop of `HandleFailedTasks`, statement by statement; `FailTask` runs the first only |
| `SweepStaleRuntimes`, `FailTasksForOfflineRuntimes`, `FailStaleTasks`, `ExpireStaleQueuedTasks` | the tick, with its early returns |
| `DaemonExit`, `DaemonRegister`, `RecoverOrphanedTasks`, `RecoverLost`, `Heartbeat`, `ServerCrash` | ends and restarts |
| `ReregisterWorkspace` | `reregisterWorkspaceAfterRuntimeGone`: the orphan report a running daemon makes for all runtimes of a workspace after one was deleted, while its pollers go on |

Rows of three lanes matter to `ClaimAgentTask`: issue rows (backed by the
partial unique index of migration 037), chat rows and quick-creates (backed by
nothing but the subquery). Autopilot rows belong to no lane. A row of another
runtime of the same agent may be claimed by the loop: the code drops it and it
stays dispatched and undelivered until its own runtime's next poll re-delivers
it, or it times out; `ClaimCommit` and `Reclaim` do that.

### AgentStatus

`RefreshAgentStatusFromTasks` is one UPDATE whose EXISTS reads the queue and
whose write may wait for the agent row. PostgreSQL re-evaluates the WHERE
clause of a row it waited for, and not the SET expression's subquery on a newer
snapshot, so reading (`ReadQueue`) and writing (`WriteStatus`) are two steps, and
those of any goroutines interleave.

Each step of the queue is paired with what its handler then owes: `ClaimOwes` (the
agent of a claim, whether or not it found a row), `EndOwes` (the agent of a row
that was completed or failed), `BatchOwes` (the agents of the rows a statement
returned: cancels, reruns, sweeps, orphan reports), nothing for the others.
`ArchiveAgent` cancels rows and calls `CaptureCancelledTasks`, which refreshes
nothing. A goroutine does what it owes before its next statement, in the order of
its handler.

`excuses` is bookkeeping: why the badge of an agent may be wrong with no refresh
owed. A refresh is *lost* when the server restarts, its statement fails or its
request is cancelled; the agent was *archived*; or a write is *stale*: another
refresh that had read later was written before it, or one of the other causes
arose between its read and its write. A refresh that is not stale clears them.

### EmptyClaimCache

One runtime; its version and verdict keys, enqueuers (insert, bump, wake) and
claim requests (MGET, GET, SELECT, SET). Redis may fail at every call; keys
expire; rows may arrive by `mergeLegacyRuntimes`, which notifies nobody.
`missed` is bookkeeping of the model: the rows whose arrival bumped nothing.
The version key's expiry is modelled only where the code lets it happen: it is
renewed by every bump and read, and outlives every verdict and every request.

### TaskDelivery: state and actions against the code

One daemon process. A goroutine's step from one call, lock or channel to the
next is one action; two calls under one mutex (`claimMu`) are one step.

| Model | Code |
|---|---|
| `status`, `stale` | the rows of the daemon's runtimes; those dispatched longer ago than `claimResponseRecoveryWindow` |
| `poller[r]` | one `runRuntimePoller`: before a slot, with a slot, in `ClaimTask`, with a task to hand over |
| `sem` | the channel of free slots |
| `handler[s]` | the goroutine of slot `s`: in `handleTask` before the lock, reporting that it waits, waiting, in the directory (prepare, run, report), reporting a failure, about to return |
| `kind`, `owner`, `ghosts` | per directory: a `local_directory` or the worktree of an issue; who has its mutex; how many helper goroutines wait for it on behalf of an `Acquire` that gave up |
| `activeTasks`, `claimsInFlight`, `pauseClaims`, `updating`, `auto` | the fields of these names, and where `tryAutoUpdate` is |
| `TakeSlot`, `EnterClaim`, `ClaimTask`, `ClaimFails`, `HandOff` | the poller, with the server's re-delivery before a new claim, a failed claim and an answer that is lost |
| `RejectPath`, `TryLock`, `MarkWaiting`, `Grant`, `Acquired`, `GiveUp`, `GhostLocks`, `GhostUnlocks` | `acquireLocalDirectoryLockIfNeeded`, `acquireIssueWorktreeLockIfNeeded`, `LocalPathLocker.Acquire`; only the wait for a path reports itself and has a watcher |
| `PrepareFails`, `StartTask`, `AgentEnds`, `Interrupt`, `Report`, `ReportFailure`, `Leave` | `runTask`, `watchTaskCancellation`, `reportTaskResult` and the deferred calls |
| `AutoCheck`, `AutoSkip`, `TrySetClaimBarrier`, `AutoFails`, `UserUpdate`, `UserUpdateFails`, `Restart` | both updates and the end of the process |
| `Pass`, `TimeOut`, `CancelTask` | what the server does to rows meanwhile |

Simplifications. `Restart` takes together the cancelled context, the end of the
process, the new one and its orphan report: after the cancel no call of the old
process is sent. Pollers are not torn down and made anew when a runtime is
deleted. Taking `updating` and setting the barrier are one step, as are the
deferred calls at a goroutine's end: nobody reads one of their variables without
the others. A row past 90 seconds may be past the 300 seconds of the dispatch
timeout at any time. All rows are queued at first; lanes, capacity and retries
are in `TaskQueue`, which in turn sees of a daemon only the rows it holds.

### SchedulerLease: state and actions against the code

One job with one scope, whose `AllowStaleReentry` and `CatchUpMode` are chosen
in `Init`. A plan time is a bucket of the cadence, so plans are numbers. One SQL
statement is one action; a tick reads the database clock once and uses that time
in all its statements, however late they run.

| Model | Code |
|---|---|
| `rows[p]` | the row of a plan; a NULL `next_retry_at` is a retry time that has passed |
| `run[r]` | one instance in `runOnce`: which statement is next, `now`, the plans left, the attempt and token it claimed |
| `returned` | history: the attempts whose handler returned without an error |
| `MarkStaleAsFailed`, `PlansForTick` | the sweep and the list of plans, `latest_only` or `every_plan` with its cursor (`IsCursor`, `FirstDue`, `LastDue`) |
| `TryClaim`, `Conflict` | `tryClaim`: INSERT, else the conditional UPDATE that retries or steals |
| `Heartbeat`, `Return`, `Finish` | the handler with its heartbeats, its end, and the fenced terminal write, which touches no row when the lease was lost |
| `StatementFails`, `ClaimAnswerLost`, `Crash` | an error of any statement and where the tick goes on, a claim whose answer is lost, a restart |

### IssueCache: state and actions against the code

A JavaScript handler is one action. The query library is external: `Mount`,
`Invalidate`, `SetQueryData`, `Cancel` say what the calls made here do to a
query's data, its stale flag and the request under way; a board's request reads
one column at a time.

| Model | Code |
|---|---|
| `rows`, `outbox` | the issues, and the changes committed and not yet published, in the order of the commits; `Publish` takes any of them and marks the earlier ones of its issue late |
| `pipe`, `registered`, `connected`, `before`, `away` | the frames on their way; the hub's and the client's view of the socket; `hasConnectedBefore`; whether the user is in another workspace |
| `query[c]` | the list, My Issues, and the detail query: data, flag, request |
| `mutation` | mutations between `onMutate` and `onSettled`, with their snapshots |
| `OnIssueCreated`, `OnIssueUpdated`, `OnIssueMetadataChanged`, `OnIssueDeleted` | `ws-updaters.ts` and `delete-cache.ts` |
| `AddIssueToBuckets`, `RemoveIssueFromBuckets`, `PatchIssueInBuckets` | `cache-helpers.ts` |
| `OnAuthenticated`, `Register`, `ConnectionLost`, `LeaveWorkspace`, `ReturnToWorkspace`, `Deliver` | the websocket client, the hub's registration, the provider |
| `CreateIssue`, `UpdateIssue`, `DeleteIssue`, `Execute`, `RequestFails`, `Settle` | the mutations with their callbacks |

`why` is bookkeeping: the reasons why the data a query holds may be out of date.
Each is attached where the code lets the client miss something - a frame that was
not sent or was lost (`missed`), one published late (`reordered`), an
invalidation during a first request (`swallowed`), an answer older than an event
(`overtaken`), a flag cleared by a patch (`cleared`), and what a failed delete
does to My Issues and the page (`cancelled`, `restored`) - and a completed request drops all
of them but those of its own time. The invariants say that a query at rest
without a reason is right; so they catch every handler that forgets a cache.

The excuse `restored` covers the page because an attempt to prove `DetailCurrent`
without it failed at `Settle`: a delete is sent from the page and removes its
query; meanwhile another user's update is handled and finds no data to patch; then
the delete fails. `onError` of `useDeleteIssue` puts the issue back as it was, and
its `onSettled` invalidates the lists only (`core/issues/mutations.ts:364-396`), so
the page shows the older issue until the next event. This takes four events, one
more than the run `issue_cache` allows.

### TabStore and DesktopTabs: state and actions against the code

| Model | Code |
|---|---|
| `store` | groups of tabs per workspace, the active tab of each, the shown workspace |
| `router[id]` | the memory router of a tab: entries and position |
| `hook[id]` | `indexRef` and `lengthRef` of `useTabRouterSync` |
| `late` | navigations that wait for the answer of a request |
| `strayed` | bookkeeping: tabs whose hook missed a move of their router |
| `Commit` | a React commit: hidden tabs lose their effects, tabs not rendered their refs, and the visible one copies its router's path |
| `SwitchWorkspace`, `OpenTab`, `CloseTab`, `MoveTo`, `Toggled`, `Validated`, `Merged`, ... | the store's functions of these names, `moveTab`, `togglePin`, `validateWorkspaceSlugs` and `merge` |
| `Push`, `PushLate`, `Replace`, `OpenInNewTab`, `OpenLink` | the two navigation adapters and the `multica:navigate` handler |
| `Back`, `GoForward`, `Park`, `Reload`, `NewTab`, `Close`, `SetActive`, `TogglePin`, `Move` | title bar, tab bar, leaving the last workspace |
| `Validate`, `Logout`, `Restart` | the list of workspaces arrives, the session ends, the application starts again |

### DesktopDaemon: state and actions against the code

A call into the main process is a *job*: the sequence of its steps from one
`await` to the next. Jobs of different calls interleave at every step.

| Model | Code |
|---|---|
| `token`, `owner` | the token in the profile's config and the file that names its user |
| `daemon` | the process: none, booting or running, with the token it read |
| `state`, `guard`, `probed`, `expired`, `since` | `currentState`, `operationInProgress`, `authProbeDone`, `authExpired`, `startingSince` |
| `SyncToken`, `ClearToken`, `StartDaemon`, `StopDaemon`, `Login`, `Logout`, `Reauthenticate` | the functions' awaits in order |
| `Enter`, `Release` | `withGuard` |
| `Poll`, `Probe`, `Answer` | `pollOnce` with the one token probe of a start |
| `LogIn`, `LogOut`, `Press`, `Reauth`, `Relaunch`, `Revoke` | what users do, restarts of the application, a revoked token |

`assured` and `refused` are bookkeeping: a probe found the token accepted, the
server refused the token of the last boot. So is `slips`, what happened since the
session's files were last in order and the code does not make up for:

* *overlap*: a synchronisation or a logout began while another of them had steps on
  the files to do, or a logout while an operation held the guard;
* *mint*: the server gave no token to a synchronisation, which ends there;
* *cut*: the application ended while a synchronisation had not yet switched the daemon.

A logout, or a relaunch into no session, that finds no such job begins anew. Sessions
that begin beside starts, stops and restarts are no slip, nor are buttons pressed
beside a synchronisation.

## 3. Runs

Every instance is small, and was made about as large as the five minutes a run
may take allow.

| Run | Question | Result |
|---|---|---|
| `queue_claims` | two claim requests of one agent, rows of an issue and of a chat, cancels, reruns, sweeps | types, no overlap on an issue, `LaneInv`; the limit and the chat lane are exceeded by one row at most |
| `queue_runtimes` | two runtimes of one agent, any two faults of server, daemons and network, fairness | every queued row ends, but for stranded waiting rows |
| `badge` | a row and its two retries, a claim request, a handler and the sweeper, refreshes of all three overlapping, any one fault | a wrong badge has a refresh owed or a named excuse; `LineageInv`, `RetryLineage`; a restart's orphan report spares held rows; refines `TaskLifecycle` |
| `cache` | two enqueues or merges, two claims, failing Redis, expiry, fairness | a trusted verdict hides no announced row; announced rows are claimed without the TTL, all others with it |
| `delivery` | a daemon with two runtimes and two slots, two rows for one directory of either kind, fairness | slots are shared out and come back; an automatic update interrupts nothing; a directory has one user at a time |
| `leases` | two instances, plans of four kinds of job, one fault, fairness | exclusive attempts; refines `PlanLifecycle`; expired leases are closed, the latest failed plan is retried |
| `issue_cache` | one issue, two columns, three events of any kind | list, My Issues and detail are right, or excused |
| `tabs` | two workspaces, two tabs, one late navigation, restarts | all five invariants, and restarts keep tabs |
| `desktop` | two users, two jobs at a time, three acts, fairness | without a slip the daemon is the session's and the files speak of one user; a refused token surfaces |
| `lease_repair`, `tab_leak`, `logout_refused` | what comments of the code claim and the code does not do | each violated, see section 6 |

*Bounds.* Queue: `MaxEnqueued` rows are inserted by users, each with up to
`MaxAttempts` attempts; two rows make every pairwise property of lanes
meaningful, three exceed a limit of one by more than the two claims may, and
`Tasks` has room for every retry so the bound never suppresses one. Two claim
requests are what any race between claims needs; the theorems bound the overshoot
for any number. One request goroutine beside the sweeper lets two batches of failed
rows be handled at once, and with the claim request lets three refreshes overlap.
`MaxFaults` bounds restarts, deleted runtimes and lost messages, placed at any point
of the run; two of them are a daemon that ends and an orphan report that is lost.
Daemons have just registered when a run begins, so that their first orphan report
may be the message lost. `age` needs three classes because the code compares with
two thresholds. `queue_runtimes` has one attempt per row: a retry is a queued row of
its own, about which `Drains` says the same.

Daemon: two rows of two runtimes that want one directory are a holder and a
waiter, and with two slots also a row and its duplicate. Nothing else is
bounded: rows may be re-delivered, updates attempted and the daemon restarted
again and again. The invariants also hold with three slots, which put a cancelled
waiter between two others, in an instance that takes longer than the liveness
property allows.

Scheduler: two instances are a thief and its victim; the clock to
`MaxClock = 4` with a stale timeout of 1 and a backoff of 1 lets a lease expire,
be stolen or closed, and its plan fail and be retried, while a second plan falls
due; `MaxAttempts = 2` reaches exhaustion, one fault is placed anywhere. The two
invariants also hold in an instance with `MaxClock = 6` and no faults. A fact
about the future is judged by the clock up to `MaxClock`: "has expired" is asked
of the present state, so the end of time excuses nothing that was due before it.

Client: one issue in two columns is the least in which a move can leave a copy
behind; three events (writes of others, mutations, faults, pages opened anew)
allow a mutation, a write of another and a lost connection in one run. Which
column is read first is symmetric, so columns are read in order. Two tabs in two
workspaces let every operation hit a tab of its own or the other's group; two
pages in one workspace make histories of two entries. Two users and two slots
are two sessions whose jobs overlap; three acts are a login, a logout or second
login, and a relaunch, revocation or button in any order.

The theorems of section 5 hold for every value of all these.

*Deadlock* is checked in the queue, cache, badge, delivery, scheduler and
`desktop` runs. In
`issue_cache` and `tabs` the system may rest: nothing happens when all is quiet
and the bound on events is used up, or nobody is logged in and nothing was
saved; they say `CHECK_DEADLOCK FALSE`.

*Symmetry* is used over claim requests in `queue_claims` and over tab ids in
`tabs`, which check invariants and one action property only; never with
liveness.

*Mutants.* Beside some definitions stands an operator commented "Mutant of":
the same definition with a plausible mistake (the lane test dropped, a limit
off by one, SKIP LOCKED forgotten, a lease without a new token, a cache
forgotten by an event). Substituted in the run named in `PROJECT.json`, it makes
TLC find the property violated. They are part of no specification.

### Fairness

`FairSpec` of the queue assumes: the sweeper ticks (it is a ticker in the
server), the clock advances (`Tick`), a claim request the server has accepted
and a post-commit loop go on (goroutines run), a daemon that ended is started
again and its orphan report is handled (strong fairness: the request goroutine
may be busy meanwhile), and a daemon starts what it holds. It assumes nothing
of users, of agents ever finishing, of reports of completion, of polls ever
being made: `Drains` holds because of the timeouts and the expiry alone.
Faults are finite.

The liveness of the cache assumes that server goroutines run and that the
daemon polls every so often. That verdicts expire is a premise of
`StallEndsWithTTL` only: `AnnouncedRowClaimed` holds without it.

The daemon's assumes that pollers and goroutines take their next step, because
every call returns or times out; that a goroutine that waits for a mutex gets it
if it becomes free again and again (strong fairness: Go's mutex turns to
starvation mode after a millisecond, which serves waiters in order); and that
the server times running rows out. It assumes nothing of agents, which may never
end, nor of claims, updates and restarts.

The scheduler's assumes of each instance that it takes its next step: the
ticker goes on, the database answers, and a handler returns because its context
is cancelled after `RunTimeout`. Heartbeats are not fair, nor is the clock:
both properties speak of deadlines that have passed.

The desktop's assumes that a job's step ends (every await has a timeout), that
the daemon boots or exits, and that the poll runs every five seconds, one of
these after the grace period. It assumes nothing of users.

## 4. What the properties say

* `OneActivePerIssueAgent` - one agent never executes an issue twice at once.
* `LaneInv` - with it, the unique index, and what a claim between its select
  and its commit relies on: its row is still queued, nobody else selected it,
  its lane is free.
* `RetryLineage` - each retry has a failed, retryable, non-autopilot parent,
  the parent no other retry, and attempts count up to `max_attempts`;
  `LineageInv` adds that a row still to be retried has no retry and is on one
  goroutine's list only.
* `RestartReportSparesHeld` - a step property: the orphan report of a restarted
  daemon fails no row that a running daemon holds, also while other daemons register
  their workspace again. (What those reports do is in section 6.)
* `LifecycleSpec` - the queue implements `TaskLifecycle`: rows move along the
  edges of `Legal` only, so no late call, sweep or claim revives a row that
  ended, and no sweep changes a row under a claim.
* `Drains` - every queued row ends, whatever one or two faults do, unless it is
  `Stranded`: waiting, its daemon gone and the report of its orphans lost. It says
  nothing of a retry that a server restart lost: the failed row ended, and its retry
  was never queued. No property could: the code has nothing that makes up for it.
* `OvershootBounded` - claims that overlap exceed the limit of an agent by fewer rows
  than there are claim requests; nothing else exceeds it.
* `UnindexedLanesBounded` - a chat session, or the quick-creates of an agent, never
  have more active rows than there are claim requests: only claims whose snapshots
  overlap share such a lane. The comments promise one row; see section 6.
* `BadgeOwedOrRight` - a badge that disagrees with the queue has a refresh owed or
  under way, with any refreshes overlapping, or an excuse: a lost refresh, an archived
  agent, a write after one that had read later. A handler that forgets its refresh, or
  does it before its rows changed, violates it.
* `TrustedVerdictHidesNothing` - the cache never hides an announced row; as a row is
  announced from its bump on, a wakeup always reaches the database.
* `AnnouncedRowClaimed`, `StallEndsWithTTL` - an announced row never waits for
  the TTL; a row whose bump was lost, or that was merged in, waits for it at
  most.
* `UpdateInterruptsNothing` - while an automatic update runs no poller is in a
  claim or has a task to hand over, and no goroutine is in `handleTask`. (The
  update a user asks for looks at no task and interrupts all.)
* `DirectoryExclusive` - only the owner of its mutex prepares, runs or reports in
  a directory, whatever was re-delivered and whoever gave up waiting.
* `SlotsComeBack` - every slot is free again and again, behind cancelled waits,
  duplicates and agents that never end; with it, nobody waits for a directory
  for ever.
* `ExclusiveAttempt` - whoever steals, retries or is late, no two instances
  handle the same attempt of a plan.
* `PlanSpec` - the rows of the scheduler implement `PlanLifecycle`: attempts
  count up by one to the limit, SUCCESS is final and belongs to the attempt
  whose handler returned.
* `StaleRowsClosed`, `LatestRetried` - a crashed or forgotten lease is closed or
  taken; the latest failed plan with attempts left is tried again.
* `ListCurrent`, `MyCurrent`, `DetailCurrent` - when nothing is on its way, each
  query at rest shows what the server has, unless one of the excuses of section
  2 explains why not.
* `ActiveTabExists`, `PinnedTabsFirst`, `TabsStayInWorkspace` - through every
  operation, late navigation, validation and restart.
* `BarsShowTheRouter` - the store shows the visible tab's page and, unless its
  hook missed a move, how far it can go back and forward.
* `RestartKeepsTabs` - a step property: a restart brings back the tabs that show
  a page of their workspace, these only and in their order, and the active one.
* `DaemonIsTheSessions` - when no job is left, the daemon runs with the token of the
  session's user, and none runs without a session. All three slips are excused:
  overlapping synchronisations and logouts, a failed mint, an application that ended
  before the switch. In each of them the daemon of the user before may stay (section 6).
* `FilesOfOneUser` - when no job is left, the token and the owner file speak of one
  user, also when the application ended between the two writes. Overlaps and failed
  mints are excused: what an overlap files is in section 6, and a synchronisation whose
  mint failed repairs nothing.
* `AuthFailureSurfaces` - a daemon whose token was refused does not look as if
  it started for ever.

## 5. Proofs

The proofs assume the named assumptions of the modules: `ConstantsAssumption` of
`TaskQueue` (sizes are naturals, NULL is no agent, runtime, issue or chat, the
sweeper is no request goroutine, claim requests are finitely many, templates are well
typed), `GoroutinesAssumption` of `AgentStatus`, `CacheAssumption` of
`EmptyClaimCache`, `DeliveryAssumption` of `TaskDelivery` (NULL and the mark of a
cancelled wait are no slots, there are finitely many slots and runtimes),
`JobAssumption` of `SchedulerLease` (what `JobSpec.validate` requires),
`TabAssumption`, `BoundAssumption` and `RouterAssumption` of the tabs (`None` is
no slug, no id and no router), `DaemonAssumption` of `DesktopDaemon` (`None` is no
user, no token and no job, there is a slot), `CacheAssumption` of `IssueCache` (the
columns of the board differ, `Absent` is no row, no set of rows and no request). TLC
evaluates all of them.

`TaskQueueProofs`
* `TypeCorrect`: `Spec => []TypeOK`, one lemma per group of actions. `TypeOK`
  contains that held rows are live, which makes it inductive together with the
  program counters' ranges.
* `LanesCorrect`: `Spec => []LaneInv`. `OneActivePerIssueAgent` alone is not
  inductive: `ClaimCommit` activates the row selected earlier, so one must know
  that its lane is still free. It is, because a second row of the lane could
  only become active by being claimed too; that row would have to be pending
  beside the first, which the unique index forbids (`OnePendingPerIssueAgent`).
  The steps fall into four kinds, with a lemma each: rows leave `Pending` and
  `Active` or move within `Active` (`ShrinkKeepsLanes`), a row is inserted
  (`InsertKeepsLanes`), a claim selects (`SelectKeepsLanes`), a claim commits
  (`CommitKeepsLanes`).
* `NoOverlap`: `Spec => []OneActivePerIssueAgent`.
* `ImplementsLifecycle`: `Spec => LifecycleSpec`. Each statement moves rows
  along legal edges; for `ClaimCommit` this needs `LaneInv` (the row is still
  queued).
* `LineageCorrect`: `Spec => []LineageInv`, and `RetriedAtMostOnce`:
  `Spec => []RetryLineage`. `RetryLineage` is not inductive, since it does not
  say that the row about to be retried has no retry yet. `RetriesOwed` says so,
  and that no two goroutines own one row: a row enters a list in the statement
  that fails it, once, when it was live; it leaves the list in the step that
  decides its retry. A restart of the server empties the lists.
* `RestartReportsSpareHeld`: `Spec => RestartReportSparesHeld`. The strengthening
  (`DeliveryCorrect`) says that a held row belongs to a runtime whose daemon runs,
  and that a claim request with a row to deliver was made by such a daemon; a
  daemon that has not reported yet does not poll, so it holds nothing.

`OverlapProofs` (no assumption on how claims or refreshes are served)
* `OvershootIsBounded`, `UnindexedLanesAreBounded` along `OverlapCorrect`. A claim
  request that has counted, or selected a row, counts like the row it may yet
  dispatch: the rows an agent has to do, with the requests that choose for it, are
  bounded by the limit and the requests, because a request counts only while it is
  not one of those, and may then add one row. So it is with a lane: a claim selects in
  it only while its snapshot shows it empty, and every row that came to work since
  was one of the other requests'.
* `BadgeCorrect`: `StatusSpec => []BadgeOwedOrRight`. The invariant says what each
  refresh between its read and its write may still believe: if its verdict differs
  from the queue, then another goroutine owes the agent a refresh, or reads later and
  is not written yet, or an excuse is there or comes with the write. Which reads are
  older is an order, so of several wrong ones each has a right one that is newer than
  it.

`EmptyClaimCacheProofs`
* `CacheTyping`, `CacheSafe`: `Spec => []TrustedVerdictHidesNothing`, with the
  invariant that no version in flight is ahead of the counter and that a claim
  about to write the current version has missed no announced row.

`TaskDeliveryProofs`
* `TypeCorrect`, `UpdatesInterruptNothing`, `DirectoriesExclusive` along one
  invariant. `UpdateInterruptsNothing` needs that the counters the barrier reads
  are cardinalities: `activeTasks` of the goroutines, `claimsInFlight` of these
  and the pollers that claim (`Counted`), so that both are zero of an idle daemon
  only, and that the barrier is up exactly while the update runs (`Barrier`).
  Goroutines share lemmas by what a step does: goes on, stays, leaves, starts.

`SchedulerLeaseProofs`
* `LeaseInvariant`: `Spec => []IInv`, from which `TypeCorrect`,
  `AttemptsAreExclusive` and `ImplementsLifecycle` follow. `ExclusiveAttempt` is
  not inductive: it needs that the attempt and the lease token of a row are
  always equal, and that what a runner holds was given out (`LeaseInv`), so that
  a new claim differs from every lease in use. `ReturnedInv` keeps the history
  consistent with the rows, `TickInv` keeps the plans of a tick within `Plans`,
  which needs a lemma about bounded division for `FloorPlan`.
* `ImplementsLifecycle`: `Spec => PlanSpec`; the interesting step is `Finish`,
  whose fence makes the row that succeeds that of the attempt which returned.

`DesktopTabsProofs`
* One lemma per operation of the store says that it keeps `GroupsWellFormed` and
  `AllPinnedFirst`, another where the tabs it leaves come from (`Comes`: a tab
  stays in its group with its page and history, and at most one is new). They
  are stated about stores, without a state machine.
* `StepKinds` sorts the steps by what they do to tabs: the store becomes one of
  these stores, the visible tab's router moves and its hook counts, a late answer
  moves a hidden tab, a request is sent or dropped, a reload, a restart. Every
  invariant below is kept by each kind.
* `TypeCorrect`, `ActiveTabAlwaysExists`, `PinnedTabsAlwaysFirst` follow along
  `IInv`: a React commit keeps a well-formed store well formed, and a router
  move stays within its entries.
* `RestartsKeepTabs`: `Spec => RestartKeepsTabs`. The merge sorts by pin and is
  stable; that it changes no order needs that pinned tabs came first before.
* `BarsAlwaysShowTheRouter`: `Spec => []BarsShowTheRouter`, which speaks of the
  visible tab and is not inductive: any tab may become visible. `BarsInv` says of
  every tab no move escaped that its router, its hook and the store agree, and
  that a tab which is not rendered has no refs, so that it is right to start from
  nothing when it is shown again.
* `StrangersOnlyByLink`: `Spec => StrangersComeByLink`, whether or not documents
  link to other workspaces: such a link (`LinkElsewhere`, the counterexample of
  `tab_leak`) is the only step after which a further tab shows a page of another
  workspace. (TLC confirms it in the instance of `tab_leak`.) A page may also come
  back from the entries of the router and from a late answer, so `Strangers` are the
  tabs of which any of these leads elsewhere. `Within`
  says that of a tab outside a given set all are pages of its workspace, and each kind
  of step keeps it, whatever the tabs in that set do. Ids must not be reused while an
  answer is on its way: `LateFits` gives that an answer belongs to an open tab or to
  none. `TabsStayInWorkspace` itself, in an application whose documents do not link
  elsewhere, is left to the run `tabs`.

`DesktopDaemonProofs`
* `DaemonTypes`, `FilesAreOneUsers`, `DaemonOfTheSession` along `DaemonInv`. Both
  properties speak of the moment when all jobs are done, and depend on what several
  jobs have read so far. A job is seen as the set of steps it still has to do (`Left`);
  the steps of all calls come in one fixed order (`Rank`), so a step is enabled only
  when all lower ones are done, and an invariant can say "between this step and that
  one" without naming the call.
* `GuardInv`: `operationInProgress` is set exactly while one job holds it.
* `SessionInv` has two layers. Without an overlap and a failed mint (`Filed`), one job
  at a time is on the files, and it is the session's: after a logout a token that is
  left will be cleared (`Cleared`); after a login the owner is the session's user or
  will be, and when the owner is, so is the token, whatever an interrupted
  synchronisation left (`Synced`). Without any slip (`Right`) also: after a logout a
  stop is left for a daemon that lives (`Stopping`); after a login, when the token or
  the daemon is another user's, a job is left that will find out that the user changed,
  or that is about to stop that daemon (`Switched`). A logout establishes all of it
  anew, from the types alone.

`IssueCacheProofs`
* `CacheTypes`, `MyIsCurrent`, `ListIsCurrent`, `PageIsCurrent` along `CacheInv`.
  The properties speak of quiet states; the invariant says by how much a cache may
  differ while something is on its way, and says it of the pages that a request in
  flight has read, too.
* `MyInv`: My Issues is only invalidated, so it may differ as long as any frame is
  to come, or a delete whose failure would restore a snapshot.
* `WireInv`: what the frames still to come say of the server. The wire is the
  frames sent followed by the commits not published: the last frame in time about
  an issue shows the issue as it is, and nothing precedes its creation.
* `ListInv`: the board is patched. In each column every issue is shown as the
  server has it, or is missing while its creation is on the wire, or differs in
  what a metadata frame on the wire will correct (`AgreesOn`) - unless the list will
  be invalidated anyway (`Unsettled`): by a mutation that has not settled, or by an
  update, a deletion or a late frame.
* `PageInv`: the same for the page, field by field.
* The lemmas follow the layers of the model: what each call of the query library
  leaves (`Patch`, `Invalidate`, `Cancel`, `Mount`, ...), what the helpers on
  buckets do to one issue of one column, what a commit, a publication and a
  delivery do to the wire; each action then takes one step per conjunct.

Only model-checked: the liveness properties (`Drains`, `AnnouncedRowClaimed`,
`StallEndsWithTTL`, `SlotsComeBack`, `StaleRowsClosed`, `LatestRetried`,
`AuthFailureSurfaces`), which need fairness and ENABLED, and `TabsStayInWorkspace`,
which holds only as long as documents do not link elsewhere. Every other property of a
passing run is a theorem.

## 6. Where the code does not do what it says

Each of these is a run with the counterexample; the quotes are in `findings`.

* `lease_repair` - "stale leases then transition to FAILED [...] and require
  manual repair": without `AllowStaleReentry` a stale plan is closed and then
  claimed as a failed one, its `next_retry_at` being NULL.
* `tab_leak` - "cross-workspace tab leakage [...] is impossible by
  construction": a link in a document opens another workspace's page in the
  active group.
* `logout_refused` - "stop the daemon so that a subsequent login [...] never
  inherits": a logout during a start is refused its stop, and the daemon stays.

Further disagreements are stated as formulas in the modules and have no run of
their own. Each is violated in the instance named here.

| Formula | Instance | What happens |
|---|---|---|
| `RespectsMaxConcurrentTasks` | `queue_claims` | "respecting max_concurrent_tasks" (`task.go`): two claims both count, then both claim |
| `ChatSessionsSerialized` | `queue_claims` | "Chat tasks [...] use chat_session_id for serialization instead" (`agent.sql`): the subquery does not see an uncommitted claim, and no index backs it |
| `QuickCreatesSerialized` | `queue_runtimes` with two claim requests | without the check "a user mashing the create button could fire concurrent quick-creates" (`agent.sql`): it still can, for the same reason |
| `RecoverySparesHeld` | `queue_runtimes` | "the runtimes were truly gone server-side, so anything still in dispatched/running/waiting_local_directory on those rows is an orphan" (`daemon.go`): the workspace's other runtimes are reported too, and the rows their goroutines work on are failed and retried |
| `ResetOnlyWhenIdle` | one poll, two rows of one issue | "only when no other active task exists": check and reset are two statements |
| `WaitingRowsReclaimed` | `queue_runtimes` | the orphan report is sent once; when it is lost, a waiting row of an online runtime is covered by no timeout |
| `FailedIssueIsReset` | one row | "All callers [...] funnel through here": `FailTask` does not call `HandleFailedTasks` and never resets the issue |
| `NoStaleWorking` | `badge` | "avoids a stale unconditional working write" (`task.go`): overlapping refreshes may write in the opposite order of their reads |
| `CancelsRefresh` | `badge` | a cancel without a refresh "left the agent stuck at status=working indefinitely" (`task.go`, of an earlier version): `ArchiveAgent` still cancels without one |
| `OneHandlerPerRow` | `delivery` | "an in-flight StartTask cannot be reclaimed and double-dispatched" (`task.go`): since `StartTask` follows the wait for the worktree and `Prepare`, a row that waits longer than 90 seconds is delivered to the same daemon again; the duplicates wait behind it and occupy slots |
| `DuplicateSparesRun` | `delivery` | the second goroutine's path is rejected, or, in a directory of its own, its `StartTask` is refused because the first was slow to prepare and then started: it reports a failure, and the row the first goroutine runs is failed |
| `RecoveryReachesEveryCache` | `issue_cache` | the flag a reconnect sets is cleared by the answer of an older request |
| `NoHelperThrows` | `issue_cache` with `GroupsCached = TRUE` | a delete meets an assignee board under the `my` prefix and throws |
| `FailedMintIsSafe` | `logout_refused` | "without it, a previous user's PAT would be used by a new session" (`daemon-manager.ts`): when the mint for a new user fails, `syncToken` throws before the restart, and the daemon of the user before goes on |
| `InterruptedSwitchIsMadeUp` | `logout_refused` | "Restart it so the in-memory token [...] matches the new config": an application that ends after the files are written and before the restart finds no changed user when it starts again |
| `OverlapsFileRight` | `logout_refused` | "cached PAT AND the sidecar user id matches the caller, reuse it": two synchronisations that overlap write one user's token and the other's id, and the next one reuses it |

The instances are the cfg of the named run with the formula in place of its
properties.

A server restart between the UPDATE that fails rows and the loop that retries them
(`task.go:1880`) loses the retries for good: the rows are failed, nothing looks at them
again, and an issue stays in progress. No comment promises otherwise.

Two more remarks of comments have no formula. `FailStaleTasks` leaves waiting
rows out because "the daemon owns the wait (with its own ctx-driven timeout)";
the wait has no timeout, and ends when the holder does, or the row is cancelled.
The wait for a worktree does not watch its row: cancelled, it keeps its slot until
the worktree is free.

The scheduler's `every_plan` promises less than its name: the cursor follows the
latest row, so an older plan that failed, or one that was skipped when its claim
failed, is not attempted again. `LatestRetried` states what holds.

## 7. Not modelled, and why

Queue: data no property distinguishes - prompts, results, session and work
directory pointers, comments, chat messages, analytics, broadcasts, permissions,
runtime choice at enqueue. Failing SQL statements inside a loop, beyond what
`LoseClaim` and `ServerCrash` cover. Deletion of agents, issues and runtimes
(foreign keys cascade). Several servers' sweepers at once: the model has one.
Serialisation anomalies other than the two described in section 2.

Daemon: heartbeats, registration and the slot and backoff of a re-registration after a
deleted runtime (its orphan report is in `TaskQueue`), work directories and their
clean-up, messages and usage reports of agents, the loss of a `MarkTaskWaiting`
answer after the server wrote it (the wait goes on either way).

Scheduler: handlers and their results, metrics, other jobs and scopes (their
rows are never read for this one), a runner whose own clock stands in when the
database's cannot be read.

Clients: comments, labels, children, projects, batch operations, sorting, pages
beyond the first, titles and icons; the set-up of the CLI, daemons of other
profiles, version restarts, a changed server address, log tailing, auto-stop on
quit and failing stops.

The remaining components of section 1 are the plan below, or have no protocol of
their own: request-scoped reads and writes, process control, rendering.

## 8. Plan

Models, in this order:

1. `RuntimeRecovery` - re-registration after a deleted runtime
   (`handleRuntimeGone`, its slot and its backoff) and the order of notifying
   pollers and reporting orphans, beside `TaskDelivery`.
2. `RuntimeLiveness` - Redis heartbeat, batched flush, stale filter, with
   discrete time: a beating runtime is not marked offline.
3. `AutopilotRun` - trigger claim, dispatch, synchronisation from task and issue
   events, over `TaskLifecycle` and the scheduler's plans.
4. `ConnectorLease`, `PendingBatcher` - the small concurrent protocols of the
   Lark integration.
5. `ChatResume` - the resume pointer and the claim of the next chat row.
6. Realtime relays, and the parts of the issue caches section 7 leaves out.

Proofs: with each new model its type invariant and its safety properties. Of the
present models every safety property of a run is proved; what is left is
liveness, which stays with TLC.
