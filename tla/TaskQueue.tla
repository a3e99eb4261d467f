----------------------------- MODULE TaskQueue -----------------------------
(***************************************************************************)
(* The server side of the agent task queue: the rows of agent_task_queue,  *)
(* the statements that write them, and the post-commit steps (retry, issue *)
(* reset) the request goroutines and the sweeper run after.  agent.status, *)
(* a column derived from the rows, is added to it by AgentStatus.          *)
(*                                                                         *)
(* One SQL statement, or one transaction, is one action.  The steps one    *)
(* goroutine takes between statements are separate actions, so that other  *)
(* goroutines interleave there.  ClaimAgentTask is the one statement that  *)
(* is split: it reads its snapshot and locks a row (ClaimSelect), and the  *)
(* others run before its write is visible (ClaimCommit).                   *)
(***************************************************************************)
EXTENDS Naturals, FiniteSets, TaskStatus

CONSTANTS
  MaxEnqueued,  \* bound: rows ever enqueued, retries not counted
  Agents, Runtimes, Issues, Chats,
  None,         \* SQL NULL
  Polls,        \* claim requests the server serves at the same time
  Requests,     \* other request goroutines
  Sweeper,      \* the runtime sweeper goroutine
  Templates,    \* the rows users, comments, chats and autopilots may enqueue
  Cap,          \* agent.max_concurrent_tasks
  MaxAttempts,  \* agent_task_queue.max_attempts
  FaultKinds,   \* the faults that may happen, among "server", "daemon", "network", "gone"
  MaxFaults     \* bound: how many of them

\* Room for every attempt of every row enqueued, so no retry meets the bound.
Tasks   == 1 .. (MaxEnqueued * MaxAttempts)
Workers == Requests \cup {Sweeper}

Template == [agent : Agents, runtime : Runtimes, issue : Issues \cup {None},
             chat : Chats \cup {None}, origin : {"user", "autopilot"}, prio : Nat]

ASSUME ConstantsAssumption ==
  /\ MaxEnqueued \in Nat /\ Cap \in Nat /\ MaxAttempts \in Nat \ {0} /\ MaxFaults \in Nat
  /\ None \notin Agents \cup Runtimes \cup Issues \cup Chats
  /\ Sweeper \notin Requests /\ IsFiniteSet(Polls)
  /\ Templates \subseteq Template /\ Templates # {}

VARIABLES
  status,       \* [Tasks -> Statuses], the status column
  job,          \* [Tasks -> Job], the columns an INSERT fixes
  reason,       \* [Tasks -> Reasons], failure_reason
  age,          \* 0 fresh, 1 past the claim recovery window, 2 past the timeout
  held,         \* live rows whose claim response reached a daemon that still runs
  runtimeStatus, issueStatus,
  daemon,       \* "up", "down", or "recovering": registered, orphans not reported
  poll,         \* per claim request: where ClaimTaskForRuntime is
  worker,       \* per other goroutine: where its post-commit steps are
  phase,        \* the sweep the sweeper runs next
  faults

rows  == <<status, job, reason, age, held>>
fleet == <<runtimeStatus, daemon, phase, faults>>
vars  == <<rows, fleet, issueStatus, poll, worker>>

-----------------------------------------------------------------------------
(* Rows *)

Retryable == {"runtime_offline", "runtime_recovery", "timeout", "codex_semantic_inactivity"}
Reasons   == Retryable \cup {"none", "agent_error", "queued_expired"}

Job == [agent : Agents, runtime : Runtimes, issue : Issues \cup {None},
        chat : Chats \cup {None}, origin : {"user", "autopilot"}, prio : Nat,
        attempt : 1 .. MaxAttempts, parent : {0} \cup Tasks]

\* CreateAgentTask, CreateQuickCreateTask, CreateChatTask: a first attempt.
Fresh(tpl) == [agent |-> tpl.agent, runtime |-> tpl.runtime, issue |-> tpl.issue,
               chat |-> tpl.chat, origin |-> tpl.origin, prio |-> tpl.prio,
               attempt |-> 1, parent |-> 0]

\* CreateRetryTask: the parent's columns, one attempt further.
Child(t) == [job[t] EXCEPT !.attempt = @ + 1, !.parent = t]

RowsIn(S) == {t \in Tasks : status[t] \in S}

\* Mutant of ActiveOf: a row that waits for its directory leaves its lane.
ActiveNotWaiting(a) == {t \in RowsIn({"dispatched", "running"}) : job[t].agent = a}

ActiveOf(a)   == {t \in RowsIn(Active) : job[t].agent = a}
QuickShape(j) == j.issue = None /\ j.chat = None /\ j.origin # "autopilot"

\* The three ways ClaimAgentTask finds an active row in the way of row j.
SameLane(j, k) ==
  \/ j.issue # None /\ k.issue = j.issue
  \/ j.chat # None /\ k.chat = j.chat
  \/ QuickShape(j) /\ QuickShape(k)

\* The unique index refuses a second pending row of one issue and agent.
IndexConflict(j) ==
  /\ j.issue # None
  /\ \E t \in RowsIn(Pending) : job[t].issue = j.issue /\ job[t].agent = j.agent

\* Rows an uncommitted ClaimAgentTask has locked.
Locked == {poll[p].task : p \in {q \in Polls : poll[q].pc = "commit"}}

Enqueued == Cardinality({t \in Tasks : status[t] # "absent" /\ job[t].parent = 0})

InsertRow(t, j) ==
  /\ status[t] = "absent"
  /\ \A u \in Tasks : u < t => status[u] # "absent"
  /\ ~IndexConflict(j)
  /\ status' = [status EXCEPT ![t] = "queued"]
  /\ job' = [job EXCEPT ![t] = j]
  /\ UNCHANGED <<reason, age, held>>

\* UPDATE ... SET status = to WHERE id IN S.  A daemon's later calls about a
\* terminal row match no row, so it stops being held.
Finish(S, to, why) ==
  /\ status' = [t \in Tasks |-> IF t \in S THEN to ELSE status[t]]
  /\ reason' = [t \in Tasks |-> IF t \in S THEN why ELSE reason[t]]
  /\ held' = held \ S
  /\ age' = [t \in Tasks |-> IF t \in S THEN 0 ELSE age[t]]
  /\ UNCHANGED job

-----------------------------------------------------------------------------
(* Goroutines *)

IdlePoll   == [pc |-> "idle", runtime |-> None, agents |-> {}, agent |-> None, task |-> 0,
               link |-> "up"]
IdleWorker == [pc |-> "idle", todo |-> {}, issue |-> None, scope |-> "batch", seen |-> {},
               retried |-> {}, rerun |-> None]

\* HandleFailedTasks is about to walk the rows S; FailTask about its single row.
Failing(S, scope) == IF S = {} THEN IdleWorker
                   ELSE [IdleWorker EXCEPT !.pc = "retry", !.todo = S, !.scope = scope]

\* One of the bounded faults happens.
Fault(kind) == kind \in FaultKinds /\ faults < MaxFaults /\ faults' = faults + 1

Init ==
  /\ status = [t \in Tasks |-> "absent"]
  /\ job = [t \in Tasks |-> Fresh(CHOOSE tpl \in Templates : TRUE)]
  /\ reason = [t \in Tasks |-> "none"]
  /\ age = [t \in Tasks |-> 0]
  /\ held = {}
  /\ runtimeStatus = [r \in Runtimes |-> "online"]
  /\ issueStatus = [i \in Issues |-> "todo"]
  /\ daemon = [r \in Runtimes |-> "recovering"]
  /\ poll = [p \in Polls |-> IdlePoll]
  /\ worker = [w \in Workers |-> IdleWorker]
  /\ phase = "offline"
  /\ faults = 0

-----------------------------------------------------------------------------
(* Enqueue and time *)

Enqueue(tpl) ==
  /\ Enqueued < MaxEnqueued
  /\ \E t \in Tasks : InsertRow(t, Fresh(tpl))
  /\ UNCHANGED <<fleet, issueStatus, poll, worker>>

\* now() - dispatched_at passes 90 s and then 300 s; created_at of a queued row
\* passes 2 h, started_at of a running row 9000 s.  A waiting row has no timeout.
Tick(t) ==
  /\ status[t] \in {"queued", "dispatched", "running"} /\ age[t] < 2
  /\ age' = [age EXCEPT ![t] = IF status[t] = "dispatched" THEN @ + 1 ELSE 2]
  /\ UNCHANGED <<status, job, reason, held, fleet, issueStatus, poll, worker>>

-----------------------------------------------------------------------------
(* ClaimTaskForRuntime, ClaimTask and ClaimAgentTask *)

\* ReclaimStaleDispatchedTaskForRuntime would re-deliver row t to runtime r.
Recoverable(t, r) == status[t] = "dispatched" /\ job[t].runtime = r /\ age[t] >= 1

\* A stale dispatched row goes out again, ahead of every queued one.
Reclaim(p, r) ==
  /\ poll[p] = IdlePoll /\ daemon[r] = "up"
  /\ \E t \in Tasks :
       /\ Recoverable(t, r)
       /\ age' = [age EXCEPT ![t] = 0]
       /\ poll' = [poll EXCEPT ![p] = [@ EXCEPT !.pc = "reply", !.runtime = r, !.task = t]]
  /\ UNCHANGED <<status, job, reason, held, fleet, issueStatus, worker>>

\* Mutant of ListCandidates: the pollers start before the orphans are reported.
ListBeforeReport(p, r) ==
  LET A == {job[t].agent : t \in {u \in RowsIn({"queued"}) : job[u].runtime = r}} IN
  /\ poll[p] = IdlePoll /\ daemon[r] \in {"recovering", "up"}
  /\ ~\E t \in Tasks : Recoverable(t, r)
  /\ A # {}
  /\ poll' = [poll EXCEPT ![p] = [@ EXCEPT !.pc = "count", !.runtime = r, !.agents = A]]
  /\ UNCHANGED <<rows, fleet, issueStatus, worker>>

\* ListQueuedClaimCandidatesByRuntime, reduced to the agents the loop will try.
ListCandidates(p, r) ==
  LET A == {job[t].agent : t \in {u \in RowsIn({"queued"}) : job[u].runtime = r}} IN
  /\ poll[p] = IdlePoll /\ daemon[r] = "up"
  /\ ~\E t \in Tasks : Recoverable(t, r)
  /\ A # {}
  /\ poll' = [poll EXCEPT ![p] = [@ EXCEPT !.pc = "count", !.runtime = r, !.agents = A]]
  /\ UNCHANGED <<rows, fleet, issueStatus, worker>>

\* The loop gives up on agent a; after the last one the request answers "no task".
NextAgent(p, a) ==
  IF poll[p].agents \ {a} = {} THEN IdlePoll
  ELSE [poll[p] EXCEPT !.pc = "count", !.agents = @ \ {a}, !.agent = None, !.task = 0]

\* Mutant of CountRunning: the limit is off by one.
CountRunningOffByOne(p) ==
  /\ poll[p].pc = "count"
  /\ \E a \in poll[p].agents :
       poll' = [poll EXCEPT ![p] =
                  IF Cardinality(ActiveOf(a)) > Cap THEN NextAgent(p, a)
                  ELSE [@ EXCEPT !.pc = "select", !.agent = a]]
  /\ UNCHANGED <<rows, fleet, issueStatus, worker>>

\* CountRunningTasks: at capacity the agent is skipped.  The count is not held
\* until the claim.
CountRunning(p) ==
  /\ poll[p].pc = "count"
  /\ \E a \in poll[p].agents :
       poll' = [poll EXCEPT ![p] =
                  IF Cardinality(ActiveOf(a)) >= Cap THEN NextAgent(p, a)
                  ELSE [@ EXCEPT !.pc = "select", !.agent = a]]
  /\ UNCHANGED <<rows, fleet, issueStatus, worker>>

\* Mutant of Claimable: no NOT EXISTS over the active rows.
ClaimableAnyLane(a) == {t \in RowsIn({"queued"}) \ Locked : job[t].agent = a}

\* The rows of agent a the subquery of ClaimAgentTask may return: of any runtime,
\* with no active row in the same lane, SKIP LOCKED.
Claimable(a) ==
  {t \in RowsIn({"queued"}) \ Locked :
     /\ job[t].agent = a
     /\ \A u \in ActiveOf(a) : ~SameLane(job[t], job[u])}

\* ORDER BY priority DESC, created_at ASC.
Before(t, u) == job[t].prio > job[u].prio \/ (job[t].prio = job[u].prio /\ t < u)

\* The snapshot and the row lock of ClaimAgentTask.
ClaimSelect(p) ==
  LET a == poll[p].agent IN
  /\ poll[p].pc = "select"
  /\ \/ /\ Claimable(a) = {}
        /\ poll' = [poll EXCEPT ![p] = NextAgent(p, a)]
     \/ \E t \in Claimable(a) :
          /\ \A u \in Claimable(a) : u = t \/ Before(t, u)
          /\ poll' = [poll EXCEPT ![p] = [@ EXCEPT !.pc = "commit", !.task = t]]
  /\ UNCHANGED <<rows, fleet, issueStatus, worker>>

\* The UPDATE of ClaimAgentTask becomes visible.  The loop keeps the row only if it
\* belongs to the polling runtime; a row of another stays dispatched, undelivered.
ClaimCommit(p) ==
  LET t == poll[p].task IN
  /\ poll[p].pc = "commit"
  /\ status' = [status EXCEPT ![t] = "dispatched"]
  /\ age' = [age EXCEPT ![t] = 0]
  /\ poll' = [poll EXCEPT ![p] =
                 IF job[t].runtime # poll[p].runtime THEN NextAgent(p, poll[p].agent)
                 ELSE [@ EXCEPT !.pc = "reply", !.agents = {}, !.agent = None]]
  /\ UNCHANGED <<job, reason, held, fleet, issueStatus, worker>>

\* The claim response reaches the daemon that polled.
Deliver(p) ==
  /\ poll[p].pc = "reply" /\ poll[p].link = "up"
  /\ held' = held \cup ({poll[p].task} \cap RowsIn(Live))
  /\ poll' = [poll EXCEPT ![p] = IdlePoll]
  /\ UNCHANGED <<status, job, reason, age, fleet, issueStatus, worker>>

\* The request ends without an answer: its connection is gone, a statement or the
\* token it must return fails.  A row it has already committed stays dispatched.
LoseClaim(p) ==
  /\ poll[p].pc # "idle"
  /\ \/ poll[p].link = "cut" /\ UNCHANGED faults
     \/ poll[p].link = "up" /\ Fault("network")
  /\ poll' = [poll EXCEPT ![p] = IdlePoll]
  /\ UNCHANGED <<rows, runtimeStatus, daemon, phase, issueStatus, worker>>

\* ClaimTaskByRuntime refuses to hand the row out (foreign workspace, runtime
\* without owner) and cancels it.
RejectClaim(p) ==
  /\ poll[p].pc = "reply"
  /\ Finish({poll[p].task} \cap RowsIn(Live), "cancelled", "none")
  /\ poll' = [poll EXCEPT ![p] = IdlePoll]
  /\ UNCHANGED <<fleet, issueStatus, worker>>

-----------------------------------------------------------------------------
(* Calls of the daemon about a row it holds *)

StartTask(t) ==
  /\ t \in held /\ status[t] \in {"dispatched", "waiting"}
  /\ status' = [status EXCEPT ![t] = "running"]
  /\ age' = [age EXCEPT ![t] = 0]
  /\ UNCHANGED <<job, reason, held, fleet, issueStatus, poll, worker>>

MarkTaskWaitingLocalDirectory(t) ==
  /\ t \in held /\ status[t] = "dispatched"
  /\ status' = [status EXCEPT ![t] = "waiting"]
  /\ age' = [age EXCEPT ![t] = 0]
  /\ UNCHANGED <<job, reason, held, fleet, issueStatus, poll, worker>>

CompleteTask(t) ==
  /\ t \in held /\ status[t] = "running"
  /\ Finish({t}, "completed", "none")
  /\ UNCHANGED <<fleet, issueStatus, poll, worker>>

FailTask(w, t, why) ==
  /\ worker[w] = IdleWorker /\ t \in held /\ status[t] \in Active
  /\ Finish({t}, "failed", why)
  /\ worker' = [worker EXCEPT ![w] = Failing({t}, "one")]
  /\ UNCHANGED <<fleet, issueStatus, poll>>

\* The running agent moves its issue through the CLI.
AgentStartsIssue(t) ==
  /\ t \in held /\ status[t] = "running" /\ job[t].issue # None
  /\ issueStatus[job[t].issue] = "todo"
  /\ issueStatus' = [issueStatus EXCEPT ![job[t].issue] = "in_progress"]
  /\ UNCHANGED <<rows, fleet, poll, worker>>

-----------------------------------------------------------------------------
(* Cancels and reruns *)

OfIssue(i) == {t \in Tasks : job[t].issue = i}

\* CancelTask, CancelTasksForIssue, CancelTasksForAgent and the chat-session cancel.
CancelScopes ==
  {{t} : t \in Tasks} \cup {OfIssue(i) : i \in Issues}
    \cup {{t \in Tasks : job[t].agent = a} : a \in Agents}
    \cup {{t \in Tasks : job[t].chat = c} : c \in Chats}

\* A row lock makes the UPDATE wait.
CancelTasks(S) ==
  LET C == S \cap RowsIn(Live) IN
  /\ C # {} /\ C \cap Locked = {}
  /\ Finish(C, "cancelled", "none")
  /\ UNCHANGED <<fleet, issueStatus, poll, worker>>

\* RerunIssue cancels the target agent's rows on the issue and only then inserts the
\* new row.
RerunIssue(w, tpl) ==
  LET C == {t \in OfIssue(tpl.issue) \cap RowsIn(Live) : job[t].agent = tpl.agent} IN
  /\ worker[w] = IdleWorker /\ tpl.issue # None
  /\ C \cap Locked = {}
  /\ Finish(C, "cancelled", "none")
  /\ worker' = [worker EXCEPT ![w] = [@ EXCEPT !.pc = "enqueue", !.rerun = tpl]]
  /\ UNCHANGED <<fleet, issueStatus, poll>>

\* enqueueRerunTask; it refuses when the agent is archived or has no runtime, and
\* somebody else's pending row makes the insert fail.
EnqueueRerun(w) ==
  LET j == Fresh(worker[w].rerun) IN
  /\ worker[w].pc = "enqueue"
  /\ \/ Enqueued < MaxEnqueued /\ \E t \in Tasks : InsertRow(t, j)
     \/ UNCHANGED rows
  /\ worker' = [worker EXCEPT ![w] = IdleWorker]
  /\ UNCHANGED <<fleet, issueStatus, poll>>

-----------------------------------------------------------------------------
(* Post-commit steps: MaybeRetryFailedTask, HandleFailedTasks *)

\* Mutant of CanRetry: one attempt too many.
CanRetryOnceMore(t) ==
  /\ reason[t] \in Retryable
  /\ job[t].attempt <= MaxAttempts
  /\ job[t].origin # "autopilot"
  /\ job[t].issue # None \/ job[t].chat # None

CanRetry(t) ==
  /\ reason[t] \in Retryable
  /\ job[t].attempt < MaxAttempts
  /\ job[t].origin # "autopilot"
  /\ job[t].issue # None \/ job[t].chat # None

\* The next row of the batch, or the end.
Onward(x) == IF x.todo = {} THEN IdleWorker ELSE [x EXCEPT !.pc = "retry", !.issue = None]

\* Mutant of AfterRetry: the row stays on the list.
AfterRetryKeepingRow(w, t, retried) ==
  LET i == job[t].issue
      x == [worker[w] EXCEPT !.retried = @ \cup (IF retried THEN {i} \ {None} ELSE {})]
  IN IF x.scope = "one" \/ i = None THEN Onward(x) ELSE [x EXCEPT !.pc = "check", !.issue = i]

\* Row t had its retry decided.  FailTask stops there; HandleFailedTasks looks at
\* the row's issue next.
AfterRetry(w, t, retried) ==
  LET i == job[t].issue
      x == [worker[w] EXCEPT !.todo = @ \ {t},
                             !.retried = @ \cup (IF retried THEN {i} \ {None} ELSE {})]
  IN IF x.scope = "one" \/ i = None THEN Onward(x) ELSE [x EXCEPT !.pc = "check", !.issue = i]

MaybeRetryFailedTask(w) ==
  /\ worker[w].pc = "retry"
  /\ \E t \in worker[w].todo :
       \/ /\ CanRetry(t)
          /\ \E u \in Tasks : InsertRow(u, Child(t))
          /\ worker' = [worker EXCEPT ![w] = AfterRetry(w, t, TRUE)]
       \/ /\ ~CanRetry(t) \/ IndexConflict(Child(t))
          /\ worker' = [worker EXCEPT ![w] = AfterRetry(w, t, FALSE)]
          /\ UNCHANGED rows
  /\ UNCHANGED <<fleet, issueStatus, poll>>

\* GetIssue: an issue is looked at once per batch, and never after a retry of it.
CheckIssue(w) ==
  LET x == worker[w]
      stuck == /\ issueStatus[x.issue] = "in_progress"
               /\ x.issue \notin x.seen \cup x.retried
  IN /\ x.pc = "check"
     /\ worker' = [worker EXCEPT ![w] =
                     IF stuck THEN [x EXCEPT !.pc = "active", !.seen = @ \cup {x.issue}]
                     ELSE Onward(x)]
     /\ UNCHANGED <<rows, fleet, issueStatus, poll>>

HasActiveTaskForIssue(w) ==
  /\ worker[w].pc = "active"
  /\ worker' = [worker EXCEPT ![w] =
                  IF OfIssue(@.issue) \cap RowsIn(Live) = {} THEN [@ EXCEPT !.pc = "reset"]
                  ELSE Onward(@)]
  /\ UNCHANGED <<rows, fleet, issueStatus, poll>>

\* UpdateIssueStatus(todo), on what the two reads saw.
ResetIssue(w) ==
  /\ worker[w].pc = "reset"
  /\ issueStatus' = [issueStatus EXCEPT ![worker[w].issue] = "todo"]
  /\ worker' = [worker EXCEPT ![w] = Onward(@)]
  /\ UNCHANGED <<rows, fleet, poll>>

-----------------------------------------------------------------------------
(* The sweeper: one tick is the three sweeps, in this order *)

FailBatch(w, S, why) ==
  /\ Finish(S, "failed", why)
  /\ worker' = [worker EXCEPT ![w] = Failing(S, "batch")]

Sweeping(which, next) ==
  /\ phase = which /\ worker[Sweeper] = IdleWorker
  /\ phase' = next

\* sweepStaleRuntimes: with nobody to flip it returns before any row is failed.  A
\* live runtime goes stale when its heartbeats stop arriving; one that has registered and
\* is reporting its orphans was seen within the stale threshold.
SweepStaleRuntimes ==
  \/ /\ Sweeping("offline", "stale")
     /\ UNCHANGED <<rows, runtimeStatus, daemon, faults, issueStatus, poll, worker>>
  \/ /\ Sweeping("offline", "orphans")
     /\ \E R \in SUBSET {r \in Runtimes : runtimeStatus[r] = "online" /\ daemon[r] # "recovering"} :
          /\ R # {}
          /\ IF \E r \in R : daemon[r] = "up" THEN Fault("network") ELSE UNCHANGED faults
          /\ runtimeStatus' = [r \in Runtimes |-> IF r \in R THEN "offline" ELSE runtimeStatus[r]]
     /\ UNCHANGED <<rows, daemon, issueStatus, poll, worker>>

\* FailTasksForOfflineRuntimes: the rows of every runtime that is offline now.
FailTasksForOfflineRuntimes ==
  /\ Sweeping("orphans", "stale")
  /\ FailBatch(Sweeper, {t \in RowsIn(Active) : runtimeStatus[job[t].runtime] = "offline"},
               "runtime_offline")
  /\ UNCHANGED <<runtimeStatus, daemon, faults, issueStatus, poll>>

\* Mutant of FailStaleTasks: running rows have no timeout.
FailStaleDispatched ==
  /\ Sweeping("stale", "expired")
  /\ FailBatch(Sweeper, {t \in RowsIn({"dispatched"}) : age[t] = 2}, "timeout")
  /\ UNCHANGED <<runtimeStatus, daemon, faults, issueStatus, poll>>

FailStaleTasks ==
  /\ Sweeping("stale", "expired")
  /\ FailBatch(Sweeper, {t \in RowsIn({"dispatched", "running"}) : age[t] = 2}, "timeout")
  /\ UNCHANGED <<runtimeStatus, daemon, faults, issueStatus, poll>>

\* Mutant of ExpireStaleQueuedTasks: a row being claimed is failed under the claim.
ExpireLockedToo ==
  /\ Sweeping("expired", "offline")
  /\ FailBatch(Sweeper, {t \in RowsIn({"queued"}) : age[t] = 2}, "queued_expired")
  /\ UNCHANGED <<runtimeStatus, daemon, faults, issueStatus, poll>>

\* FOR UPDATE SKIP LOCKED: a row being claimed is left to the claim.
ExpireStaleQueuedTasks ==
  /\ Sweeping("expired", "offline")
  /\ FailBatch(Sweeper, {t \in RowsIn({"queued"}) \ Locked : age[t] = 2}, "queued_expired")
  /\ UNCHANGED <<runtimeStatus, daemon, faults, issueStatus, poll>>

-----------------------------------------------------------------------------
(* Daemons and crashes *)

\* The daemon of runtime r ends: what it held and what was on its way is gone.
\* A graceful end deregisters, which only flips the runtime offline.
DaemonExit(r, graceful) ==
  /\ daemon[r] = "up" /\ Fault("daemon")
  /\ daemon' = [daemon EXCEPT ![r] = "down"]
  /\ runtimeStatus' = IF graceful THEN [runtimeStatus EXCEPT ![r] = "offline"]
                      ELSE runtimeStatus
  /\ held' = {t \in held : job[t].runtime # r}
  /\ poll' = [p \in Polls |-> 
                [poll[p] EXCEPT !.link = IF poll[p].runtime = r THEN "cut" ELSE @]]
  /\ UNCHANGED <<status, job, reason, age, phase, issueStatus, worker>>

DaemonRegister(r) ==
  /\ daemon[r] = "down"
  /\ daemon' = [daemon EXCEPT ![r] = "recovering"]
  /\ runtimeStatus' = [runtimeStatus EXCEPT ![r] = "online"]
  /\ UNCHANGED <<rows, phase, faults, issueStatus, poll, worker>>

OrphansOf(r) == {t \in RowsIn(Active) : job[t].runtime = r}

\* The restarted daemon reports its orphans before it polls.
RecoverOrphanedTasks(w, r) ==
  /\ daemon[r] = "recovering" /\ worker[w] = IdleWorker
  /\ daemon' = [daemon EXCEPT ![r] = "up"]
  /\ FailBatch(w, OrphansOf(r), "runtime_recovery")
  /\ UNCHANGED <<runtimeStatus, phase, faults, issueStatus, poll>>

\* Another runtime of the workspace was deleted on the server.  The daemon, which goes on
\* polling and working, registers all runtimes of the workspace again and reports the
\* orphans of each one it gets back, r, which survived, among them.
ReregisterWorkspace(w, r) ==
  /\ daemon[r] = "up" /\ worker[w] = IdleWorker /\ Fault("gone")
  /\ runtimeStatus' = [runtimeStatus EXCEPT ![r] = "online"]
  /\ FailBatch(w, OrphansOf(r), "runtime_recovery")
  /\ UNCHANGED <<daemon, phase, issueStatus, poll>>

\* The report fails; the daemon logs it and goes on.
RecoverLost(r) ==
  /\ daemon[r] = "recovering" /\ Fault("network")
  /\ daemon' = [daemon EXCEPT ![r] = "up"]
  /\ UNCHANGED <<rows, runtimeStatus, phase, issueStatus, poll, worker>>

\* MarkAgentRuntimeOnline.
Heartbeat(r) ==
  /\ daemon[r] = "up" /\ runtimeStatus[r] = "offline"
  /\ runtimeStatus' = [runtimeStatus EXCEPT ![r] = "online"]
  /\ UNCHANGED <<rows, daemon, phase, faults, issueStatus, poll, worker>>

\* The server restarts between two statements: goroutines end, row locks go.
ServerCrash ==
  /\ Fault("server")
  /\ poll' = [p \in Polls |-> IdlePoll]
  /\ worker' = [w \in Workers |-> IdleWorker]
  /\ phase' = "offline"
  /\ UNCHANGED <<rows, runtimeStatus, daemon, issueStatus>>

-----------------------------------------------------------------------------
(* Specification *)

PollStep(p) ==
  \/ \E r \in Runtimes : Reclaim(p, r) \/ ListCandidates(p, r)
  \/ CountRunning(p) \/ ClaimSelect(p) \/ ClaimCommit(p)
  \/ Deliver(p) \/ LoseClaim(p) \/ RejectClaim(p)

DaemonCall(t) ==
  \/ StartTask(t) \/ MarkTaskWaitingLocalDirectory(t) \/ AgentStartsIssue(t)
  \/ CompleteTask(t)
  \/ \E w \in Requests, why \in {"agent_error", "codex_semantic_inactivity"} : FailTask(w, t, why)

UserCall ==
  \/ \E tpl \in Templates : Enqueue(tpl) \/ \E w \in Requests : RerunIssue(w, tpl)
  \/ \E S \in CancelScopes : CancelTasks(S)

\* The steps of a claim request that only the server and the network decide.
Progress(p) ==
  \/ CountRunning(p) \/ ClaimSelect(p) \/ ClaimCommit(p)
  \/ Deliver(p) \/ (poll[p].link = "cut" /\ LoseClaim(p))

WorkerStep(w) ==
  \/ MaybeRetryFailedTask(w) \/ CheckIssue(w) \/ HasActiveTaskForIssue(w)
  \/ ResetIssue(w) \/ EnqueueRerun(w)

Sweep ==
  \/ SweepStaleRuntimes \/ FailTasksForOfflineRuntimes
  \/ FailStaleTasks \/ ExpireStaleQueuedTasks

DaemonStep(r) ==
  \/ DaemonRegister(r) \/ RecoverLost(r) \/ Heartbeat(r)
  \/ \E graceful \in BOOLEAN : DaemonExit(r, graceful)
  \/ \E w \in Requests : RecoverOrphanedTasks(w, r) \/ ReregisterWorkspace(w, r)

\* Everything but the restart of the server.
Running ==
  \/ UserCall \/ Sweep
  \/ \E t \in Tasks : Tick(t) \/ DaemonCall(t)
  \/ \E p \in Polls : PollStep(p)
  \/ \E w \in Workers : WorkerStep(w)
  \/ \E r \in Runtimes : DaemonStep(r)

Next == Running \/ ServerCrash

Spec == Init /\ [][Next]_vars

-----------------------------------------------------------------------------
(* Fairness.  The clock advances; the server runs the goroutines it started and *)
(* its sweeper ticks; a daemon that ended is restarted, reports its orphans and *)
(* starts the rows it holds.  Nothing is assumed of users, of the agents' work  *)
(* or of the requests that report its end.                                      *)

FairSpec ==
  /\ Spec
  /\ WF_vars(Sweep)
  /\ \A t \in Tasks : WF_vars(Tick(t)) /\ WF_vars(StartTask(t))
  /\ \A p \in Polls : WF_vars(Progress(p))
  /\ \A w \in Workers : WF_vars(WorkerStep(w))
  /\ \A r \in Runtimes :
       /\ WF_vars(DaemonRegister(r))
       /\ SF_vars(\E w \in Requests : RecoverOrphanedTasks(w, r))

-----------------------------------------------------------------------------
(* Properties *)

Poll == [pc : {"idle", "count", "select", "commit", "reply"},
         runtime : Runtimes \cup {None}, agents : SUBSET Agents, agent : Agents \cup {None},
         task : {0} \cup Tasks, link : {"up", "cut"}]

WorkerIn(pcs, reruns) ==
  [pc : pcs, todo : SUBSET Tasks, issue : Issues \cup {None}, scope : {"one", "batch"},
   seen : SUBSET (Issues \cup {None}), retried : SUBSET Issues, rerun : reruns]

\* A goroutine handles failed rows, or is about to enqueue a rerun.
Handling == WorkerIn({"idle", "retry", "check", "active", "reset"}, {None})
Worker   == Handling \cup WorkerIn({"enqueue"}, Templates)

RowsOK ==
  /\ status \in [Tasks -> Statuses]
  /\ job \in [Tasks -> Job]
  /\ reason \in [Tasks -> Reasons]
  /\ age \in [Tasks -> 0 .. 2]
  /\ held \subseteq RowsIn(Live)

FleetOK ==
  /\ runtimeStatus \in [Runtimes -> {"online", "offline"}]
  /\ daemon \in [Runtimes -> {"up", "down", "recovering"}]
  /\ phase \in {"offline", "orphans", "stale", "expired"}
  /\ faults \in 0 .. MaxFaults

\* Every variable holds values of the columns and program counters it stands for, and
\* no daemon holds a row that has ended.
TypeOK ==
  /\ RowsOK
  /\ FleetOK
  /\ issueStatus \in [Issues -> {"todo", "in_progress"}]
  /\ poll \in [Polls -> Poll]
  /\ worker \in [Workers -> Worker]

SameIssueLane(t, u) ==
  /\ job[t].issue # None /\ job[t].issue = job[u].issue
  /\ job[t].agent = job[u].agent

\* Two executions of one agent on one issue never overlap, however many daemons
\* poll, reclaim, crash and recover at once (ClaimAgentTask's NOT EXISTS).
OneActivePerIssueAgent ==
  \A t, u \in RowsIn(Active) : SameIssueLane(t, u) => t = u

\* What makes OneActivePerIssueAgent inductive: the unique index, and what a claim that
\* has selected its row and not yet committed may rely on.
OnePendingPerIssueAgent ==
  \A t, u \in RowsIn(Pending) : SameIssueLane(t, u) => t = u

ClaimingQueuedRow ==
  \A p \in Polls : poll[p].pc = "commit" =>
    /\ poll[p].task \in RowsIn({"queued"})
    /\ \A u \in RowsIn(Active) : ~SameIssueLane(poll[p].task, u)

ClaimsExclusive ==
  \A p, q \in Polls : poll[p].pc = "commit" /\ poll[q].pc = "commit"
                        /\ poll[p].task = poll[q].task => p = q

ReplyingClaimedRow ==
  \A p \in Polls : poll[p].pc = "reply" =>
    poll[p].task \in RowsIn(Active \cup Terminal)

LaneInv == /\ OnePendingPerIssueAgent /\ OneActivePerIssueAgent
           /\ ClaimingQueuedRow /\ ClaimsExclusive /\ ReplyingClaimedRow

\* A failed row is retried at most once, only for an infrastructure failure, never
\* for an autopilot run, and the chain of attempts ends at max_attempts, whichever
\* of the sweeper, FailTask and recover-orphans saw the failure.
RetryLineage ==
  \A t \in Tasks : LET p == job[t].parent IN
    status[t] # "absent" /\ p # 0 =>
      /\ status[p] = "failed" /\ reason[p] \in Retryable
      /\ job[t].attempt = job[p].attempt + 1
      /\ job[t].origin # "autopilot"
      /\ \A u \in Tasks : status[u] # "absent" /\ job[u].parent = p => u = t

\* What makes RetryLineage inductive: a row some goroutine is about to retry has failed,
\* has no retry yet, and is on nobody else's list.
RetriesOwed ==
  \A w \in Workers : \A t \in worker[w].todo :
    /\ status[t] = "failed"
    /\ \A u \in Tasks : status[u] # "absent" => job[u].parent # t
    /\ \A v \in Workers : t \in worker[v].todo => v = w

LineageInv == RetryLineage /\ RetriesOwed

\* The limit of an agent is read before the claim and not held until it commits, so
\* claims that overlap may exceed it - by fewer rows than there are overlapping claims,
\* never by more, and nothing else exceeds it.
OvershootBounded ==
  \A a \in Agents :
    ActiveOf(a) # {} => Cardinality(ActiveOf(a)) < Cap + Cardinality(Polls)

ChatLane(a, c) == {t \in Tasks : job[t].agent = a /\ job[t].chat = c}
QuickLane(a)   == {t \in Tasks : job[t].agent = a /\ QuickShape(job[t])}

\* The lanes no unique index backs: of the chat sessions and of the quick-creates of an
\* agent.  Only claims whose snapshots overlap put two rows of such a lane to work, each
\* of them one: a lane in use lets no later claim in.
UnindexedLanesBounded ==
  \A a \in Agents :
    /\ Cardinality(QuickLane(a) \cap RowsIn(Active)) <= Cardinality(Polls)
    /\ \A c \in Chats :
         Cardinality(ChatLane(a, c) \cap RowsIn(Active)) <= Cardinality(Polls)

\* The orphan report of a restarted daemon fails only rows that no running daemon
\* holds: a row claimed after the restart is never taken for an orphan.
RestartReportSparesHeld ==
  [][\A r \in Runtimes : daemon[r] = "recovering" /\ daemon'[r] = "up" =>
        \A t \in held : job[t].runtime = r => status'[t] # "failed"]_vars

\* The status column keeps the contract of TaskLifecycle.
Lifecycle == INSTANCE TaskLifecycle WITH Tasks <- Tasks, status <- status
LifecycleSpec == Lifecycle!Spec

\* A waiting row nobody holds: its daemon ended and the report of its orphans was lost.
\* FailStaleTasks has no timeout for it, and no daemon will be given it again.
Stranded(t) == status[t] = "waiting" /\ t \notin held

\* No row stays in the queue for ever, through lost claims, crashes, lost reports and claims
\* of another runtime: it reaches a terminal status, unless it is stranded.
Drains == \A t \in Tasks : status[t] = "queued" ~> status[t] \in Terminal \/ Stranded(t)

-----------------------------------------------------------------------------
(* What the repository says of the queue and the code does not do *)

\* task.go, ClaimTask: "atomically claims the next queued task for an agent,
\* respecting max_concurrent_tasks".
RespectsMaxConcurrentTasks == \A a \in Agents : Cardinality(ActiveOf(a)) <= Cap

\* agent.sql, ClaimAgentTask: "Chat tasks (issue_id IS NULL) use chat_session_id for
\* serialization instead".
ChatSessionsSerialized ==
  \A t, u \in RowsIn(Active) :
    job[t].chat # None /\ job[t].chat = job[u].chat /\ job[t].agent = job[u].agent => t = u

\* agent.sql, ClaimAgentTask: without the check on the four foreign keys "a user mashing
\* the create button could fire concurrent quick-creates".
QuickCreatesSerialized ==
  \A t, u \in RowsIn(Active) :
    QuickShape(job[t]) /\ QuickShape(job[u]) /\ job[t].agent = job[u].agent => t = u

\* daemon.go, reregisterWorkspaceAfterRuntimeGone: "the runtimes were truly gone
\* server-side, so anything still in dispatched/running/waiting_local_directory on those
\* rows is an orphan": no report takes a row away from a daemon that works on it.
RecoverySparesHeld ==
  [][\A t \in Tasks : reason'[t] = "runtime_recovery" /\ reason[t] = "none" => t \notin held]_vars

\* task.go, HandleFailedTasks: "Reset stuck in_progress issues only when no other
\* active task exists for the issue and no retry was just enqueued".
ResetOnlyWhenIdle ==
  [][\A i \in Issues : issueStatus[i] = "in_progress" /\ issueStatus'[i] = "todo" =>
        OfIssue(i) \cap RowsIn(Live) = {}]_vars

\* agent.sql, FailStaleTasks: "If the daemon dies, RecoverOrphanedTasksForRuntime
\* reclaims those rows at restart" (the waiting ones, which no timeout covers).
WaitingRowsReclaimed ==
  \A t \in Tasks : status[t] = "waiting" /\ t \notin held ~> status[t] # "waiting"

\* task.go, HandleFailedTasks: "All callers that surface a task as failed -
\* sweepers, FailTask, recover-orphans - funnel through here": so an issue whose
\* last row failed is reset, or somebody is about to.
FailedIssueIsReset ==
  \A i \in Issues :
    (/\ issueStatus[i] = "in_progress"
     /\ OfIssue(i) \cap RowsIn(Live) = {}
     /\ \E t \in OfIssue(i) : status[t] # "absent"
     /\ \A t \in OfIssue(i) : status[t] \in {"absent", "failed"})
      => \E w \in Workers : worker[w].issue = i \/ worker[w].todo \cap OfIssue(i) # {}
=============================================================================
