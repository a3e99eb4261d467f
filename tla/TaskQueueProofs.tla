-------------------------- MODULE TaskQueueProofs --------------------------
(***************************************************************************)
(* Theorems about TaskQueue, for every number of rows, agents, runtimes,   *)
(* polls, request goroutines and faults: types, the lanes of issues and    *)
(* agents, the refinement of TaskLifecycle; then of the rows that fail,    *)
(* that each is retried at most once, and that the orphan report of a      *)
(* restarted daemon fails none that a running daemon holds.                *)
(***************************************************************************)
EXTENDS TaskQueue, TLAPS

-----------------------------------------------------------------------------
(* Types *)

\* A first attempt fills the columns an INSERT fixes with values of their types.
LEMMA FreshType == ASSUME NEW tpl \in Template PROVE Fresh(tpl) \in Job
  BY ConstantsAssumption DEF Template, Fresh, Job

\* So does a retry, whose attempt number MaybeRetryFailedTask keeps within max_attempts.
LEMMA ChildType == ASSUME RowsOK, NEW t \in Tasks, CanRetry(t) PROVE Child(t) \in Job
<1>1. job[t] \in Job /\ job[t].attempt < MaxAttempts
      BY DEF RowsOK, CanRetry
<1>2. job[t].attempt + 1 \in 1 .. MaxAttempts BY <1>1, ConstantsAssumption DEF Job
<1>3. t \in {0} \cup Tasks OBVIOUS
<1> HIDE DEF Tasks
<1> QED BY <1>1, <1>2, <1>3 DEF Job, Child

\* An INSERT keeps the row columns typed.
LEMMA InsertTypes ==
  ASSUME RowsOK, NEW t \in Tasks, NEW j \in Job, InsertRow(t, j)
  PROVE  RowsOK'
<1> USE DEF InsertRow, RowsOK
<1>1. status' \in [Tasks -> Statuses] BY DEF Statuses, Live, Pending
<1>2. held \subseteq RowsIn(Live)' BY DEF RowsIn, Live, Pending, Active
<1> QED BY <1>1, <1>2

\* A terminating UPDATE keeps them typed and ends the holding of its rows.
LEMMA FinishTypes ==
  ASSUME RowsOK, NEW S, NEW to \in Terminal, NEW why \in Reasons, Finish(S, to, why)
  PROVE  RowsOK'
<1> USE DEF Finish, RowsOK
<1>1. status' \in [Tasks -> Statuses] BY DEF Statuses
<1>2. held' \subseteq RowsIn(Live)' BY DEF RowsIn
<1> QED BY <1>1, <1>2

\* Giving up on one agent leaves a claim request well typed.
LEMMA NextAgentType ==
  ASSUME poll \in [Polls -> Poll], NEW p \in Polls, NEW a
  PROVE  NextAgent(p, a) \in Poll
  BY DEF Poll, NextAgent, IdlePoll

\* So does going on to the next failed row.
LEMMA OnwardType == ASSUME NEW x \in Handling PROVE Onward(x) \in Handling
  BY DEF Handling, WorkerIn, Onward, IdleWorker

\* Starting on a batch of failed rows gives a well typed goroutine.
LEMMA FailingType ==
  ASSUME NEW S \in SUBSET Tasks, NEW scope \in {"one", "batch"}
  PROVE  Failing(S, scope) \in Worker
  BY DEF Failing, Worker, Handling, WorkerIn, IdleWorker

\* Leaving the retry of a row gives one too.
LEMMA AfterRetryType ==
  ASSUME RowsOK, NEW w \in Workers, worker[w] \in Handling, NEW t \in Tasks,
         NEW retried \in BOOLEAN
  PROVE  AfterRetry(w, t, retried) \in Handling
<1> DEFINE i == job[t].issue
           x == [worker[w] EXCEPT !.todo = @ \ {t},
                                  !.retried = @ \cup (IF retried THEN {i} \ {None} ELSE {})]
<1>1. i \in Issues \cup {None} BY DEF RowsOK, Job
<1>2. x \in Handling BY <1>1 DEF Handling, WorkerIn
<1>3. [x EXCEPT !.pc = "check", !.issue = i] \in Handling BY <1>1, <1>2 DEF Handling, WorkerIn
<1> HIDE DEF i
<1>4. AfterRetry(w, t, retried) \in {Onward(x), [x EXCEPT !.pc = "check", !.issue = i]}
      BY DEF AfterRetry, i
<1> QED BY <1>2, <1>3, <1>4, OnwardType

\* A goroutine that is not about to enqueue a rerun is handling failed rows.
LEMMA HandlingByPc ==
  ASSUME NEW x \in Worker
  PROVE  IF x.pc = "enqueue" THEN x.rerun \in Templates ELSE x \in Handling
  BY DEF Worker, Handling, WorkerIn

\* An idle goroutine handles an empty batch.
LEMMA IdleWorkerType == IdleWorker \in Handling
  BY DEF IdleWorker, Handling, WorkerIn

\* The initial state is well typed.
LEMMA TypeInit == Init => TypeOK
<1> SUFFICES ASSUME Init PROVE TypeOK
    OBVIOUS
<1>1. PICK tpl \in Templates : job = [t \in Tasks |-> Fresh(tpl)]
      BY ConstantsAssumption DEF Init
<1>2. Fresh(tpl) \in Job BY FreshType, ConstantsAssumption
<1>3. RowsOK BY <1>1, <1>2 DEF Init, RowsOK, Statuses, Reasons
<1>4. poll \in [Polls -> Poll] BY DEF Init, IdlePoll, Poll
<1>5. worker \in [Workers -> Worker] BY IdleWorkerType DEF Init, Worker
<1> QED BY <1>3, <1>4, <1>5, ConstantsAssumption DEF Init, TypeOK, FleetOK

\* A fault stays within the bound.
LEMMA FaultType ==
  ASSUME faults \in 0 .. MaxFaults, NEW kind, Fault(kind) PROVE faults' \in 0 .. MaxFaults
  BY ConstantsAssumption DEF Fault

\* Enqueues, reruns and cancels keep the types.
LEMMA UserCallType == TypeOK /\ UserCall => TypeOK'
<1> SUFFICES ASSUME TypeOK, UserCall PROVE TypeOK'
    OBVIOUS
<1> USE DEF TypeOK, FleetOK, fleet
<1>1. ASSUME NEW tpl \in Templates, Enqueue(tpl) PROVE TypeOK'
  <2>1. PICK t \in Tasks : InsertRow(t, Fresh(tpl)) BY <1>1 DEF Enqueue
  <2>2. RowsOK' BY <2>1, InsertTypes, FreshType, ConstantsAssumption
  <2> QED BY <1>1, <2>2 DEF Enqueue
<1>2. ASSUME NEW tpl \in Templates, NEW w \in Requests, RerunIssue(w, tpl) PROVE TypeOK'
  <2>1. RowsOK'
        BY <1>2, FinishTypes DEF RerunIssue, Terminal, Reasons
  <2>2. [worker[w] EXCEPT !.pc = "enqueue", !.rerun = tpl] \in Worker
    <3>1. worker[w] = IdleWorker BY <1>2 DEF RerunIssue
    <3>2. [IdleWorker EXCEPT !.pc = "enqueue", !.rerun = tpl]
            \in WorkerIn({"enqueue"}, Templates)
          BY DEF IdleWorker, WorkerIn
    <3> QED BY <3>1, <3>2 DEF Worker
  <2>3. worker' \in [Workers -> Worker]
        BY <1>2, <2>2 DEF RerunIssue
  <2> QED BY <1>2, <2>1, <2>3 DEF RerunIssue
<1>3. ASSUME NEW S \in CancelScopes, CancelTasks(S) PROVE TypeOK'
  <2>1. RowsOK'
        BY <1>3, FinishTypes DEF CancelTasks, Terminal, Reasons
  <2> QED BY <1>3, <2>1 DEF CancelTasks
<1> QED BY <1>1, <1>2, <1>3 DEF UserCall

\* The steps of claim requests keep the types.
LEMMA PollType == ASSUME TypeOK, NEW p \in Polls, PollStep(p) PROVE TypeOK'
<1> USE DEF TypeOK, FleetOK, fleet, rows
<1>0. poll[p] \in Poll OBVIOUS
<1>1. ASSUME NEW r \in Runtimes, Reclaim(p, r) PROVE TypeOK'
  <2>1. PICK t \in Tasks : /\ age' = [age EXCEPT ![t] = 0]
                            /\ poll' = [poll EXCEPT ![p] = [poll[p] EXCEPT !.pc = "reply",
                                                             !.runtime = r, !.task = t]]
        BY <1>1 DEF Reclaim
  <2>2. [poll[p] EXCEPT !.pc = "reply", !.runtime = r, !.task = t] \in Poll
        BY <1>0 DEF Poll
  <2>3. RowsOK' BY <1>1, <2>1 DEF Reclaim, RowsOK, RowsIn
  <2> QED BY <1>1, <2>1, <2>2, <2>3 DEF Reclaim
<1>2. ASSUME NEW r \in Runtimes, ListCandidates(p, r) PROVE TypeOK'
  <2>1. {job[t].agent : t \in {u \in RowsIn({"queued"}) : job[u].runtime = r}} \subseteq Agents
        BY DEF RowsOK, RowsIn, Job
  <2> QED BY <1>0, <1>2, <2>1 DEF ListCandidates, Poll, RowsOK, RowsIn
<1>3. CASE CountRunning(p)
  <2>1. PICK a \in poll[p].agents : poll' = [poll EXCEPT ![p] =
            IF Cardinality(ActiveOf(a)) >= Cap THEN NextAgent(p, a)
            ELSE [@ EXCEPT !.pc = "select", !.agent = a]]
        BY <1>3 DEF CountRunning
  <2>2. a \in Agents BY <1>0, <2>1 DEF Poll
  <2>3. [poll[p] EXCEPT !.pc = "select", !.agent = a] \in Poll BY <1>0, <2>2 DEF Poll
  <2>4. poll' \in [Polls -> Poll] BY <2>1, <2>3, NextAgentType
  <2> QED BY <1>3, <2>4 DEF CountRunning, RowsOK, RowsIn
<1>4. CASE ClaimSelect(p)
  <2>1. ASSUME NEW t \in Tasks PROVE [poll[p] EXCEPT !.pc = "commit", !.task = t] \in Poll
        BY <1>0 DEF Poll
  <2>2. NextAgent(p, poll[p].agent) \in Poll BY NextAgentType
  <2>3. \A t \in Claimable(poll[p].agent) : t \in Tasks BY DEF Claimable, RowsIn
  <2>4. poll' \in [Polls -> Poll]
    <3>1. CASE poll' = [poll EXCEPT ![p] = NextAgent(p, poll[p].agent)]
          BY <2>2, <3>1
    <3>2. CASE \E t \in Claimable(poll[p].agent) :
                 poll' = [poll EXCEPT ![p] = [poll[p] EXCEPT !.pc = "commit", !.task = t]]
      <4>1. PICK t \in Claimable(poll[p].agent) :
              poll' = [poll EXCEPT ![p] = [poll[p] EXCEPT !.pc = "commit", !.task = t]]
            BY <3>2
      <4> QED BY <2>1, <2>3, <4>1
    <3> QED BY <1>4, <3>1, <3>2 DEF ClaimSelect
  <2> QED BY <1>4, <2>4 DEF ClaimSelect, RowsOK, RowsIn
<1>5. CASE ClaimCommit(p)
  <2>1. [poll[p] EXCEPT !.pc = "reply", !.agents = {}, !.agent = None] \in Poll
        BY <1>0 DEF Poll
  <2>2. poll' \in [Polls -> Poll]
        BY <1>5, <2>1, NextAgentType DEF ClaimCommit
  <2>3. "dispatched" \in Statuses /\ "dispatched" \in Live
        BY DEF Statuses, Live, Active
  <2>4. status' = [status EXCEPT ![poll[p].task] = "dispatched"] /\ held' = held
        BY <1>5 DEF ClaimCommit
  <2>5. held' \subseteq RowsIn(Live)' BY <2>3, <2>4 DEF RowsOK, RowsIn
  <2>6. status' \in [Tasks -> Statuses] BY <2>3, <2>4 DEF RowsOK
  <2>7. age' \in [Tasks -> 0 .. 2]
    <3>1. age' = [age EXCEPT ![poll[p].task] = 0] BY <1>5 DEF ClaimCommit
    <3> DEFINE Ages == 0 .. 2
    <3>2. age \in [Tasks -> Ages] /\ 0 \in Ages BY DEF RowsOK
    <3> HIDE DEF Ages
    <3>3. age' \in [Tasks -> Ages] BY <3>1, <3>2
    <3> QED BY <3>3 DEF Ages
  <2>8. UNCHANGED <<job, reason>> BY <1>5 DEF ClaimCommit
  <2>9. RowsOK' BY <2>5, <2>6, <2>7, <2>8 DEF RowsOK
  <2> QED BY <1>5, <2>2, <2>9 DEF ClaimCommit
<1>6. CASE Deliver(p)
      BY <1>0, <1>6 DEF Deliver, IdlePoll, Poll, RowsOK, RowsIn
<1>7. CASE LoseClaim(p)
  <2>1. faults' \in 0 .. MaxFaults BY <1>7, FaultType DEF LoseClaim
  <2> QED BY <1>7, <2>1 DEF LoseClaim, IdlePoll, Poll, RowsOK, RowsIn
<1>8. CASE RejectClaim(p)
  <2>1. RowsOK' BY <1>8, FinishTypes DEF RejectClaim, Terminal, Reasons
  <2> QED BY <1>8, <2>1 DEF RejectClaim, IdlePoll, Poll
<1> QED BY <1>1, <1>2, <1>3, <1>4, <1>5, <1>6, <1>7, <1>8 DEF PollStep

\* A daemon's calls about a row keep the types.
LEMMA DaemonCallType == ASSUME TypeOK, NEW t \in Tasks, DaemonCall(t) PROVE TypeOK'
<1> USE DEF TypeOK, FleetOK, fleet, rows
<1>1. CASE StartTask(t) \/ MarkTaskWaitingLocalDirectory(t)
  <2>1. RowsOK'
        BY <1>1 DEF StartTask, MarkTaskWaitingLocalDirectory, RowsOK, RowsIn, Statuses, Live,
                    Pending, Active
  <2> QED BY <1>1, <2>1 DEF StartTask, MarkTaskWaitingLocalDirectory
<1>2. CASE AgentStartsIssue(t)
      BY <1>2 DEF AgentStartsIssue, RowsOK, RowsIn
<1>3. CASE CompleteTask(t)
  <2>1. RowsOK' BY <1>3, FinishTypes DEF CompleteTask, Terminal, Reasons
  <2> QED BY <1>3, <2>1 DEF CompleteTask
<1>4. ASSUME NEW w \in Requests, NEW why \in {"agent_error", "codex_semantic_inactivity"},
             FailTask(w, t, why)
      PROVE  TypeOK'
  <2>1. RowsOK' BY <1>4, FinishTypes DEF FailTask, Terminal, Reasons, Retryable
  <2>2. worker' \in [Workers -> Worker] BY <1>4, FailingType DEF FailTask
  <2> QED BY <1>4, <2>1, <2>2 DEF FailTask
<1> QED BY <1>1, <1>2, <1>3, <1>4 DEF DaemonCall

\* The post-commit steps keep the types.
LEMMA WorkerType == ASSUME TypeOK, NEW w \in Workers, WorkerStep(w) PROVE TypeOK'
<1> USE DEF TypeOK, FleetOK, fleet, rows
<1>0. worker[w] \in Worker OBVIOUS
<1>1. CASE MaybeRetryFailedTask(w)
  <2>1. PICK t \in worker[w].todo :
          \/ /\ CanRetry(t)
             /\ \E u \in Tasks : InsertRow(u, Child(t))
             /\ worker' = [worker EXCEPT ![w] = AfterRetry(w, t, TRUE)]
          \/ /\ worker' = [worker EXCEPT ![w] = AfterRetry(w, t, FALSE)]
             /\ UNCHANGED rows
        BY <1>1 DEF MaybeRetryFailedTask
  <2>2. t \in Tasks BY <1>0, <2>1 DEF Worker, Handling, WorkerIn
  <2>3. RowsOK'
    <3>1. CASE UNCHANGED rows BY <3>1 DEF RowsOK, RowsIn
    <3>2. CASE CanRetry(t) /\ \E u \in Tasks : InsertRow(u, Child(t))
          BY <2>2, <3>2, ChildType, InsertTypes
    <3> QED BY <2>1, <3>1, <3>2
  <2>4. worker[w] \in Handling BY <1>0, <1>1, HandlingByPc DEF MaybeRetryFailedTask
  <2>5. AfterRetry(w, t, TRUE) \in Worker /\ AfterRetry(w, t, FALSE) \in Worker
        BY <2>2, <2>4, AfterRetryType DEF Worker
  <2>6. worker' \in [Workers -> Worker] BY <2>1, <2>5
  <2> QED BY <1>1, <2>3, <2>6 DEF MaybeRetryFailedTask
<1>2. CASE CheckIssue(w) \/ HasActiveTaskForIssue(w) \/ ResetIssue(w)
  <2>1. worker[w] \in Handling
        BY <1>0, <1>2, HandlingByPc DEF CheckIssue, HasActiveTaskForIssue, ResetIssue
  <2>2. /\ Onward(worker[w]) \in Handling
        /\ [worker[w] EXCEPT !.pc = "active", !.seen = @ \cup {worker[w].issue}] \in Handling
        /\ [worker[w] EXCEPT !.pc = "reset"] \in Handling
        BY <2>1, OnwardType DEF Handling, WorkerIn
  <2>3. worker' \in [Workers -> Worker]
    <3> USE DEF Worker
    <3>1. CASE CheckIssue(w) BY <2>2, <3>1 DEF CheckIssue
    <3>2. CASE HasActiveTaskForIssue(w) BY <2>2, <3>2 DEF HasActiveTaskForIssue
    <3>3. CASE ResetIssue(w) BY <2>2, <3>3 DEF ResetIssue
    <3> QED BY <1>2, <3>1, <3>2, <3>3
  <2>4. RowsOK' BY <1>2 DEF CheckIssue, HasActiveTaskForIssue, ResetIssue, RowsOK, RowsIn
  <2> QED BY <1>2, <2>3, <2>4 DEF CheckIssue, HasActiveTaskForIssue, ResetIssue
<1>3. CASE EnqueueRerun(w)
  <2>1. worker' \in [Workers -> Worker]
        BY <1>3, IdleWorkerType DEF EnqueueRerun, Worker
  <2>2. Fresh(worker[w].rerun) \in Job
        BY <1>0, <1>3, HandlingByPc, FreshType, ConstantsAssumption DEF EnqueueRerun
  <2>3. RowsOK'
    <3>1. CASE UNCHANGED rows BY <3>1 DEF RowsOK, RowsIn
    <3>2. CASE \E t \in Tasks : InsertRow(t, Fresh(worker[w].rerun))
          BY <2>2, <3>2, InsertTypes
    <3> QED BY <1>3, <3>1, <3>2 DEF EnqueueRerun
  <2> QED BY <1>3, <2>1, <2>3 DEF EnqueueRerun
<1> QED BY <1>1, <1>2, <1>3 DEF WorkerStep

\* Failing live rows in one statement keeps the types.
LEMMA FailBatchType ==
  ASSUME TypeOK, NEW w \in Workers, NEW S \in SUBSET Tasks, NEW why \in Reasons,
         FailBatch(w, S, why)
  PROVE  RowsOK' /\ worker' \in [Workers -> Worker]
<1>1. RowsOK' BY FinishTypes DEF TypeOK, FailBatch, Terminal
<1>2. Failing(S, "batch") \in Worker BY FailingType
<1>3. worker' \in [Workers -> Worker]
      BY <1>2 DEF TypeOK, FailBatch
<1> QED BY <1>1, <1>3

\* The sweeps keep the types.
LEMMA SweepType == TypeOK /\ Sweep => TypeOK'
<1> SUFFICES ASSUME TypeOK, Sweep PROVE TypeOK'
    OBVIOUS
<1> USE DEF FleetOK, fleet, Sweeping
<1>0. Sweeper \in Workers /\ \A S : RowsIn(S) \subseteq Tasks
      BY DEF Workers, RowsIn
<1>1. CASE SweepStaleRuntimes
  <2>1. RowsOK' BY <1>1 DEF SweepStaleRuntimes, TypeOK, RowsOK, RowsIn, rows
  <2>2. faults' \in 0 .. MaxFaults
    <3>1. faults' = faults \/ Fault("network") BY <1>1 DEF SweepStaleRuntimes
    <3> QED BY <3>1, FaultType DEF TypeOK
  <2>3. runtimeStatus' \in [Runtimes -> {"online", "offline"}]
        BY <1>1 DEF SweepStaleRuntimes, TypeOK
  <2> QED BY <1>1, <2>1, <2>2, <2>3 DEF SweepStaleRuntimes, TypeOK
<1>2. CASE FailTasksForOfflineRuntimes
  <2> DEFINE S == {t \in RowsIn(Active) : runtimeStatus[job[t].runtime] = "offline"}
  <2>1. S \in SUBSET Tasks BY <1>0
  <2>2. FailBatch(Sweeper, S, "runtime_offline") BY <1>2 DEF FailTasksForOfflineRuntimes
  <2> HIDE DEF S
  <2>3. RowsOK' /\ worker' \in [Workers -> Worker]
        BY <1>0, <2>1, <2>2, FailBatchType DEF Reasons, Retryable
  <2> QED BY <1>2, <2>3 DEF FailTasksForOfflineRuntimes, TypeOK
<1>3. CASE FailStaleTasks
  <2> DEFINE S == {t \in RowsIn({"dispatched", "running"}) : age[t] = 2}
  <2>1. S \in SUBSET Tasks BY <1>0
  <2>2. FailBatch(Sweeper, S, "timeout") BY <1>3 DEF FailStaleTasks
  <2> HIDE DEF S
  <2>3. RowsOK' /\ worker' \in [Workers -> Worker]
        BY <1>0, <2>1, <2>2, FailBatchType DEF Reasons, Retryable
  <2> QED BY <1>3, <2>3 DEF FailStaleTasks, TypeOK
<1>4. CASE ExpireStaleQueuedTasks
  <2> DEFINE S == {t \in RowsIn({"queued"}) \ Locked : age[t] = 2}
  <2>1. S \in SUBSET Tasks BY <1>0
  <2>2. FailBatch(Sweeper, S, "queued_expired") BY <1>4 DEF ExpireStaleQueuedTasks
  <2> HIDE DEF S
  <2>3. RowsOK' /\ worker' \in [Workers -> Worker]
        BY <1>0, <2>1, <2>2, FailBatchType DEF Reasons
  <2> QED BY <1>4, <2>3 DEF ExpireStaleQueuedTasks, TypeOK
<1> QED BY <1>1, <1>2, <1>3, <1>4 DEF Sweep

\* Ends, restarts and reports of daemons keep the types.
LEMMA DaemonStepType == ASSUME TypeOK, NEW r \in Runtimes, DaemonStep(r) PROVE TypeOK'
<1> USE DEF FleetOK, fleet
<1>1. CASE DaemonRegister(r) \/ Heartbeat(r)
      BY <1>1 DEF DaemonRegister, Heartbeat, TypeOK, RowsOK, RowsIn, rows
<1>2. CASE RecoverLost(r)
  <2>1. faults' \in 0 .. MaxFaults BY <1>2, FaultType DEF RecoverLost, TypeOK
  <2> QED BY <1>2, <2>1 DEF RecoverLost, TypeOK, RowsOK, RowsIn, rows
<1>3. ASSUME NEW graceful \in BOOLEAN, DaemonExit(r, graceful) PROVE TypeOK'
  <2>1. faults' \in 0 .. MaxFaults BY <1>3, FaultType DEF DaemonExit, TypeOK
  <2>2. RowsOK' BY <1>3 DEF DaemonExit, TypeOK, RowsOK, RowsIn
  <2>3. poll' \in [Polls -> Poll]
    <3>1. \A p \in Polls : [poll[p] EXCEPT !.link = "cut"] \in Poll
                           /\ [poll[p] EXCEPT !.link = poll[p].link] \in Poll
          BY DEF TypeOK, Poll
    <3> QED BY <1>3, <3>1 DEF DaemonExit
  <2>4. runtimeStatus' \in [Runtimes -> {"online", "offline"}]
        BY <1>3 DEF DaemonExit, TypeOK
  <2> QED BY <1>3, <2>1, <2>2, <2>3, <2>4 DEF DaemonExit, TypeOK
<1>4. ASSUME NEW w \in Requests, RecoverOrphanedTasks(w, r) PROVE TypeOK'
  <2>1. OrphansOf(r) \in SUBSET Tasks BY DEF OrphansOf, RowsIn
  <2>2. RowsOK' /\ worker' \in [Workers -> Worker]
        BY <1>4, <2>1, FailBatchType DEF RecoverOrphanedTasks, Reasons, Retryable, Workers
  <2> QED BY <1>4, <2>2 DEF RecoverOrphanedTasks, TypeOK
<1>5. ASSUME NEW w \in Requests, ReregisterWorkspace(w, r) PROVE TypeOK'
  <2>1. OrphansOf(r) \in SUBSET Tasks BY DEF OrphansOf, RowsIn
  <2>2. RowsOK' /\ worker' \in [Workers -> Worker]
        BY <1>5, <2>1, FailBatchType DEF ReregisterWorkspace, Reasons, Retryable, Workers
  <2>3. faults' \in 0 .. MaxFaults BY <1>5, FaultType DEF ReregisterWorkspace, TypeOK
  <2>4. runtimeStatus' \in [Runtimes -> {"online", "offline"}]
        BY <1>5 DEF ReregisterWorkspace, TypeOK
  <2> QED BY <1>5, <2>2, <2>3, <2>4 DEF ReregisterWorkspace, TypeOK
<1> QED BY <1>1, <1>2, <1>3, <1>4, <1>5 DEF DaemonStep

\* Every step keeps the types.
LEMMA TypeStep == TypeOK /\ [Next]_vars => TypeOK'
<1> SUFFICES ASSUME TypeOK, [Next]_vars PROVE TypeOK'
    OBVIOUS
<1> USE DEF FleetOK, fleet, rows
<1>1. CASE UNCHANGED vars
      BY <1>1 DEF vars, TypeOK, RowsOK, RowsIn
<1>2. ASSUME NEW t \in Tasks, Tick(t) PROVE TypeOK'
  <2>1. age' \in [Tasks -> 0 .. 2]
    <3>1. age[t] \in 0 .. 2 /\ age[t] < 2 BY <1>2 DEF Tick, TypeOK, RowsOK
    <3>2. age' = [age EXCEPT ![t] = age[t] + 1] \/ age' = [age EXCEPT ![t] = 2]
          BY <1>2 DEF Tick
    <3> QED BY <3>1, <3>2 DEF TypeOK, RowsOK
  <2>2. RowsOK' BY <1>2, <2>1 DEF Tick, TypeOK, RowsOK, RowsIn
  <2> QED BY <1>2, <2>2 DEF Tick, TypeOK
<1>3. CASE ServerCrash
  <2>1. faults' \in 0 .. MaxFaults BY <1>3, FaultType DEF ServerCrash, TypeOK
  <2>2. RowsOK' BY <1>3 DEF ServerCrash, TypeOK, RowsOK, RowsIn
  <2>3. worker' \in [Workers -> Worker] BY <1>3, IdleWorkerType DEF ServerCrash, Worker
  <2>4. poll' \in [Polls -> Poll] BY <1>3 DEF ServerCrash, IdlePoll, Poll
  <2> QED BY <1>3, <2>1, <2>2, <2>3, <2>4 DEF ServerCrash, TypeOK
<1> HIDE DEF FleetOK, fleet, rows
<1> QED BY <1>1, <1>2, <1>3, UserCallType, SweepType, DaemonCallType, PollType, WorkerType,
           DaemonStepType DEF Next, Running

\* In every reachable state the rows, the runtimes, the issues and the goroutines hold
\* values of their columns and program counters, and the rows a daemon holds are live.
THEOREM TypeCorrect == Spec => []TypeOK
<1> QED BY TypeInit, TypeStep, PTL DEF Spec

-----------------------------------------------------------------------------
(* Lanes *)

\* A claim request keeps the row it has, or lets it go.
PollsKeep == \A p \in Polls :
  poll'[p].pc \in {"commit", "reply"} => poll'[p].pc = poll[p].pc /\ poll'[p].task = poll[p].task

\* Rows end or move on; none is added, dispatched, or taken from a claim.
RowsShrink ==
  /\ job' = job
  /\ RowsIn(Pending)' \subseteq RowsIn(Pending)
  /\ RowsIn(Active)' \subseteq RowsIn(Active)
  /\ RowsIn(Active \cup Terminal) \subseteq RowsIn(Active \cup Terminal)'
  /\ RowsIn({"queued"}) \cap Locked \subseteq RowsIn({"queued"})'

\* After giving up on an agent a claim request holds no row.
LEMMA NextAgentPc ==
  ASSUME NEW p \in Polls, poll[p] \in Poll, NEW a
  PROVE  NextAgent(p, a).pc \in {"idle", "count"}
  BY DEF NextAgent, IdlePoll, Poll

\* Four ways a step may touch the rows and the claims, each of them keeping LaneInv.
LEMMA ShrinkKeepsLanes ==
  ASSUME LaneInv, RowsShrink, PollsKeep PROVE LaneInv'
<1> USE DEF LaneInv, RowsShrink, PollsKeep
<1> HIDE DEF Tasks
<1>1. (OnePendingPerIssueAgent /\ OneActivePerIssueAgent)'
      BY DEF OnePendingPerIssueAgent, OneActivePerIssueAgent, SameIssueLane
<1>2. ClaimingQueuedRow'
      BY DEF ClaimingQueuedRow, SameIssueLane, Locked
<1>3. ClaimsExclusive' BY DEF ClaimsExclusive
<1>4. ReplyingClaimedRow' BY DEF ReplyingClaimedRow
<1> QED BY <1>1, <1>2, <1>3, <1>4

\* A row the unique index admits is queued next to no other of its lane.
LEMMA InsertKeepsLanes ==
  ASSUME TypeOK, LaneInv, NEW t \in Tasks, NEW j \in Job, InsertRow(t, j), poll' = poll
  PROVE  LaneInv'
<1> USE DEF LaneInv, InsertRow
<1> HIDE DEF Tasks
<1>1. /\ status \in [Tasks -> Statuses] /\ job \in [Tasks -> Job]
      /\ status[t] = "absent"
      /\ status' = [status EXCEPT ![t] = "queued"] /\ job' = [job EXCEPT ![t] = j]
      BY DEF TypeOK, RowsOK
<1>2. /\ RowsIn(Pending)' = RowsIn(Pending) \cup {t} /\ t \notin RowsIn(Pending)
      /\ RowsIn(Active)' = RowsIn(Active) /\ t \notin RowsIn(Active)
      /\ RowsIn(Active \cup Terminal)' = RowsIn(Active \cup Terminal)
      /\ RowsIn({"queued"}) \subseteq RowsIn({"queued"})' /\ t \notin RowsIn({"queued"})
      BY <1>1 DEF RowsIn, Pending, Active, Terminal
<1>3. \A u \in Tasks : u # t => job'[u] = job[u]
      BY <1>1
<1>4. OnePendingPerIssueAgent'
  <2>1. \A u \in RowsIn(Pending) : ~(j.issue # None /\ j.issue = job[u].issue
                                       /\ j.agent = job[u].agent)
        BY DEF IndexConflict
  <2>2. job'[t] = j BY <1>1
  <2>3. RowsIn(Pending) \subseteq Tasks BY DEF RowsIn
  <2> QED BY <1>2, <1>3, <2>1, <2>2, <2>3 DEF OnePendingPerIssueAgent, SameIssueLane
<1>5. RowsIn(Active) \subseteq Tasks /\ RowsIn({"queued"}) \subseteq Tasks BY DEF RowsIn
<1>6. OneActivePerIssueAgent'
      BY <1>2, <1>3, <1>5 DEF OneActivePerIssueAgent, SameIssueLane
<1>7. ClaimingQueuedRow'
      BY <1>2, <1>3, <1>5 DEF ClaimingQueuedRow, SameIssueLane
<1>8. ClaimsExclusive' /\ ReplyingClaimedRow'
      BY <1>2 DEF ClaimsExclusive, ReplyingClaimedRow
<1> QED BY <1>4, <1>6, <1>7, <1>8

\* ClaimAgentTask selects a row whose lane is free, and nobody else has locked it.
LEMMA SelectKeepsLanes ==
  ASSUME TypeOK, LaneInv, NEW p \in Polls, ClaimSelect(p) PROVE LaneInv'
<1> DEFINE a == poll[p].agent
<1> HIDE DEF Tasks
<1>1. UNCHANGED <<status, job>> BY DEF ClaimSelect, rows
<1>2. poll \in [Polls -> Poll] BY DEF TypeOK
<1>3. \A S : RowsIn(S)' = RowsIn(S) BY <1>1 DEF RowsIn
<1>4. CASE poll' = [poll EXCEPT ![p] = NextAgent(p, a)]
  <2>1. PollsKeep BY <1>2, <1>4, NextAgentPc DEF PollsKeep
  <2>2. RowsShrink BY <1>1, <1>3 DEF RowsShrink
  <2> QED BY <2>1, <2>2, ShrinkKeepsLanes
<1>5. ASSUME NEW t \in Claimable(a),
             poll' = [poll EXCEPT ![p] = [poll[p] EXCEPT !.pc = "commit", !.task = t]]
      PROVE  LaneInv'
  <2>1. /\ t \in RowsIn({"queued"}) /\ t \notin Locked
        /\ \A u \in RowsIn(Active) : ~SameIssueLane(t, u)
        BY DEF Claimable, ActiveOf, SameLane, SameIssueLane
  <2>2. poll'[p].pc = "commit" /\ poll'[p].task = t
        BY <1>2, <1>5 DEF Poll
  <2>3. \A q \in Polls : q # p => poll'[q] = poll[q] BY <1>2, <1>5
  <2>4. ClaimingQueuedRow'
        BY <1>1, <1>3, <2>1, <2>2, <2>3 DEF LaneInv, ClaimingQueuedRow, SameIssueLane
  <2>5. ClaimsExclusive'
    <3>1. \A q \in Polls : poll[q].pc = "commit" => poll[q].task # t
          BY <2>1 DEF Locked
    <3> QED BY <2>2, <2>3, <3>1 DEF LaneInv, ClaimsExclusive
  <2>6. ReplyingClaimedRow'
        BY <1>3, <2>2, <2>3 DEF LaneInv, ReplyingClaimedRow
  <2>7. (OnePendingPerIssueAgent /\ OneActivePerIssueAgent)'
        BY <1>1, <1>3 DEF LaneInv, OnePendingPerIssueAgent, OneActivePerIssueAgent, SameIssueLane
  <2> QED BY <2>4, <2>5, <2>6, <2>7 DEF LaneInv
<1> QED BY <1>4, <1>5 DEF ClaimSelect

\* Committing the selected row keeps the lanes: while it was locked nobody else could
\* bring a second row of its lane up.
LEMMA CommitKeepsLanes ==
  ASSUME TypeOK, LaneInv, NEW p \in Polls, ClaimCommit(p) PROVE LaneInv'
<1> DEFINE t == poll[p].task
<1> HIDE DEF Tasks
<1>1. /\ status \in [Tasks -> Statuses] /\ job' = job
      /\ status' = [status EXCEPT ![t] = "dispatched"]
      /\ poll \in [Polls -> Poll] /\ poll[p].pc = "commit"
      BY DEF ClaimCommit, TypeOK, RowsOK
<1>2. /\ t \in RowsIn({"queued"})
      /\ \A u \in RowsIn(Active) : ~SameIssueLane(t, u)
      BY <1>1 DEF LaneInv, ClaimingQueuedRow
<1> HIDE DEF t
<1>3. t \in Tasks /\ status[t] = "queued" BY <1>2 DEF RowsIn
<1>4. /\ RowsIn(Pending)' = RowsIn(Pending) /\ t \in RowsIn(Pending)
      /\ RowsIn(Active)' = RowsIn(Active) \cup {t}
      /\ RowsIn(Active \cup Terminal)' = RowsIn(Active \cup Terminal) \cup {t}
      /\ RowsIn({"queued"})' = RowsIn({"queued"}) \ {t}
      /\ RowsIn({"queued"}) \subseteq RowsIn(Pending)
      BY <1>1, <1>3 DEF RowsIn, Pending, Active, Terminal
<1>5. poll'[p].pc \in {"idle", "count"} \/ (poll'[p].pc = "reply" /\ poll'[p].task = t)
  <2>1. [poll[p] EXCEPT !.pc = "reply", !.agents = {}, !.agent = None].pc = "reply"
        /\ [poll[p] EXCEPT !.pc = "reply", !.agents = {}, !.agent = None].task = t
        BY <1>1 DEF Poll, t
  <2> QED BY <1>1, <2>1, NextAgentPc DEF ClaimCommit
<1>6. \A q \in Polls : q # p => poll'[q] = poll[q] BY <1>1 DEF ClaimCommit
<1>7. \A u, v : SameIssueLane(u, v)' = SameIssueLane(u, v) BY <1>1 DEF SameIssueLane
<1>8. \A u, v : SameIssueLane(u, v) => SameIssueLane(v, u) BY DEF SameIssueLane
<1>9. OneActivePerIssueAgent'
      BY <1>2, <1>4, <1>7, <1>8 DEF LaneInv, OneActivePerIssueAgent
<1>10. OnePendingPerIssueAgent'
      BY <1>4, <1>7 DEF LaneInv, OnePendingPerIssueAgent
<1>11. ClaimingQueuedRow'
  <2> SUFFICES ASSUME NEW q \in Polls, (poll[q].pc = "commit")'
               PROVE  (/\ poll[q].task \in RowsIn({"queued"})
                       /\ \A u \in RowsIn(Active) : ~SameIssueLane(poll[q].task, u))'
      BY DEF ClaimingQueuedRow
  <2>1. q # p /\ poll'[q] = poll[q] BY <1>5, <1>6
  <2>2. poll[q].task # t BY <1>1, <2>1 DEF LaneInv, ClaimsExclusive, t
  <2>3. /\ poll[q].task \in RowsIn({"queued"})
        /\ \A u \in RowsIn(Active) : ~SameIssueLane(poll[q].task, u)
        BY <2>1 DEF LaneInv, ClaimingQueuedRow
  <2>4. ~SameIssueLane(poll[q].task, t)
        BY <1>4, <2>2, <2>3 DEF LaneInv, OnePendingPerIssueAgent
  <2> QED BY <1>4, <1>7, <2>1, <2>2, <2>3, <2>4
<1>12. ClaimsExclusive' BY <1>5, <1>6 DEF LaneInv, ClaimsExclusive
<1>13. ReplyingClaimedRow' BY <1>4, <1>5, <1>6 DEF LaneInv, ReplyingClaimedRow
<1> QED BY <1>9, <1>10, <1>11, <1>12, <1>13 DEF LaneInv

\* A terminating UPDATE waits for the claims that locked its rows.
LEMMA FinishShrinks ==
  ASSUME TypeOK, NEW S \in SUBSET RowsIn(Live), S \cap Locked \subseteq RowsIn(Active),
         NEW to \in Terminal, NEW why, Finish(S, to, why)
  PROVE  RowsShrink
<1> HIDE DEF Tasks
<1>1. /\ job' = job
      /\ \A t \in Tasks : status'[t] = IF t \in S THEN to ELSE status[t]
      BY DEF Finish
<1>2. /\ to \notin Pending /\ to \notin Active
      /\ RowsIn(Active) \cap RowsIn({"queued"}) = {}
      BY DEF Pending, Active, Terminal, RowsIn
<1> QED BY <1>1, <1>2 DEF RowsShrink, RowsIn

\* A step that leaves statuses and columns alone adds no row to any lane.
LEMMA SameRowsShrink == UNCHANGED <<status, job>> => RowsShrink
  BY DEF RowsShrink, RowsIn

\* A row that changes within Active.
LEMMA MoveShrinks ==
  ASSUME TypeOK, NEW t \in Tasks, NEW s \in {"running", "waiting"}, status[t] \in Active,
         job' = job, status' = [status EXCEPT ![t] = s]
  PROVE  RowsShrink
<1> HIDE DEF Tasks
<1>1. \A u \in Tasks : status'[u] = IF u = t THEN s ELSE status[u]
      BY DEF TypeOK, RowsOK
<1> QED BY <1>1 DEF RowsShrink, RowsIn, Active, Pending, Terminal

\* A step outside the claim requests keeps what they have selected.
LEMMA SamePollsKeep == poll' = poll => PollsKeep
  BY DEF PollsKeep

\* So does a request that ends.
LEMMA IdlePollsKeep ==
  ASSUME TypeOK, NEW p \in Polls, poll' = [poll EXCEPT ![p] = IdlePoll] PROVE PollsKeep
  BY DEF TypeOK, PollsKeep, IdlePoll

\* Enqueues, reruns and cancels keep the lanes.
LEMMA LaneUserCall == TypeOK /\ LaneInv /\ UserCall => LaneInv'
<1> SUFFICES ASSUME TypeOK, LaneInv, UserCall PROVE LaneInv'
    OBVIOUS
<1> HIDE DEF Tasks
<1>1. ASSUME NEW tpl \in Templates, Enqueue(tpl) PROVE LaneInv'
  <2>1. PICK t \in Tasks : InsertRow(t, Fresh(tpl)) BY <1>1 DEF Enqueue
  <2>2. Fresh(tpl) \in Job BY FreshType, ConstantsAssumption
  <2> QED BY <1>1, <2>1, <2>2, InsertKeepsLanes DEF Enqueue
<1>2. ASSUME NEW tpl \in Templates, NEW w \in Requests, RerunIssue(w, tpl) PROVE LaneInv'
  <2> DEFINE C == {t \in OfIssue(tpl.issue) \cap RowsIn(Live) : job[t].agent = tpl.agent}
  <2>1. Finish(C, "cancelled", "none") /\ C \cap Locked = {} /\ poll' = poll
        BY <1>2 DEF RerunIssue
  <2>2. C \in SUBSET RowsIn(Live) OBVIOUS
  <2> HIDE DEF C
  <2>3. RowsShrink BY <2>1, <2>2, FinishShrinks DEF Terminal
  <2> QED BY <2>1, <2>3, SamePollsKeep, ShrinkKeepsLanes
<1>3. ASSUME NEW S \in CancelScopes, CancelTasks(S) PROVE LaneInv'
  <2> DEFINE C == S \cap RowsIn(Live)
  <2>1. Finish(C, "cancelled", "none") /\ C \cap Locked = {} /\ poll' = poll
        BY <1>3 DEF CancelTasks
  <2>2. C \in SUBSET RowsIn(Live) OBVIOUS
  <2> HIDE DEF C
  <2>3. RowsShrink BY <2>1, <2>2, FinishShrinks DEF Terminal
  <2> QED BY <2>1, <2>3, SamePollsKeep, ShrinkKeepsLanes
<1> QED BY <1>1, <1>2, <1>3 DEF UserCall

\* The steps of claim requests keep the lanes.
LEMMA LanePoll == ASSUME TypeOK, LaneInv, NEW p \in Polls, PollStep(p) PROVE LaneInv'
<1> HIDE DEF Tasks
<1>0. poll \in [Polls -> Poll] BY DEF TypeOK
<1>1. ASSUME NEW r \in Runtimes, Reclaim(p, r) PROVE LaneInv'
  <2>1. PICK t \in Tasks :
          /\ status[t] = "dispatched"
          /\ poll' = [poll EXCEPT ![p] = [poll[p] EXCEPT !.pc = "reply", !.runtime = r, !.task = t]]
        BY <1>1 DEF Reclaim, Recoverable
  <2>2. UNCHANGED <<status, job>> BY <1>1 DEF Reclaim
  <2>3. /\ poll'[p].pc = "reply" /\ poll'[p].task = t
        /\ \A q \in Polls : q # p => poll'[q] = poll[q]
        BY <1>0, <2>1 DEF Poll
  <2>4. t \in RowsIn(Active \cup Terminal) BY <2>1 DEF RowsIn, Active
  <2>5. \A S : RowsIn(S)' = RowsIn(S) BY <2>2 DEF RowsIn
  <2>6. \A u, v : SameIssueLane(u, v)' = SameIssueLane(u, v) BY <2>2 DEF SameIssueLane
  <2>7. (OnePendingPerIssueAgent /\ OneActivePerIssueAgent)'
        BY <2>5, <2>6 DEF LaneInv, OnePendingPerIssueAgent, OneActivePerIssueAgent
  <2>8. ClaimingQueuedRow' BY <2>3, <2>5, <2>6 DEF LaneInv, ClaimingQueuedRow
  <2>9. ClaimsExclusive' BY <2>3 DEF LaneInv, ClaimsExclusive
  <2>10. ReplyingClaimedRow' BY <2>3, <2>4, <2>5 DEF LaneInv, ReplyingClaimedRow
  <2> QED BY <2>7, <2>8, <2>9, <2>10 DEF LaneInv
<1>2. ASSUME NEW r \in Runtimes, ListCandidates(p, r) PROVE LaneInv'
  <2>1. RowsShrink BY <1>2, SameRowsShrink DEF ListCandidates, rows
  <2>2. PollsKeep BY <1>0, <1>2 DEF ListCandidates, PollsKeep, Poll
  <2> QED BY <2>1, <2>2, ShrinkKeepsLanes
<1>3. CASE CountRunning(p)
  <2>1. RowsShrink BY <1>3, SameRowsShrink DEF CountRunning, rows
  <2>2. PICK a \in poll[p].agents :
          poll' = [poll EXCEPT ![p] = IF Cardinality(ActiveOf(a)) >= Cap THEN NextAgent(p, a)
                                      ELSE [poll[p] EXCEPT !.pc = "select", !.agent = a]]
        BY <1>3 DEF CountRunning
  <2>3. [poll[p] EXCEPT !.pc = "select", !.agent = a].pc = "select" BY <1>0 DEF Poll
  <2>4. poll'[p].pc \in {"idle", "count", "select"} BY <1>0, <2>2, <2>3, NextAgentPc
  <2>5. \A q \in Polls : q # p => poll'[q] = poll[q] BY <1>0, <2>2
  <2>6. PollsKeep BY <2>4, <2>5 DEF PollsKeep
  <2> QED BY <2>1, <2>6, ShrinkKeepsLanes
<1>4. CASE Deliver(p) \/ LoseClaim(p)
  <2>1. RowsShrink BY <1>4, SameRowsShrink DEF Deliver, LoseClaim, rows
  <2>2. PollsKeep BY <1>4, IdlePollsKeep DEF Deliver, LoseClaim
  <2> QED BY <2>1, <2>2, ShrinkKeepsLanes
<1>5. CASE RejectClaim(p)
  <2> DEFINE C == {poll[p].task} \cap RowsIn(Live)
  <2>1. Finish(C, "cancelled", "none") /\ poll' = [poll EXCEPT ![p] = IdlePoll]
        BY <1>5 DEF RejectClaim
  <2>2. poll[p].task \in RowsIn(Active \cup Terminal)
        BY <1>5 DEF RejectClaim, LaneInv, ReplyingClaimedRow
  <2>3. C \subseteq RowsIn(Active)
        BY <2>2 DEF RowsIn, Live, Pending, Active, Terminal
  <2>4. C \in SUBSET RowsIn(Live) OBVIOUS
  <2> HIDE DEF C
  <2>5. RowsShrink BY <2>1, <2>3, <2>4, FinishShrinks DEF Terminal
  <2>6. PollsKeep BY <2>1, IdlePollsKeep
  <2> QED BY <2>5, <2>6, ShrinkKeepsLanes
<1> QED BY <1>1, <1>2, <1>3, <1>4, <1>5, SelectKeepsLanes, CommitKeepsLanes DEF PollStep

\* A daemon's calls about a row keep the lanes.
LEMMA LaneDaemonCall ==
  ASSUME TypeOK, LaneInv, NEW t \in Tasks, DaemonCall(t) PROVE LaneInv'
<1> HIDE DEF Tasks
<1>1. CASE StartTask(t)
  <2>1. RowsShrink BY <1>1, MoveShrinks DEF StartTask, Active
  <2> QED BY <1>1, <2>1, SamePollsKeep, ShrinkKeepsLanes DEF StartTask
<1>2. CASE MarkTaskWaitingLocalDirectory(t)
  <2>1. RowsShrink BY <1>2, MoveShrinks DEF MarkTaskWaitingLocalDirectory, Active
  <2> QED BY <1>2, <2>1, SamePollsKeep, ShrinkKeepsLanes DEF MarkTaskWaitingLocalDirectory
<1>3. CASE AgentStartsIssue(t)
  <2>1. RowsShrink BY <1>3, SameRowsShrink DEF AgentStartsIssue, rows
  <2> QED BY <1>3, <2>1, SamePollsKeep, ShrinkKeepsLanes DEF AgentStartsIssue
<1>4. ASSUME NEW to \in Terminal, NEW why, status[t] \in Active, Finish({t}, to, why)
      PROVE  RowsShrink
  <2>1. {t} \in SUBSET RowsIn(Live) /\ {t} \cap Locked \subseteq RowsIn(Active)
        BY <1>4 DEF RowsIn, Live
  <2> QED BY <1>4, <2>1, FinishShrinks
<1>5. CASE CompleteTask(t)
  <2>1. RowsShrink BY <1>4, <1>5 DEF CompleteTask, Active, Terminal
  <2> QED BY <1>5, <2>1, SamePollsKeep, ShrinkKeepsLanes DEF CompleteTask
<1>6. ASSUME NEW w \in Requests, NEW why, FailTask(w, t, why) PROVE LaneInv'
  <2>1. RowsShrink BY <1>4, <1>6 DEF FailTask, Terminal
  <2> QED BY <1>6, <2>1, SamePollsKeep, ShrinkKeepsLanes DEF FailTask
<1> QED BY <1>1, <1>2, <1>3, <1>5, <1>6 DEF DaemonCall

\* Retries and issue resets keep the lanes.
LEMMA LaneWorker ==
  ASSUME TypeOK, LaneInv, NEW w \in Workers, WorkerStep(w) PROVE LaneInv'
<1> HIDE DEF Tasks
<1>0. worker[w] \in Worker /\ RowsOK BY DEF TypeOK
<1>1. ASSUME UNCHANGED rows, poll' = poll PROVE LaneInv'
      BY <1>1, SameRowsShrink, SamePollsKeep, ShrinkKeepsLanes DEF rows
<1>2. CASE MaybeRetryFailedTask(w)
  <2>1. PICK t \in worker[w].todo :
          \/ CanRetry(t) /\ \E u \in Tasks : InsertRow(u, Child(t))
          \/ UNCHANGED rows
        BY <1>2 DEF MaybeRetryFailedTask
  <2>2. t \in Tasks BY <1>0 DEF Worker, Handling, WorkerIn
  <2>3. poll' = poll BY <1>2 DEF MaybeRetryFailedTask
  <2> QED BY <1>0, <1>1, <2>1, <2>2, <2>3, ChildType, InsertKeepsLanes
<1>3. CASE EnqueueRerun(w)
  <2>1. Fresh(worker[w].rerun) \in Job
        BY <1>0, <1>3, HandlingByPc, FreshType, ConstantsAssumption DEF EnqueueRerun
  <2> QED BY <1>1, <1>3, <2>1, InsertKeepsLanes DEF EnqueueRerun
<1>4. CASE CheckIssue(w) \/ HasActiveTaskForIssue(w) \/ ResetIssue(w)
      BY <1>1, <1>4 DEF CheckIssue, HasActiveTaskForIssue, ResetIssue
<1> QED BY <1>2, <1>3, <1>4 DEF WorkerStep

\* A batch that fails active rows, or queued rows no claim has locked.
LEMMA LaneFailBatch ==
  ASSUME TypeOK, LaneInv, NEW w, NEW S, NEW why, FailBatch(w, S, why), poll' = poll,
         S \subseteq RowsIn(Active) \/ S \subseteq RowsIn({"queued"}) \ Locked
  PROVE  LaneInv'
<1> HIDE DEF Tasks
<1>1. S \in SUBSET RowsIn(Live) /\ S \cap Locked \subseteq RowsIn(Active)
      BY DEF RowsIn, Live, Pending
<1>2. RowsShrink BY <1>1, FinishShrinks DEF FailBatch, Terminal
<1> QED BY <1>2, SamePollsKeep, ShrinkKeepsLanes

\* The sweeps keep the lanes.
LEMMA LaneSweep == TypeOK /\ LaneInv /\ Sweep => LaneInv'
<1> SUFFICES ASSUME TypeOK, LaneInv, Sweep PROVE LaneInv'
    OBVIOUS
<1> HIDE DEF Tasks
<1>1. CASE SweepStaleRuntimes
      BY <1>1, SameRowsShrink, SamePollsKeep, ShrinkKeepsLanes DEF SweepStaleRuntimes, rows
<1>2. CASE FailTasksForOfflineRuntimes
      BY <1>2, LaneFailBatch DEF FailTasksForOfflineRuntimes
<1>3. CASE FailStaleTasks
  <2>1. RowsIn({"dispatched", "running"}) \subseteq RowsIn(Active) BY DEF RowsIn, Active
  <2> QED BY <1>3, <2>1, LaneFailBatch DEF FailStaleTasks
<1>4. CASE ExpireStaleQueuedTasks
      BY <1>4, LaneFailBatch DEF ExpireStaleQueuedTasks
<1> QED BY <1>1, <1>2, <1>3, <1>4 DEF Sweep

\* Ends, restarts and reports of daemons keep the lanes.
LEMMA LaneDaemonStep ==
  ASSUME TypeOK, LaneInv, NEW r \in Runtimes, DaemonStep(r) PROVE LaneInv'
<1> HIDE DEF Tasks
<1>1. CASE DaemonRegister(r) \/ RecoverLost(r) \/ Heartbeat(r)
      BY <1>1, SameRowsShrink, SamePollsKeep, ShrinkKeepsLanes
      DEF DaemonRegister, RecoverLost, Heartbeat, rows
<1>2. ASSUME NEW graceful, DaemonExit(r, graceful) PROVE LaneInv'
  <2>1. RowsShrink BY <1>2, SameRowsShrink DEF DaemonExit
  <2>2. PollsKeep BY <1>2 DEF DaemonExit, PollsKeep, TypeOK, Poll
  <2> QED BY <2>1, <2>2, ShrinkKeepsLanes
<1>3. ASSUME NEW w \in Requests, RecoverOrphanedTasks(w, r) PROVE LaneInv'
      BY <1>3, LaneFailBatch DEF RecoverOrphanedTasks, OrphansOf
<1>4. ASSUME NEW w \in Requests, ReregisterWorkspace(w, r) PROVE LaneInv'
      BY <1>4, LaneFailBatch DEF ReregisterWorkspace, OrphansOf
<1> QED BY <1>1, <1>2, <1>3, <1>4 DEF DaemonStep

\* Every step keeps the lanes.
LEMMA LaneStep == TypeOK /\ LaneInv /\ [Next]_vars => LaneInv'
<1> SUFFICES ASSUME TypeOK, LaneInv, [Next]_vars PROVE LaneInv'
    OBVIOUS
<1> HIDE DEF Tasks
<1>1. CASE UNCHANGED vars
      BY <1>1, SameRowsShrink, SamePollsKeep, ShrinkKeepsLanes DEF vars, rows
<1>2. ASSUME NEW t \in Tasks, Tick(t) PROVE LaneInv'
      BY <1>2, SameRowsShrink, SamePollsKeep, ShrinkKeepsLanes DEF Tick
<1>3. CASE ServerCrash
  <2>1. PollsKeep BY <1>3 DEF ServerCrash, PollsKeep, IdlePoll
  <2> QED BY <1>3, <2>1, SameRowsShrink, ShrinkKeepsLanes DEF ServerCrash, rows
<1> QED BY <1>1, <1>2, <1>3, LaneUserCall, LaneSweep, LaneDaemonCall, LanePoll, LaneWorker,
           LaneDaemonStep DEF Next, Running

\* Without rows the lanes are free.
LEMMA LaneInit == Init => LaneInv
  BY DEF Init, LaneInv, OnePendingPerIssueAgent, OneActivePerIssueAgent, ClaimingQueuedRow,
         ClaimsExclusive, ReplyingClaimedRow, RowsIn, Pending, Active, IdlePoll

\* Every reachable state keeps the lanes: at most one pending and one active row per issue
\* and agent, and a claim in progress owns a queued row that no active row excludes.
THEOREM LanesCorrect == Spec => []LaneInv
<1> QED BY TypeCorrect, LaneInit, LaneStep, PTL DEF Spec

\* However many daemons poll, reclaim, crash and recover, one agent never executes
\* two rows of one issue at once.
THEOREM NoOverlap == Spec => []OneActivePerIssueAgent
<1>1. LaneInv => OneActivePerIssueAgent BY DEF LaneInv
<1> QED BY <1>1, LanesCorrect, PTL

-----------------------------------------------------------------------------
(* The lifecycle *)

LifecycleNext == \A t \in Tasks : status'[t] # status[t] => <<status[t], status'[t]>> \in Legal

\* An INSERT takes an unused id to queued.
LEMMA InsertLegal ==
  ASSUME TypeOK, NEW t \in Tasks, NEW j, InsertRow(t, j) PROVE LifecycleNext
<1> HIDE DEF Tasks
<1>1. /\ status[t] = "absent" /\ \A u \in Tasks : status'[u] = IF u = t THEN "queued" ELSE status[u]
      BY DEF InsertRow, TypeOK, RowsOK
<1>2. <<"absent", "queued">> \in Legal BY DEF Legal
<1> QED BY <1>1, <1>2 DEF LifecycleNext

\* A failure or a cancel takes live rows to their end.
LEMMA FinishLegal ==
  ASSUME NEW S \in SUBSET RowsIn(Live), NEW to \in {"failed", "cancelled"}, NEW why,
         Finish(S, to, why)
  PROVE  LifecycleNext
<1> HIDE DEF Tasks
<1>1. \A t \in Tasks : status'[t] = IF t \in S THEN to ELSE status[t] BY DEF Finish
<1>2. \A t \in S : <<status[t], to>> \in Live \X {"failed", "cancelled"} BY DEF RowsIn
<1>3. Live \X {"failed", "cancelled"} \subseteq Legal BY DEF Legal
<1> QED BY <1>1, <1>2, <1>3 DEF LifecycleNext

\* One row moves along a legal edge.
LEMMA MoveLegal ==
  ASSUME TypeOK, NEW t \in Tasks, NEW s, status' = [status EXCEPT ![t] = s],
         <<status[t], s>> \in Legal
  PROVE  LifecycleNext
  BY DEF LifecycleNext, TypeOK, RowsOK

\* A step that leaves the status column alone is a stutter of the lifecycle.
LEMMA SameLegal == status' = status => LifecycleNext
  BY DEF LifecycleNext

\* Enqueues, reruns and cancels move rows along legal edges.
LEMMA LegalUserCall == TypeOK /\ UserCall => LifecycleNext
<1> SUFFICES ASSUME TypeOK, UserCall PROVE LifecycleNext
    OBVIOUS
<1> HIDE DEF Tasks
<1>1. ASSUME NEW tpl \in Templates, Enqueue(tpl) PROVE LifecycleNext
      BY <1>1, InsertLegal DEF Enqueue
<1>2. ASSUME NEW tpl \in Templates, NEW w \in Requests, RerunIssue(w, tpl) PROVE LifecycleNext
      BY <1>2, FinishLegal DEF RerunIssue
<1>3. ASSUME NEW S \in CancelScopes, CancelTasks(S) PROVE LifecycleNext
      BY <1>3, FinishLegal DEF CancelTasks
<1> QED BY <1>1, <1>2, <1>3 DEF UserCall

\* So do claim requests: the row they commit is still queued.
LEMMA LegalPoll == ASSUME TypeOK, LaneInv, NEW p \in Polls, PollStep(p) PROVE LifecycleNext
<1> HIDE DEF Tasks
<1>1. CASE ClaimCommit(p)
  <2>1. /\ poll[p].task \in Tasks /\ status[poll[p].task] = "queued"
        /\ status' = [status EXCEPT ![poll[p].task] = "dispatched"]
        BY <1>1 DEF ClaimCommit, LaneInv, ClaimingQueuedRow, RowsIn
  <2>2. <<"queued", "dispatched">> \in Legal BY DEF Legal
  <2> QED BY <2>1, <2>2, MoveLegal
<1>2. CASE RejectClaim(p)
      BY <1>2, FinishLegal DEF RejectClaim
<1>3. ASSUME NEW r \in Runtimes, Reclaim(p, r) \/ ListCandidates(p, r) PROVE LifecycleNext
      BY <1>3, SameLegal DEF Reclaim, ListCandidates, rows
<1>4. CASE CountRunning(p) \/ ClaimSelect(p) \/ Deliver(p) \/ LoseClaim(p)
      BY <1>4, SameLegal DEF CountRunning, ClaimSelect, Deliver, LoseClaim, rows
<1> QED BY <1>1, <1>2, <1>3, <1>4 DEF PollStep

\* So do a daemon's calls about a row.
LEMMA LegalDaemonCall == ASSUME TypeOK, NEW t \in Tasks, DaemonCall(t) PROVE LifecycleNext
<1> HIDE DEF Tasks
<1>1. CASE StartTask(t)
  <2>1. <<"dispatched", "running">> \in Legal /\ <<"waiting", "running">> \in Legal BY DEF Legal
  <2> QED BY <1>1, <2>1, MoveLegal DEF StartTask
<1>2. CASE MarkTaskWaitingLocalDirectory(t)
  <2>1. <<"dispatched", "waiting">> \in Legal BY DEF Legal
  <2> QED BY <1>2, <2>1, MoveLegal DEF MarkTaskWaitingLocalDirectory
<1>3. CASE AgentStartsIssue(t)
      BY <1>3, SameLegal DEF AgentStartsIssue, rows
<1>4. CASE CompleteTask(t)
  <2>1. <<"running", "completed">> \in Legal BY DEF Legal
  <2>2. \A u \in Tasks : status'[u] = IF u = t THEN "completed" ELSE status[u]
        BY <1>4 DEF CompleteTask, Finish
  <2> QED BY <1>4, <2>1, <2>2 DEF CompleteTask, LifecycleNext
<1>5. ASSUME NEW w \in Requests, NEW why, FailTask(w, t, why) PROVE LifecycleNext
  <2>1. {t} \in SUBSET RowsIn(Live) BY <1>5 DEF FailTask, RowsIn, Live
  <2> QED BY <1>5, <2>1, FinishLegal DEF FailTask
<1> QED BY <1>1, <1>2, <1>3, <1>4, <1>5 DEF DaemonCall

\* So does a statement that fails live rows.
LEMMA LegalBatch ==
  ASSUME NEW w, NEW S \in SUBSET RowsIn(Live), NEW why, FailBatch(w, S, why)
  PROVE  LifecycleNext
  BY FinishLegal DEF FailBatch

\* So do post-commit steps, sweeps and restarts.
LEMMA LegalRest ==
  ASSUME TypeOK, \/ \E w \in Workers : WorkerStep(w)
                 \/ Sweep
                 \/ \E r \in Runtimes : DaemonStep(r)
  PROVE  LifecycleNext
<1> HIDE DEF Tasks
<1>1. ASSUME NEW w \in Workers, WorkerStep(w) PROVE LifecycleNext
  <2>1. CASE MaybeRetryFailedTask(w) \/ EnqueueRerun(w)
        BY <2>1, SameLegal, InsertLegal DEF MaybeRetryFailedTask, EnqueueRerun, rows
  <2>2. CASE CheckIssue(w) \/ HasActiveTaskForIssue(w) \/ ResetIssue(w)
        BY <2>2, SameLegal DEF CheckIssue, HasActiveTaskForIssue, ResetIssue, rows
  <2> QED BY <1>1, <2>1, <2>2 DEF WorkerStep
<1>2. RowsIn(Active) \subseteq RowsIn(Live)
      /\ RowsIn({"dispatched", "running"}) \subseteq RowsIn(Live)
      /\ RowsIn({"queued"}) \subseteq RowsIn(Live)
      BY DEF RowsIn, Live, Active, Pending
<1>3. CASE Sweep
  <2>1. CASE SweepStaleRuntimes
        BY <2>1, SameLegal DEF SweepStaleRuntimes, rows
  <2>2. CASE FailTasksForOfflineRuntimes
        BY <1>2, <2>2, LegalBatch DEF FailTasksForOfflineRuntimes
  <2>3. CASE FailStaleTasks
        BY <1>2, <2>3, LegalBatch DEF FailStaleTasks
  <2>4. CASE ExpireStaleQueuedTasks
        BY <1>2, <2>4, LegalBatch DEF ExpireStaleQueuedTasks
  <2> QED BY <1>3, <2>1, <2>2, <2>3, <2>4 DEF Sweep
<1>4. ASSUME NEW r \in Runtimes, DaemonStep(r) PROVE LifecycleNext
  <2>1. ASSUME NEW w \in Requests, RecoverOrphanedTasks(w, r) PROVE LifecycleNext
        BY <1>2, <2>1, LegalBatch DEF RecoverOrphanedTasks, OrphansOf
  <2>4. ASSUME NEW w \in Requests, ReregisterWorkspace(w, r) PROVE LifecycleNext
        BY <1>2, <2>4, LegalBatch DEF ReregisterWorkspace, OrphansOf
  <2>2. ASSUME NEW graceful, DaemonExit(r, graceful) PROVE LifecycleNext
        BY <2>2, SameLegal DEF DaemonExit
  <2>3. CASE DaemonRegister(r) \/ RecoverLost(r) \/ Heartbeat(r)
        BY <2>3, SameLegal DEF DaemonRegister, RecoverLost, Heartbeat, rows
  <2> QED BY <1>4, <2>1, <2>2, <2>3, <2>4 DEF DaemonStep
<1> QED BY <1>1, <1>3, <1>4

\* Every step of the queue is a step of the lifecycle, or none.
LEMMA LifecycleStep ==
  TypeOK /\ TypeOK' /\ LaneInv /\ [Next]_vars => [Lifecycle!Next]_status
<1> SUFFICES ASSUME TypeOK, TypeOK', LaneInv, [Next]_vars PROVE [Lifecycle!Next]_status
    OBVIOUS
<1> HIDE DEF Tasks
<1>1. LifecycleNext
  <2>1. CASE UNCHANGED vars \/ ServerCrash \/ \E t \in Tasks : Tick(t)
        BY <2>1, SameLegal DEF vars, rows, ServerCrash, Tick
  <2> QED BY <2>1, LegalUserCall, LegalPoll, LegalDaemonCall, LegalRest DEF Next, Running
<1>2. status' \in [Tasks -> Statuses] BY DEF TypeOK, RowsOK
<1> QED BY <1>1, <1>2 DEF LifecycleNext, Lifecycle!Next, Lifecycle!Statuses, Lifecycle!Legal,
           Lifecycle!Live, Lifecycle!Pending, Lifecycle!Active, Lifecycle!Terminal,
           Legal, Statuses, Live, Pending, Active, Terminal

\* Every statement, of every goroutine, moves the status column along an edge of the
\* lifecycle, so no row that ended is ever written back to life.
THEOREM ImplementsLifecycle == Spec => LifecycleSpec
<1>1. Init => Lifecycle!Init BY DEF Init, Lifecycle!Init
<1> QED BY <1>1, LifecycleStep, TypeCorrect, LanesCorrect, PTL
    DEF Spec, LifecycleSpec, Lifecycle!Spec

-----------------------------------------------------------------------------
(* RetryLineage.  The inductive invariant adds what the goroutines still   *)
(* have to retry (RetriesOwed).                                            *)

\* The step inserts no row, changes no failed one, and no column an INSERT fixed.
FailedRowsKept ==
  /\ job' = job
  /\ \A t \in Tasks : /\ status[t] = "failed" => status'[t] = "failed" /\ reason'[t] = reason[t]
                      /\ status'[t] # "absent" => status[t] # "absent"

\* The step gives no goroutine a row to retry.
TodosKept == \A v \in Workers : worker'[v].todo \subseteq worker[v].todo

\* The columns of a row name its parent among the rows, or none.
LEMMA ParentType ==
  ASSUME TypeOK, NEW t \in Tasks PROVE job[t].parent \in {0} \cup Tasks
<1> HIDE DEF Tasks
<1> QED BY DEF TypeOK, RowsOK, Job

\* A step that inserts nothing and owes nothing new keeps the lineage.
LEMMA KeptKeepsLineage ==
  ASSUME TypeOK, LineageInv, FailedRowsKept, TodosKept PROVE LineageInv'
<1> HIDE DEF Tasks
<1>1. RetryLineage'
  <2> SUFFICES ASSUME NEW t \in Tasks, status'[t] # "absent", job[t].parent # 0
               PROVE  /\ status'[job[t].parent] = "failed"
                      /\ reason'[job[t].parent] \in Retryable
                      /\ job[t].attempt = job[job[t].parent].attempt + 1
                      /\ job[t].origin # "autopilot"
                      /\ \A u \in Tasks : status'[u] # "absent" /\ job[u].parent = job[t].parent
                                            => u = t
      BY DEF RetryLineage, FailedRowsKept
  <2>1. status[t] # "absent" /\ job[t].parent \in Tasks
        BY ParentType DEF FailedRowsKept
  <2> QED BY <2>1 DEF LineageInv, RetryLineage, FailedRowsKept
<1>2. RetriesOwed'
  <2> SUFFICES ASSUME NEW w \in Workers, NEW t \in worker'[w].todo
               PROVE  /\ status'[t] = "failed"
                      /\ \A u \in Tasks : status'[u] # "absent" => job'[u].parent # t
                      /\ \A v \in Workers : t \in worker'[v].todo => v = w
      BY DEF RetriesOwed
  <2>1. t \in worker[w].todo BY DEF TodosKept
  <2>2. t \in Tasks BY <2>1 DEF TypeOK, Worker, Handling, WorkerIn
  <2> QED BY <2>1, <2>2 DEF LineageInv, RetriesOwed, FailedRowsKept, TodosKept
<1> QED BY <1>1, <1>2 DEF LineageInv

\* Enqueuing a first attempt keeps the lineage.
LEMMA FreshKeepsLineage ==
  ASSUME TypeOK, LineageInv, NEW t \in Tasks, NEW j, j.parent = 0, InsertRow(t, j), TodosKept
  PROVE  LineageInv'
<1> HIDE DEF Tasks
<1>1. /\ status[t] = "absent" /\ reason' = reason
      /\ \A u \in Tasks : /\ status'[u] = IF u = t THEN "queued" ELSE status[u]
                          /\ job'[u] = IF u = t THEN j ELSE job[u]
      BY DEF InsertRow, TypeOK, RowsOK
<1>2. RetryLineage'
  <2> SUFFICES ASSUME NEW u \in Tasks, status'[u] # "absent", job'[u].parent # 0
               PROVE  /\ status'[job'[u].parent] = "failed"
                      /\ reason'[job'[u].parent] \in Retryable
                      /\ job'[u].attempt = job'[job'[u].parent].attempt + 1
                      /\ job'[u].origin # "autopilot"
                      /\ \A v \in Tasks : status'[v] # "absent" /\ job'[v].parent = job'[u].parent
                                            => v = u
      BY DEF RetryLineage
  <2>1. u # t /\ job'[u] = job[u] /\ status[u] # "absent" BY <1>1
  <2>2. job[u].parent \in Tasks BY <2>1, ParentType
  <2>3. status[job[u].parent] = "failed" BY <2>1 DEF LineageInv, RetryLineage
  <2>4. job[u].parent # t BY <1>1, <2>3
  <2> QED BY <1>1, <2>1, <2>2, <2>4 DEF LineageInv, RetryLineage
<1>3. RetriesOwed'
  <2> SUFFICES ASSUME NEW w \in Workers, NEW u \in worker'[w].todo
               PROVE  /\ status'[u] = "failed"
                      /\ \A v \in Tasks : status'[v] # "absent" => job'[v].parent # u
                      /\ \A v \in Workers : u \in worker'[v].todo => v = w
      BY DEF RetriesOwed
  <2>1. u \in worker[w].todo BY DEF TodosKept
  <2>2. u \in Tasks BY <2>1 DEF TypeOK, Worker, Handling, WorkerIn
  <2>3. u # 0 BY <2>2, ConstantsAssumption DEF Tasks
  <2>4. status[u] = "failed" BY <2>1 DEF LineageInv, RetriesOwed
  <2>5. u # t BY <1>1, <2>4
  <2> QED BY <1>1, <2>1, <2>2, <2>3, <2>4, <2>5 DEF LineageInv, RetriesOwed, TodosKept
<1> QED BY <1>2, <1>3 DEF LineageInv

\* Retrying a row, and taking it off the list, keeps the lineage.
LEMMA ChildKeepsLineage ==
  ASSUME TypeOK, LineageInv, NEW w \in Workers, NEW t \in worker[w].todo, CanRetry(t),
         NEW u \in Tasks, InsertRow(u, Child(t)), TodosKept, t \notin worker'[w].todo
  PROVE  LineageInv'
<1> HIDE DEF Tasks
<1>1. t \in Tasks BY DEF TypeOK, Worker, Handling, WorkerIn
<1>2. /\ status[u] = "absent" /\ reason' = reason
      /\ \A v \in Tasks : /\ status'[v] = IF v = u THEN "queued" ELSE status[v]
                          /\ job'[v] = IF v = u THEN Child(t) ELSE job[v]
      BY DEF InsertRow, TypeOK, RowsOK
<1>3. /\ Child(t).parent = t /\ Child(t).attempt = job[t].attempt + 1
      /\ Child(t).origin = job[t].origin
      BY <1>1 DEF Child, TypeOK, RowsOK, Job
<1>4. /\ status[t] = "failed" /\ t # u
      /\ \A v \in Tasks : status[v] # "absent" => job[v].parent # t
      BY <1>2 DEF LineageInv, RetriesOwed
<1>5. RetryLineage'
  <2> SUFFICES ASSUME NEW v \in Tasks, status'[v] # "absent", job'[v].parent # 0
               PROVE  /\ status'[job'[v].parent] = "failed"
                      /\ reason'[job'[v].parent] \in Retryable
                      /\ job'[v].attempt = job'[job'[v].parent].attempt + 1
                      /\ job'[v].origin # "autopilot"
                      /\ \A x \in Tasks : status'[x] # "absent" /\ job'[x].parent = job'[v].parent
                                            => x = v
      BY DEF RetryLineage
  <2>1. CASE v = u
        BY <1>1, <1>2, <1>3, <1>4, <2>1 DEF CanRetry
  <2>2. CASE v # u
    <3>1. job'[v] = job[v] /\ status[v] # "absent" BY <1>2, <2>2
    <3>2. job[v].parent \in Tasks BY <3>1, ParentType
    <3>3. status[job[v].parent] = "failed" BY <3>1 DEF LineageInv, RetryLineage
    <3>4. job[v].parent # u /\ job[v].parent # t BY <1>2, <1>4, <3>1, <3>3
    <3> QED BY <1>2, <1>3, <3>1, <3>2, <3>4 DEF LineageInv, RetryLineage
  <2> QED BY <2>1, <2>2
<1>6. RetriesOwed'
  <2> SUFFICES ASSUME NEW v \in Workers, NEW x \in worker'[v].todo
               PROVE  /\ status'[x] = "failed"
                      /\ \A y \in Tasks : status'[y] # "absent" => job'[y].parent # x
                      /\ \A z \in Workers : x \in worker'[z].todo => z = v
      BY DEF RetriesOwed
  <2>1. x \in worker[v].todo BY DEF TodosKept
  <2>2. x \in Tasks /\ status[x] = "failed"
        BY <2>1 DEF TypeOK, Worker, Handling, WorkerIn, LineageInv, RetriesOwed
  <2>3. x # u BY <1>2, <2>2
  <2>4. x # t
    <3>1. x = t => v = w BY <2>1 DEF LineageInv, RetriesOwed
    <3> QED BY <3>1
  <2>5. \A y \in Tasks : status'[y] # "absent" => job'[y].parent # x
        BY <1>2, <1>3, <2>1, <2>4 DEF LineageInv, RetriesOwed
  <2>6. \A z \in Workers : x \in worker'[z].todo => z = v
        BY <2>1 DEF LineageInv, RetriesOwed, TodosKept
  <2> QED BY <1>2, <2>2, <2>3, <2>5, <2>6
<1> QED BY <1>5, <1>6 DEF LineageInv

\* A statement that fails live rows and hands them to one idle goroutine keeps the lineage.
LEMMA BatchKeepsLineage ==
  ASSUME TypeOK, LineageInv, NEW w \in Workers, NEW S \in SUBSET RowsIn(Live), NEW why,
         NEW scope, Finish(S, "failed", why), worker' = [worker EXCEPT ![w] = Failing(S, scope)]
  PROVE  LineageInv'
<1> HIDE DEF Tasks
<1>1. /\ job' = job
      /\ \A t \in Tasks : /\ status'[t] = IF t \in S THEN "failed" ELSE status[t]
                          /\ reason'[t] = IF t \in S THEN why ELSE reason[t]
      BY DEF Finish
<1>2. \A t \in S : t \in Tasks /\ status[t] # "failed" /\ status[t] # "absent"
      BY DEF RowsIn, Live, Pending, Active
<1>3. \A t \in Tasks : /\ status[t] = "failed" => t \notin S
                       /\ status'[t] # "absent" => status[t] # "absent"
      BY <1>1, <1>2
<1>4. \A v \in Workers : worker'[v].todo \subseteq IF v = w THEN S ELSE worker[v].todo
      BY DEF TypeOK, Failing, IdleWorker
<1>5. RetryLineage'
  <2> SUFFICES ASSUME NEW t \in Tasks, status'[t] # "absent", job[t].parent # 0
               PROVE  /\ status'[job[t].parent] = "failed"
                      /\ reason'[job[t].parent] \in Retryable
                      /\ job[t].attempt = job[job[t].parent].attempt + 1
                      /\ job[t].origin # "autopilot"
                      /\ \A u \in Tasks : status'[u] # "absent" /\ job[u].parent = job[t].parent
                                            => u = t
      BY <1>1 DEF RetryLineage
  <2>1. status[t] # "absent" /\ job[t].parent \in Tasks BY <1>3, ParentType
  <2> QED BY <1>1, <1>3, <2>1 DEF LineageInv, RetryLineage
<1>6. RetriesOwed'
  <2> SUFFICES ASSUME NEW v \in Workers, NEW t \in worker'[v].todo
               PROVE  /\ status'[t] = "failed"
                      /\ \A u \in Tasks : status'[u] # "absent" => job'[u].parent # t
                      /\ \A x \in Workers : t \in worker'[x].todo => x = v
      BY DEF RetriesOwed
  <2>1. CASE t \in S
    <3>1. \A x \in Workers : t \notin worker[x].todo
          BY <1>2, <2>1 DEF LineageInv, RetriesOwed
    <3>2. \A x \in Workers : t \in worker'[x].todo => x = w BY <1>4, <3>1
    <3>3. \A u \in Tasks : status[u] # "absent" => job[u].parent # t
      <4>1. t # 0 BY <1>2, <2>1, ConstantsAssumption DEF Tasks
      <4> QED BY <1>2, <2>1, <4>1 DEF LineageInv, RetryLineage
    <3> QED BY <1>1, <1>2, <1>3, <2>1, <3>2, <3>3
  <2>2. CASE t \notin S
    <3>1. v # w /\ t \in worker[v].todo BY <1>4, <2>2
    <3>2. t \in Tasks BY <3>1 DEF TypeOK, Worker, Handling, WorkerIn
    <3>3. \A x \in Workers : t \in worker'[x].todo => t \in worker[x].todo BY <1>4, <2>2
    <3> QED BY <1>1, <1>3, <3>1, <3>2, <3>3 DEF LineageInv, RetriesOwed
  <2> QED BY <2>1, <2>2
<1> QED BY <1>5, <1>6 DEF LineageInv

-----------------------------------------------------------------------------
(* The steps *)

\* A step that leaves the rows' statuses, reasons and columns alone.
LEMMA RowsStay == UNCHANGED <<status, job, reason>> => FailedRowsKept
  BY DEF FailedRowsKept

\* A terminating UPDATE of live rows.
LEMMA FinishKept ==
  ASSUME NEW S \in SUBSET RowsIn(Live), NEW to \in Terminal, NEW why, Finish(S, to, why)
  PROVE  FailedRowsKept
<1> HIDE DEF Tasks
<1>1. /\ job' = job
      /\ \A t \in Tasks : /\ status'[t] = IF t \in S THEN to ELSE status[t]
                          /\ reason'[t] = IF t \in S THEN why ELSE reason[t]
      BY DEF Finish
<1>2. \A t \in S : status[t] # "failed" /\ status[t] # "absent"
      BY DEF RowsIn, Live, Pending, Active
<1> QED BY <1>1, <1>2 DEF FailedRowsKept

\* A live row changes its status.
LEMMA MoveKept ==
  ASSUME TypeOK, NEW t \in Tasks, NEW s, status[t] \in Live,
         status' = [status EXCEPT ![t] = s], UNCHANGED <<job, reason>>
  PROVE  FailedRowsKept
<1> HIDE DEF Tasks
<1>1. \A u \in Tasks : status'[u] = IF u = t THEN s ELSE status[u]
      BY DEF TypeOK, RowsOK
<1> QED BY <1>1 DEF FailedRowsKept, Live, Pending, Active

\* No goroutine outside claims moves.
LEMMA SameTodos == worker' = worker => TodosKept
  BY DEF TodosKept

\* One goroutine goes on with no more rows than it had.
LEMMA OneTodo ==
  ASSUME TypeOK, NEW w \in Workers, NEW x, x.todo \subseteq worker[w].todo,
         worker' = [worker EXCEPT ![w] = x]
  PROVE  TodosKept
  BY DEF TodosKept, TypeOK

\* Going on to the next row adds none.
LEMMA OnwardTodo == ASSUME NEW x \in Handling PROVE Onward(x).todo \subseteq x.todo
  BY DEF Handling, WorkerIn, Onward, IdleWorker

\* The row whose retry was decided leaves the list.
LEMMA AfterRetryTodo ==
  ASSUME RowsOK, NEW w \in Workers, worker[w] \in Handling, NEW t, NEW retried
  PROVE  AfterRetry(w, t, retried).todo \subseteq worker[w].todo \ {t}
  BY DEF Handling, WorkerIn, AfterRetry, Onward, IdleWorker

\* Calls of users keep the lineage.
LEMMA LineageUserCall == TypeOK /\ LineageInv /\ UserCall => LineageInv'
<1> SUFFICES ASSUME TypeOK, LineageInv, UserCall PROVE LineageInv'
    OBVIOUS
<1> HIDE DEF Tasks
<1>1. ASSUME NEW tpl \in Templates, Enqueue(tpl) PROVE LineageInv'
  <2>1. PICK t \in Tasks : InsertRow(t, Fresh(tpl)) BY <1>1 DEF Enqueue
  <2>2. Fresh(tpl).parent = 0 BY DEF Fresh
  <2>3. TodosKept BY <1>1, SameTodos DEF Enqueue
  <2> QED BY <2>1, <2>2, <2>3, FreshKeepsLineage
<1>2. ASSUME NEW tpl \in Templates, NEW w \in Requests, RerunIssue(w, tpl) PROVE LineageInv'
  <2>1. FailedRowsKept BY <1>2, FinishKept DEF RerunIssue, Terminal
  <2>2. w \in Workers BY DEF Workers
  <2>3. worker' = [worker EXCEPT ![w] = [worker[w] EXCEPT !.pc = "enqueue", !.rerun = tpl]]
        BY <1>2 DEF RerunIssue
  <2>4. [worker[w] EXCEPT !.pc = "enqueue", !.rerun = tpl].todo = worker[w].todo
        BY <1>2 DEF RerunIssue, IdleWorker
  <2>5. TodosKept BY <2>2, <2>3, <2>4, OneTodo
  <2> QED BY <2>1, <2>5, KeptKeepsLineage
<1>3. ASSUME NEW S \in CancelScopes, CancelTasks(S) PROVE LineageInv'
      BY <1>3, FinishKept, SameTodos, KeptKeepsLineage DEF CancelTasks, Terminal
<1> QED BY <1>1, <1>2, <1>3 DEF UserCall

\* Claim requests keep the lineage: the row they commit is queued, hence not failed.
LEMMA LineagePoll ==
  ASSUME TypeOK, LaneInv, LineageInv, NEW p \in Polls, PollStep(p) PROVE LineageInv'
<1> HIDE DEF Tasks
<1>0. TodosKept
      BY SameTodos DEF PollStep, Reclaim, ListCandidates, CountRunning, ClaimSelect, ClaimCommit,
                       Deliver, LoseClaim, RejectClaim
<1>1. CASE ClaimCommit(p)
  <2>1. /\ poll[p].task \in Tasks /\ status[poll[p].task] \in Live
        /\ status' = [status EXCEPT ![poll[p].task] = "dispatched"]
        /\ UNCHANGED <<job, reason>>
        BY <1>1 DEF ClaimCommit, LaneInv, ClaimingQueuedRow, RowsIn, Live, Pending
  <2> QED BY <1>0, <2>1, MoveKept, KeptKeepsLineage
<1>2. CASE RejectClaim(p)
      BY <1>0, <1>2, FinishKept, KeptKeepsLineage DEF RejectClaim, Terminal
<1>3. ASSUME NEW r \in Runtimes, Reclaim(p, r) \/ ListCandidates(p, r) PROVE LineageInv'
      BY <1>0, <1>3, RowsStay, KeptKeepsLineage DEF Reclaim, ListCandidates, rows
<1>4. CASE CountRunning(p) \/ ClaimSelect(p) \/ Deliver(p) \/ LoseClaim(p)
      BY <1>0, <1>4, RowsStay, KeptKeepsLineage
      DEF CountRunning, ClaimSelect, Deliver, LoseClaim, rows
<1> QED BY <1>1, <1>2, <1>3, <1>4 DEF PollStep

\* Calls of daemons keep the lineage.
LEMMA LineageDaemonCall ==
  ASSUME TypeOK, LineageInv, NEW t \in Tasks, DaemonCall(t) PROVE LineageInv'
<1> HIDE DEF Tasks
<1>1. CASE StartTask(t) \/ MarkTaskWaitingLocalDirectory(t)
  <2>1. FailedRowsKept
        BY <1>1, MoveKept DEF StartTask, MarkTaskWaitingLocalDirectory, Live, Active
  <2>2. TodosKept BY <1>1, SameTodos DEF StartTask, MarkTaskWaitingLocalDirectory
  <2> QED BY <2>1, <2>2, KeptKeepsLineage
<1>2. CASE AgentStartsIssue(t)
      BY <1>2, RowsStay, SameTodos, KeptKeepsLineage DEF AgentStartsIssue, rows
<1>3. CASE CompleteTask(t)
  <2>1. {t} \in SUBSET RowsIn(Live) BY <1>3 DEF CompleteTask, RowsIn, Live, Active
  <2> QED BY <1>3, <2>1, FinishKept, SameTodos, KeptKeepsLineage DEF CompleteTask, Terminal
<1>4. ASSUME NEW w \in Requests, NEW why, FailTask(w, t, why) PROVE LineageInv'
  <2>1. {t} \in SUBSET RowsIn(Live) BY <1>4 DEF FailTask, RowsIn, Live
  <2> QED BY <1>4, <2>1, BatchKeepsLineage DEF FailTask, Workers
<1> QED BY <1>1, <1>2, <1>3, <1>4 DEF DaemonCall

\* Post-commit steps keep the lineage.
LEMMA LineageWorker ==
  ASSUME TypeOK, LineageInv, NEW w \in Workers, WorkerStep(w) PROVE LineageInv'
<1> HIDE DEF Tasks
<1>0. worker[w] \in Worker /\ RowsOK /\ worker \in [Workers -> Worker] BY DEF TypeOK
<1>1. CASE MaybeRetryFailedTask(w)
  <2>1. worker[w] \in Handling BY <1>0, <1>1, HandlingByPc DEF MaybeRetryFailedTask
  <2>2. PICK t \in worker[w].todo :
          \/ /\ CanRetry(t) /\ \E u \in Tasks : InsertRow(u, Child(t))
             /\ worker' = [worker EXCEPT ![w] = AfterRetry(w, t, TRUE)]
          \/ /\ worker' = [worker EXCEPT ![w] = AfterRetry(w, t, FALSE)]
             /\ UNCHANGED rows
        BY <1>1 DEF MaybeRetryFailedTask
  <2>3. worker'[w].todo \subseteq worker[w].todo \ {t}
        BY <1>0, <2>1, <2>2, AfterRetryTodo
  <2>4. TodosKept BY <1>0, <2>2, <2>3 DEF TodosKept
  <2>5. CASE UNCHANGED rows
        BY <2>4, <2>5, RowsStay, KeptKeepsLineage DEF rows
  <2>6. CASE CanRetry(t) /\ \E u \in Tasks : InsertRow(u, Child(t))
        BY <2>3, <2>4, <2>6, ChildKeepsLineage
  <2> QED BY <2>2, <2>5, <2>6
<1>2. CASE EnqueueRerun(w)
  <2>1. TodosKept BY <1>2, OneTodo DEF EnqueueRerun, IdleWorker
  <2>2. CASE UNCHANGED rows
        BY <2>1, <2>2, RowsStay, KeptKeepsLineage DEF rows
  <2>3. Fresh(worker[w].rerun).parent = 0 BY DEF Fresh
  <2> QED BY <1>2, <2>1, <2>2, <2>3, FreshKeepsLineage DEF EnqueueRerun
<1>3. CASE CheckIssue(w) \/ HasActiveTaskForIssue(w) \/ ResetIssue(w)
  <2>1. worker[w] \in Handling
        BY <1>0, <1>3, HandlingByPc DEF CheckIssue, HasActiveTaskForIssue, ResetIssue
  <2>2. Onward(worker[w]).todo \subseteq worker[w].todo BY <2>1, OnwardTodo
  <2>3. PICK x : worker' = [worker EXCEPT ![w] = x] /\ x.todo \subseteq worker[w].todo
    <3>1. CASE CheckIssue(w)
      <4>1. [worker[w] EXCEPT !.pc = "active", !.seen = @ \cup {worker[w].issue}].todo
              = worker[w].todo
            BY <2>1 DEF Handling, WorkerIn
      <4> QED BY <2>2, <3>1, <4>1 DEF CheckIssue
    <3>2. CASE HasActiveTaskForIssue(w)
      <4>1. [worker[w] EXCEPT !.pc = "reset"].todo = worker[w].todo
            BY <2>1 DEF Handling, WorkerIn
      <4> QED BY <2>2, <3>2, <4>1 DEF HasActiveTaskForIssue
    <3>3. CASE ResetIssue(w) BY <2>2, <3>3 DEF ResetIssue
    <3> QED BY <1>3, <3>1, <3>2, <3>3
  <2>4. TodosKept BY <2>3, OneTodo
  <2> QED BY <1>3, <2>4, RowsStay, KeptKeepsLineage
      DEF CheckIssue, HasActiveTaskForIssue, ResetIssue, rows
<1> QED BY <1>1, <1>2, <1>3 DEF WorkerStep

\* Sweeps keep the lineage.
LEMMA LineageSweep == TypeOK /\ LineageInv /\ Sweep => LineageInv'
<1> SUFFICES ASSUME TypeOK, LineageInv, Sweep PROVE LineageInv'
    OBVIOUS
<1> HIDE DEF Tasks
<1>1. RowsIn(Active) \subseteq RowsIn(Live)
      /\ RowsIn({"dispatched", "running"}) \subseteq RowsIn(Live)
      /\ RowsIn({"queued"}) \subseteq RowsIn(Live)
      BY DEF RowsIn, Live, Active, Pending
<1>2. Sweeper \in Workers BY DEF Workers
<1>3. CASE SweepStaleRuntimes
      BY <1>3, RowsStay, SameTodos, KeptKeepsLineage DEF SweepStaleRuntimes, rows
<1>4. CASE FailTasksForOfflineRuntimes
      BY <1>1, <1>2, <1>4, BatchKeepsLineage DEF FailTasksForOfflineRuntimes, FailBatch
<1>5. CASE FailStaleTasks
      BY <1>1, <1>2, <1>5, BatchKeepsLineage DEF FailStaleTasks, FailBatch
<1>6. CASE ExpireStaleQueuedTasks
      BY <1>1, <1>2, <1>6, BatchKeepsLineage DEF ExpireStaleQueuedTasks, FailBatch
<1> QED BY <1>3, <1>4, <1>5, <1>6 DEF Sweep

\* Restarts and orphan reports keep the lineage.
LEMMA LineageDaemonStep ==
  ASSUME TypeOK, LineageInv, NEW r \in Runtimes, DaemonStep(r) PROVE LineageInv'
<1> HIDE DEF Tasks
<1>1. CASE DaemonRegister(r) \/ RecoverLost(r) \/ Heartbeat(r)
      BY <1>1, RowsStay, SameTodos, KeptKeepsLineage
      DEF DaemonRegister, RecoverLost, Heartbeat, rows
<1>2. ASSUME NEW graceful, DaemonExit(r, graceful) PROVE LineageInv'
      BY <1>2, RowsStay, SameTodos, KeptKeepsLineage DEF DaemonExit
<1>a. OrphansOf(r) \subseteq RowsIn(Live) BY DEF OrphansOf, RowsIn, Live
<1>3. ASSUME NEW w \in Requests, RecoverOrphanedTasks(w, r) PROVE LineageInv'
      BY <1>3, <1>a, BatchKeepsLineage DEF RecoverOrphanedTasks, FailBatch, Workers
<1>4. ASSUME NEW w \in Requests, ReregisterWorkspace(w, r) PROVE LineageInv'
      BY <1>4, <1>a, BatchKeepsLineage DEF ReregisterWorkspace, FailBatch, Workers
<1> QED BY <1>1, <1>2, <1>3, <1>4 DEF DaemonStep

\* Every step keeps the lineage; a restart of the server forgets lists, never rows.
LEMMA LineageStep == TypeOK /\ LaneInv /\ LineageInv /\ [Next]_vars => LineageInv'
<1> SUFFICES ASSUME TypeOK, LaneInv, LineageInv, [Next]_vars PROVE LineageInv'
    OBVIOUS
<1> HIDE DEF Tasks
<1>1. CASE UNCHANGED vars
      BY <1>1, RowsStay, SameTodos, KeptKeepsLineage DEF vars, rows
<1>2. ASSUME NEW t \in Tasks, Tick(t) PROVE LineageInv'
      BY <1>2, RowsStay, SameTodos, KeptKeepsLineage DEF Tick
<1>3. CASE ServerCrash
  <2>1. TodosKept BY <1>3 DEF ServerCrash, TodosKept, IdleWorker
  <2> QED BY <1>3, <2>1, RowsStay, KeptKeepsLineage DEF ServerCrash, rows
<1> QED BY <1>1, <1>2, <1>3, LineageUserCall, LineageSweep, LineageDaemonCall, LineagePoll,
           LineageWorker, LineageDaemonStep DEF Next, Running

\* No row is present at first, and no goroutine has anything to retry.
LEMMA LineageInit == Init => LineageInv
  BY DEF Init, LineageInv, RetryLineage, RetriesOwed, IdleWorker

\* Whoever sees a failure, and whatever crashes in between, a failed row has at most one
\* retry, the chain of retries counts its attempts, and what a goroutine owes is its own.
THEOREM LineageCorrect == Spec => []LineageInv
<1> QED BY TypeCorrect, LanesCorrect, LineageInit, LineageStep, PTL DEF Spec

\* Every retry has a failed, retryable parent of its own and the next attempt number.
THEOREM RetriedAtMostOnce == Spec => []RetryLineage
<1>1. LineageInv => RetryLineage BY DEF LineageInv
<1> QED BY <1>1, LineageCorrect, PTL

-----------------------------------------------------------------------------
(* RestartReportSparesHeld.  The inductive invariant says where held rows  *)
(* and answers on their way belong: to runtimes whose daemon is up, and    *)
(* therefore does not report the orphans of a restart.                     *)

\* A held row belongs to a runtime whose daemon is up.
HeldByRunning == \A t \in held : daemon[job[t].runtime] = "up"

\* A claim request whose connection is up was sent by a daemon that is up, and
\* answers with a row of that daemon's runtime.
PollsOfRunning ==
  \A p \in Polls : poll[p].pc # "idle" =>
    /\ poll[p].runtime \in Runtimes
    /\ poll[p].link = "up" => daemon[poll[p].runtime] = "up"
    /\ poll[p].pc = "reply" => job[poll[p].task].runtime = poll[p].runtime

DeliveryInv == HeldByRunning /\ PollsOfRunning

\* No row that exists moves to another runtime.
RuntimesKept == \A t \in Tasks : status[t] # "absent" => job'[t].runtime = job[t].runtime

\* Request p ends, or goes on for the same runtime towards no other answer.
PollStays(p) ==
  \/ poll'[p].pc = "idle"
  \/ /\ poll[p].pc # "idle" /\ poll'[p].runtime = poll[p].runtime
     /\ poll'[p].link = "up" => poll[p].link = "up"
     /\ poll'[p].pc = "reply" => poll[p].pc = "reply" /\ poll'[p].task = poll[p].task

\* What held rows and answers name are rows that exist.
LEMMA NamedRowsExist ==
  ASSUME TypeOK, LaneInv
  PROVE  /\ \A t \in held : t \in Tasks /\ status[t] # "absent"
         /\ \A p \in Polls : poll[p].pc = "reply" =>
              poll[p].task \in Tasks /\ status[poll[p].task] # "absent"
<1> HIDE DEF Tasks
<1> QED BY DEF TypeOK, RowsOK, LaneInv, ReplyingClaimedRow, RowsIn, Live, Pending, Active, Terminal

\* Request p keeps its part of the invariant when it goes on or ends.
LEMMA KeptPollOfRunning ==
  ASSUME TypeOK, LaneInv, DeliveryInv, RuntimesKept, NEW p \in Polls, PollStays(p),
         \A r \in Runtimes : daemon[r] = "up" => daemon'[r] = "up" \/ poll'[p].link = "cut",
         poll'[p].pc # "idle"
  PROVE  /\ poll'[p].runtime \in Runtimes
         /\ poll'[p].link = "up" => daemon'[poll'[p].runtime] = "up"
         /\ poll'[p].pc = "reply" => job'[poll'[p].task].runtime = poll'[p].runtime
<1> HIDE DEF Tasks
<1>1. /\ poll[p].pc # "idle" /\ poll'[p].runtime = poll[p].runtime
      /\ poll'[p].link = "up" => poll[p].link = "up"
      /\ poll'[p].pc = "reply" => poll[p].pc = "reply" /\ poll'[p].task = poll[p].task
      BY DEF PollStays
<1>2. /\ poll[p].runtime \in Runtimes
      /\ poll[p].link = "up" => daemon[poll[p].runtime] = "up"
      /\ poll[p].pc = "reply" => job[poll[p].task].runtime = poll[p].runtime
      BY <1>1 DEF DeliveryInv, PollsOfRunning
<1> QED BY <1>1, <1>2, NamedRowsExist DEF RuntimesKept

\* A step that delivers nothing and starts no request keeps the invariant.
LEMMA QuietKeepsDelivery ==
  ASSUME TypeOK, LaneInv, DeliveryInv, RuntimesKept, held' \subseteq held,
         \A r \in Runtimes : daemon[r] = "up" => daemon'[r] = "up",
         \A p \in Polls : PollStays(p)
  PROVE  DeliveryInv'
<1> HIDE DEF Tasks
<1>1. HeldByRunning'
  <2> SUFFICES ASSUME NEW t \in held' PROVE daemon'[job'[t].runtime] = "up"
      BY DEF HeldByRunning
  <2>1. t \in held /\ t \in Tasks /\ status[t] # "absent" BY NamedRowsExist
  <2>2. job[t].runtime \in Runtimes BY <2>1 DEF TypeOK, RowsOK, Job
  <2> QED BY <2>1, <2>2 DEF RuntimesKept, DeliveryInv, HeldByRunning
<1>2. PollsOfRunning'
      BY KeptPollOfRunning DEF PollsOfRunning
<1> QED BY <1>1, <1>2 DEF DeliveryInv

\* A statement that inserts a row gives no existing row another runtime.
LEMMA InsertKeepsRuntimes ==
  ASSUME TypeOK, NEW t \in Tasks, NEW j, InsertRow(t, j) PROVE RuntimesKept /\ held' = held
<1> HIDE DEF Tasks
<1> QED BY DEF InsertRow, RuntimesKept, TypeOK, RowsOK

\* A statement that ends rows takes none to hold, and changes no runtime.
LEMMA FinishKeepsRuntimes ==
  ASSUME NEW S, NEW to, NEW why, Finish(S, to, why) PROVE RuntimesKept /\ held' \subseteq held
  BY DEF Finish, RuntimesKept

\* The rows stay where they are.
LEMMA SameJobs == job' = job => RuntimesKept
  BY DEF RuntimesKept

\* All requests are as before, or end.
LEMMA SamePolls == poll' = poll => \A p \in Polls : PollStays(p)
  BY DEF PollStays

\* Enqueues, reruns and cancels.
LEMMA DeliveryUserCall == ASSUME TypeOK, LaneInv, DeliveryInv, UserCall PROVE DeliveryInv'
<1> HIDE DEF Tasks
<1>1. ASSUME NEW tpl \in Templates, Enqueue(tpl) PROVE DeliveryInv'
  <2>1. RuntimesKept /\ held' = held BY <1>1, InsertKeepsRuntimes DEF Enqueue
  <2> QED BY <1>1, <2>1, SamePolls, QuietKeepsDelivery DEF Enqueue, fleet
<1>2. ASSUME NEW tpl \in Templates, NEW w \in Requests, RerunIssue(w, tpl) PROVE DeliveryInv'
  <2>1. RuntimesKept /\ held' \subseteq held BY <1>2, FinishKeepsRuntimes DEF RerunIssue
  <2> QED BY <1>2, <2>1, SamePolls, QuietKeepsDelivery DEF RerunIssue, fleet
<1>3. ASSUME NEW S \in CancelScopes, CancelTasks(S) PROVE DeliveryInv'
  <2>1. RuntimesKept /\ held' \subseteq held BY <1>3, FinishKeepsRuntimes DEF CancelTasks
  <2> QED BY <1>3, <2>1, SamePolls, QuietKeepsDelivery DEF CancelTasks, fleet
<1> QED BY <1>1, <1>2, <1>3 DEF UserCall

\* The claim requests: their runtime is fixed when they begin, by a daemon that is up,
\* and the answer they keep is one of its rows.
LEMMA DeliveryPoll ==
  ASSUME TypeOK, LaneInv, DeliveryInv, NEW p \in Polls, PollStep(p) PROVE DeliveryInv'
<1> HIDE DEF Tasks
<1>t. poll \in [Polls -> Poll] BY DEF TypeOK
<1>u. ASSUME daemon' = daemon, RuntimesKept, held' \subseteq held,
             NEW x, poll' = [poll EXCEPT ![p] = x],
             x.pc # "idle" =>
               /\ x.runtime \in Runtimes
               /\ x.link = "up" => daemon[x.runtime] = "up"
               /\ x.pc = "reply" => job'[x.task].runtime = x.runtime
      PROVE  DeliveryInv'
  <2>1. HeldByRunning'
        BY <1>u, NamedRowsExist DEF DeliveryInv, HeldByRunning, RuntimesKept
  <2>2. \A q \in Polls : q # p => poll'[q] = poll[q] BY <1>t, <1>u
  <2>3. poll'[p] = x BY <1>t, <1>u
  <2>4. \A q \in Polls : q # p => PollStays(q) BY <2>2 DEF PollStays
  <2>5. PollsOfRunning'
        BY <1>u, <2>3, <2>4, KeptPollOfRunning DEF PollsOfRunning
  <2> QED BY <2>1, <2>5 DEF DeliveryInv
<1>1. ASSUME NEW r \in Runtimes, Reclaim(p, r) PROVE DeliveryInv'
  <2>1. PICK t \in Tasks : /\ Recoverable(t, r)
                           /\ poll' = [poll EXCEPT ![p] =
                                [@ EXCEPT !.pc = "reply", !.runtime = r, !.task = t]]
        BY <1>1 DEF Reclaim
  <2> DEFINE x == [poll[p] EXCEPT !.pc = "reply", !.runtime = r, !.task = t]
  <2>2. x.runtime = r /\ x.task = t BY <1>t DEF Poll
  <2>3. daemon[r] = "up" /\ UNCHANGED <<daemon, job, held>> BY <1>1 DEF Reclaim, fleet
  <2>4. job'[x.task].runtime = x.runtime BY <2>1, <2>2, <2>3 DEF Recoverable
  <2>5. poll' = [poll EXCEPT ![p] = x] BY <2>1
  <2> HIDE DEF x
  <2> QED BY <1>u, <2>2, <2>3, <2>4, <2>5, SameJobs
<1>2. ASSUME NEW r \in Runtimes, ListCandidates(p, r) PROVE DeliveryInv'
  <2>1. PICK A : poll' = [poll EXCEPT ![p] =
                            [@ EXCEPT !.pc = "count", !.runtime = r, !.agents = A]]
        BY <1>2 DEF ListCandidates
  <2> DEFINE x == [poll[p] EXCEPT !.pc = "count", !.runtime = r, !.agents = A]
  <2>2. x.pc = "count" /\ x.runtime = r BY <1>t DEF Poll
  <2>3. daemon[r] = "up" /\ UNCHANGED <<daemon, job, held>>
        BY <1>2 DEF ListCandidates, fleet, rows
  <2>5. poll' = [poll EXCEPT ![p] = x] BY <2>1
  <2> HIDE DEF x
  <2> QED BY <1>u, <2>2, <2>3, <2>5, SameJobs
<1>3. CASE ClaimCommit(p)
  <2>1. /\ poll[p].pc = "commit" /\ UNCHANGED <<daemon, job, held>>
        /\ poll[p].runtime \in Runtimes
        /\ poll[p].link = "up" => daemon[poll[p].runtime] = "up"
        BY <1>3 DEF ClaimCommit, DeliveryInv, PollsOfRunning, fleet
  <2> DEFINE next == NextAgent(p, poll[p].agent)
             reply == [poll[p] EXCEPT !.pc = "reply", !.agents = {}, !.agent = None]
             x == IF job[poll[p].task].runtime # poll[p].runtime THEN next ELSE reply
  <2>2. next.pc = "idle" \/ /\ next.pc = "count"
                            /\ next.runtime = poll[p].runtime /\ next.link = poll[p].link
        BY <1>t DEF NextAgent, IdlePoll, Poll
  <2>3. /\ reply.pc = "reply" /\ reply.task = poll[p].task
        /\ reply.runtime = poll[p].runtime /\ reply.link = poll[p].link
        BY <1>t DEF Poll
  <2>4. poll' = [poll EXCEPT ![p] = x] BY <1>3 DEF ClaimCommit
  <2>5. x = next \/ (x = reply /\ job[poll[p].task].runtime = poll[p].runtime) OBVIOUS
  <2> HIDE DEF next, reply, x
  <2> QED BY <1>u, <2>1, <2>2, <2>3, <2>4, <2>5, SameJobs
<1>4. CASE CountRunning(p) \/ ClaimSelect(p) \/ LoseClaim(p) \/ RejectClaim(p)
  <2>1. RuntimesKept /\ held' \subseteq held /\ daemon' = daemon
    <3>1. CASE RejectClaim(p)
          BY <3>1, FinishKeepsRuntimes DEF RejectClaim, fleet
    <3> QED BY <1>4, <3>1, SameJobs DEF CountRunning, ClaimSelect, LoseClaim, rows, fleet
  <2>2. \A q \in Polls : q # p => PollStays(q)
        BY <1>4, <1>t DEF CountRunning, ClaimSelect, LoseClaim, RejectClaim, PollStays
  <2>3. PollStays(p)
    <3>1. ASSUME poll[p].pc # "idle", NEW a, poll'[p] = NextAgent(p, a) PROVE PollStays(p)
          BY <1>t, <3>1 DEF NextAgent, IdlePoll, Poll, PollStays
    <3>2. CASE CountRunning(p)
          BY <1>t, <3>1, <3>2 DEF CountRunning, Poll, PollStays
    <3>3. CASE ClaimSelect(p)
          BY <1>t, <3>1, <3>3 DEF ClaimSelect, Poll, PollStays
    <3>4. CASE LoseClaim(p) \/ RejectClaim(p)
          BY <1>t, <3>4 DEF LoseClaim, RejectClaim, IdlePoll, PollStays
    <3> QED BY <1>4, <3>2, <3>3, <3>4
  <2> QED BY <2>1, <2>2, <2>3, QuietKeepsDelivery
<1>5. CASE Deliver(p)
  <2>1. /\ UNCHANGED <<daemon, job>> /\ held' \subseteq held \cup {poll[p].task}
        /\ poll[p].pc = "reply" /\ poll[p].link = "up"
        BY <1>5 DEF Deliver, fleet
  <2>2. daemon[job[poll[p].task].runtime] = "up"
        BY <2>1 DEF DeliveryInv, PollsOfRunning
  <2>3. HeldByRunning' BY <2>1, <2>2 DEF DeliveryInv, HeldByRunning
  <2>4. \A q \in Polls : PollStays(q) BY <1>5, <1>t DEF Deliver, PollStays, IdlePoll
  <2>5. PollsOfRunning'
        BY <2>1, <2>4, SameJobs, KeptPollOfRunning DEF PollsOfRunning
  <2> QED BY <2>3, <2>5 DEF DeliveryInv
<1> QED BY <1>1, <1>2, <1>3, <1>4, <1>5 DEF PollStep

\* Calls about held rows, the clock, post-commit steps and sweeps.
LEMMA DeliveryServer ==
  ASSUME TypeOK, LaneInv, DeliveryInv,
         \/ \E t \in Tasks : Tick(t) \/ DaemonCall(t)
         \/ \E w \in Workers : WorkerStep(w)
         \/ Sweep
  PROVE  DeliveryInv'
<1> HIDE DEF Tasks
<1>u. ASSUME RuntimesKept, held' \subseteq held, UNCHANGED <<daemon, poll>> PROVE DeliveryInv'
      BY <1>u, SamePolls, QuietKeepsDelivery
<1>f. ASSUME NEW S, NEW to, NEW why, Finish(S, to, why), UNCHANGED <<daemon, poll>>
      PROVE DeliveryInv'
      BY <1>u, <1>f, FinishKeepsRuntimes
<1>1. ASSUME NEW t \in Tasks, Tick(t) \/ DaemonCall(t) PROVE DeliveryInv'
  <2>1. CASE \/ Tick(t) \/ StartTask(t) \/ MarkTaskWaitingLocalDirectory(t)
             \/ AgentStartsIssue(t)
        BY <2>1, <1>u, SameJobs
        DEF Tick, StartTask, MarkTaskWaitingLocalDirectory, AgentStartsIssue, rows, fleet
  <2>2. CASE CompleteTask(t)
        BY <2>2, <1>f DEF CompleteTask, fleet
  <2>3. ASSUME NEW w \in Requests, NEW why, FailTask(w, t, why) PROVE DeliveryInv'
        BY <2>3, <1>f DEF FailTask, fleet
  <2> QED BY <1>1, <2>1, <2>2, <2>3 DEF DaemonCall
<1>2. ASSUME NEW w \in Workers, WorkerStep(w) PROVE DeliveryInv'
  <2>1. CASE MaybeRetryFailedTask(w) \/ EnqueueRerun(w)
    <3>1. RuntimesKept /\ held' = held
          BY <2>1, InsertKeepsRuntimes, SameJobs
          DEF MaybeRetryFailedTask, EnqueueRerun, rows
    <3> QED BY <2>1, <3>1, <1>u DEF MaybeRetryFailedTask, EnqueueRerun, fleet
  <2>2. CASE CheckIssue(w) \/ HasActiveTaskForIssue(w) \/ ResetIssue(w)
        BY <2>2, <1>u, SameJobs DEF CheckIssue, HasActiveTaskForIssue, ResetIssue, rows, fleet
  <2> QED BY <1>2, <2>1, <2>2 DEF WorkerStep
<1>3. CASE Sweep
  <2>1. CASE SweepStaleRuntimes
        BY <2>1, <1>u, SameJobs DEF SweepStaleRuntimes, rows
  <2>2. CASE FailTasksForOfflineRuntimes \/ FailStaleTasks \/ ExpireStaleQueuedTasks
        BY <2>2, <1>f
        DEF FailTasksForOfflineRuntimes, FailStaleTasks, ExpireStaleQueuedTasks, FailBatch
  <2> QED BY <1>3, <2>1, <2>2 DEF Sweep
<1> QED BY <1>1, <1>2, <1>3

\* Daemons that end, register, report and beat: when one ends, what it held and the
\* connections of its requests go with it.
LEMMA DeliveryDaemonStep ==
  ASSUME TypeOK, LaneInv, DeliveryInv, NEW r \in Runtimes, DaemonStep(r) PROVE DeliveryInv'
<1> HIDE DEF Tasks
<1>d. daemon \in [Runtimes -> {"up", "down", "recovering"}] BY DEF TypeOK, FleetOK
<1>1. ASSUME NEW graceful, DaemonExit(r, graceful) PROVE DeliveryInv'
  <2>1. /\ daemon' = [daemon EXCEPT ![r] = "down"] /\ job' = job
        /\ held' = {t \in held : job[t].runtime # r}
        /\ poll' = [p \in Polls |->
                      [poll[p] EXCEPT !.link = IF poll[p].runtime = r THEN "cut" ELSE @]]
        BY <1>1 DEF DaemonExit
  <2>2. \A s \in Runtimes : s # r => daemon'[s] = daemon[s] BY <2>1, <1>d
  <2>3. HeldByRunning'
    <3> SUFFICES ASSUME NEW t \in held' PROVE daemon'[job'[t].runtime] = "up"
        BY DEF HeldByRunning
    <3>1. t \in held /\ job[t].runtime # r BY <2>1
    <3>2. job[t].runtime \in Runtimes BY <3>1, NamedRowsExist DEF TypeOK, RowsOK, Job
    <3> QED BY <2>1, <2>2, <3>1, <3>2 DEF DeliveryInv, HeldByRunning
  <2>4. ASSUME NEW p \in Polls, poll'[p].pc # "idle"
        PROVE  /\ poll'[p].runtime \in Runtimes
               /\ poll'[p].link = "up" => daemon'[poll'[p].runtime] = "up"
               /\ poll'[p].pc = "reply" => job'[poll'[p].task].runtime = poll'[p].runtime
    <3>1. /\ poll'[p].pc = poll[p].pc /\ poll'[p].runtime = poll[p].runtime
          /\ poll'[p].task = poll[p].task
          /\ poll'[p].link = IF poll[p].runtime = r THEN "cut" ELSE poll[p].link
          BY <2>1 DEF TypeOK, Poll
    <3> QED BY <2>1, <2>2, <2>4, <3>1 DEF DeliveryInv, PollsOfRunning
  <2> QED BY <2>3, <2>4 DEF DeliveryInv, PollsOfRunning
<1>2. ASSUME daemon[r] # "up", NEW st, daemon' = [daemon EXCEPT ![r] = st],
             RuntimesKept, held' \subseteq held, poll' = poll
      PROVE  DeliveryInv'
  <2>1. \A s \in Runtimes : daemon[s] = "up" => daemon'[s] = "up" BY <1>2, <1>d
  <2> QED BY <1>2, <2>1, SamePolls, QuietKeepsDelivery
<1>3. CASE DaemonRegister(r) \/ RecoverLost(r)
      BY <1>2, <1>3, SameJobs DEF DaemonRegister, RecoverLost, rows
<1>4. ASSUME NEW w \in Requests, RecoverOrphanedTasks(w, r) PROVE DeliveryInv'
  <2>1. RuntimesKept /\ held' \subseteq held
        BY <1>4, FinishKeepsRuntimes DEF RecoverOrphanedTasks, FailBatch
  <2> QED BY <1>2, <1>4, <2>1 DEF RecoverOrphanedTasks
<1>5. CASE Heartbeat(r)
      BY <1>5, SameJobs, SamePolls, QuietKeepsDelivery DEF Heartbeat, rows
<1>6. ASSUME NEW w \in Requests, ReregisterWorkspace(w, r) PROVE DeliveryInv'
  <2>1. RuntimesKept /\ held' \subseteq held
        BY <1>6, FinishKeepsRuntimes DEF ReregisterWorkspace, FailBatch
  <2> QED BY <1>6, <2>1, SamePolls, QuietKeepsDelivery DEF ReregisterWorkspace
<1> QED BY <1>1, <1>3, <1>4, <1>5, <1>6 DEF DaemonStep

\* Every step keeps what held rows and answers on their way belong to.
LEMMA DeliveryStep == TypeOK /\ LaneInv /\ DeliveryInv /\ [Next]_vars => DeliveryInv'
<1> SUFFICES ASSUME TypeOK, LaneInv, DeliveryInv, [Next]_vars PROVE DeliveryInv'
    OBVIOUS
<1> HIDE DEF Tasks
<1>1. CASE UNCHANGED vars
      BY <1>1, SameJobs, SamePolls, QuietKeepsDelivery DEF vars, rows, fleet
<1>2. CASE ServerCrash
  <2>1. \A p \in Polls : PollStays(p) BY <1>2 DEF ServerCrash, IdlePoll, PollStays
  <2> QED BY <1>2, <2>1, SameJobs, QuietKeepsDelivery DEF ServerCrash, rows
<1> QED BY <1>1, <1>2, DeliveryUserCall, DeliveryPoll, DeliveryServer, DeliveryDaemonStep
        DEF Next, Running

\* At first no row is held and no request is served.
LEMMA DeliveryInit == Init => DeliveryInv
  BY DEF Init, DeliveryInv, HeldByRunning, PollsOfRunning, IdlePoll

\* Held rows, and answers that may still arrive, belong to daemons that are up.
THEOREM DeliveryCorrect == Spec => []DeliveryInv
  BY TypeCorrect, LanesCorrect, DeliveryInit, DeliveryStep, PTL DEF Spec

\* The report a restarted daemon sends before it polls fails no row that a running daemon
\* holds, whatever was on its way to the daemon that ended and whoever ended it when.
THEOREM RestartReportsSpareHeld == Spec => RestartReportSparesHeld
<1>1. DeliveryInv => [\A r \in Runtimes : daemon[r] = "recovering" /\ daemon'[r] = "up" =>
                        \A t \in held : job[t].runtime = r => status'[t] # "failed"]_vars
      BY DEF DeliveryInv, HeldByRunning
<1> QED BY <1>1, DeliveryCorrect, PTL DEF Spec, RestartReportSparesHeld
=============================================================================
