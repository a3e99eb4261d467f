---------------------------- MODULE OverlapProofs ----------------------------
(***************************************************************************)
(* What overlapping claims and overlapping refreshes leave of the promises *)
(* of the queue and of the badge, for every finite number of claim         *)
(* requests and every number of rows, agents, runtimes, other goroutines   *)
(* and faults: by how much claims exceed the limit of an agent and the     *)
(* lanes no index backs, and which refreshes correct which badges.         *)
(***************************************************************************)
EXTENDS AgentStatus, TaskQueueProofs, FiniteSetTheorems

-----------------------------------------------------------------------------
(* What every step of the queue keeps *)

\* A row that exists keeps the columns its INSERT fixed.
JobsKept == \A t \in Tasks : status[t] # "absent" => job'[t] = job[t]

NoneDispatched == \A t \in Tasks : status'[t] = "dispatched" => status[t] = "dispatched"

\* A claim request keeps what it has selected, or selects nothing.
SelectionKept(p) ==
  poll'[p].pc \in {"select", "commit"} =>
    /\ poll'[p].pc = poll[p].pc
    /\ poll'[p].agent = poll[p].agent /\ poll'[p].task = poll[p].task

SelectionsKept == \A p \in Polls : SelectionKept(p)

\* A step that leaves statuses and columns as they are.
LEMMA SameRowsKept == UNCHANGED <<status, job>> => JobsKept /\ NoneDispatched
  BY DEF JobsKept, NoneDispatched

\* An INSERT.
LEMMA InsertRowsKept ==
  ASSUME TypeOK, NEW t \in Tasks, NEW j, InsertRow(t, j) PROVE JobsKept /\ NoneDispatched
<1>1. \A u \in Tasks : /\ status'[u] = IF u = t THEN "queued" ELSE status[u]
                       /\ job'[u] = IF u = t THEN j ELSE job[u]
      BY DEF InsertRow, TypeOK, RowsOK
<1> QED BY <1>1 DEF InsertRow, JobsKept, NoneDispatched

\* An UPDATE that ends rows.
LEMMA FinishRowsKept ==
  ASSUME NEW S, NEW to \in Terminal, NEW why, Finish(S, to, why)
  PROVE  JobsKept /\ NoneDispatched
<1> QED BY DEF Finish, JobsKept, NoneDispatched, Terminal

\* An UPDATE that moves a row of a daemon on.
LEMMA MoveRowsKept ==
  ASSUME TypeOK, NEW t \in Tasks, NEW s \in {"running", "waiting"},
         status' = [status EXCEPT ![t] = s], job' = job
  PROVE  JobsKept /\ NoneDispatched
<1> QED BY DEF JobsKept, NoneDispatched, TypeOK, RowsOK

\* What users do.
LEMMA UserCallKept == ASSUME TypeOK, UserCall PROVE JobsKept /\ NoneDispatched
<1>1. ASSUME NEW tpl \in Templates, Enqueue(tpl) PROVE JobsKept /\ NoneDispatched
      BY <1>1, InsertRowsKept DEF Enqueue
<1>2. ASSUME NEW tpl \in Templates, NEW w \in Requests, RerunIssue(w, tpl)
      PROVE  JobsKept /\ NoneDispatched
      BY <1>2, FinishRowsKept DEF RerunIssue, Terminal
<1>3. ASSUME NEW S \in CancelScopes, CancelTasks(S) PROVE JobsKept /\ NoneDispatched
      BY <1>3, FinishRowsKept DEF CancelTasks, Terminal
<1> QED BY <1>1, <1>2, <1>3 DEF UserCall

\* Calls of daemons, and the clock.
LEMMA DaemonCallKept ==
  ASSUME TypeOK, NEW t \in Tasks, Tick(t) \/ DaemonCall(t) PROVE JobsKept /\ NoneDispatched
<1>1. CASE Tick(t) \/ AgentStartsIssue(t)
      BY <1>1, SameRowsKept DEF Tick, AgentStartsIssue, rows
<1>2. CASE StartTask(t) \/ MarkTaskWaitingLocalDirectory(t)
      BY <1>2, MoveRowsKept DEF StartTask, MarkTaskWaitingLocalDirectory
<1>3. CASE CompleteTask(t)
      BY <1>3, FinishRowsKept DEF CompleteTask, Terminal
<1>4. ASSUME NEW w \in Requests, NEW why, FailTask(w, t, why) PROVE JobsKept /\ NoneDispatched
      BY <1>4, FinishRowsKept DEF FailTask, Terminal
<1> QED BY <1>1, <1>2, <1>3, <1>4 DEF DaemonCall

\* The claim requests, but for the commit of a claim.
LEMMA PollKept ==
  ASSUME TypeOK, NEW p \in Polls, PollStep(p)
  PROVE  JobsKept /\ (NoneDispatched \/ ClaimCommit(p))
<1>1. CASE ClaimCommit(p)
      BY <1>1, SameRowsKept DEF ClaimCommit, JobsKept
<1>2. CASE RejectClaim(p)
      BY <1>2, FinishRowsKept DEF RejectClaim, Terminal
<1> QED BY <1>1, <1>2, SameRowsKept
    DEF PollStep, Reclaim, ListCandidates, CountRunning, ClaimSelect, Deliver, LoseClaim, rows

\* Post-commit steps.
LEMMA WorkerKept ==
  ASSUME TypeOK, NEW w \in Workers, WorkerStep(w) PROVE JobsKept /\ NoneDispatched
<1>1. CASE MaybeRetryFailedTask(w) \/ EnqueueRerun(w)
      BY <1>1, SameRowsKept, InsertRowsKept DEF MaybeRetryFailedTask, EnqueueRerun, rows
<1>2. CASE CheckIssue(w) \/ HasActiveTaskForIssue(w) \/ ResetIssue(w)
      BY <1>2, SameRowsKept DEF CheckIssue, HasActiveTaskForIssue, ResetIssue, rows
<1> QED BY <1>1, <1>2 DEF WorkerStep

\* The sweeper, and daemons that come and go.
LEMMA FleetKept ==
  ASSUME TypeOK, Sweep \/ \E r \in Runtimes : DaemonStep(r) PROVE JobsKept /\ NoneDispatched
<1>1. ASSUME NEW w, NEW S, NEW why, FailBatch(w, S, why) PROVE JobsKept /\ NoneDispatched
      BY <1>1, FinishRowsKept DEF FailBatch, Terminal
<1>2. CASE Sweep
      BY <1>1, <1>2, SameRowsKept
      DEF Sweep, SweepStaleRuntimes, FailTasksForOfflineRuntimes, FailStaleTasks,
          ExpireStaleQueuedTasks, rows
<1>3. ASSUME NEW r \in Runtimes, DaemonStep(r) PROVE JobsKept /\ NoneDispatched
  <2>1. ASSUME NEW w \in Requests, RecoverOrphanedTasks(w, r) PROVE JobsKept /\ NoneDispatched
        BY <1>1, <2>1 DEF RecoverOrphanedTasks
  <2>4. ASSUME NEW w \in Requests, ReregisterWorkspace(w, r) PROVE JobsKept /\ NoneDispatched
        BY <1>1, <2>4 DEF ReregisterWorkspace
  <2>2. ASSUME NEW graceful, DaemonExit(r, graceful) PROVE JobsKept /\ NoneDispatched
        BY <2>2, SameRowsKept DEF DaemonExit
  <2>3. CASE DaemonRegister(r) \/ RecoverLost(r) \/ Heartbeat(r)
        BY <2>3, SameRowsKept DEF DaemonRegister, RecoverLost, Heartbeat, rows
  <2> QED BY <1>3, <2>1, <2>2, <2>3, <2>4 DEF DaemonStep
<1> QED BY <1>2, <1>3

\* No step moves a row to another agent or lane, and only the commit of a claim
\* brings a row among the active ones.
LEMMA StepKept ==
  ASSUME TypeOK, [Next]_vars
  PROVE  JobsKept /\ (NoneDispatched \/ \E p \in Polls : ClaimCommit(p))
<1>1. CASE UNCHANGED vars \/ ServerCrash
      BY <1>1, SameRowsKept DEF vars, rows, ServerCrash
<1> QED BY <1>1, UserCallKept, DaemonCallKept, PollKept, WorkerKept, FleetKept DEF Next, Running

\* A step that is not one of a claim request selects nothing.
LEMMA StepSelections ==
  ASSUME TypeOK, [Next]_vars, ~\E p \in Polls : PollStep(p) PROVE SelectionsKept
<1>s. poll' = poll => SelectionsKept BY DEF SelectionsKept, SelectionKept
<1>1. CASE UNCHANGED vars
      BY <1>1, <1>s DEF vars
<1>2. CASE ServerCrash
      BY <1>2 DEF ServerCrash, IdlePoll, SelectionsKept, SelectionKept
<1>3. CASE UserCall
      BY <1>3, <1>s DEF UserCall, Enqueue, RerunIssue, CancelTasks
<1>4. ASSUME NEW t \in Tasks, Tick(t) \/ DaemonCall(t) PROVE SelectionsKept
      BY <1>4, <1>s
      DEF Tick, DaemonCall, StartTask, MarkTaskWaitingLocalDirectory, AgentStartsIssue,
          CompleteTask, FailTask
<1>5. ASSUME NEW w \in Workers, WorkerStep(w) PROVE SelectionsKept
      BY <1>5, <1>s
      DEF WorkerStep, MaybeRetryFailedTask, CheckIssue, HasActiveTaskForIssue, ResetIssue,
          EnqueueRerun
<1>6. CASE Sweep
      BY <1>6, <1>s
      DEF Sweep, SweepStaleRuntimes, FailTasksForOfflineRuntimes, FailStaleTasks,
          ExpireStaleQueuedTasks
<1>7. ASSUME NEW r \in Runtimes, DaemonStep(r) PROVE SelectionsKept
  <2>1. ASSUME NEW graceful, DaemonExit(r, graceful) PROVE SelectionsKept
        BY <2>1 DEF DaemonExit, TypeOK, Poll, SelectionsKept, SelectionKept
  <2> QED BY <1>7, <1>s, <2>1
      DEF DaemonStep, DaemonRegister, RecoverLost, Heartbeat, RecoverOrphanedTasks,
          ReregisterWorkspace
<1> QED BY <1>1, <1>2, <1>3, <1>4, <1>5, <1>6, <1>7 DEF Next, Running

\* Rows enter the active statuses by a claim only, and leave them by ending.
LEMMA ActiveMoves ==
  ASSUME TypeOK, TypeOK', LaneInv, [Next]_vars, NEW t \in Tasks
  PROVE  /\ status'[t] \in Active => status[t] \in Active \/ (status[t] = "queued" /\ status'[t] = "dispatched")
         /\ status[t] \in Active => status'[t] \in Active \cup Terminal
<1>1. [Lifecycle!Next]_status BY LifecycleStep
<1>2. status'[t] = status[t] \/ <<status[t], status'[t]>> \in Lifecycle!Legal
      BY <1>1 DEF Lifecycle!Next
<1> QED BY <1>2 DEF Lifecycle!Legal, Lifecycle!Live, Lifecycle!Pending, Lifecycle!Active,
           Active, Terminal

-----------------------------------------------------------------------------
(* Overlapping claims.  A request that has found room but not committed yet   *)
(* counts like the row it may dispatch: no step but a count that finds room   *)
(* makes the sum grow, and that one grows to a bounded sum.                   *)

\* The requests that have found room for agent a.
Choosing(a) == {p \in Polls : poll[p].pc \in {"select", "commit"} /\ poll[p].agent = a}

\* A lane without an index: chat session c of agent a, or its quick-creates.
InLane(j, a, c) == j.agent = a /\ IF c = None THEN QuickShape(j) ELSE j.chat = c

\* Its rows at work, and the requests that have locked one of its rows.
Busy(a, c)     == {t \in RowsIn(Active) : InLane(job[t], a, c)}
Entering(a, c) == {p \in Polls : poll[p].pc = "commit" /\ InLane(job[poll[p].task], a, c)}

Load(a)        == Cardinality(ActiveOf(a)) + Cardinality(Choosing(a))
LaneLoad(a, c) == Cardinality(Busy(a, c)) + Cardinality(Entering(a, c))

Lanes == Chats \cup {None}

\* A request claims rows of the agent it counted.
ClaimsOwn == \A p \in Polls : poll[p].pc = "commit" => job[poll[p].task].agent = poll[p].agent

LoadBounded ==
  \A a \in Agents : Load(a) # 0 => Load(a) < Cap + Cardinality(Polls)

LaneLoadBounded == \A a \in Agents, c \in Lanes : LaneLoad(a, c) <= Cardinality(Polls)

OverlapInv == ClaimsOwn /\ LoadBounded /\ LaneLoadBounded

\* The sum of two sets that shrink shrinks.
LEMMA SumShrinks ==
  ASSUME NEW S, NEW P, IsFiniteSet(S), IsFiniteSet(P), NEW S1 \in SUBSET S, NEW P1 \in SUBSET P
  PROVE  /\ Cardinality(S) + Cardinality(P) \in Nat
         /\ Cardinality(S1) + Cardinality(P1) \in Nat
         /\ Cardinality(S1) + Cardinality(P1) <= Cardinality(S) + Cardinality(P)
<1>1. /\ IsFiniteSet(S1) /\ Cardinality(S1) <= Cardinality(S)
      /\ IsFiniteSet(P1) /\ Cardinality(P1) <= Cardinality(P)
      BY FS_Subset
<1>2. /\ Cardinality(S) \in Nat /\ Cardinality(P) \in Nat
      /\ Cardinality(S1) \in Nat /\ Cardinality(P1) \in Nat
      BY <1>1, FS_CardinalityType
<1> QED BY <1>1, <1>2

\* So does the sum of two sets when one gives an element up and the other gains one.
LEMMA SumExchanges ==
  ASSUME NEW S, NEW P, IsFiniteSet(S), IsFiniteSet(P), NEW t, NEW p \in P,
         NEW S1 \in SUBSET (S \cup {t}), NEW P1 \in SUBSET (P \ {p})
  PROVE  /\ Cardinality(S) + Cardinality(P) \in Nat
         /\ Cardinality(S1) + Cardinality(P1) \in Nat
         /\ Cardinality(S1) + Cardinality(P1) <= Cardinality(S) + Cardinality(P)
<1>1. /\ IsFiniteSet(S \cup {t})
      /\ Cardinality(S \cup {t}) = IF t \in S THEN Cardinality(S) ELSE Cardinality(S) + 1
      BY FS_AddElement
<1>2. /\ IsFiniteSet(P \ {p})
      /\ Cardinality(P \ {p}) = IF p \in P THEN Cardinality(P) - 1 ELSE Cardinality(P)
      BY FS_RemoveElement
<1>3. /\ Cardinality(S) \in Nat /\ Cardinality(P) \in Nat
      BY FS_CardinalityType
<1>4. /\ Cardinality(S1) + Cardinality(P1) \in Nat
      /\ Cardinality(S1) + Cardinality(P1) <= Cardinality(S \cup {t}) + Cardinality(P \ {p})
      BY <1>1, <1>2, SumShrinks
<1> QED BY <1>1, <1>2, <1>3, <1>4

\* Rows and requests can be counted.
LEMMA AllFinite ==
  /\ IsFiniteSet(Polls) /\ Cardinality(Polls) \in Nat
  /\ \A a : IsFiniteSet(ActiveOf(a)) /\ IsFiniteSet(Choosing(a))
  /\ \A a, c : IsFiniteSet(Busy(a, c)) /\ IsFiniteSet(Entering(a, c))
<1>1. MaxEnqueued * MaxAttempts \in Int BY ConstantsAssumption
<1>2. IsFiniteSet(Tasks) BY <1>1, FS_Interval DEF Tasks
<1>3. IsFiniteSet(Polls) /\ Cardinality(Polls) \in Nat
      BY ConstantsAssumption, FS_CardinalityType
<1>4. ASSUME NEW a, NEW c
      PROVE  /\ ActiveOf(a) \in SUBSET Tasks /\ Busy(a, c) \in SUBSET Tasks
             /\ Choosing(a) \in SUBSET Polls /\ Entering(a, c) \in SUBSET Polls
      BY DEF ActiveOf, Busy, Choosing, Entering, RowsIn
<1> QED BY <1>2, <1>3, <1>4, FS_Subset

\* The step adds nothing to the load of agent a, or of a lane.
LoadFalls(a)        == Load(a)' \in Nat /\ Load(a) \in Nat /\ Load(a)' <= Load(a)
LaneLoadFalls(a, c) ==
  LaneLoad(a, c)' \in Nat /\ LaneLoad(a, c) \in Nat /\ LaneLoad(a, c)' <= LaneLoad(a, c)

\* It does not when no row and no request joins.
LEMMA FewerFalls ==
  ASSUME NEW a, NEW c
  PROVE  /\ ActiveOf(a)' \subseteq ActiveOf(a) /\ Choosing(a)' \subseteq Choosing(a) => LoadFalls(a)
         /\ Busy(a, c)' \subseteq Busy(a, c) /\ Entering(a, c)' \subseteq Entering(a, c)
              => LaneLoadFalls(a, c)
<1>1. /\ IsFiniteSet(ActiveOf(a)) /\ IsFiniteSet(Choosing(a))
      /\ IsFiniteSet(Busy(a, c)) /\ IsFiniteSet(Entering(a, c))
      BY AllFinite
<1>2. ASSUME ActiveOf(a)' \subseteq ActiveOf(a), Choosing(a)' \subseteq Choosing(a)
      PROVE  LoadFalls(a)
      BY <1>1, <1>2, SumShrinks DEF Load, LoadFalls
<1>3. ASSUME Busy(a, c)' \subseteq Busy(a, c), Entering(a, c)' \subseteq Entering(a, c)
      PROVE  LaneLoadFalls(a, c)
      BY <1>1, <1>3, SumShrinks DEF LaneLoad, LaneLoadFalls
<1> QED BY <1>2, <1>3

\* A step that adds to no load keeps the bounds.
LEMMA FallsKeep ==
  ASSUME LoadBounded, LaneLoadBounded, \A a \in Agents : LoadFalls(a),
         \A a \in Agents, c \in Lanes : LaneLoadFalls(a, c)
  PROVE  LoadBounded' /\ LaneLoadBounded'
<1>1. Cap \in Nat /\ Cardinality(Polls) \in Nat BY ConstantsAssumption, AllFinite
<1> QED BY <1>1 DEF LoadBounded, LaneLoadBounded, LoadFalls, LaneLoadFalls

\* A step that claims no row leaves each agent and each lane some of its active rows.
LEMMA FewerRows ==
  ASSUME TypeOK, TypeOK', LaneInv, [Next]_vars, JobsKept, NoneDispatched
  PROVE  /\ \A a : ActiveOf(a)' \subseteq ActiveOf(a)
         /\ \A a, c : Busy(a, c)' \subseteq Busy(a, c)
<1>1. ASSUME NEW t \in Tasks, status'[t] \in Active
      PROVE  status[t] \in Active /\ job'[t] = job[t]
      BY <1>1, ActiveMoves DEF NoneDispatched, JobsKept, Active
<1> QED BY <1>1 DEF ActiveOf, Busy, RowsIn, InLane, QuickShape

\* A request that keeps its selection keeps its lane.
LEMMA KeptSelection ==
  ASSUME LaneInv, OverlapInv, JobsKept, NEW p \in Polls, SelectionKept(p)
  PROVE  /\ \A a : p \in Choosing(a)' => p \in Choosing(a)
         /\ \A a, c : p \in Entering(a, c)' => p \in Entering(a, c)
         /\ poll'[p].pc = "commit" => job'[poll'[p].task].agent = poll'[p].agent
<1>1. \A a : p \in Choosing(a)' => p \in Choosing(a) BY DEF Choosing, SelectionKept
<1>2. CASE poll'[p].pc = "commit"
  <2>1. /\ poll[p].pc = "commit" /\ poll'[p].task = poll[p].task
        /\ poll'[p].agent = poll[p].agent
        BY <1>2 DEF SelectionKept
  <2>2. poll[p].task \in Tasks /\ status[poll[p].task] = "queued"
        BY <2>1 DEF LaneInv, ClaimingQueuedRow, RowsIn
  <2>3. job'[poll'[p].task] = job[poll[p].task] BY <2>1, <2>2 DEF JobsKept
  <2> QED BY <1>1, <2>1, <2>3 DEF Entering, OverlapInv, ClaimsOwn, InLane, QuickShape
<1> QED BY <1>1, <1>2 DEF Entering

\* A step that claims no row and selects none.
LEMMA FewerKeepsOverlap ==
  ASSUME TypeOK, TypeOK', LaneInv, OverlapInv, [Next]_vars, JobsKept, NoneDispatched,
         SelectionsKept
  PROVE  OverlapInv'
<1>1. \A p \in Polls :
        /\ \A a : p \in Choosing(a)' => p \in Choosing(a)
        /\ \A a, c : p \in Entering(a, c)' => p \in Entering(a, c)
        /\ poll'[p].pc = "commit" => job'[poll'[p].task].agent = poll'[p].agent
      BY KeptSelection DEF SelectionsKept
<1>2. /\ \A a : Choosing(a)' \subseteq Choosing(a)
      /\ \A a, c : Entering(a, c)' \subseteq Entering(a, c)
  <2>1. \A a : Choosing(a)' \subseteq Polls BY DEF Choosing
  <2>2. \A a, c : Entering(a, c)' \subseteq Polls BY DEF Entering
  <2> QED BY <1>1, <2>1, <2>2
<1>3. /\ \A a \in Agents : LoadFalls(a)
      /\ \A a \in Agents, c \in Lanes : LaneLoadFalls(a, c)
      BY <1>2, FewerRows, FewerFalls
<1>4. LoadBounded' /\ LaneLoadBounded' BY <1>3, FallsKeep DEF OverlapInv
<1> QED BY <1>1, <1>4 DEF OverlapInv, ClaimsOwn

\* A request that finds room, and the others that choose, are fewer than all requests
\* beside rows that are fewer than the limit.
LEMMA CountKeepsOverlap ==
  ASSUME TypeOK, TypeOK', LaneInv, OverlapInv, [Next]_vars, NEW p \in Polls, CountRunning(p)
  PROVE  OverlapInv'
<1>1. poll \in [Polls -> Poll] BY DEF TypeOK
<1>2. UNCHANGED <<status, job>> BY DEF CountRunning, rows
<1>3. JobsKept /\ NoneDispatched BY <1>2, SameRowsKept
<1>4. PICK a \in poll[p].agents :
        poll' = [poll EXCEPT ![p] =
                   IF Cardinality(ActiveOf(a)) >= Cap THEN NextAgent(p, a)
                   ELSE [poll[p] EXCEPT !.pc = "select", !.agent = a]]
      BY DEF CountRunning
<1>5. a \in Agents BY <1>1 DEF Poll
<1>6. \A q \in Polls \ {p} : poll'[q] = poll[q] BY <1>1, <1>4
<1>7. CASE Cardinality(ActiveOf(a)) >= Cap
  <2>1. poll'[p] = NextAgent(p, a) BY <1>1, <1>4, <1>7
  <2>2. poll'[p].pc \in {"idle", "count"} BY <1>1, <2>1, NextAgentPc
  <2>3. SelectionsKept BY <1>6, <2>2 DEF SelectionsKept, SelectionKept
  <2> QED BY <1>3, <2>3, FewerKeepsOverlap
<1>8. CASE ~(Cardinality(ActiveOf(a)) >= Cap)
  <2>1. poll'[p] = [poll[p] EXCEPT !.pc = "select", !.agent = a] BY <1>1, <1>4, <1>8
  <2>2. poll'[p].pc = "select" /\ poll'[p].agent = a BY <1>1, <2>1 DEF Poll
  <2>3. \A b : ActiveOf(b)' = ActiveOf(b) BY <1>2 DEF ActiveOf, RowsIn
  <2>4. \A b, c : Busy(b, c)' = Busy(b, c) BY <1>2 DEF Busy, RowsIn, InLane, QuickShape
  <2>5. \A b : b # a => Choosing(b)' \subseteq Choosing(b) BY <1>6, <2>2 DEF Choosing
  <2>6. \A b, c : Entering(b, c)' \subseteq Entering(b, c)
        BY <1>2, <1>6, <2>2 DEF Entering, InLane, QuickShape
  <2>7. \A b \in Agents : b # a => LoadFalls(b) BY <2>3, <2>5, FewerFalls
  <2>8. \A b \in Agents, c \in Lanes : LaneLoadFalls(b, c) BY <2>4, <2>6, FewerFalls
  <2>9. Load(a)' < Cap + Cardinality(Polls)
    <3>1. /\ IsFiniteSet(Polls) /\ Cardinality(Polls) \in Nat /\ IsFiniteSet(ActiveOf(a))
          BY AllFinite
    <3>2. Choosing(a)' \in SUBSET Polls BY DEF Choosing
    <3>3. IsFiniteSet(Choosing(a)') /\ Cardinality(Choosing(a)') <= Cardinality(Polls)
          BY <3>1, <3>2, FS_Subset
    <3>4. Cardinality(Choosing(a)') \in Nat /\ Cardinality(ActiveOf(a)) \in Nat
          BY <3>1, <3>3, FS_CardinalityType
    <3>5. Load(a)' = Cardinality(ActiveOf(a)) + Cardinality(Choosing(a)') BY <2>3 DEF Load
    <3> QED BY <1>8, <3>1, <3>3, <3>4, <3>5, ConstantsAssumption
  <2>10. LoadBounded'
    <3> SUFFICES ASSUME NEW b \in Agents, Load(b)' # 0
                 PROVE  Load(b)' < Cap + Cardinality(Polls)
        BY DEF LoadBounded
    <3>1. Cap \in Nat /\ Cardinality(Polls) \in Nat BY ConstantsAssumption, AllFinite
    <3>2. CASE b = a
          BY <2>9, <3>2
    <3>3. CASE b # a
          BY <2>7, <3>1, <3>3 DEF LoadFalls, OverlapInv, LoadBounded
    <3> QED BY <3>2, <3>3
  <2>11. LaneLoadBounded'
    <3>1. Cardinality(Polls) \in Nat BY AllFinite
    <3> QED BY <2>8, <3>1 DEF LaneLoadFalls, OverlapInv, LaneLoadBounded
  <2>12. ClaimsOwn' BY <1>2, <1>6, <2>2 DEF OverlapInv, ClaimsOwn
  <2> QED BY <2>10, <2>11, <2>12 DEF OverlapInv
<1> QED BY <1>7, <1>8

\* A request that locks a row has seen its lane empty: beside it there are requests only.
LEMMA SelectKeepsOverlap ==
  ASSUME TypeOK, TypeOK', LaneInv, OverlapInv, [Next]_vars, NEW p \in Polls, ClaimSelect(p)
  PROVE  OverlapInv'
<1> DEFINE a == poll[p].agent
<1>1. poll \in [Polls -> Poll] /\ poll[p].pc = "select" BY DEF TypeOK, ClaimSelect
<1>2. UNCHANGED <<status, job>> BY DEF ClaimSelect, rows
<1>3. JobsKept /\ NoneDispatched BY <1>2, SameRowsKept
<1>4. CASE poll' = [poll EXCEPT ![p] = NextAgent(p, a)]
  <2>1. poll'[p] = NextAgent(p, a) /\ \A q \in Polls \ {p} : poll'[q] = poll[q] BY <1>1, <1>4
  <2>2. poll'[p].pc \in {"idle", "count"} BY <1>1, <2>1, NextAgentPc
  <2>3. SelectionsKept BY <2>1, <2>2 DEF SelectionsKept, SelectionKept
  <2> QED BY <1>3, <2>3, FewerKeepsOverlap
<1>5. ASSUME NEW t \in Claimable(a),
             poll' = [poll EXCEPT ![p] = [poll[p] EXCEPT !.pc = "commit", !.task = t]]
      PROVE  OverlapInv'
  <2>1. poll'[p] = [poll[p] EXCEPT !.pc = "commit", !.task = t]
        /\ \A q \in Polls \ {p} : poll'[q] = poll[q]
        BY <1>1, <1>5
  <2>2. poll'[p].pc = "commit" /\ poll'[p].agent = a /\ poll'[p].task = t
        BY <1>1, <2>1 DEF Poll
  <2>3. job[t].agent = a /\ \A u \in ActiveOf(a) : ~SameLane(job[t], job[u])
        BY DEF Claimable
  <2>4. \A b : ActiveOf(b)' = ActiveOf(b) BY <1>2 DEF ActiveOf, RowsIn
  <2>5. \A b, c : Busy(b, c)' = Busy(b, c) BY <1>2 DEF Busy, RowsIn, InLane, QuickShape
  <2>6. \A b : Choosing(b)' \subseteq Choosing(b) BY <1>1, <2>1, <2>2 DEF Choosing
  <2>7. \A b \in Agents : LoadFalls(b) BY <2>4, <2>6, FewerFalls
  <2>8. ClaimsOwn' BY <1>2, <2>1, <2>2, <2>3 DEF OverlapInv, ClaimsOwn
  <2>9. ASSUME NEW b \in Agents, NEW c \in Lanes PROVE LaneLoad(b, c)' <= Cardinality(Polls)
    <3>1. IsFiniteSet(Polls) /\ Cardinality(Polls) \in Nat BY AllFinite
    <3>2. CASE InLane(job[t], b, c)
      <4>1. ASSUME NEW u \in Busy(b, c) PROVE FALSE
        <5>1. u \in ActiveOf(a) BY <2>3, <3>2 DEF Busy, ActiveOf, InLane
        <5>2. SameLane(job[t], job[u])
              BY <3>2, ConstantsAssumption DEF Busy, InLane, SameLane, Lanes
        <5> QED BY <2>3, <5>1, <5>2
      <4>2. Busy(b, c)' = {} BY <2>5, <4>1
      <4>3. Cardinality(Busy(b, c)') = 0 BY <4>2, FS_EmptySet
      <4>4. Entering(b, c)' \in SUBSET Polls BY DEF Entering
      <4>5. IsFiniteSet(Entering(b, c)') /\ Cardinality(Entering(b, c)') <= Cardinality(Polls)
            BY <3>1, <4>4, FS_Subset
      <4>6. Cardinality(Entering(b, c)') \in Nat BY <4>5, FS_CardinalityType
      <4> QED BY <3>1, <4>3, <4>5, <4>6 DEF LaneLoad
    <3>3. CASE ~InLane(job[t], b, c)
      <4>1. Entering(b, c)' \subseteq Entering(b, c)
            BY <1>2, <2>1, <2>2, <3>3 DEF Entering, InLane, QuickShape
      <4>2. LaneLoadFalls(b, c) BY <2>5, <4>1, FewerFalls
      <4> QED BY <3>1, <4>2 DEF LaneLoadFalls, OverlapInv, LaneLoadBounded
    <3> QED BY <3>2, <3>3
  <2>10. LaneLoadBounded' BY <2>9, AllFinite DEF LaneLoadBounded
  <2>11. LoadBounded'
    <3>1. Cap \in Nat /\ Cardinality(Polls) \in Nat BY ConstantsAssumption, AllFinite
    <3> QED BY <2>7, <3>1 DEF LoadFalls, OverlapInv, LoadBounded
  <2> QED BY <2>8, <2>10, <2>11 DEF OverlapInv
<1> QED BY <1>4, <1>5 DEF ClaimSelect

\* A commit turns a request into a row.
LEMMA CommitKeepsOverlap ==
  ASSUME TypeOK, TypeOK', LaneInv, OverlapInv, NEW p \in Polls, ClaimCommit(p)
  PROVE  OverlapInv'
<1> DEFINE t == poll[p].task
           a == poll[p].agent
<1>1. /\ poll \in [Polls -> Poll] /\ status \in [Tasks -> Statuses]
      /\ poll[p].pc = "commit" /\ job' = job /\ status' = [status EXCEPT ![t] = "dispatched"]
      BY DEF TypeOK, RowsOK, ClaimCommit
<1>2. t \in Tasks BY <1>1 DEF LaneInv, ClaimingQueuedRow, RowsIn
<1>3. RowsIn(Active)' \subseteq RowsIn(Active) \cup {t} BY <1>1, <1>2 DEF RowsIn
<1>4. job[t].agent = a BY <1>1 DEF OverlapInv, ClaimsOwn
<1>5. poll'[p] = IF job[t].runtime # poll[p].runtime THEN NextAgent(p, a)
                 ELSE [poll[p] EXCEPT !.pc = "reply", !.agents = {}, !.agent = None]
      BY <1>1 DEF ClaimCommit
<1>6. poll'[p].pc \in {"idle", "count", "reply"} BY <1>1, <1>5, NextAgentPc DEF Poll
<1>7. \A q \in Polls \ {p} : poll'[q] = poll[q] BY <1>1 DEF ClaimCommit
<1>8. ClaimsOwn' BY <1>1, <1>6, <1>7 DEF OverlapInv, ClaimsOwn
<1>9. ASSUME NEW b \in Agents PROVE LoadFalls(b)
  <2>1. IsFiniteSet(ActiveOf(b)) /\ IsFiniteSet(Choosing(b)) BY AllFinite
  <2>2. Choosing(b)' \subseteq Choosing(b) \ {p} BY <1>6, <1>7 DEF Choosing
  <2>3. CASE b = a
    <3>1. p \in Choosing(b) BY <1>1, <2>3 DEF Choosing
    <3>2. ActiveOf(b)' \subseteq ActiveOf(b) \cup {t} BY <1>1, <1>3 DEF ActiveOf
    <3> QED BY <2>1, <2>2, <3>1, <3>2, SumExchanges DEF Load, LoadFalls
  <2>4. CASE b # a
    <3>1. ActiveOf(b)' \subseteq ActiveOf(b) BY <1>1, <1>3, <1>4, <2>4 DEF ActiveOf
    <3> QED BY <2>2, <3>1, FewerFalls
  <2> QED BY <2>3, <2>4
<1>10. ASSUME NEW b \in Agents, NEW c \in Lanes PROVE LaneLoadFalls(b, c)
  <2>1. IsFiniteSet(Busy(b, c)) /\ IsFiniteSet(Entering(b, c)) BY AllFinite
  <2>2. Entering(b, c)' \subseteq Entering(b, c) \ {p}
        BY <1>1, <1>6, <1>7 DEF Entering, InLane, QuickShape
  <2>3. Busy(b, c)' \subseteq Busy(b, c) \cup {t}
        BY <1>1, <1>3 DEF Busy, InLane, QuickShape
  <2>4. CASE InLane(job[t], b, c)
    <3>1. p \in Entering(b, c) BY <1>1, <2>4 DEF Entering
    <3> QED BY <2>1, <2>2, <2>3, <3>1, SumExchanges DEF LaneLoad, LaneLoadFalls
  <2>5. CASE ~InLane(job[t], b, c)
    <3>1. Busy(b, c)' \subseteq Busy(b, c)
          BY <1>1, <2>3, <2>5 DEF Busy, InLane, QuickShape
    <3> QED BY <2>2, <3>1, FewerFalls
  <2> QED BY <2>4, <2>5
<1>11. LoadBounded' /\ LaneLoadBounded' BY <1>9, <1>10, FallsKeep DEF OverlapInv
<1> QED BY <1>8, <1>11 DEF OverlapInv

\* The other steps of a claim request select nothing.
LEMMA OtherPollSteps ==
  ASSUME TypeOK, NEW p \in Polls, PollStep(p)
  PROVE  CountRunning(p) \/ ClaimSelect(p) \/ ClaimCommit(p) \/ SelectionsKept
<1>1. poll \in [Polls -> Poll] BY DEF TypeOK
<1>2. ASSUME NEW r \in Runtimes, Reclaim(p, r) \/ ListCandidates(p, r) PROVE SelectionsKept
  <2>1. PICK x : poll' = [poll EXCEPT ![p] = x] /\ x.pc \in {"reply", "count"}
        BY <1>1, <1>2 DEF Reclaim, ListCandidates, Poll
  <2> QED BY <1>1, <2>1 DEF SelectionsKept, SelectionKept
<1>3. CASE Deliver(p) \/ LoseClaim(p) \/ RejectClaim(p)
      BY <1>1, <1>3 DEF Deliver, LoseClaim, RejectClaim, IdlePoll, SelectionsKept, SelectionKept
<1> QED BY <1>2, <1>3 DEF PollStep

\* Every step keeps the sums.
LEMMA OverlapStep ==
  TypeOK /\ TypeOK' /\ LaneInv /\ OverlapInv /\ [Next]_vars => OverlapInv'
<1> SUFFICES ASSUME TypeOK, TypeOK', LaneInv, OverlapInv, [Next]_vars PROVE OverlapInv'
    OBVIOUS
<1>1. CASE \E p \in Polls : CountRunning(p) \/ ClaimSelect(p) \/ ClaimCommit(p)
      BY <1>1, CountKeepsOverlap, SelectKeepsOverlap, CommitKeepsOverlap
<1>2. CASE ~\E p \in Polls : CountRunning(p) \/ ClaimSelect(p) \/ ClaimCommit(p)
  <2>1. SelectionsKept BY <1>2, OtherPollSteps, StepSelections
  <2>2. JobsKept /\ NoneDispatched BY <1>2, StepKept
  <2> QED BY <2>1, <2>2, FewerKeepsOverlap
<1> QED BY <1>1, <1>2

\* Initially no row is active and no request is served.
LEMMA OverlapInit == Init => OverlapInv
<1> SUFFICES ASSUME Init PROVE OverlapInv
    OBVIOUS
<1>1. RowsIn(Active) = {} /\ \A p \in Polls : poll[p].pc = "idle"
      BY DEF Init, RowsIn, Active, IdlePoll
<1>2. /\ \A a : ActiveOf(a) = {} /\ Choosing(a) = {}
      /\ \A a, c : Busy(a, c) = {} /\ Entering(a, c) = {}
      BY <1>1 DEF ActiveOf, Choosing, Busy, Entering
<1>3. Cardinality(Polls) \in Nat BY AllFinite
<1>4. LoadBounded BY <1>2, FS_EmptySet DEF LoadBounded, Load
<1>5. \A a, c : LaneLoad(a, c) = 0 BY <1>2, FS_EmptySet DEF LaneLoad
<1>6. LaneLoadBounded BY <1>3, <1>5 DEF LaneLoadBounded
<1> QED BY <1>1, <1>4, <1>6 DEF OverlapInv, ClaimsOwn

\* What counts, selects and commits of overlapping claims leave true.
THEOREM OverlapCorrect == Spec => []OverlapInv
  BY OverlapInit, OverlapStep, TypeCorrect, LanesCorrect, PTL DEF Spec

\* An agent executes fewer rows than its limit and the requests that claim for it at the
\* same time together: each of those that overlap takes at most one row too many, for
\* every limit and every number of requests.
THEOREM OvershootIsBounded == Spec => []OvershootBounded
<1>1. OverlapInv => OvershootBounded
  <2> SUFFICES ASSUME OverlapInv, NEW a \in Agents, ActiveOf(a) # {}
               PROVE  Cardinality(ActiveOf(a)) < Cap + Cardinality(Polls)
      BY DEF OvershootBounded
  <2>1. /\ IsFiniteSet(ActiveOf(a)) /\ IsFiniteSet(Choosing(a))
        /\ Cardinality(Polls) \in Nat /\ Cap \in Nat
        BY AllFinite, ConstantsAssumption
  <2>2. Cardinality(ActiveOf(a)) \in Nat /\ Cardinality(Choosing(a)) \in Nat
        BY <2>1, FS_CardinalityType
  <2>3. Cardinality(ActiveOf(a)) # 0 BY <2>1, FS_EmptySet
  <2>4. Load(a) # 0 => Load(a) < Cap + Cardinality(Polls) BY DEF OverlapInv, LoadBounded
  <2> QED BY <2>1, <2>2, <2>3, <2>4 DEF Load
<1> QED BY <1>1, OverlapCorrect, PTL

\* In a lane that no index backs, the requests that overlapped are the rows at work: one
\* chat session, and the quick-creates of one agent, never have more of them.
THEOREM UnindexedLanesAreBounded == Spec => []UnindexedLanesBounded
<1>1. OverlapInv => UnindexedLanesBounded
  <2> SUFFICES ASSUME OverlapInv, NEW a \in Agents
               PROVE  /\ Cardinality(QuickLane(a) \cap RowsIn(Active)) <= Cardinality(Polls)
                      /\ \A c \in Chats :
                           Cardinality(ChatLane(a, c) \cap RowsIn(Active)) <= Cardinality(Polls)
      BY DEF UnindexedLanesBounded
  <2>1. ASSUME NEW c \in Lanes PROVE Cardinality(Busy(a, c)) <= Cardinality(Polls)
    <3>1. /\ IsFiniteSet(Busy(a, c)) /\ IsFiniteSet(Entering(a, c))
          /\ Cardinality(Polls) \in Nat
          BY AllFinite
    <3>2. Cardinality(Busy(a, c)) \in Nat /\ Cardinality(Entering(a, c)) \in Nat
          BY <3>1, FS_CardinalityType
    <3>3. LaneLoad(a, c) <= Cardinality(Polls) BY DEF OverlapInv, LaneLoadBounded
    <3> QED BY <3>1, <3>2, <3>3 DEF LaneLoad
  <2>2. QuickLane(a) \cap RowsIn(Active) = Busy(a, None)
        BY DEF QuickLane, Busy, RowsIn, InLane
  <2>3. \A c \in Chats : ChatLane(a, c) \cap RowsIn(Active) = Busy(a, c)
        BY ConstantsAssumption DEF ChatLane, Busy, RowsIn, InLane
  <2> QED BY <2>1, <2>2, <2>3 DEF Lanes
<1> QED BY <1>1, OverlapCorrect, PTL

-----------------------------------------------------------------------------
(* Overlapping refreshes.  A read that is wrong by now, and that nothing newer *)
(* has overwritten yet, is covered: some goroutine has still to read, or a     *)
(* later read is right and, written before it, would mark it as stale.         *)

Truth(a) == IF ActiveOf(a) # {} THEN "working" ELSE "idle"

\* A goroutine has still to read the queue for agent a.
Unread(a) == \E g \in Goroutines : a \in refresh[g].owes /\ refresh[g].agent # a

\* Goroutine f is about to write what is so.
Right(f, a) == /\ refresh[f].agent = a /\ ~refresh[f].stale
               /\ refresh[f].verdict = Truth(a)

Refresh == [owes : SUBSET Agents, agent : Agents \cup {None},
            verdict : {"none", "working", "idle"}, older : SUBSET Goroutines, stale : BOOLEAN]

StatusTypes ==
  /\ agentStatus \in [Agents -> {"working", "idle"}]
  /\ refresh \in [Goroutines -> Refresh]
  /\ excuses \in [Agents -> SUBSET {"lost", "archived", "stale"}]

\* Reads are of agents that are owed, and ordered by when they were made.
ReadsOrdered ==
  \A g \in Goroutines :
    /\ refresh[g].agent = None => ~refresh[g].stale /\ refresh[g].older = {}
    /\ refresh[g].agent # None => /\ refresh[g].agent \in refresh[g].owes
                                 /\ refresh[g].verdict # "none"
    /\ \A h \in refresh[g].older :
         /\ refresh[h].agent = refresh[g].agent /\ g \notin refresh[h].older
         /\ refresh[h].older \subseteq refresh[g].older

\* The badge of agent a is right, or will be.
Believed(a) ==
  excuses[a] = {} =>
    agentStatus[a] = Truth(a) \/ Unread(a) \/ \E f \in Goroutines : Right(f, a)

\* A wrong read of agent a does harm to nobody but itself.
Covered(a) ==
  \A g \in Goroutines :
    refresh[g].agent = a /\ ~refresh[g].stale /\ refresh[g].verdict # Truth(a) =>
      Unread(a) \/ \E f \in Goroutines : Right(f, a) /\ g \in refresh[f].older

BadgeInv == /\ StatusTypes /\ ReadsOrdered
            /\ \A a \in Agents : Believed(a) /\ Covered(a)

\* A step of the queue claims and ends rows for one goroutine, or for none.
LEMMA QueueStepIsStep == QueueStep => Next
<1>1. ASSUME NEW p \in Polls, ClaimStep(p) PROVE PollStep(p)
      BY <1>1 DEF ClaimStep, PollStep
<1>2. ASSUME NEW w \in Workers, EndingRequest(w) PROVE Running
  <2>1. w \in Requests BY <1>2 DEF EndingRequest
  <2> QED BY <1>2, <2>1 DEF EndingRequest, Running, UserCall, DaemonCall, DaemonStep
<1>3. ASSUME NEW w \in Workers, AfterCommit(w) PROVE WorkerStep(w)
      BY <1>3 DEF AfterCommit, WorkerStep
<1>4. ASSUME NEW a \in Agents, ArchiveAgent(a) PROVE UserCall
      BY <1>4 DEF ArchiveAgent, UserCall, CancelScopes
<1>5. CASE Elsewhere
      BY <1>5 DEF Elsewhere, Running, UserCall, DaemonCall, DaemonStep, Next
<1> QED BY <1>1, <1>2, <1>3, <1>4, <1>5 DEF QueueStep, Next, Running

\* Every step of the badge is a step of the queue, or leaves it alone.
LEMMA StatusStepIsStep == [StatusNext]_<<vars, statusVars>> => [Next]_vars
  BY QueueStepIsStep
  DEF StatusNext, CrashWithRefreshes, ReadQueue, WriteStatus, LoseRefresh, Next

\* A step that returns no row of an agent leaves it its active rows.
LEMMA OthersKeepActive ==
  ASSUME TypeOK, TypeOK', LaneInv, [Next]_vars, NEW a \in Agents, a \notin Returned
  PROVE  Truth(a)' = Truth(a)
<1>1. JobsKept BY StepKept
<1>2. \A t \in Tasks : job[t].agent = a => status'[t] = status[t] BY DEF Returned
<1>3. ASSUME NEW t \in Tasks, status[t] \in Active, job[t].agent = a
      PROVE  status'[t] \in Active /\ job'[t].agent = a
      BY <1>1, <1>2, <1>3 DEF JobsKept, Active
<1>4. ASSUME NEW t \in Tasks, status'[t] \in Active, job'[t].agent = a
      PROVE  status[t] \in Active /\ job[t].agent = a
  <2>1. status[t] # "absent" BY <1>4, ActiveMoves DEF Active
  <2> QED BY <1>1, <1>2, <1>4, <2>1 DEF JobsKept
<1>5. ActiveOf(a)' = ActiveOf(a) BY <1>3, <1>4 DEF ActiveOf, RowsIn
<1> QED BY <1>5 DEF Truth

\* Statements return rows of agents.
LEMMA ReturnedAgents == TypeOK => Returned \subseteq Agents
  BY DEF TypeOK, RowsOK, Job, Returned

\* A goroutine that rested, and owes the refreshes of the agents whose rows it moved.
LEMMA OweKeepsBadge ==
  ASSUME BadgeInv, NEW g \in Goroutines, NEW A \in SUBSET Agents, Owe(g, A),
         \A a \in Agents : a \notin A => Truth(a)' = Truth(a)
  PROVE  BadgeInv'
<1>1. /\ refresh \in [Goroutines -> Refresh] /\ refresh[g] = Rested
      /\ refresh' = [refresh EXCEPT ![g].owes = A] /\ UNCHANGED <<agentStatus, excuses>>
      BY DEF BadgeInv, StatusTypes, Owe
<1>2. refresh'[g] = [Rested EXCEPT !.owes = A] /\ \A h \in Goroutines \ {g} : refresh'[h] = refresh[h]
      BY <1>1
<1>3. /\ refresh'[g].owes = A /\ refresh'[g].agent = None /\ ~refresh'[g].stale
      /\ refresh'[g].older = {} /\ refresh[g].owes = {} /\ refresh[g].agent = None
      /\ refresh[g].older = {}
      BY <1>1, <1>2 DEF Rested
<1>4. StatusTypes' BY <1>1 DEF BadgeInv, StatusTypes, Refresh
<1>5. \A h \in Goroutines : refresh[h].older \subseteq Goroutines BY <1>1 DEF Refresh
<1>6. ReadsOrdered'
  <2>1. \A k \in Goroutines : \A h \in refresh[k].older : k # g /\ h # g
        BY <1>3 DEF BadgeInv, ReadsOrdered
  <2>2. ASSUME NEW k \in Goroutines, k # g
        PROVE  /\ refresh'[k].agent = None => ~refresh'[k].stale /\ refresh'[k].older = {}
               /\ refresh'[k].agent # None => /\ refresh'[k].agent \in refresh'[k].owes
                                              /\ refresh'[k].verdict # "none"
               /\ \A h \in refresh'[k].older :
                    /\ refresh'[h].agent = refresh'[k].agent /\ k \notin refresh'[h].older
                    /\ refresh'[h].older \subseteq refresh'[k].older
    <3>1. refresh'[k] = refresh[k] BY <1>2, <2>2
    <3>2. \A h \in refresh[k].older : refresh'[h] = refresh[h] BY <1>2, <1>5, <2>1
    <3> QED BY <3>1, <3>2 DEF BadgeInv, ReadsOrdered
  <2> QED BY <1>3, <2>2 DEF ReadsOrdered
<1>7. ASSUME NEW a \in Agents PROVE Believed(a)' /\ Covered(a)'
  <2>1. a # None BY ConstantsAssumption
  <2>2. CASE a \in A
    <3>1. Unread(a)' BY <1>3, <2>1, <2>2 DEF Unread
    <3> QED BY <3>1 DEF Believed, Covered
  <2>3. CASE a \notin A
    <3>1. Truth(a)' = Truth(a) BY <2>3
    <3>2. Unread(a) => Unread(a)' BY <1>2, <1>3 DEF Unread
    <3>3. \A f \in Goroutines : Right(f, a) => Right(f, a)' /\ refresh'[f] = refresh[f]
          BY <1>2, <1>3, <2>1, <3>1 DEF Right
    <3>4. Believed(a)' BY <1>1, <3>1, <3>2, <3>3 DEF BadgeInv, Believed
    <3>5. Covered(a)'
      <4> SUFFICES ASSUME NEW h \in Goroutines, refresh'[h].agent = a, ~refresh'[h].stale,
                          refresh'[h].verdict # Truth(a)'
                   PROVE  Unread(a)' \/ \E f \in Goroutines : Right(f, a)' /\ h \in refresh'[f].older
          BY DEF Covered
      <4>1. h # g /\ refresh'[h] = refresh[h] BY <1>2, <1>3, <2>1
      <4> QED BY <3>1, <3>2, <3>3, <4>1 DEF BadgeInv, Covered
    <3> QED BY <3>4, <3>5
  <2> QED BY <2>2, <2>3
<1> QED BY <1>4, <1>6, <1>7 DEF BadgeInv

\* A badge nobody works on stays as it is believed.
LEMMA StillKeepsBadge ==
  ASSUME BadgeInv, UNCHANGED statusVars, \A a \in Agents : Truth(a)' = Truth(a)
  PROVE  BadgeInv'
<1>1. UNCHANGED <<agentStatus, refresh, excuses>> BY DEF statusVars
<1>2. StatusTypes' /\ ReadsOrdered' BY <1>1 DEF BadgeInv, StatusTypes, ReadsOrdered
<1>3. ASSUME NEW a \in Agents PROVE Believed(a)' /\ Covered(a)'
  <2>1. Truth(a)' = Truth(a) OBVIOUS
  <2>2. /\ Unread(a)' <=> Unread(a)
        /\ \A f \in Goroutines : Right(f, a)' <=> Right(f, a)
        BY <1>1, <2>1 DEF Unread, Right
  <2> QED BY <1>1, <2>1, <2>2 DEF BadgeInv, Believed, Covered
<1> QED BY <1>2, <1>3 DEF BadgeInv

\* A read is right when it is made, and later than every read under way.
LEMMA ReadKeepsBadge ==
  ASSUME BadgeInv, NEW g \in Goroutines, ReadQueue(g) PROVE BadgeInv'
<1>1. refresh \in [Goroutines -> Refresh] BY DEF BadgeInv, StatusTypes
<1>2. UNCHANGED <<status, job, agentStatus, excuses>> BY DEF ReadQueue, vars, rows
<1>3. \A b \in Agents : Truth(b)' = Truth(b) BY <1>2 DEF Truth, ActiveOf, RowsIn
<1>4. PICK a \in refresh[g].owes :
        refresh' = [refresh EXCEPT ![g] = [refresh[g] EXCEPT !.agent = a, !.older = Reading(a),
                      !.verdict = IF ActiveOf(a) # {} THEN "working" ELSE "idle"]]
      BY DEF ReadQueue
<1>5. a \in Agents /\ a # None /\ refresh[g].agent = None
      BY <1>1, ConstantsAssumption DEF Refresh, ReadQueue
<1>6. /\ refresh'[g].agent = a /\ refresh'[g].owes = refresh[g].owes
      /\ refresh'[g].older = Reading(a) /\ refresh'[g].verdict = Truth(a)
      /\ refresh'[g].stale = refresh[g].stale
      /\ \A h \in Goroutines \ {g} : refresh'[h] = refresh[h]
      BY <1>1, <1>4 DEF Refresh, Truth
<1>7. g \notin Reading(a) /\ Reading(a) \subseteq Goroutines /\ ~refresh[g].stale
      BY <1>5 DEF Reading, BadgeInv, ReadsOrdered
<1>8. \A k \in Goroutines : refresh[k].older \subseteq Goroutines /\ g \notin refresh[k].older
      BY <1>1, <1>5 DEF Refresh, BadgeInv, ReadsOrdered
<1>9. StatusTypes'
  <2>1. [refresh[g] EXCEPT !.agent = a, !.older = Reading(a),
           !.verdict = IF ActiveOf(a) # {} THEN "working" ELSE "idle"] \in Refresh
    <3>1. refresh[g] \in Refresh BY <1>1
    <3>2. (IF ActiveOf(a) # {} THEN "working" ELSE "idle") \in {"none", "working", "idle"}
          OBVIOUS
    <3>3. a \in Agents \cup {None} /\ Reading(a) \in SUBSET Goroutines BY <1>5, <1>7
    <3> QED BY <3>1, <3>2, <3>3 DEF Refresh
  <2>2. refresh' \in [Goroutines -> Refresh] BY <1>1, <1>4, <2>1
  <2> QED BY <1>2, <2>2 DEF BadgeInv, StatusTypes
<1>10. ReadsOrdered'
  <2>1. ASSUME NEW k \in Goroutines, k # g
        PROVE  /\ refresh'[k].agent = None => ~refresh'[k].stale /\ refresh'[k].older = {}
               /\ refresh'[k].agent # None => /\ refresh'[k].agent \in refresh'[k].owes
                                              /\ refresh'[k].verdict # "none"
               /\ \A h \in refresh'[k].older :
                    /\ refresh'[h].agent = refresh'[k].agent /\ k \notin refresh'[h].older
                    /\ refresh'[h].older \subseteq refresh'[k].older
    <3>1. refresh'[k] = refresh[k] BY <1>6, <2>1
    <3>2. \A h \in refresh[k].older : refresh'[h] = refresh[h] BY <1>6, <1>8
    <3> QED BY <3>1, <3>2 DEF BadgeInv, ReadsOrdered
  <2>2. ASSUME NEW h \in Reading(a)
        PROVE  /\ refresh'[h].agent = a /\ g \notin refresh'[h].older
               /\ refresh'[h].older \subseteq Reading(a)
    <3>1. h \in Goroutines /\ h # g /\ refresh[h].agent = a BY <1>7, <2>2 DEF Reading
    <3>2. refresh'[h] = refresh[h] BY <1>6, <3>1
    <3>3. \A k \in refresh[h].older : k \in Goroutines /\ refresh[k].agent = a
          BY <1>8, <3>1 DEF BadgeInv, ReadsOrdered
    <3> QED BY <1>8, <3>1, <3>2, <3>3 DEF Reading
  <2> QED BY <1>4, <1>5, <1>6, <2>1, <2>2 DEF ReadsOrdered
<1>11. Right(g, a)' BY <1>3, <1>5, <1>6, <1>7 DEF Right
<1>12. ASSUME NEW b \in Agents PROVE Believed(b)' /\ Covered(b)'
  <2>1. Truth(b)' = Truth(b) BY <1>3
  <2>2. b # a /\ Unread(b) => Unread(b)' BY <1>5, <1>6 DEF Unread
  <2>3. \A f \in Goroutines : Right(f, b) => Right(f, b)' /\ refresh'[f] = refresh[f]
        BY <1>5, <1>6, <2>1, ConstantsAssumption DEF Right
  <2>4. b = a => Right(g, b)' BY <1>11
  <2>5. Believed(b)' BY <1>2, <2>1, <2>2, <2>3, <2>4 DEF BadgeInv, Believed
  <2>6. Covered(b)'
    <3> SUFFICES ASSUME NEW h \in Goroutines, refresh'[h].agent = b, ~refresh'[h].stale,
                        refresh'[h].verdict # Truth(b)'
                 PROVE  Unread(b)' \/ \E f \in Goroutines : Right(f, b)' /\ h \in refresh'[f].older
        BY DEF Covered
    <3>1. h # g BY <1>5, <1>6, <2>1
    <3>2. refresh'[h] = refresh[h] BY <1>6, <3>1
    <3>3. CASE b = a
          BY <1>6, <2>4, <3>1, <3>2, <3>3 DEF Reading
    <3>4. CASE b # a
          BY <2>1, <2>2, <2>3, <3>2, <3>4 DEF BadgeInv, Covered
    <3> QED BY <3>3, <3>4
  <2> QED BY <2>5, <2>6
<1> QED BY <1>9, <1>10, <1>12 DEF BadgeInv

\* A goroutine that wrote or lost its read of one agent leaves the order of the others.
LEMMA DroppedKeepsOrder ==
  ASSUME ReadsOrdered, refresh \in [Goroutines -> Refresh], NEW g,
         g \in Goroutines => refresh'[g].agent = None /\ ~refresh'[g].stale /\ refresh'[g].older = {},
         \A h \in Goroutines \ {g} :
           /\ refresh'[h].agent = refresh[h].agent /\ refresh'[h].owes = refresh[h].owes
           /\ refresh'[h].older = refresh[h].older \ {g}
           /\ refresh'[h].verdict = refresh[h].verdict
           /\ refresh[h].agent = None => ~refresh'[h].stale
  PROVE  ReadsOrdered'
<1>1. ASSUME NEW k \in Goroutines, k # g
      PROVE  /\ refresh'[k].agent = None => ~refresh'[k].stale /\ refresh'[k].older = {}
             /\ refresh'[k].agent # None => /\ refresh'[k].agent \in refresh'[k].owes
                                            /\ refresh'[k].verdict # "none"
             /\ \A h \in refresh'[k].older :
                  /\ refresh'[h].agent = refresh'[k].agent /\ k \notin refresh'[h].older
                  /\ refresh'[h].older \subseteq refresh'[k].older
  <2>1. refresh[k].older \subseteq Goroutines BY DEF Refresh
  <2>2. \A h \in refresh'[k].older : h \in Goroutines \ {g} /\ h \in refresh[k].older
        BY <1>1, <2>1
  <2> QED BY <1>1, <2>2 DEF ReadsOrdered
<1> QED BY <1>1 DEF ReadsOrdered

\* A write that no newer read has overtaken leaves a badge that is right, or covered.
LEMMA WriteKeepsBadge ==
  ASSUME BadgeInv, NEW g \in Goroutines, WriteStatus(g) PROVE BadgeInv'
<1>0. SUFFICES ASSUME NEW r, NEW a, r = refresh[g], a = r.agent PROVE BadgeInv'
      OBVIOUS
<1>1. /\ refresh \in [Goroutines -> Refresh] /\ ReadsOrdered /\ a # None
      /\ agentStatus \in [Agents -> {"working", "idle"}]
      BY <1>0 DEF BadgeInv, StatusTypes, WriteStatus
<1>2. a \in Agents /\ a \in r.owes /\ r.verdict \in {"working", "idle"}
      BY <1>0, <1>1 DEF Refresh, ReadsOrdered
<1>3. UNCHANGED <<status, job>> BY DEF WriteStatus, vars, rows
<1>4. \A b \in Agents : Truth(b)' = Truth(b) BY <1>3 DEF Truth, ActiveOf, RowsIn
<1>5. /\ agentStatus' = [agentStatus EXCEPT ![a] = r.verdict]
      /\ excuses' = [excuses EXCEPT ![a] = IF r.stale THEN @ \cup {"stale"} ELSE {}]
      /\ refresh' = [h \in Goroutines |->
           IF h = g THEN [Rested EXCEPT !.owes = r.owes \ {a}]
           ELSE [refresh[h] EXCEPT !.stale = @ \/ h \in r.older, !.older = @ \ {g}]]
      BY <1>0 DEF WriteStatus
<1>6. /\ refresh'[g].owes = r.owes \ {a} /\ refresh'[g].agent = None
      /\ ~refresh'[g].stale /\ refresh'[g].older = {} /\ refresh'[g].verdict = "none"
      BY <1>5 DEF Rested
<1>7. ASSUME NEW h \in Goroutines \ {g}
      PROVE  /\ refresh'[h].agent = refresh[h].agent /\ refresh'[h].owes = refresh[h].owes
             /\ refresh'[h].older = refresh[h].older \ {g}
             /\ refresh'[h].verdict = refresh[h].verdict
             /\ refresh'[h].stale <=> refresh[h].stale \/ h \in r.older
             /\ refresh'[h] \in Refresh
  <2>1. refresh'[h] = [refresh[h] EXCEPT !.stale = @ \/ h \in r.older, !.older = @ \ {g}]
        BY <1>5
  <2>2. refresh[h] \in Refresh BY <1>1
  <2> QED BY <2>1, <2>2 DEF Refresh
<1>8. \A h \in r.older : h \in Goroutines /\ refresh[h].agent = a
      BY <1>0, <1>1 DEF Refresh, ReadsOrdered
<1>9. ReadsOrdered'
  <2>1. \A h \in Goroutines \ {g} : refresh[h].agent = None => ~refresh'[h].stale
        BY <1>1, <1>7, <1>8 DEF ReadsOrdered
  <2> QED BY <1>1, <1>6, <1>7, <2>1, DroppedKeepsOrder
<1>10. StatusTypes'
  <2>1. agentStatus' \in [Agents -> {"working", "idle"}] BY <1>1, <1>2, <1>5
  <2>2. excuses' \in [Agents -> SUBSET {"lost", "archived", "stale"}]
        BY <1>5 DEF BadgeInv, StatusTypes
  <2>3. r.owes \subseteq Agents BY <1>0, <1>1 DEF Refresh
  <2>4. refresh'[g] \in Refresh BY <1>5, <2>3 DEF Refresh, Rested
  <2>5. refresh' \in [Goroutines -> Refresh] BY <1>5, <1>7, <2>4
  <2> QED BY <2>1, <2>2, <2>5 DEF StatusTypes
<1>11. \A b \in Agents : Unread(b) => Unread(b)'
  <2> SUFFICES ASSUME NEW b \in Agents, NEW h \in Goroutines,
                      b \in refresh[h].owes, refresh[h].agent # b
               PROVE  b \in refresh'[h].owes /\ refresh'[h].agent # b
      BY DEF Unread
  <2>1. b # None BY ConstantsAssumption
  <2> QED BY <1>0, <1>6, <1>7, <2>1
<1>12. \A b \in Agents : \A f \in Goroutines :
         Right(f, b) /\ f # g /\ f \notin r.older => Right(f, b)'
       BY <1>4, <1>7 DEF Right
<1>13. g \notin r.older /\ \A f \in Goroutines : g \in refresh[f].older => f # g /\ f \notin r.older
       BY <1>0, <1>1 DEF ReadsOrdered
<1>14. Believed(a)'
  <2> SUFFICES ASSUME excuses'[a] = {}, r.verdict # Truth(a)
               PROVE  Unread(a)' \/ \E f \in Goroutines : Right(f, a)'
      BY <1>1, <1>2, <1>4, <1>5 DEF Believed
  <2>1. ~r.stale BY <1>2, <1>5 DEF BadgeInv, StatusTypes
  <2>2. Unread(a) \/ \E f \in Goroutines : Right(f, a) /\ g \in refresh[f].older
        BY <1>0, <1>2, <2>1 DEF BadgeInv, Covered
  <2> QED BY <1>2, <1>11, <1>12, <1>13, <2>2
<1>15. Covered(a)'
  <2> SUFFICES ASSUME NEW h \in Goroutines, refresh'[h].agent = a, ~refresh'[h].stale,
                      refresh'[h].verdict # Truth(a)'
               PROVE  Unread(a)' \/ \E f \in Goroutines : Right(f, a)' /\ h \in refresh'[f].older
      BY DEF Covered
  <2>1. h # g /\ refresh[h].agent = a /\ ~refresh[h].stale /\ h \notin r.older
        /\ refresh[h].verdict # Truth(a)
        BY <1>1, <1>2, <1>4, <1>6, <1>7
  <2>2. CASE Unread(a) BY <1>2, <1>11, <2>2
  <2>3. CASE \E f \in Goroutines : Right(f, a) /\ h \in refresh[f].older
    <3>1. PICK f \in Goroutines : Right(f, a) /\ h \in refresh[f].older BY <2>3
    <3>2. f # g /\ f \notin r.older BY <1>0, <1>1, <2>1, <3>1 DEF ReadsOrdered
    <3> QED BY <1>2, <1>7, <1>12, <2>1, <3>1, <3>2
  <2> QED BY <1>2, <2>1, <2>2, <2>3 DEF BadgeInv, Covered
<1>16. ASSUME NEW b \in Agents, b # a PROVE Believed(b)' /\ Covered(b)'
  <2>1. agentStatus'[b] = agentStatus[b] /\ excuses'[b] = excuses[b]
        BY <1>1, <1>5, <1>16 DEF BadgeInv, StatusTypes
  <2>2. \A f \in Goroutines : refresh[f].agent = b => f # g /\ f \notin r.older
        BY <1>0, <1>8, <1>16
  <2>3. \A f \in Goroutines : Right(f, b) => Right(f, b)' /\ f # g
        BY <1>12, <2>2 DEF Right
  <2>4. Believed(b)' BY <1>4, <1>11, <2>1, <2>3 DEF BadgeInv, Believed
  <2>5. Covered(b)'
    <3> SUFFICES ASSUME NEW h \in Goroutines, refresh'[h].agent = b, ~refresh'[h].stale,
                        refresh'[h].verdict # Truth(b)'
                 PROVE  Unread(b)' \/ \E f \in Goroutines : Right(f, b)' /\ h \in refresh'[f].older
        BY DEF Covered
    <3>1. h # g BY <1>6, ConstantsAssumption
    <3>2. refresh[h].agent = b /\ ~refresh[h].stale /\ refresh[h].verdict # Truth(b)
          BY <1>4, <1>7, <3>1
    <3>3. Unread(b) \/ \E f \in Goroutines : Right(f, b) /\ h \in refresh[f].older
          BY <3>2 DEF BadgeInv, Covered
    <3> QED BY <1>7, <1>11, <2>3, <3>1, <3>3
  <2> QED BY <2>4, <2>5
<1> QED BY <1>9, <1>10, <1>14, <1>15, <1>16 DEF BadgeInv

\* A goroutine that gives up refreshes of agents that it or nobody has read since.
LEMMA NeglectKeepsBadge ==
  ASSUME BadgeInv, NEW g \in Goroutines \cup {None}, NEW A \in SUBSET Agents,
         NEW why \in {"lost", "archived"}, Neglect(g, A, why),
         g \in Goroutines => refresh[g].agent \in A \cup {None},
         \A a \in Agents : a \notin A => Truth(a)' = Truth(a)
  PROVE  BadgeInv'
<1>1. /\ refresh \in [Goroutines -> Refresh] /\ ReadsOrdered /\ UNCHANGED agentStatus
      /\ excuses \in [Agents -> SUBSET {"lost", "archived", "stale"}]
      /\ excuses' = [a \in Agents |-> IF a \in A THEN excuses[a] \cup {why} ELSE excuses[a]]
      /\ refresh' = [h \in Goroutines |->
           IF h = g THEN [Rested EXCEPT !.owes = refresh[g].owes \ A]
           ELSE [refresh[h] EXCEPT !.stale = @ \/ refresh[h].agent \in A, !.older = @ \ {g}]]
      BY DEF BadgeInv, StatusTypes, Neglect
<1>2. g \in Goroutines =>
        /\ refresh'[g].owes = refresh[g].owes \ A /\ refresh'[g].agent = None
        /\ ~refresh'[g].stale /\ refresh'[g].older = {} /\ refresh'[g].verdict = "none"
      BY <1>1 DEF Rested
<1>3. ASSUME NEW h \in Goroutines \ {g}
      PROVE  /\ refresh'[h].agent = refresh[h].agent /\ refresh'[h].owes = refresh[h].owes
             /\ refresh'[h].older = refresh[h].older \ {g}
             /\ refresh'[h].verdict = refresh[h].verdict
             /\ refresh'[h].stale <=> refresh[h].stale \/ refresh[h].agent \in A
             /\ refresh'[h] \in Refresh
  <2>1. refresh'[h] = [refresh[h] EXCEPT !.stale = @ \/ refresh[h].agent \in A, !.older = @ \ {g}]
        BY <1>1
  <2>2. refresh[h] \in Refresh BY <1>1
  <2> QED BY <2>1, <2>2 DEF Refresh
<1>4. None \notin A BY ConstantsAssumption
<1>5. ReadsOrdered'
  <2>1. ASSUME NEW h \in Goroutines \ {g}, refresh[h].agent = None PROVE ~refresh'[h].stale
    <3>1. ~refresh[h].stale BY <1>1, <2>1 DEF ReadsOrdered
    <3> QED BY <1>3, <1>4, <2>1, <3>1
  <2> QED BY <1>1, <1>2, <1>3, <2>1, DroppedKeepsOrder
<1>6. StatusTypes'
  <2>1. excuses' \in [Agents -> SUBSET {"lost", "archived", "stale"}] BY <1>1
  <2>2. g \in Goroutines => refresh[g].owes \subseteq Agents BY <1>1 DEF Refresh
  <2>3. g \in Goroutines => refresh'[g] \in Refresh BY <1>1, <2>2 DEF Refresh, Rested
  <2>4. refresh' \in [Goroutines -> Refresh] BY <1>1, <1>3, <2>3
  <2> QED BY <1>1, <2>1, <2>4 DEF BadgeInv, StatusTypes
<1>7. ASSUME NEW a \in A PROVE Believed(a)' /\ Covered(a)'
  <2>1. excuses'[a] # {} BY <1>1
  <2>2. \A h \in Goroutines : refresh'[h].agent = a => refresh'[h].stale BY <1>2, <1>3, <1>4
  <2> QED BY <2>1, <2>2 DEF Believed, Covered
<1>8. ASSUME NEW b \in Agents \ A PROVE Believed(b)' /\ Covered(b)'
  <2>1. excuses'[b] = excuses[b] /\ Truth(b)' = Truth(b) /\ b # None
        BY <1>1, ConstantsAssumption
  <2>2. \A h \in Goroutines : refresh[h].agent = b => h # g BY <2>1
  <2>3. Unread(b) => Unread(b)'
    <3> SUFFICES ASSUME NEW h \in Goroutines, b \in refresh[h].owes, refresh[h].agent # b
                 PROVE  b \in refresh'[h].owes /\ refresh'[h].agent # b
        BY DEF Unread
    <3> QED BY <1>2, <1>3, <2>1
  <2>4. \A f \in Goroutines : Right(f, b) => Right(f, b)' /\ f # g
        BY <1>3, <2>1, <2>2 DEF Right
  <2>5. Believed(b)' BY <1>1, <2>1, <2>3, <2>4 DEF BadgeInv, Believed
  <2>6. Covered(b)'
    <3> SUFFICES ASSUME NEW h \in Goroutines, refresh'[h].agent = b, ~refresh'[h].stale,
                        refresh'[h].verdict # Truth(b)'
                 PROVE  Unread(b)' \/ \E f \in Goroutines : Right(f, b)' /\ h \in refresh'[f].older
        BY DEF Covered
    <3>1. h # g BY <1>2, <2>1
    <3>2. refresh[h].agent = b /\ ~refresh[h].stale /\ refresh[h].verdict # Truth(b)
          BY <1>3, <2>1, <3>1
    <3>3. Unread(b) \/ \E f \in Goroutines : Right(f, b) /\ h \in refresh[f].older
          BY <3>2 DEF BadgeInv, Covered
    <3> QED BY <1>3, <2>3, <2>4, <3>1, <3>3
  <2> QED BY <2>5, <2>6
<1> QED BY <1>5, <1>6, <1>7, <1>8 DEF BadgeInv

\* A restart of the server loses every refresh that is owed.
LEMMA CrashKeepsBadge ==
  ASSUME BadgeInv, CrashWithRefreshes, \A a \in Agents : Truth(a)' = Truth(a) PROVE BadgeInv'
<1>1. /\ refresh \in [Goroutines -> Refresh] /\ ReadsOrdered /\ UNCHANGED agentStatus
      /\ refresh' = [g \in Goroutines |-> Rested]
      /\ excuses' = [a \in Agents |-> IF \E g \in Goroutines : a \in refresh[g].owes
                                      THEN excuses[a] \cup {"lost"} ELSE excuses[a]]
      BY DEF BadgeInv, StatusTypes, CrashWithRefreshes
<1>2. \A g \in Goroutines :
        /\ refresh'[g].owes = {} /\ refresh'[g].agent = None /\ ~refresh'[g].stale
        /\ refresh'[g].older = {} /\ refresh'[g].verdict = "none" /\ refresh'[g] \in Refresh
      BY <1>1 DEF Rested, Refresh
<1>3. StatusTypes'
  <2>1. excuses' \in [Agents -> SUBSET {"lost", "archived", "stale"}]
        BY <1>1 DEF BadgeInv, StatusTypes
  <2> QED BY <1>1, <1>2, <2>1 DEF BadgeInv, StatusTypes
<1>4. ReadsOrdered' BY <1>2 DEF ReadsOrdered
<1>5. ASSUME NEW a \in Agents PROVE Believed(a)' /\ Covered(a)'
  <2>1. a # None BY ConstantsAssumption
  <2>2. Covered(a)' BY <1>2, <2>1 DEF Covered
  <2>3. ASSUME excuses'[a] = {} PROVE agentStatus'[a] = Truth(a)'
    <3>1. excuses[a] = {} /\ ~\E g \in Goroutines : a \in refresh[g].owes BY <1>1, <2>3
    <3>2. ~Unread(a) /\ ~\E f \in Goroutines : Right(f, a)
          BY <1>1, <2>1, <3>1 DEF Unread, Right, ReadsOrdered
    <3> QED BY <1>1, <3>1, <3>2 DEF BadgeInv, Believed
  <2> QED BY <2>2, <2>3 DEF Believed
<1> QED BY <1>3, <1>4, <1>5 DEF BadgeInv

\* What a step moves, for the badge: the rows of agent a go on as active or not.
ActivityKept(a) ==
  \A t \in Tasks : job[t].agent = a => (status'[t] \in Active <=> status[t] \in Active)

\* Then the badge of a is right if it was.
LEMMA TruthKept ==
  ASSUME TypeOK, TypeOK', LaneInv, [Next]_vars, NEW a, ActivityKept(a)
  PROVE  Truth(a)' = Truth(a)
<1>1. JobsKept BY StepKept
<1>2. ASSUME NEW t \in Tasks, status[t] \in Active, job[t].agent = a
      PROVE  status'[t] \in Active /\ job'[t].agent = a
      BY <1>1, <1>2 DEF JobsKept, Active, ActivityKept
<1>3. ASSUME NEW t \in Tasks, status'[t] \in Active, job'[t].agent = a
      PROVE  status[t] \in Active /\ job[t].agent = a
  <2>1. status[t] # "absent" BY <1>3, ActiveMoves DEF Active
  <2> QED BY <1>1, <1>3, <2>1 DEF JobsKept, ActivityKept
<1>4. ActiveOf(a)' = ActiveOf(a) BY <1>2, <1>3 DEF ActiveOf, RowsIn
<1> QED BY <1>4 DEF Truth

\* Inserts, and updates of a row that stays active.
LEMMA InsertActivity ==
  ASSUME TypeOK, NEW t \in Tasks, NEW j, InsertRow(t, j) PROVE \A a : ActivityKept(a)
<1>1. \A u \in Tasks : status'[u] = IF u = t THEN "queued" ELSE status[u]
      BY DEF InsertRow, TypeOK, RowsOK
<1> QED BY <1>1 DEF InsertRow, ActivityKept, Active

LEMMA SameActivity == status' = status => \A a : ActivityKept(a)
  BY DEF ActivityKept

LEMMA MoveActivity ==
  ASSUME TypeOK, NEW t \in Tasks, NEW s \in Active, status[t] \in Active,
         status' = [status EXCEPT ![t] = s]
  PROVE  \A a : ActivityKept(a)
<1> QED BY DEF ActivityKept, TypeOK, RowsOK

\* The end of rows of agents A.
LEMMA FinishActivity ==
  ASSUME NEW S, NEW to, NEW why, NEW A, Finish(S, to, why),
         \A t \in S \cap Tasks : job[t].agent \in A
  PROVE  \A a : a \notin A => ActivityKept(a)
<1> QED BY DEF Finish, ActivityKept

\* Steps elsewhere claim and end no row.
LEMMA ElsewhereActivity ==
  ASSUME TypeOK, Elsewhere PROVE (\A a : ActivityKept(a)) /\ UNCHANGED statusVars
<1>1. ASSUME NEW tpl \in Templates, Enqueue(tpl) PROVE \A a : ActivityKept(a)
      BY <1>1, InsertActivity DEF Enqueue
<1>2. ASSUME NEW t \in Tasks, StartTask(t) \/ MarkTaskWaitingLocalDirectory(t)
      PROVE  \A a : ActivityKept(a)
      BY <1>2, MoveActivity DEF StartTask, MarkTaskWaitingLocalDirectory, Active
<1>3. ASSUME NEW t \in Tasks, Tick(t) \/ AgentStartsIssue(t) PROVE \A a : ActivityKept(a)
      BY <1>3, SameActivity DEF Tick, AgentStartsIssue, rows
<1>4. ASSUME NEW r \in Runtimes, NEW graceful,
             DaemonRegister(r) \/ RecoverLost(r) \/ Heartbeat(r) \/ DaemonExit(r, graceful)
      PROVE  \A a : ActivityKept(a)
      BY <1>4, SameActivity DEF DaemonRegister, RecoverLost, Heartbeat, DaemonExit, rows
<1> QED BY <1>1, <1>2, <1>3, <1>4 DEF Elsewhere

\* So do the post-commit steps of a handler.
LEMMA AfterCommitActivity ==
  ASSUME TypeOK, NEW w \in Workers, AfterCommit(w) PROVE \A a : ActivityKept(a)
<1>1. CASE EnqueueRerun(w) \/ MaybeRetryFailedTask(w)
      BY <1>1, SameActivity, InsertActivity DEF EnqueueRerun, MaybeRetryFailedTask, rows
<1>2. CASE CheckIssue(w) \/ HasActiveTaskForIssue(w) \/ ResetIssue(w)
      BY <1>2, SameActivity DEF CheckIssue, HasActiveTaskForIssue, ResetIssue, rows
<1> QED BY <1>1, <1>2 DEF AfterCommit

\* A claim request: the agent whose row it claims is the one it refreshes.
LEMMA ClaimKeepsBadge ==
  ASSUME TypeOK, TypeOK', LaneInv, OverlapInv, [Next]_vars, BadgeInv,
         NEW p \in Polls, ClaimStep(p)
  PROVE  BadgeInv'
<1>1. p \in Goroutines BY DEF Goroutines
<1>2. CASE ClaimCommit(p) /\ ClaimOwes(p)
  <2>1. /\ poll[p].task \in Tasks /\ job[poll[p].task].agent = poll[p].agent
        /\ status' = [status EXCEPT ![poll[p].task] = "dispatched"]
        BY <1>2 DEF ClaimCommit, LaneInv, ClaimingQueuedRow, RowsIn, OverlapInv, ClaimsOwn
  <2>2. poll[p].agent \in Agents BY <2>1 DEF TypeOK, RowsOK, Job
  <2>3. \A a : a \notin {poll[p].agent} => ActivityKept(a)
        BY <2>1 DEF ActivityKept, TypeOK, RowsOK
  <2>4. \A a \in Agents : a \notin {poll[p].agent} => Truth(a)' = Truth(a)
        BY <2>3, TruthKept
  <2> QED BY <1>1, <1>2, <2>2, <2>4, OweKeepsBadge DEF ClaimOwes
<1>3. CASE RejectClaim(p) /\ BatchOwes(p)
      BY <1>1, <1>3, ReturnedAgents, OthersKeepActive, OweKeepsBadge DEF BatchOwes
<1>4. CASE LoseClaim(p) /\ Neglect(p, refresh[p].owes, "lost")
  <2>1. status' = status BY <1>4 DEF LoseClaim, rows
  <2>2. \A a \in Agents : Truth(a)' = Truth(a) BY <2>1, SameActivity, TruthKept
  <2>3. /\ refresh[p].owes \in SUBSET Agents
        /\ refresh[p].agent \in refresh[p].owes \cup {None}
        BY <1>1 DEF BadgeInv, StatusTypes, Refresh, ReadsOrdered
  <2> QED BY <1>1, <1>4, <2>2, <2>3, NeglectKeepsBadge
<1>5. CASE /\ \/ \E r \in Runtimes : Reclaim(p, r) \/ ListCandidates(p, r)
              \/ CountRunning(p) \/ ClaimSelect(p) \/ Deliver(p)
           /\ Owe(p, {})
  <2>1. status' = status
        BY <1>5 DEF Reclaim, ListCandidates, CountRunning, ClaimSelect, Deliver, rows
  <2>2. \A a \in Agents : Truth(a)' = Truth(a) BY <2>1, SameActivity, TruthKept
  <2> QED BY <1>1, <1>5, <2>2, OweKeepsBadge
<1> QED BY <1>2, <1>3, <1>4, <1>5 DEF ClaimStep

\* A handler that ends one row refreshes its agent.
LEMMA EndKeepsBadge ==
  ASSUME TypeOK, TypeOK', LaneInv, [Next]_vars, BadgeInv, NEW w \in Goroutines,
         NEW t \in Tasks, NEW to, NEW why, Finish({t}, to, why), EndOwes(w, t)
  PROVE  BadgeInv'
<1>1. job[t].agent \in Agents BY DEF TypeOK, RowsOK, Job
<1>2. \A a : a \notin {job[t].agent} => ActivityKept(a) BY FinishActivity
<1>3. \A a \in Agents : a \notin {job[t].agent} => Truth(a)' = Truth(a) BY <1>2, TruthKept
<1> QED BY <1>1, <1>3, OweKeepsBadge DEF EndOwes

\* One that ends a batch refreshes the agents of the rows it got back.
LEMMA BatchKeepsBadge ==
  ASSUME TypeOK, TypeOK', LaneInv, [Next]_vars, BadgeInv, NEW w \in Goroutines, BatchOwes(w)
  PROVE  BadgeInv'
  BY ReturnedAgents, OthersKeepActive, OweKeepsBadge DEF BatchOwes

\* Archiving an agent excuses its badge.
LEMMA ArchiveKeepsBadge ==
  ASSUME TypeOK, TypeOK', LaneInv, [Next]_vars, BadgeInv, NEW a \in Agents, ArchiveAgent(a)
  PROVE  BadgeInv'
<1>1. Neglect(None, {a}, "archived") /\ None \notin Goroutines
      BY GoroutinesAssumption DEF ArchiveAgent
<1>2. PICK S : S = {t \in Tasks : job[t].agent = a} /\ CancelTasks(S) BY DEF ArchiveAgent
<1>3. \A b : b \notin {a} => ActivityKept(b)
      BY <1>2, FinishActivity DEF CancelTasks
<1>4. \A b \in Agents : b \notin {a} => Truth(b)' = Truth(b) BY <1>3, TruthKept
<1> QED BY <1>1, <1>4, NeglectKeepsBadge

\* Every step of the queue leaves each badge right, excused or about to be refreshed.
LEMMA QueueStepKeepsBadge ==
  ASSUME TypeOK, TypeOK', LaneInv, OverlapInv, [Next]_vars, BadgeInv, QueueStep
  PROVE  BadgeInv'
<1>1. CASE Elsewhere
  <2>1. \A a \in Agents : Truth(a)' = Truth(a) BY <1>1, ElsewhereActivity, TruthKept
  <2> QED BY <1>1, <2>1, ElsewhereActivity, StillKeepsBadge
<1>2. CASE Sweep /\ BatchOwes(Sweeper)
      BY <1>2, BatchKeepsBadge DEF Goroutines, Workers
<1>3. ASSUME NEW p \in Polls, ClaimStep(p) PROVE BadgeInv'
      BY <1>3, ClaimKeepsBadge
<1>4. ASSUME NEW w \in Workers, EndingRequest(w) PROVE BadgeInv'
  <2>1. w \in Goroutines BY DEF Goroutines
  <2>2. CASE BatchOwes(w)
        BY <2>1, <2>2, BatchKeepsBadge
  <2>3. ASSUME NEW t \in Tasks, CompleteTask(t), EndOwes(w, t) PROVE BadgeInv'
        BY <2>1, <2>3, EndKeepsBadge DEF CompleteTask
  <2>4. ASSUME NEW t \in Tasks, NEW why, FailTask(w, t, why), EndOwes(w, t) PROVE BadgeInv'
        BY <2>1, <2>4, EndKeepsBadge DEF FailTask
  <2> QED BY <1>4, <2>2, <2>3, <2>4 DEF EndingRequest
<1>5. ASSUME NEW w \in Workers, AfterCommit(w) PROVE BadgeInv'
  <2>1. \A a \in Agents : Truth(a)' = Truth(a) BY <1>5, AfterCommitActivity, TruthKept
  <2>2. w \in Goroutines BY DEF Goroutines
  <2>3. CASE Owe(w, {})
        BY <2>1, <2>2, <2>3, OweKeepsBadge
  <2>4. CASE UNCHANGED statusVars
        BY <2>1, <2>4, StillKeepsBadge
  <2> QED BY <1>5, <2>3, <2>4 DEF AfterCommit
<1>6. ASSUME NEW a \in Agents, ArchiveAgent(a) PROVE BadgeInv'
      BY <1>6, ArchiveKeepsBadge
<1> QED BY <1>1, <1>2, <1>3, <1>4, <1>5, <1>6 DEF QueueStep

LEMMA BadgeStep ==
  ASSUME TypeOK, TypeOK', LaneInv, OverlapInv, BadgeInv, [StatusNext]_<<vars, statusVars>>
  PROVE  BadgeInv'
<1>1. [Next]_vars BY StatusStepIsStep
<1>3. CASE QueueStep
      BY <1>1, <1>3, QueueStepKeepsBadge
<1>4. CASE CrashWithRefreshes
  <2>1. status' = status BY <1>4 DEF CrashWithRefreshes, ServerCrash, rows
  <2>2. \A a \in Agents : Truth(a)' = Truth(a) BY <1>1, <2>1, SameActivity, TruthKept
  <2> QED BY <1>4, <2>2, CrashKeepsBadge
<1>5. ASSUME NEW g \in Goroutines, ReadQueue(g) \/ WriteStatus(g) PROVE BadgeInv'
      BY <1>5, ReadKeepsBadge, WriteKeepsBadge
<1>6. ASSUME NEW g \in Goroutines, LoseRefresh(g) PROVE BadgeInv'
  <2>1. UNCHANGED vars BY <1>6 DEF LoseRefresh
  <2>2. \A a \in Agents : Truth(a)' = Truth(a)
        BY <1>1, <2>1, SameActivity, TruthKept DEF vars, rows
  <2>3. PICK a \in refresh[g].owes : refresh[g].agent \in {None, a} /\ Neglect(g, {a}, "lost")
        BY <1>6 DEF LoseRefresh
  <2>4. a \in Agents BY <2>3 DEF BadgeInv, StatusTypes, Refresh
  <2> QED BY <2>2, <2>3, <2>4, NeglectKeepsBadge
<1>7. CASE UNCHANGED <<vars, statusVars>>
  <2>1. \A a \in Agents : Truth(a)' = Truth(a)
        BY <1>1, <1>7, SameActivity, TruthKept DEF vars, rows
  <2> QED BY <1>7, <2>1, StillKeepsBadge
<1> QED BY <1>3, <1>4, <1>5, <1>6, <1>7 DEF StatusNext

LEMMA BadgeInit == StatusInit => BadgeInv
<1> SUFFICES ASSUME StatusInit PROVE BadgeInv OBVIOUS
<1>1. \A g \in Goroutines :
        /\ refresh[g].owes = {} /\ refresh[g].agent = None /\ ~refresh[g].stale
        /\ refresh[g].older = {} /\ refresh[g].verdict = "none" /\ refresh[g] \in Refresh
      BY DEF StatusInit, Rested, Refresh
<1>2. StatusTypes BY <1>1 DEF StatusInit, StatusTypes
<1>3. ReadsOrdered BY <1>1 DEF ReadsOrdered
<1>4. ASSUME NEW a \in Agents PROVE Believed(a) /\ Covered(a)
  <2>1. a # None BY ConstantsAssumption
  <2>2. ActiveOf(a) = {} BY DEF StatusInit, Init, ActiveOf, RowsIn, Active
  <2>3. agentStatus[a] = Truth(a) BY <2>2 DEF StatusInit, Truth
  <2> QED BY <1>1, <2>1, <2>3 DEF Believed, Covered
<1> QED BY <1>2, <1>3, <1>4 DEF BadgeInv

\* However many goroutines refresh the badge of an agent at once, and whichever of them
\* reads or writes first: a badge that disagrees with the queue is owed a refresh, or the
\* reason why none corrects it is one of those that are noted.  (ReconcileAgentStatus and
\* the handlers that call it.)
THEOREM BadgeCorrect == StatusSpec => []BadgeOwedOrRight
<1>1. StatusInit => Init /\ BadgeInv BY BadgeInit DEF StatusInit
<1>2. [StatusNext]_<<vars, statusVars>> => [Next]_vars BY StatusStepIsStep
<1>3. StatusSpec => Spec BY <1>1, <1>2, PTL DEF StatusSpec, Spec
<1>4. TypeOK /\ TypeOK' /\ LaneInv /\ OverlapInv /\ BadgeInv /\ [StatusNext]_<<vars, statusVars>>
        => BadgeInv'
      BY BadgeStep
<1>5. BadgeInv => BadgeOwedOrRight
  <2> SUFFICES ASSUME BadgeInv, NEW a \in Agents, Mismatch(a), excuses[a] = {}
               PROVE  OwesRefresh(a)
      BY DEF BadgeOwedOrRight
  <2>1. agentStatus[a] # Truth(a) BY DEF Mismatch, Truth
  <2>2. Unread(a) \/ \E f \in Goroutines : Right(f, a) BY <2>1 DEF BadgeInv, Believed
  <2>3. a # None BY ConstantsAssumption
  <2> QED BY <2>2, <2>3 DEF OwesRefresh, Unread, Right, BadgeInv, ReadsOrdered
<1> QED BY <1>1, <1>3, <1>4, <1>5, TypeCorrect, LanesCorrect, OverlapCorrect, PTL DEF StatusSpec

=============================================================================
