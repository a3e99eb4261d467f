---------------------------- MODULE AgentStatus ----------------------------
(***************************************************************************)
(* agent.status, the badge "working" / "idle" derived from the task queue. *)
(* A goroutine of the server that claimed or ended rows calls              *)
(* ReconcileAgentStatus for their agents - at the place in its handler     *)
(* where the code calls it, and only if the code does.  The call is one    *)
(* UPDATE under READ COMMITTED: its EXISTS subquery reads the statement's  *)
(* snapshot, its write waits for the agent row and is not re-evaluated on  *)
(* a newer queue, so the read and the write are two actions, and those of  *)
(* different goroutines overlap in any way.                                *)
(*                                                                         *)
(* The steps are those of TaskQueue, each with what its goroutine then     *)
(* owes.  A goroutine does its refreshes before its next statement.        *)
(***************************************************************************)
EXTENDS TaskQueue

Goroutines == Polls \cup Workers

ASSUME GoroutinesAssumption == Polls \cap Workers = {} /\ None \notin Goroutines

VARIABLES
  agentStatus,
  refresh,   \* per goroutine: the agents it owes a refresh, and the one it is about
  excuses    \* per agent: why its badge may be wrong with no refresh owed

statusVars == <<agentStatus, refresh, excuses>>

\* older and stale are bookkeeping: the goroutines whose read of the same agent is older
\* and not written yet, and whether a newer read was written, or an excuse arose, since.
Rested == [owes |-> {}, agent |-> None, verdict |-> "none", older |-> {}, stale |-> FALSE]

StatusInit ==
  /\ Init
  /\ agentStatus = [a \in Agents |-> "idle"]
  /\ refresh = [g \in Goroutines |-> Rested]
  /\ excuses = [a \in Agents |-> {}]

-----------------------------------------------------------------------------
(* What a step of the queue leaves to do *)

\* The agents of the rows a statement returns to its handler.
Returned == {job[t].agent : t \in {u \in Tasks : status'[u] # status[u]}}

Owe(g, A) ==
  /\ refresh[g] = Rested
  /\ refresh' = [refresh EXCEPT ![g].owes = A]
  /\ UNCHANGED <<agentStatus, excuses>>

\* Goroutine g, if it is one, will not refresh the badges of A, for a reason that is noted.
Neglect(g, A, why) ==
  /\ excuses' = [a \in Agents |-> IF a \in A THEN excuses[a] \cup {why} ELSE excuses[a]]
  /\ refresh' = [h \in Goroutines |->
       IF h = g THEN [Rested EXCEPT !.owes = refresh[g].owes \ A]
       ELSE [refresh[h] EXCEPT !.stale = @ \/ refresh[h].agent \in A, !.older = @ \ {g}]]
  /\ UNCHANGED agentStatus

\* Mutant of ClaimOwes: a claim refreshes nothing.
ClaimOwesNothing(p) == Owe(p, {})

\* ClaimTask, after ClaimAgentTask and before its row is looked at.
ClaimOwes(p) == Owe(p, {poll[p].agent})

\* CompleteTask, FailTask: the agent of the row.
EndOwes(w, t) == Owe(w, {job[t].agent})

\* HandleFailedTasks (affectedAgents), CancelTask, CancelTasksFor..., RerunIssue,
\* BroadcastCancelledTasks: the agents of the rows that were returned.
BatchOwes(w) == Owe(w, Returned)

\* A claim request: its other steps, its loss with the request's context, its refusal.
ClaimStep(p) ==
  \/ ClaimCommit(p) /\ ClaimOwes(p)
  \/ RejectClaim(p) /\ BatchOwes(p)
  \/ LoseClaim(p) /\ Neglect(p, refresh[p].owes, "lost")
  \/ /\ \/ \E r \in Runtimes : Reclaim(p, r) \/ ListCandidates(p, r)
        \/ CountRunning(p) \/ ClaimSelect(p) \/ Deliver(p)
     /\ Owe(p, {})

\* A request that ends rows.
EndingRequest(w) ==
  /\ w \in Requests /\ worker[w] = IdleWorker
  /\ \/ \E t \in Tasks : CompleteTask(t) /\ EndOwes(w, t)
     \/ \E t \in Tasks, why \in {"agent_error", "codex_semantic_inactivity"} :
          FailTask(w, t, why) /\ EndOwes(w, t)
     \/ \E S \in CancelScopes : CancelTasks(S) /\ BatchOwes(w)
     \/ \E tpl \in Templates : RerunIssue(w, tpl) /\ BatchOwes(w)
     \/ \E r \in Runtimes :
          (RecoverOrphanedTasks(w, r) \/ ReregisterWorkspace(w, r)) /\ BatchOwes(w)

\* ArchiveAgent cancels the agent's rows and calls CaptureCancelledTasks, which refreshes
\* nothing.
ArchiveAgent(a) ==
  /\ CancelTasks({t \in Tasks : job[t].agent = a})
  /\ Neglect(None, {a}, "archived")

\* The rest of a handler.  The refreshes of a batch come after its last row, those of
\* RerunIssue before the new row.
AfterCommit(w) ==
  \/ EnqueueRerun(w) /\ Owe(w, {})
  \/ /\ \/ MaybeRetryFailedTask(w) \/ CheckIssue(w) \/ HasActiveTaskForIssue(w)
        \/ ResetIssue(w)
     /\ UNCHANGED statusVars

\* Steps that claim and end no row.
Elsewhere ==
  /\ \/ \E tpl \in Templates : Enqueue(tpl)
     \/ \E t \in Tasks : \/ Tick(t) \/ StartTask(t) \/ MarkTaskWaitingLocalDirectory(t)
                         \/ AgentStartsIssue(t)
     \/ \E r \in Runtimes : \/ DaemonRegister(r) \/ RecoverLost(r) \/ Heartbeat(r)
                            \/ \E graceful \in BOOLEAN : DaemonExit(r, graceful)
  /\ UNCHANGED statusVars

QueueStep ==
  \/ Elsewhere
  \/ Sweep /\ BatchOwes(Sweeper)
  \/ \E p \in Polls : ClaimStep(p)
  \/ \E w \in Workers : EndingRequest(w) \/ AfterCommit(w)
  \/ \E a \in Agents : ArchiveAgent(a)

-----------------------------------------------------------------------------
(* RefreshAgentStatusFromTasks *)

Reading(a) == {g \in Goroutines : refresh[g].agent = a}

\* The EXISTS subquery.
ReadQueue(g) ==
  /\ refresh[g].agent = None
  /\ g \in Workers => worker[g].pc \in {"idle", "enqueue"}
  /\ \E a \in refresh[g].owes :
       refresh' = [refresh EXCEPT ![g] = [@ EXCEPT !.agent = a, !.older = Reading(a),
                     !.verdict = IF ActiveOf(a) # {} THEN "working" ELSE "idle"]]
  /\ UNCHANGED <<vars, agentStatus, excuses>>

\* The write to the agent row: a verdict that is stale is written all the same.
WriteStatus(g) ==
  LET r == refresh[g]
      a == r.agent
  IN /\ a # None
     /\ agentStatus' = [agentStatus EXCEPT ![a] = r.verdict]
     /\ excuses' = [excuses EXCEPT ![a] = IF r.stale THEN @ \cup {"stale"} ELSE {}]
     /\ refresh' = [h \in Goroutines |->
          IF h = g THEN [Rested EXCEPT !.owes = r.owes \ {a}]
          ELSE [refresh[h] EXCEPT !.stale = @ \/ h \in r.older, !.older = @ \ {g}]]
     /\ UNCHANGED vars

\* The UPDATE fails, or its request is cancelled: ReconcileAgentStatus returns silently.
LoseRefresh(g) ==
  /\ \E a \in refresh[g].owes :
       refresh[g].agent \in {None, a} /\ Neglect(g, {a}, "lost")
  /\ UNCHANGED vars

\* A server restart takes the goroutines and the refreshes they owe.
CrashWithRefreshes ==
  /\ ServerCrash
  /\ refresh' = [g \in Goroutines |-> Rested]
  /\ excuses' = [a \in Agents |-> IF \E g \in Goroutines : a \in refresh[g].owes
                                  THEN excuses[a] \cup {"lost"} ELSE excuses[a]]
  /\ UNCHANGED agentStatus

StatusNext ==
  \/ QueueStep \/ CrashWithRefreshes
  \/ \E g \in Goroutines : ReadQueue(g) \/ WriteStatus(g) \/ LoseRefresh(g)

StatusSpec == StatusInit /\ [][StatusNext]_<<vars, statusVars>>

-----------------------------------------------------------------------------
(* Properties *)

Mismatch(a) == (agentStatus[a] = "working") # (ActiveOf(a) # {})
OwesRefresh(a) == \E g \in Goroutines : a \in refresh[g].owes

\* No handler but ArchiveAgent forgets its refresh: a badge that disagrees with the queue
\* is about to be corrected - after claims, completions, failures, cancels, reruns, sweeps
\* and orphan reports, with refreshes of any number of goroutines overlapping - unless a
\* restart or a failed statement lost the refresh, the agent was archived, or a refresh
\* wrote after another that had read later.  The next refresh that reads after the cause
\* ends the excuse.
BadgeOwedOrRight == \A a \in Agents : Mismatch(a) => OwesRefresh(a) \/ excuses[a] # {}

-----------------------------------------------------------------------------
(* What the repository says of the badge and the code does not do *)

\* task.go, ClaimTask: refreshing from the active tasks "avoids a stale unconditional
\* working write racing after a just-cancelled claim".
NoStaleWorking ==
  \A a \in Agents : agentStatus[a] = "working" /\ ActiveOf(a) = {} =>
                      OwesRefresh(a) \/ excuses[a] \cap {"lost", "archived"} # {}

\* task.go, CancelTasksForIssue: "cancel rows and return [...] left the agent stuck at
\* status=working indefinitely".
CancelsRefresh ==
  \A a \in Agents : agentStatus[a] = "working" /\ ActiveOf(a) = {} =>
                      OwesRefresh(a) \/ excuses[a] \cap {"lost", "stale"} # {}
=============================================================================
