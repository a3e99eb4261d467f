--------------------------- MODULE SchedulerLease ---------------------------
(***************************************************************************)
(* The database-leased scheduler (server/internal/scheduler): every server *)
(* instance ticks the registered jobs, and the rows of sys_cron_executions *)
(* are both the lease that lets one instance run a plan and its audit log. *)
(*                                                                         *)
(* One job with one scope: rows of other jobs and scopes are never read or *)
(* written for it.  A plan is numbered by its bucket, plan n is due at     *)
(* n * Cadence + ScheduleDelay.  Each SQL statement is an action, so the   *)
(* ticks of several runners interleave; a runner keeps the time it read    *)
(* when its tick began for every later statement of the tick.              *)
(***************************************************************************)
EXTENDS Integers, Sequences

CONSTANTS
  Runners,          \* server instances
  Cadence, ScheduleDelay, CatchUpWindow, MaxPlansPerTick,
  StaleTimeout, MaxAttempts,
  RetryBackoff,     \* sequence of delays
  MaxClock,         \* bound: the last instant of the database clock
  MaxFaults         \* bound: crashes and failed statements

\* What JobSpec.validate requires, of a clock that counts whole ticks; a
\* stale timeout below one second counts as one second.
ASSUME JobAssumption ==
  /\ Cadence \in Nat \ {0} /\ StaleTimeout \in Nat \ {0}
  /\ MaxAttempts \in Nat \ {0} /\ MaxPlansPerTick \in Nat \ {0}
  /\ ScheduleDelay \in Nat /\ CatchUpWindow \in Nat
  /\ RetryBackoff \in Seq(Nat)
  /\ MaxClock \in Nat /\ MaxFaults \in Nat
  /\ ScheduleDelay <= MaxClock

Larger(m, n) == IF m >= n THEN m ELSE n
Smaller(m, n) == IF m <= n THEN m ELSE n

\* FloorPlan(now - ScheduleDelay, Cadence), as a plan number.
LatestDue(now) == (now - ScheduleDelay) \div Cadence

\* The oldest plan that is in the window.
OldestAllowed(now) ==
  IF CatchUpWindow = 0 THEN LatestDue(now) ELSE -((CatchUpWindow - now) \div Cadence)

Plans == 0 .. LatestDue(MaxClock)

VARIABLES
  job,        \* the JobSpec's AllowStaleReentry and CatchUpMode
  clock,      \* the clock of the database
  rows,       \* per plan its row
  run,        \* per runner where its tick stands
  returned,   \* history: attempts whose handler returned without an error
  faults      \* crashes and failed statements so far

vars == <<job, clock, rows, run, returned, faults>>

\* A NULL next_retry_at is read as the present, as any time that has passed.
NoRow == [status |-> "none", attempt |-> 0, token |-> 0, staleAfter |-> 0,
          nextRetry |-> 0, code |-> "none"]

Idle == [pc |-> "idle", now |-> 0, next |-> 0, last |-> 0,
         attempt |-> 0, token |-> 0, ok |-> FALSE, at |-> 0]

Init ==
  /\ job \in [reentrant : BOOLEAN, mode : {"latest_only", "every_plan"}]
  /\ clock = ScheduleDelay
  /\ rows = [p \in Plans |-> NoRow]
  /\ run = [r \in Runners |-> Idle]
  /\ returned = {}
  /\ faults = 0

-----------------------------------------------------------------------------
(* The rows *)

Expired(row, now) == row.status = "RUNNING" /\ row.staleAfter < now

\* A FAILED row that may be attempted again.
RetryEligible(row, now) ==
  row.status = "FAILED" /\ row.attempt < MaxAttempts /\ row.nextRetry <= now

\* Mutant of Reclaimable: the attempts are not counted.
ReclaimableAnyAttempt(row, now) ==
  \/ row.status = "FAILED" /\ row.nextRetry <= now
  \/ Expired(row, now) /\ job.reentrant

\* The conflict path takes a FAILED row, or steals a lease.
Reclaimable(row, now) ==
  \/ RetryEligible(row, now)
  \/ row.attempt < MaxAttempts /\ Expired(row, now) /\ job.reentrant

\* Mutant of Claimed: the lease token and the attempt stay.
ClaimedSameLease(row, now) ==
  [status |-> "RUNNING", attempt |-> Larger(row.attempt, 1), token |-> Larger(row.token, 1),
   staleAfter |-> now + StaleTimeout, nextRetry |-> 0, code |-> "none"]

\* The row after the INSERT or the UPDATE of tryClaim: a new lease token.
Claimed(row, now) ==
  [status |-> "RUNNING", attempt |-> row.attempt + 1, token |-> row.token + 1,
   staleAfter |-> now + StaleTimeout, nextRetry |-> 0, code |-> "none"]

\* Mutant of Owns: the lease token is not compared.
OwnsAnyLease(w, row) == row.status = "RUNNING"

\* The guard of heartbeats and terminal writes.
Owns(w, row) == row.token = w.token /\ row.status = "RUNNING"

RetryDelay(attempt) ==
  IF RetryBackoff = <<>> THEN 0
  ELSE RetryBackoff[Smaller(Larger(attempt, 1), Len(RetryBackoff))]

-----------------------------------------------------------------------------
(* The plans of a tick *)

Stored == {p \in Plans : rows[p].status # "none"}

IsLatestStored(p) == p \in Stored /\ \A q \in Stored : q <= p

\* Mutant of IsCursor: the cursor is always past the latest row.
IsCursorPastLatest(n, now) ==
  \/ Stored = {} /\ n = LatestDue(now)
  \/ \E p \in Stored : IsLatestStored(p) /\ n = p + 1

\* Where every_plan begins, from the latest row of the job.
IsCursor(n, now) ==
  \/ Stored = {} /\ n = LatestDue(now)
  \/ \E p \in Stored : /\ IsLatestStored(p)
                       /\ n = IF RetryEligible(rows[p], now) THEN p ELSE p + 1

FirstDue(n, now) ==
  IF job.mode = "latest_only" THEN LatestDue(now) ELSE Larger(n, OldestAllowed(now))

LastDue(first, now) ==
  IF job.mode = "latest_only" THEN first
  ELSE Smaller(LatestDue(now), first + MaxPlansPerTick - 1)

\* A tick that has the plans first..last to attempt.
WithPlans(w, first, last) ==
  IF first <= last
  THEN [Idle EXCEPT !.pc = "claim", !.now = w.now, !.next = first, !.last = last]
  ELSE Idle

-----------------------------------------------------------------------------
(* The statements of one tick *)

\* runOnce reads the clock of the database, once for the whole tick.
Tick(r) ==
  /\ run[r].pc = "idle"
  /\ run' = [run EXCEPT ![r] = [Idle EXCEPT !.pc = "sweep", !.now = clock]]
  /\ UNCHANGED <<job, clock, rows, returned, faults>>

\* Mutant of MarkStaleAsFailed: leases of a reentrant job are left to the steal.
MarkStaleUnlessReentrant(r) ==
  /\ run[r].pc = "sweep"
  /\ rows' = [p \in Plans |->
                IF ~job.reentrant /\ Expired(rows[p], run[r].now)
                THEN [rows[p] EXCEPT !.status = "FAILED", !.code = "stale_timeout"]
                ELSE rows[p]]
  /\ run' = [run EXCEPT ![r].pc = "plan"]
  /\ UNCHANGED <<job, clock, returned, faults>>

\* Every expired lease of the job is closed.
MarkStaleAsFailed(r) ==
  /\ run[r].pc = "sweep"
  /\ rows' = [p \in Plans |->
                IF Expired(rows[p], run[r].now)
                THEN [rows[p] EXCEPT !.status = "FAILED", !.code = "stale_timeout"]
                ELSE rows[p]]
  /\ run' = [run EXCEPT ![r].pc = "plan"]
  /\ UNCHANGED <<job, clock, returned, faults>>

PlansForTick(r) ==
  /\ run[r].pc = "plan"
  /\ \E n \in 0 .. LatestDue(MaxClock) + 1 :
       /\ IsCursor(n, run[r].now)
       /\ LET first == FirstDue(n, run[r].now)
          IN  run' = [run EXCEPT ![r] = WithPlans(@, first, LastDue(first, run[r].now))]
  /\ UNCHANGED <<job, clock, rows, returned, faults>>

\* The row goes to this runner, at the time its tick began.
TakeLease(r, row) ==
  /\ row.status = "none" \/ Reclaimable(row, run[r].now)
  /\ rows' = [rows EXCEPT ![run[r].next] = Claimed(row, run[r].now)]
  /\ UNCHANGED <<job, clock, returned>>

TryClaim(r) ==
  /\ run[r].pc = "claim"
  /\ LET row == rows[run[r].next] IN
       /\ TakeLease(r, row)
       /\ run' = [run EXCEPT ![r].pc = "run", ![r].attempt = row.attempt + 1,
                             ![r].token = row.token + 1]
  /\ UNCHANGED faults

\* Another runner owns the plan, or it is done: the next plan of the tick.
Conflict(r) ==
  /\ run[r].pc = "claim"
  /\ LET row == rows[run[r].next]
     IN  row.status # "none" /\ ~Reclaimable(row, run[r].now)
  /\ run' = [run EXCEPT ![r] = WithPlans(@, @.next + 1, @.last)]
  /\ UNCHANGED <<job, clock, rows, returned, faults>>

Heartbeat(r) ==
  /\ run[r].pc = "run"
  /\ Owns(run[r], rows[run[r].next])
  /\ rows' = [rows EXCEPT ![run[r].next].staleAfter = clock + StaleTimeout]
  /\ UNCHANGED <<job, clock, run, returned, faults>>

\* The handler ends, heartbeats stop, and the clock is read.
Return(r, ok) ==
  /\ run[r].pc = "run"
  /\ run' = [run EXCEPT ![r].pc = "write", ![r].ok = ok,
                        ![r].at = IF ok THEN 0 ELSE clock]
  /\ returned' = IF ok THEN returned \cup {<<run[r].next, run[r].attempt>>} ELSE returned
  /\ UNCHANGED <<job, clock, rows, faults>>

\* The row after finishSuccess or finishFailure.
Finished(row, w) ==
  IF w.ok THEN [row EXCEPT !.status = "SUCCESS"]
  ELSE [row EXCEPT !.status = "FAILED", !.code = "handler_error",
                   !.nextRetry = IF w.attempt < MaxAttempts
                                 THEN w.at + RetryDelay(w.attempt) ELSE 0]

\* The terminal write, which touches no row when the lease was lost.
Finish(r) ==
  /\ run[r].pc = "write"
  /\ rows' = IF Owns(run[r], rows[run[r].next])
             THEN [rows EXCEPT ![run[r].next] = Finished(@, run[r])] ELSE rows
  /\ run' = [run EXCEPT ![r] = WithPlans(@, @.next + 1, @.last)]
  /\ UNCHANGED <<job, clock, returned, faults>>

-----------------------------------------------------------------------------
(* Faults *)

\* Where a tick goes on when the statement at hand fails: the sweep and the
\* terminal write are only logged, a tick without its plans is over.
AfterError(w) ==
  CASE w.pc = "sweep" -> [w EXCEPT !.pc = "plan"]
    [] w.pc \in {"claim", "write"} -> WithPlans(w, w.next + 1, w.last)
    [] OTHER -> Idle

StatementFails(r) ==
  /\ faults < MaxFaults
  /\ run[r].pc \in {"sweep", "plan", "claim", "write"}
  /\ run' = [run EXCEPT ![r] = AfterError(@)]
  /\ faults' = faults + 1
  /\ UNCHANGED <<job, clock, rows, returned>>

\* The claim commits, its answer is lost: nobody runs the plan.
ClaimAnswerLost(r) ==
  /\ faults < MaxFaults
  /\ run[r].pc = "claim"
  /\ TakeLease(r, rows[run[r].next])
  /\ run' = [run EXCEPT ![r] = AfterError(@)]
  /\ faults' = faults + 1

\* The process dies and is started again.
Crash(r) ==
  /\ faults < MaxFaults
  /\ run[r].pc # "idle"
  /\ run' = [run EXCEPT ![r] = Idle]
  /\ faults' = faults + 1
  /\ UNCHANGED <<job, clock, rows, returned>>

\* Time passes, at most until MaxClock.
Pass ==
  /\ clock < MaxClock
  /\ clock' = clock + 1
  /\ UNCHANGED <<job, rows, run, returned, faults>>

\* What a runner does without a fault.  Its handler returns: its context is
\* cancelled after RunTimeout.
Step(r) ==
  \/ Tick(r) \/ MarkStaleAsFailed(r) \/ PlansForTick(r)
  \/ TryClaim(r) \/ Conflict(r)
  \/ \E ok \in BOOLEAN : Return(r, ok)
  \/ Finish(r)

Next ==
  \/ Pass
  \/ \E r \in Runners : Step(r) \/ Heartbeat(r) \/ StatementFails(r)
                        \/ ClaimAnswerLost(r) \/ Crash(r)

Spec == Init /\ [][Next]_vars

\* The ticker of every instance goes on, and the database answers.
FairSpec == Spec /\ \A r \in Runners : WF_vars(Step(r))

-----------------------------------------------------------------------------
(* Properties *)

Rows == [status : {"none", "RUNNING", "SUCCESS", "FAILED"}, attempt : 0 .. MaxAttempts,
         token : Nat, staleAfter : Nat, nextRetry : Nat,
         code : {"none", "stale_timeout", "handler_error"}]

Ticks == [pc : {"idle", "sweep", "plan", "claim", "run", "write"}, now : Nat,
          next : Nat, last : Nat, attempt : 0 .. MaxAttempts, token : Nat,
          ok : BOOLEAN, at : Nat]

\* The types, with the CHECK constraint of the table: no attempt beyond
\* MaxAttempts, whatever the order of claims, sweeps and terminal writes.
TypeOK ==
  /\ job \in [reentrant : BOOLEAN, mode : {"latest_only", "every_plan"}]
  /\ clock \in ScheduleDelay .. MaxClock
  /\ rows \in [Plans -> Rows]
  /\ run \in [Runners -> Ticks]
  /\ returned \subseteq Plans \X (1 .. MaxAttempts)
  /\ faults \in 0 .. MaxFaults

\* The runners whose handler runs plan p, or has ended without its terminal
\* write having been sent.
Handling(p) == {r \in Runners : run[r].pc \in {"run", "write"} /\ run[r].next = p}

\* "calls Handler exactly once per claimed row": of all instances that ever
\* handle a plan at the same time, no two hold the same lease, although two
\* inserts, two steals, or a steal and a retry may race for the row.
ExclusiveAttempt ==
  \A p \in Plans : \A r, s \in Handling(p) :
    r # s => run[r].token # run[s].token /\ run[r].attempt # run[s].attempt

\* The rows are what the audit log promises (PlanLifecycle): in particular an
\* instance that lost its lease never marks a later attempt as done, and a
\* plan that succeeded is never run again.
Lifecycle == INSTANCE PlanLifecycle WITH
  status <- [p \in Plans |-> rows[p].status],
  attempt <- [p \in Plans |-> rows[p].attempt]

PlanSpec == Lifecycle!Spec

\* A lease that has expired does not pin the row: some instance closes or takes
\* it, or its holder was only late, whoever crashed or lost an answer before.
StaleRowsClosed ==
  \A p \in Plans : Expired(rows[p], clock) ~> ~Expired(rows[p], clock)

\* The latest plan of a job that failed with attempts left is attempted again
\* when its backoff has passed, unless a newer plan has been claimed by then;
\* with every_plan the cursor has to stay on its row for that.
LatestRetried ==
  \A p \in Plans :
    (IsLatestStored(p) /\ RetryEligible(rows[p], clock))
      ~> ~(IsLatestStored(p) /\ RetryEligible(rows[p], clock))

\* What spec.go promises of AllowStaleReentry = false: an expired lease is
\* closed as stale_timeout and waits for manual repair, nobody runs it again.
WaitsForRepair ==
  [][\A p \in Plans : ~job.reentrant /\ rows[p].code = "stale_timeout"
                        => rows'[p] = rows[p]]_vars

=============================================================================
