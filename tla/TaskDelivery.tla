---------------------------- MODULE TaskDelivery ----------------------------
(***************************************************************************)
(* The daemon's side of the queue (server/internal/daemon/daemon.go): per  *)
(* runtime a poller takes an execution slot, claims a task and hands it to *)
(* a goroutine; the goroutine waits for the directory of its task, starts  *)
(* the row, runs the agent and reports.  Beside them the auto-update and   *)
(* the update a user asks for replace the program and restart the daemon.  *)
(*                                                                         *)
(* The queue is here what one daemon sees of it: the status of the rows of *)
(* its runtimes and how long ago they were dispatched.  Lanes, capacity    *)
(* and retries are in TaskQueue.                                           *)
(***************************************************************************)
EXTENDS Naturals, FiniteSets, TaskStatus

CONSTANTS
  Tasks,       \* rows
  Runtimes,    \* runtimes of the daemon, one poller each
  Slots,       \* MaxConcurrentTasks execution slots
  Keys,        \* directories two tasks may want at once
  RuntimeOf,   \* the runtime a row is assigned to
  KeyOf,       \* the directory of a row, or None for one of its own
  None

ASSUME DeliveryAssumption ==
  /\ None \notin Tasks \cup Slots \cup Keys
  /\ "ghost" \notin Slots /\ "ghost" # None
  /\ RuntimeOf \in [Tasks -> Runtimes]
  /\ KeyOf \in [Tasks -> Keys \cup {None}]
  /\ IsFiniteSet(Slots) /\ IsFiniteSet(Runtimes)

VARIABLES
  kind,            \* per directory: a local_directory, or the worktree of an issue
  status,          \* per row its status
  stale,           \* rows dispatched longer ago than the recovery window
  poller,          \* per runtime its poller
  sem,             \* the free slots
  handler,         \* per slot the goroutine in handleTask
  owner,           \* per directory the slot whose goroutine has the mutex
  ghosts,          \* per directory the waiting goroutines whose Acquire gave up
  activeTasks, claimsInFlight, pauseClaims, updating,
  auto             \* where tryAutoUpdate is

server   == <<status, stale>>
locks    == <<owner, ghosts>>
counters == <<activeTasks, claimsInFlight>>
updates  == <<pauseClaims, updating, auto>>
vars == <<kind, server, poller, sem, handler, locks, counters, updates>>

\* A mutex held by the clean-up goroutine of a wait that was cancelled.
Ghost == "ghost"

AtRest == [pc |-> "idle", slot |-> None, task |-> None]
Free   == [pc |-> "free", task |-> None]

Init ==
  /\ kind \in [Keys -> {"path", "worktree"}]
  /\ status = [t \in Tasks |-> "queued"]
  /\ stale = {}
  /\ poller = [r \in Runtimes |-> AtRest]
  /\ sem = Slots
  /\ handler = [s \in Slots |-> Free]
  /\ owner = [k \in Keys |-> None]
  /\ ghosts = [k \in Keys |-> 0]
  /\ activeTasks = 0 /\ claimsInFlight = 0
  /\ pauseClaims = FALSE /\ updating = FALSE
  /\ auto = "idle"

-----------------------------------------------------------------------------
(* The poller of a runtime.                                                *)

TakeSlot(r) ==
  /\ poller[r].pc = "idle"
  /\ \E s \in sem :
       /\ sem' = sem \ {s}
       /\ poller' = [poller EXCEPT ![r] = [pc |-> "slot", slot |-> s, task |-> None]]
  /\ UNCHANGED <<kind, server, handler, locks, counters, updates>>

\* Mutant of EnterClaim: the slot is kept when claims are paused.
EnterClaimKeepingSlot(r) ==
  /\ poller[r].pc = "slot"
  /\ \/ /\ ~pauseClaims
        /\ claimsInFlight' = claimsInFlight + 1
        /\ poller' = [poller EXCEPT ![r].pc = "claim"]
     \/ /\ pauseClaims
        /\ poller' = [poller EXCEPT ![r] = AtRest]
        /\ UNCHANGED claimsInFlight
  /\ UNCHANGED <<kind, server, sem, handler, locks, activeTasks, updates>>

\* tryEnterClaim, and giving the slot back when claims are paused.
EnterClaim(r) ==
  /\ poller[r].pc = "slot"
  /\ \/ /\ ~pauseClaims
        /\ claimsInFlight' = claimsInFlight + 1
        /\ poller' = [poller EXCEPT ![r].pc = "claim"]
        /\ UNCHANGED sem
     \/ /\ pauseClaims
        /\ sem' = sem \cup {poller[r].slot}
        /\ poller' = [poller EXCEPT ![r] = AtRest]
        /\ UNCHANGED claimsInFlight
  /\ UNCHANGED <<kind, server, handler, locks, activeTasks, updates>>

\* The server re-delivers a dispatched row that nobody started in time,
\* before it looks for a queued one.
Stale(r) == {t \in stale : RuntimeOf[t] = r}
Claimable(r) ==
  IF Stale(r) # {} THEN Stale(r)
  ELSE {t \in Tasks : RuntimeOf[t] = r /\ status[t] = "queued"}

\* A row that is not dispatched any more, or dispatched anew, is not stale.
SetStatus(t, new) ==
  /\ status' = [status EXCEPT ![t] = new]
  /\ stale' = stale \ {t}

ClaimTask(r) ==
  /\ poller[r].pc = "claim"
  /\ \E t \in Claimable(r) :
       /\ SetStatus(t, "dispatched")
       /\ poller' = [poller EXCEPT ![r] = [pc |-> "handoff", slot |-> @.slot, task |-> t]]
  /\ UNCHANGED <<kind, sem, handler, locks, counters, updates>>

\* No task for this runtime, an error, or an answer that is lost after the
\* server dispatched a row.
ClaimFails(r) ==
  /\ poller[r].pc = "claim"
  /\ \/ UNCHANGED server
     \/ \E t \in Claimable(r) : SetStatus(t, "dispatched")
  /\ claimsInFlight' = claimsInFlight - 1
  /\ sem' = sem \cup {poller[r].slot}
  /\ poller' = [poller EXCEPT ![r] = AtRest]
  /\ UNCHANGED <<kind, handler, locks, activeTasks, updates>>

HandOff(r) ==
  /\ poller[r].pc = "handoff"
  /\ activeTasks' = activeTasks + 1
  /\ handler' = [handler EXCEPT ![poller[r].slot] = [pc |-> "lock", task |-> poller[r].task]]
  /\ poller' = [poller EXCEPT ![r] = AtRest]
  /\ UNCHANGED <<kind, server, sem, locks, claimsInFlight, updates>>

-----------------------------------------------------------------------------
(* handleTask, for the goroutine that has slot s.                          *)

At(s, pc) == handler[s].pc = pc
Row(s) == handler[s].task
Key(s) == IF Row(s) = None THEN None ELSE KeyOf[Row(s)]
Ended(s) == status[Row(s)] \in Terminal

GoTo(s, pc) == handler' = [handler EXCEPT ![s].pc = pc]

\* Only the step of the goroutine changes; the rest of the daemon stays.
Quiet == UNCHANGED <<kind, poller, sem, counters, updates>>

\* The path of a local_directory is broken or not usable.
RejectPath(s) ==
  /\ At(s, "lock") /\ Key(s) # None /\ kind[Key(s)] = "path"
  /\ GoTo(s, "fail")
  /\ Quiet /\ UNCHANGED <<server, locks>>

\* Acquire: no directory to share, TryLock succeeds, or TryLock fails and
\* onWait runs, which for a worktree only writes to the log.
TryLock(s) ==
  /\ At(s, "lock")
  /\ \/ Key(s) = None /\ GoTo(s, "prepare") /\ UNCHANGED owner
     \/ /\ Key(s) # None /\ owner[Key(s)] = None
        /\ owner' = [owner EXCEPT ![Key(s)] = s]
        /\ GoTo(s, "prepare")
     \/ /\ Key(s) # None /\ owner[Key(s)] # None
        /\ GoTo(s, IF kind[Key(s)] = "path" THEN "mark" ELSE "park")
        /\ UNCHANGED owner
  /\ Quiet /\ UNCHANGED <<server, ghosts>>

\* MarkTaskWaitingLocalDirectory; an error is only logged.
MarkWaiting(s) ==
  /\ At(s, "mark")
  /\ \/ /\ status[Row(s)] = "dispatched"
        /\ SetStatus(Row(s), "waiting")
     \/ UNCHANGED server
  /\ GoTo(s, "park")
  /\ Quiet /\ UNCHANGED locks

\* The helper goroutine of a waiter gets the mutex.
Grant(s) ==
  /\ At(s, "park") /\ owner[Key(s)] = None
  /\ owner' = [owner EXCEPT ![Key(s)] = s]
  /\ Quiet /\ UNCHANGED <<server, handler, ghosts>>

\* The select of Acquire sees that its helper has the mutex ...
Acquired(s) ==
  /\ At(s, "park") /\ owner[Key(s)] = s
  /\ GoTo(s, "prepare")
  /\ Quiet /\ UNCHANGED <<server, locks>>

\* Mutant of GiveUp: the mutex is unlocked without waiting for the helper.
GiveUpUnlocking(s) ==
  /\ At(s, "park") /\ kind[Key(s)] = "path" /\ Ended(s)
  /\ GoTo(s, "leave")
  /\ owner' = [owner EXCEPT ![Key(s)] = None]
  /\ Quiet /\ UNCHANGED <<server, ghosts>>

\* ... or that the watcher, which only the wait for a path has, found the
\* row ended.  The helper goes on without the waiter.
GiveUp(s) ==
  /\ At(s, "park") /\ kind[Key(s)] = "path" /\ Ended(s)
  /\ GoTo(s, "leave")
  /\ \/ /\ owner[Key(s)] = s
        /\ owner' = [owner EXCEPT ![Key(s)] = Ghost]
        /\ UNCHANGED ghosts
     \/ /\ owner[Key(s)] # s
        /\ ghosts' = [ghosts EXCEPT ![Key(s)] = @ + 1]
        /\ UNCHANGED owner
  /\ Quiet /\ UNCHANGED server

GhostLocks(k) ==
  /\ ghosts[k] > 0 /\ owner[k] = None
  /\ owner' = [owner EXCEPT ![k] = Ghost]
  /\ ghosts' = [ghosts EXCEPT ![k] = @ - 1]
  /\ Quiet /\ UNCHANGED <<server, handler>>

GhostUnlocks(k) ==
  /\ owner[k] = Ghost
  /\ owner' = [owner EXCEPT ![k] = None]
  /\ Quiet /\ UNCHANGED <<server, handler, ghosts>>

\* Prepare or Reuse fails.
PrepareFails(s) ==
  /\ At(s, "prepare")
  /\ GoTo(s, "fail")
  /\ Quiet /\ UNCHANGED <<server, locks>>

\* StartTask.  An answer that is an error, or is lost, is a failure.
StartTask(s) ==
  /\ At(s, "prepare")
  /\ \/ /\ status[Row(s)] \in {"dispatched", "waiting"}
        /\ SetStatus(Row(s), "running")
        /\ GoTo(s, "run") \/ GoTo(s, "fail")
     \/ GoTo(s, "fail") /\ UNCHANGED server
  /\ Quiet /\ UNCHANGED locks

\* The agent ends by itself, with a result or an error.
AgentEnds(s) ==
  /\ At(s, "run")
  /\ GoTo(s, "report") \/ GoTo(s, "fail")
  /\ Quiet /\ UNCHANGED <<server, locks>>

\* Mutant of Interrupt: only a cancelled row interrupts the agent.
InterruptCancelled(s) ==
  /\ handler[s].pc \in {"prepare", "run"} /\ status[Row(s)] = "cancelled"
  /\ GoTo(s, "leave")
  /\ Quiet /\ UNCHANGED <<server, locks>>

\* watchTaskCancellation finds the row ended; the result is discarded.
Interrupt(s) ==
  /\ handler[s].pc \in {"prepare", "run"} /\ Ended(s)
  /\ GoTo(s, "leave")
  /\ Quiet /\ UNCHANGED <<server, locks>>

\* CompleteTask: answered (a row that is not running is left as it is),
\* refused, or given up after transient errors.
Report(s) ==
  /\ At(s, "report")
  /\ \/ /\ status[Row(s)] = "running"
        /\ SetStatus(Row(s), "completed")
        /\ GoTo(s, "leave")
     \/ (GoTo(s, "leave") \/ GoTo(s, "fail")) /\ UNCHANGED server
  /\ Quiet /\ UNCHANGED locks

\* FailTask, of any active row.
ReportFailure(s) ==
  /\ At(s, "fail")
  /\ \/ /\ status[Row(s)] \in Active
        /\ SetStatus(Row(s), "failed")
     \/ UNCHANGED server
  /\ GoTo(s, "leave")
  /\ Quiet /\ UNCHANGED locks

\* handleTask returns: its deferred release, then the slot is sent back and
\* the counters go down, which only the barrier reads, and together.
Leave(s) ==
  /\ At(s, "leave")
  /\ owner' = [k \in Keys |-> IF owner[k] = s THEN None ELSE owner[k]]
  /\ handler' = [handler EXCEPT ![s] = Free]
  /\ sem' = sem \cup {s}
  /\ activeTasks' = activeTasks - 1 /\ claimsInFlight' = claimsInFlight - 1
  /\ UNCHANGED <<kind, server, poller, ghosts, updates>>

-----------------------------------------------------------------------------
(* tryAutoUpdate, handleUpdate, and the end of the process.                *)

Daemon == <<kind, server, poller, sem, handler, locks, counters>>

AutoCheck ==
  /\ auto = "idle" /\ ~updating /\ activeTasks = 0
  /\ auto' = "fetch"
  /\ UNCHANGED <<Daemon, pauseClaims, updating>>

\* No newer release, or another update took the flag meanwhile.
AutoSkip ==
  /\ auto = "fetch"
  /\ auto' = "idle"
  /\ UNCHANGED <<Daemon, pauseClaims, updating>>

\* Mutant of TrySetClaimBarrier: claims in flight are not looked at.
TryBarrierOnActive ==
  /\ auto = "fetch" /\ ~updating
  /\ IF activeTasks > 0
     THEN auto' = "idle" /\ UNCHANGED <<pauseClaims, updating>>
     ELSE auto' = "upgrade" /\ pauseClaims' = TRUE /\ updating' = TRUE
  /\ UNCHANGED Daemon

\* The flag is taken, and kept if trySetClaimBarrier finds the daemon idle.
TrySetClaimBarrier ==
  /\ auto = "fetch" /\ ~updating
  /\ IF claimsInFlight > 0 \/ activeTasks > 0
     THEN auto' = "idle" /\ UNCHANGED <<pauseClaims, updating>>
     ELSE auto' = "upgrade" /\ pauseClaims' = TRUE /\ updating' = TRUE
  /\ UNCHANGED Daemon

AutoFails ==
  /\ auto = "upgrade"
  /\ pauseClaims' = FALSE /\ updating' = FALSE /\ auto' = "idle"
  /\ UNCHANGED Daemon

\* handleUpdate, which asks for no idle daemon, and its failure.
UserUpdate ==
  /\ ~updating
  /\ updating' = TRUE
  /\ UNCHANGED <<Daemon, pauseClaims, auto>>

UserUpdateFails ==
  /\ updating /\ auto # "upgrade"
  /\ updating' = FALSE
  /\ UNCHANGED <<Daemon, pauseClaims, auto>>

\* The daemon ends, after an update or by a crash, and starts again: nothing
\* of the process is left, and the orphan report fails what it worked on.
Restart ==
  /\ status' = [t \in Tasks |-> IF status[t] \in Active THEN "failed" ELSE status[t]]
  /\ poller' = [r \in Runtimes |-> AtRest]
  /\ sem' = Slots
  /\ handler' = [s \in Slots |-> Free]
  /\ owner' = [k \in Keys |-> None]
  /\ ghosts' = [k \in Keys |-> 0]
  /\ activeTasks' = 0 /\ claimsInFlight' = 0
  /\ pauseClaims' = FALSE /\ updating' = FALSE
  /\ auto' = "idle"
  /\ stale' = {}
  /\ UNCHANGED kind

-----------------------------------------------------------------------------
(* What happens to rows without the daemon.                                *)

Elsewhere == UNCHANGED <<kind, poller, sem, handler, locks, counters, updates>>

\* claimResponseRecoveryWindow passes.
Pass(t) ==
  /\ status[t] = "dispatched"
  /\ stale' = stale \cup {t}
  /\ Elsewhere /\ UNCHANGED status

\* FailStaleTasks; a stale row may be past the longer timeout of dispatched
\* rows, a running row past its own, at any time.
TimeOut(t) ==
  /\ t \in stale \/ status[t] = "running"
  /\ SetStatus(t, "failed")
  /\ Elsewhere

CancelTask(t) ==
  /\ status[t] \in Live
  /\ SetStatus(t, "cancelled")
  /\ Elsewhere

-----------------------------------------------------------------------------

Poll(r) == TakeSlot(r) \/ EnterClaim(r) \/ ClaimTask(r) \/ ClaimFails(r) \/ HandOff(r)

\* The steps a goroutine makes without waiting for the agent or the mutex.
Advance(s) ==
  \/ TryLock(s) \/ MarkWaiting(s) \/ Acquired(s) \/ GiveUp(s)
  \/ StartTask(s) \/ Interrupt(s) \/ Report(s) \/ ReportFailure(s) \/ Leave(s)

Handle(s) == Advance(s) \/ RejectPath(s) \/ Grant(s) \/ PrepareFails(s) \/ AgentEnds(s)

Update ==
  \/ AutoCheck \/ AutoSkip \/ TrySetClaimBarrier \/ AutoFails
  \/ UserUpdate \/ UserUpdateFails

Next ==
  \/ \E r \in Runtimes : Poll(r)
  \/ \E s \in Slots : Handle(s)
  \/ \E k \in Keys : GhostLocks(k) \/ GhostUnlocks(k)
  \/ \E t \in Tasks : Pass(t) \/ TimeOut(t) \/ CancelTask(t)
  \/ Update \/ Restart

Spec == Init /\ [][Next]_vars

\* Goroutines run, calls return or time out, and Go's mutex starves nobody.
\* Agents need not end: the server times a running row out.
FairSpec ==
  /\ Spec
  /\ \A r \in Runtimes :
       WF_vars(EnterClaim(r) \/ ClaimTask(r) \/ ClaimFails(r) \/ HandOff(r))
  /\ \A s \in Slots : WF_vars(Advance(s)) /\ SF_vars(Grant(s))
  /\ \A k \in Keys : WF_vars(GhostUnlocks(k))
  /\ \A t \in Tasks : WF_vars(TimeOut(t))

-----------------------------------------------------------------------------
(* Properties.                                                             *)

Busy == {s \in Slots : handler[s].pc # "free"}
Taken == {poller[r].slot : r \in Runtimes}
Claiming == {r \in Runtimes : poller[r].pc \in {"claim", "handoff"}}

Pollers ==
  {AtRest} \cup [pc : {"slot", "claim"}, slot : Slots, task : {None}]
           \cup [pc : {"handoff"}, slot : Slots, task : Tasks]

Working == {"lock", "mark", "park", "prepare", "run", "report", "fail", "leave"}

Types ==
  /\ kind \in [Keys -> {"path", "worktree"}]
  /\ status \in [Tasks -> Live \cup Terminal]
  /\ stale \subseteq {t \in Tasks : status[t] = "dispatched"}
  /\ poller \in [Runtimes -> Pollers]
  /\ handler \in [Slots -> {Free} \cup [pc : Working, task : Tasks]]
  /\ owner \in [Keys -> Slots \cup {Ghost, None}]
  /\ ghosts \in [Keys -> Nat]
  /\ activeTasks \in Nat /\ claimsInFlight \in Nat
  /\ pauseClaims \in BOOLEAN /\ updating \in BOOLEAN
  /\ auto \in {"idle", "fetch", "upgrade"}

\* The slots are shared out among the free list, the pollers and the
\* goroutines; none is lost and none given out twice.
SlotsShared ==
  /\ sem = Slots \ (Busy \cup Taken)
  /\ Taken \cap Busy = {}
  /\ \A r, q \in Runtimes : poller[r].slot = poller[q].slot => r = q \/ poller[r] = AtRest

TypeOK == Types /\ SlotsShared

\* An automatic update runs only while the daemon does nothing else: its
\* restart cuts off no agent, no claimed row, and no goroutine that has not
\* yet been given the row it is for.
UpdateInterruptsNothing == auto = "upgrade" => Busy = {} /\ Claiming = {}

\* The goroutines between Acquire and their end.
Inside(s) == handler[s].pc \in {"prepare", "run", "report"}

\* In a directory works only the goroutine that has its mutex, so never two,
\* however often a row was delivered and whoever gave up waiting.
DirectoryExclusive ==
  \A s \in Slots : Inside(s) /\ Key(s) # None => owner[Key(s)] = s

\* Whoever takes an execution slot gives it back: no goroutine waits for a
\* directory for ever, not behind a wait that was cancelled, a row that was
\* delivered twice, or an agent that never ends.
SlotsComeBack == \A s \in Slots : []<>(s \in sem)

(* Of re-deliveries the code promises more than it keeps.                  *)

\* "An in-flight StartTask cannot be reclaimed and double-dispatched"
\* (claimResponseRecoveryWindow), but StartTask follows the wait for the
\* directory, and a row that waits for a worktree stays dispatched.
OneHandlerPerRow == \A s, q \in Busy : s # q => Row(s) # Row(q)

\* A goroutine does not fail the run of another one that has the same row:
\* but a StartTask refused after a slow Prepare, or a path rejected, is
\* reported with FailTask, which takes a running row of whoever runs it.
DuplicateSparesRun ==
  [][\A s, q \in Slots :
       /\ s # q /\ At(s, "fail") /\ At(q, "run") /\ Row(s) = Row(q)
       /\ status[Row(s)] = "running" /\ At(s, "leave")'
       => status'[Row(s)] = "running"]_vars
=============================================================================
