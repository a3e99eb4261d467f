------------------------- MODULE TaskDeliveryProofs -------------------------
(***************************************************************************)
(* The task loop of a daemon, for every number of rows, slots, runtimes    *)
(* and directories: slots are shared out, an automatic update interrupts   *)
(* nothing, and a directory has one user at a time.  The inductive         *)
(* invariant counts what the barrier of the update reads (Counted) and     *)
(* ties the barrier to the update that set it (Barrier).                   *)
(***************************************************************************)
EXTENDS TaskDelivery, FiniteSetTheorems, TLAPS

Counted ==
  /\ activeTasks = Cardinality(Busy)
  /\ claimsInFlight = Cardinality(Claiming) + Cardinality(Busy)

Barrier ==
  /\ pauseClaims <=> auto = "upgrade"
  /\ auto = "upgrade" => updating
  /\ UpdateInterruptsNothing

DeliveryInv == TypeOK /\ Counted /\ Barrier /\ DirectoryExclusive

\* What the server does to rows leaves them typed.
LEMMA RowsTyped ==
  ASSUME Types, NEW t \in Tasks, NEW new \in Live \cup Terminal, SetStatus(t, new)
  PROVE  /\ status' \in [Tasks -> Live \cup Terminal]
         /\ stale' \subseteq {u \in Tasks : status'[u] = "dispatched"}
  BY DEF Types, SetStatus

LEMMA Finite == IsFiniteSet(Busy) /\ IsFiniteSet(Claiming)
<1>1. IsFiniteSet(Slots) /\ IsFiniteSet(Runtimes)
  BY DeliveryAssumption
<1>2. Busy \subseteq Slots /\ Claiming \subseteq Runtimes
  BY DEF Busy, Claiming
<1> QED BY <1>1, <1>2, FS_Subset

\* Counting one in, and one out.
LEMMA OneMore ==
  ASSUME NEW S, IsFiniteSet(S), NEW x, x \notin S
  PROVE  /\ IsFiniteSet(S \cup {x}) /\ Cardinality(S \cup {x}) = Cardinality(S) + 1
         /\ Cardinality(S) \in Nat
  BY FS_AddElement, FS_CardinalityType

LEMMA OneLess ==
  ASSUME NEW S, IsFiniteSet(S), NEW x \in S
  PROVE  /\ IsFiniteSet(S \ {x}) /\ Cardinality(S \ {x}) = Cardinality(S) - 1
         /\ Cardinality(S) \in Nat /\ Cardinality(S) >= 1
<1>1. IsFiniteSet(S \ {x}) /\ Cardinality(S \ {x}) = Cardinality(S) - 1
  BY FS_RemoveElement
<1>2. Cardinality(S) \in Nat /\ Cardinality(S \ {x}) \in Nat
  BY <1>1, FS_CardinalityType
<1> QED BY <1>1, <1>2

LEMMA NoneLeft ==
  ASSUME NEW S, IsFiniteSet(S), Cardinality(S) = 0 PROVE S = {}
  BY FS_EmptySet

-----------------------------------------------------------------------------
(* A step that leaves slots, counters and updates alone.                   *)

\* Goroutine s goes on to another point of handleTask, or to none.
Goes(s, pc) == handler[s].pc \in Working /\ pc \in Working /\ GoTo(s, pc)

LEMMA GoingKeeps ==
  ASSUME Types, NEW s \in Slots, NEW pc, Goes(s, pc)
  PROVE  /\ handler' \in [Slots -> {Free} \cup [pc : Working, task : Tasks]]
         /\ Busy' = Busy
         /\ \A q \in Slots : handler'[q].task = handler[q].task
         /\ \A q \in Slots : q # s => handler'[q] = handler[q]
         /\ handler'[s].pc = pc
         /\ Row(s) \in Tasks
<1>1. handler[s] \in [pc : Working, task : Tasks]
  BY DEF Goes, Types, Free, Working
<1>2. handler' = [handler EXCEPT ![s] = [pc |-> pc, task |-> handler[s].task]]
  <2>1. [handler[s] EXCEPT !.pc = pc] = [pc |-> pc, task |-> handler[s].task]
    BY <1>1
  <2>2. handler' = [handler EXCEPT ![s] = [handler[s] EXCEPT !.pc = pc]]
    BY DEF Goes, GoTo
  <2> QED BY <2>1, <2>2
<1>3. \A q \in Slots : handler'[q] = IF q = s THEN [pc |-> pc, task |-> handler[s].task] ELSE handler[q]
  BY <1>2 DEF Types
<1>4. Busy' = Busy
  BY <1>1, <1>3 DEF Busy, Goes, Working
<1>5. handler' \in [Slots -> {Free} \cup [pc : Working, task : Tasks]]
  BY <1>1, <1>2 DEF Types, Goes
<1> QED BY <1>1, <1>3, <1>4, <1>5 DEF Row

\* The parts of the invariant that depend on slots and counters only.
LEMMA SlotsKeep ==
  ASSUME SlotsShared, Counted, Barrier, Busy' = Busy,
         UNCHANGED <<poller, sem, counters, updates>>
  PROVE  SlotsShared' /\ Counted' /\ Barrier'
<1>1. Taken' = Taken /\ Claiming' = Claiming
  BY DEF Taken, Claiming
<1>2. SlotsShared'
  BY <1>1 DEF SlotsShared
<1>3. Counted'
  BY <1>1 DEF Counted, counters
<1>4. Barrier'
  BY <1>1 DEF Barrier, UpdateInterruptsNothing, updates
<1> QED BY <1>2, <1>3, <1>4

\* A step of goroutine s that ends outside its directory, or in a directory
\* whose mutex it has, while nobody else's mutex is touched.
LEMMA GoingExcludes ==
  ASSUME Types, DirectoryExclusive, NEW s \in Slots, NEW pc, Goes(s, pc),
         \A k \in Keys : owner'[k] = owner[k] \/ owner[k] \notin Slots \ {s},
         pc \in {"prepare", "run", "report"} /\ Key(s) # None => owner'[Key(s)] = s
  PROVE  DirectoryExclusive'
<1> SUFFICES ASSUME NEW q \in Slots, Inside(q)', Key(q)' # None
             PROVE  owner'[Key(q)'] = q
  BY DEF DirectoryExclusive
<1>1. Key(q)' = Key(q) /\ Key(q) \in Keys
  BY GoingKeeps, DeliveryAssumption DEF Key, Row, Types, Inside, Free
<1>2. CASE q = s
  BY <1>1, <1>2, GoingKeeps DEF Inside
<1>3. CASE q # s
  <2>1. Inside(q)
    BY <1>3, GoingKeeps DEF Inside
  <2>2. owner[Key(q)] = q
    BY <1>1, <2>1 DEF DirectoryExclusive
  <2> QED BY <1>1, <1>3, <2>2
<1> QED BY <1>2, <1>3

RowsOK == /\ status \in [Tasks -> Live \cup Terminal]
          /\ stale \subseteq {t \in Tasks : status[t] = "dispatched"}

LocksOK == /\ owner \in [Keys -> Slots \cup {Ghost, None}]
           /\ ghosts \in [Keys -> Nat]

LEMMA GoingKeepsInv ==
  ASSUME DeliveryInv, NEW s \in Slots, NEW pc, Goes(s, pc), Quiet, RowsOK', LocksOK',
         \A k \in Keys : owner'[k] = owner[k] \/ owner[k] \notin Slots \ {s},
         pc \in {"prepare", "run", "report"} /\ Key(s) # None => owner'[Key(s)] = s
  PROVE  DeliveryInv'
<1>1. Types /\ SlotsShared /\ Counted /\ Barrier /\ DirectoryExclusive
  BY DEF DeliveryInv, TypeOK
<1>2. Types'
  BY <1>1, GoingKeeps DEF Types, Quiet, RowsOK, LocksOK, counters, updates
<1>3. SlotsShared' /\ Counted' /\ Barrier'
  BY <1>1, GoingKeeps, SlotsKeep DEF Quiet
<1>4. DirectoryExclusive'
  BY <1>1, GoingExcludes
<1> QED BY <1>2, <1>3, <1>4 DEF DeliveryInv, TypeOK

\* Nothing of a goroutine changes but the mutex, which nobody had.
LEMMA StayingKeepsInv ==
  ASSUME DeliveryInv, Quiet, UNCHANGED handler, RowsOK', LocksOK',
         \A k \in Keys : owner'[k] = owner[k] \/ owner[k] \notin Slots
  PROVE  DeliveryInv'
<1>1. Types /\ SlotsShared /\ Counted /\ Barrier /\ DirectoryExclusive
  BY DEF DeliveryInv, TypeOK
<1>2. Types'
  BY <1>1 DEF Types, Quiet, RowsOK, LocksOK, counters, updates
<1>3. SlotsShared' /\ Counted' /\ Barrier'
  BY <1>1, SlotsKeep DEF Quiet, Busy
<1>4. DirectoryExclusive'
  <2> SUFFICES ASSUME NEW q \in Slots, Inside(q), Key(q) # None
               PROVE  owner'[Key(q)] = q
    BY DEF DirectoryExclusive, Inside, Key, Row
  <2>1. owner[Key(q)] = q /\ Key(q) \in Keys
    BY <1>1, DeliveryAssumption DEF DirectoryExclusive, Key, Row, Types, Inside, Free
  <2> QED BY <2>1
<1> QED BY <1>2, <1>3, <1>4 DEF DeliveryInv, TypeOK

LEMMA SameTyped ==
  ASSUME Types PROVE /\ UNCHANGED server => RowsOK'
                     /\ UNCHANGED locks => LocksOK' /\ \A k \in Keys : owner'[k] = owner[k]
  BY DEF Types, RowsOK, LocksOK, server, locks

LEMMA WriteTyped ==
  ASSUME Types, NEW t \in Tasks, NEW new \in Live \cup Terminal, SetStatus(t, new) PROVE RowsOK'
  BY RowsTyped DEF RowsOK

-----------------------------------------------------------------------------
(* The steps of a goroutine.                                               *)

LEMMA LockSteps ==
  ASSUME DeliveryInv, NEW s \in Slots,
         RejectPath(s) \/ TryLock(s) \/ MarkWaiting(s) \/ Grant(s) \/ Acquired(s) \/ GiveUp(s)
  PROVE  DeliveryInv'
<1>1. Types /\ DirectoryExclusive
  BY DEF DeliveryInv, TypeOK
<1>2. handler[s].pc # "free" => Row(s) \in Tasks /\ (Key(s) # None => Key(s) \in Keys)
  BY <1>1, DeliveryAssumption DEF Types, Row, Key, Free
<1>3. CASE RejectPath(s)
  <2>1. Goes(s, "fail") /\ Quiet /\ UNCHANGED <<server, locks>>
    BY <1>3 DEF RejectPath, Goes, At, Working
  <2> QED BY <1>1, <2>1, SameTyped, GoingKeepsInv
<1>4. CASE TryLock(s)
  <2> USE DEF TryLock, Goes, At, Working
  <2>1. Quiet /\ UNCHANGED server /\ UNCHANGED ghosts
    BY <1>4
  <2>2. RowsOK'
    BY <1>1, <2>1, SameTyped
  <2>3. CASE Key(s) = None /\ GoTo(s, "prepare") /\ UNCHANGED owner
    <3>1. Goes(s, "prepare")
      BY <1>4, <2>3
    <3>2. LocksOK' /\ \A k \in Keys : owner'[k] = owner[k]
      BY <1>1, <2>1, <2>3 DEF Types, LocksOK
    <3> QED BY <2>1, <2>2, <2>3, <3>1, <3>2, GoingKeepsInv
  <2>4. CASE /\ Key(s) # None /\ owner[Key(s)] = None
             /\ owner' = [owner EXCEPT ![Key(s)] = s]
             /\ GoTo(s, "prepare")
    <3>1. Goes(s, "prepare") /\ Key(s) \in Keys
      BY <1>2, <1>4, <2>4
    <3>2. LocksOK' /\ owner'[Key(s)] = s /\ \A k \in Keys \ {Key(s)} : owner'[k] = owner[k]
      BY <1>1, <2>1, <2>4, <3>1 DEF Types, LocksOK
    <3>3. owner[Key(s)] \notin Slots
      BY <2>4, DeliveryAssumption
    <3> QED BY <2>1, <2>2, <3>1, <3>2, <3>3, GoingKeepsInv
  <2>5. CASE /\ Key(s) # None /\ owner[Key(s)] # None
             /\ GoTo(s, IF kind[Key(s)] = "path" THEN "mark" ELSE "park")
             /\ UNCHANGED owner
    <3>1. Goes(s, "mark") \/ Goes(s, "park")
      BY <1>4, <2>5
    <3>2. LocksOK' /\ \A k \in Keys : owner'[k] = owner[k]
      BY <1>1, <2>1, <2>5 DEF Types, LocksOK
    <3> QED BY <2>1, <2>2, <3>1, <3>2, GoingKeepsInv
  <2> QED BY <1>4, <2>3, <2>4, <2>5
<1>5. CASE MarkWaiting(s)
  <2>1. Goes(s, "park") /\ Quiet /\ UNCHANGED locks /\ Row(s) \in Tasks
    BY <1>2, <1>5 DEF MarkWaiting, Goes, At, Working
  <2>2. RowsOK'
    BY <1>1, <1>5, <2>1, SameTyped, WriteTyped DEF MarkWaiting, Live, Active
  <2> QED BY <1>1, <2>1, <2>2, SameTyped, GoingKeepsInv
<1>6. CASE Grant(s)
  <2>1. Quiet /\ UNCHANGED handler /\ UNCHANGED server /\ UNCHANGED ghosts
    BY <1>6 DEF Grant
  <2>2. LocksOK' /\ \A k \in Keys : owner'[k] = owner[k] \/ owner[k] = None
    BY <1>1, <1>6, <2>1 DEF Grant, Types, LocksOK
  <2> QED BY <1>1, <2>1, <2>2, SameTyped, StayingKeepsInv, DeliveryAssumption
<1>7. CASE Acquired(s)
  <2>1. Goes(s, "prepare") /\ Quiet /\ UNCHANGED <<server, locks>> /\ owner[Key(s)] = s
    BY <1>7 DEF Acquired, Goes, At, Working
  <2>2. Key(s) # None => owner'[Key(s)] = s
    BY <2>1 DEF locks
  <2> QED BY <1>1, <2>1, <2>2, SameTyped, GoingKeepsInv
<1>8. CASE GiveUp(s)
  <2>1. Goes(s, "leave") /\ Quiet /\ UNCHANGED server
    BY <1>8 DEF GiveUp, Goes, At, Working
  <2>2. LocksOK' /\ \A k \in Keys : owner'[k] = owner[k] \/ owner[k] = s
    BY <1>1, <1>8 DEF GiveUp, Types, LocksOK
  <2> QED BY <1>1, <2>1, <2>2, SameTyped, GoingKeepsInv
<1> QED BY <1>3, <1>4, <1>5, <1>6, <1>7, <1>8

LEMMA RunSteps ==
  ASSUME DeliveryInv, NEW s \in Slots,
         \/ PrepareFails(s) \/ StartTask(s) \/ AgentEnds(s) \/ Interrupt(s)
         \/ Report(s) \/ ReportFailure(s)
  PROVE  DeliveryInv'
<1>1. Types /\ DirectoryExclusive
  BY DEF DeliveryInv, TypeOK
<1>2. Quiet /\ UNCHANGED locks
  BY DEF PrepareFails, StartTask, AgentEnds, Interrupt, Report, ReportFailure
<1>3. handler[s].pc \in Working /\ Row(s) \in Tasks
  BY <1>1 DEF PrepareFails, StartTask, AgentEnds, Interrupt, Report, ReportFailure, At, Working,
              Types, Row, Free
<1>4. \/ UNCHANGED server
      \/ SetStatus(Row(s), "running") \/ SetStatus(Row(s), "completed") \/ SetStatus(Row(s), "failed")
  BY DEF PrepareFails, StartTask, AgentEnds, Interrupt, Report, ReportFailure, server
<1>5. RowsOK'
  BY <1>1, <1>3, <1>4, SameTyped, WriteTyped DEF Live, Active, Terminal
<1>6. \/ GoTo(s, "fail") \/ GoTo(s, "leave")
      \/ Inside(s) /\ (GoTo(s, "run") \/ GoTo(s, "report"))
  BY DEF PrepareFails, StartTask, AgentEnds, Interrupt, Report, ReportFailure, Inside, At
<1>7. CASE GoTo(s, "fail") \/ GoTo(s, "leave")
  BY <1>1, <1>2, <1>3, <1>5, <1>7, SameTyped, GoingKeepsInv DEF Goes, Working
<1>8. CASE Inside(s) /\ (GoTo(s, "run") \/ GoTo(s, "report"))
  <2>1. Key(s) # None => owner'[Key(s)] = s
    BY <1>1, <1>2, <1>8 DEF DirectoryExclusive, locks
  <2> QED BY <1>1, <1>2, <1>3, <1>5, <1>8, <2>1, SameTyped, GoingKeepsInv DEF Goes, Working
<1> QED BY <1>6, <1>7, <1>8

\* A goroutine ends.
LEMMA LeaveStep == ASSUME DeliveryInv, NEW s \in Slots, Leave(s) PROVE DeliveryInv'
<1>1. Types /\ SlotsShared /\ Counted /\ Barrier /\ DirectoryExclusive
  BY DEF DeliveryInv, TypeOK
<1>2. s \in Busy /\ s # None /\ s # Ghost
  BY DeliveryAssumption DEF Leave, At, Busy, Ghost
<1>3. \A q \in Slots : handler'[q] = IF q = s THEN Free ELSE handler[q]
  BY <1>1 DEF Leave, Types
<1>4. Busy' = Busy \ {s}
  BY <1>3 DEF Busy, Free
<1>5. Taken' = Taken /\ Claiming' = Claiming /\ UNCHANGED poller
  BY DEF Leave, Taken, Claiming
<1>6. SlotsShared'
  BY <1>1, <1>2, <1>4, <1>5 DEF SlotsShared, Leave
<1>7. /\ Cardinality(Busy') = Cardinality(Busy) - 1
      /\ Cardinality(Busy) \in Nat /\ Cardinality(Busy) >= 1 /\ Cardinality(Claiming) \in Nat
  BY <1>2, <1>4, Finite, OneLess, FS_CardinalityType
<1>8. activeTasks' = activeTasks - 1 /\ claimsInFlight' = claimsInFlight - 1
  BY DEF Leave
<1>9. Counted' /\ activeTasks' \in Nat /\ claimsInFlight' \in Nat
  BY <1>1, <1>5, <1>7, <1>8 DEF Counted
<1>10. Barrier'
  BY <1>1, <1>2 DEF Barrier, UpdateInterruptsNothing, Leave, updates
<1>11. handler' \in [Slots -> {Free} \cup [pc : Working, task : Tasks]]
  BY <1>1 DEF Leave, Types
<1>12. /\ owner' \in [Keys -> Slots \cup {Ghost, None}]
       /\ \A k \in Keys : owner'[k] = owner[k] \/ owner[k] = s
  BY <1>1 DEF Leave, Types
<1>13. Types'
  BY <1>1, <1>5, <1>9, <1>11, <1>12 DEF Types, Leave, server, updates
<1>14. DirectoryExclusive'
  <2> SUFFICES ASSUME NEW q \in Slots, Inside(q)', Key(q)' # None
               PROVE  owner'[Key(q)'] = q
    BY DEF DirectoryExclusive
  <2>1. q # s /\ handler'[q] = handler[q]
    BY <1>3 DEF Inside, Free
  <2>2. Inside(q) /\ Key(q)' = Key(q) /\ Key(q) \in Keys
    BY <1>1, <2>1, DeliveryAssumption DEF Inside, Key, Row, Types, Free
  <2>3. owner[Key(q)] = q
    BY <1>1, <2>2 DEF DirectoryExclusive
  <2> QED BY <1>12, <2>1, <2>2, <2>3
<1> QED BY <1>6, <1>9, <1>10, <1>13, <1>14 DEF DeliveryInv, TypeOK

LEMMA HandleSteps == ASSUME DeliveryInv, NEW s \in Slots, Handle(s) PROVE DeliveryInv'
  BY LockSteps, RunSteps, LeaveStep DEF Handle, Advance

LEMMA GhostSteps ==
  ASSUME DeliveryInv, NEW k \in Keys, GhostLocks(k) \/ GhostUnlocks(k) PROVE DeliveryInv'
<1>1. Types
  BY DEF DeliveryInv, TypeOK
<1>2. Quiet /\ UNCHANGED handler /\ UNCHANGED server
  BY DEF GhostLocks, GhostUnlocks
<1>3. /\ owner' \in [Keys -> Slots \cup {Ghost, None}]
      /\ \A j \in Keys : owner'[j] = owner[j] \/ owner[j] \in {None, Ghost}
  BY <1>1 DEF GhostLocks, GhostUnlocks, Types
<1>4. ghosts' \in [Keys -> Nat]
  BY <1>1 DEF GhostLocks, GhostUnlocks, Types
<1>5. None \notin Slots /\ Ghost \notin Slots
  BY DeliveryAssumption DEF Ghost
<1> QED BY <1>1, <1>2, <1>3, <1>4, <1>5, SameTyped, StayingKeepsInv DEF LocksOK

LEMMA RowSteps ==
  ASSUME DeliveryInv, NEW t \in Tasks, Pass(t) \/ TimeOut(t) \/ CancelTask(t) PROVE DeliveryInv'
<1>1. Types
  BY DEF DeliveryInv, TypeOK
<1>2. Quiet /\ UNCHANGED handler /\ UNCHANGED locks
  BY DEF Pass, TimeOut, CancelTask, Elsewhere, Quiet
<1>3. RowsOK'
  <2>1. CASE Pass(t)
    BY <1>1, <2>1 DEF Pass, Types, RowsOK
  <2>2. CASE TimeOut(t) \/ CancelTask(t)
    BY <1>1, <2>2, WriteTyped DEF TimeOut, CancelTask, Terminal
  <2> QED BY <2>1, <2>2
<1> QED BY <1>1, <1>2, <1>3, SameTyped, StayingKeepsInv

-----------------------------------------------------------------------------
(* The steps of a poller.                                                  *)

\* What a poller's step leaves alone.
LEMMA SameHandlers ==
  ASSUME UNCHANGED <<handler, locks>>
  PROVE  Busy' = Busy /\ (DirectoryExclusive => DirectoryExclusive')
  BY DEF Busy, DirectoryExclusive, Inside, Key, Row, locks

LEMMA TakeSlotStep == ASSUME DeliveryInv, NEW r \in Runtimes, TakeSlot(r) PROVE DeliveryInv'
<1>1. Types /\ SlotsShared /\ Counted /\ Barrier /\ DirectoryExclusive
  BY DEF DeliveryInv, TypeOK
<1>2. /\ UNCHANGED <<kind, server, handler, locks, counters, updates>>
      /\ Busy' = Busy /\ DirectoryExclusive'
  BY <1>1, SameHandlers DEF TakeSlot
<1>3. PICK x \in sem :
        /\ sem' = sem \ {x}
        /\ poller' = [poller EXCEPT ![r] = [pc |-> "slot", slot |-> x, task |-> None]]
  BY DEF TakeSlot
<1>5. x \in Slots /\ x \notin Busy /\ x \notin Taken
  BY <1>1, <1>3 DEF SlotsShared
<1>6. poller[r] = AtRest
  BY <1>1 DEF Types, Pollers, TakeSlot
<1>7. /\ poller' \in [Runtimes -> Pollers]
      /\ \A q \in Runtimes : poller'[q] = IF q = r THEN [pc |-> "slot", slot |-> x, task |-> None]
                                                 ELSE poller[q]
  BY <1>1, <1>3, <1>5 DEF Types, Pollers
<1>8. Claiming' = Claiming
  BY <1>6, <1>7 DEF Claiming, AtRest
<1>9. \A y \in Slots : y \in Taken' <=> y \in Taken \/ y = x
  BY <1>6, <1>7, DeliveryAssumption DEF Taken, AtRest
<1>10. None \notin Busy
  BY DeliveryAssumption DEF Busy
<1>11. Taken' \subseteq Taken \cup {x}
  BY <1>7 DEF Taken
<1>12. SlotsShared'
  <2>1. sem' = Slots \ (Busy' \cup Taken')
    BY <1>1, <1>2, <1>3, <1>9 DEF SlotsShared
  <2>2. Taken' \cap Busy' = {}
    BY <1>1, <1>2, <1>5, <1>11 DEF SlotsShared
  <2>3. ASSUME NEW p \in Runtimes, NEW q \in Runtimes, poller'[p].slot = poller'[q].slot
        PROVE  p = q \/ poller'[p] = AtRest
    <3>1. \A u \in Runtimes : poller[u].slot # x
      BY <1>5 DEF Taken
    <3> QED BY <1>1, <1>7, <2>3, <3>1 DEF SlotsShared
  <2> QED BY <2>1, <2>2, <2>3 DEF SlotsShared
<1>13. Counted' /\ Barrier'
  BY <1>1, <1>2, <1>8 DEF Counted, Barrier, UpdateInterruptsNothing, counters, updates
<1>14. Types'
  BY <1>1, <1>2, <1>7 DEF Types, server, locks, counters, updates
<1> QED BY <1>2, <1>12, <1>13, <1>14 DEF DeliveryInv, TypeOK

\* The slot of a poller that gives it back, or hands it over.
LEMMA Returns ==
  ASSUME Types, SlotsShared, NEW r \in Runtimes, poller[r].pc # "idle",
         poller' = [poller EXCEPT ![r] = AtRest]
  PROVE  /\ poller' \in [Runtimes -> Pollers]
         /\ poller[r].slot \in Slots /\ poller[r].slot \notin Busy
         /\ \A y \in Slots : y \in Taken' <=> y \in Taken /\ y # poller[r].slot
         /\ Taken' \subseteq (Taken \ {poller[r].slot}) \cup {None}
         /\ Claiming' = Claiming \ {r}
         /\ \A p, q \in Runtimes :
              poller'[p].slot = poller'[q].slot => p = q \/ poller'[p] = AtRest
<1>1. poller[r].slot \in Slots
  BY DEF Types, Pollers, AtRest
<1>2. /\ poller' \in [Runtimes -> Pollers]
      /\ \A q \in Runtimes : poller'[q] = IF q = r THEN AtRest ELSE poller[q]
  BY DEF Types, Pollers
<1>3. poller[r].slot # None /\ poller[r].slot \in Taken
  BY <1>1, DeliveryAssumption DEF Taken
<1>4. \A q \in Runtimes : q # r => poller[q].slot # poller[r].slot
  BY <1>3 DEF SlotsShared, AtRest
<1>5. \A y \in Taken' : y = None \/ (y \in Taken /\ y # poller[r].slot)
  BY <1>2, <1>4 DEF Taken, AtRest
<1>6. \A y \in Slots : y \in Taken /\ y # poller[r].slot => y \in Taken'
  BY <1>2 DEF Taken
<1>7. None \notin Slots
  BY DeliveryAssumption
<1>8. Claiming' = Claiming \ {r}
  BY <1>2 DEF Claiming, AtRest
<1>9. ASSUME NEW p \in Runtimes, NEW q \in Runtimes, poller'[p].slot = poller'[q].slot
      PROVE  p = q \/ poller'[p] = AtRest
  <2>1. CASE p = r \/ (p # r /\ q # r)
    BY <1>2, <1>9, <2>1 DEF SlotsShared
  <2>2. CASE p # r /\ q = r
    <3>1. poller'[p] = poller[p] /\ poller[p].slot = None
      BY <1>2, <1>9, <2>2 DEF AtRest
    <3> QED BY <1>7, <3>1 DEF Types, Pollers
  <2> QED BY <2>1, <2>2
<1> QED BY <1>1, <1>2, <1>3, <1>5, <1>6, <1>7, <1>8, <1>9 DEF SlotsShared

\* The poller stays with its slot and goes on to another point.
LEMMA PollerGoes ==
  ASSUME Types, SlotsShared, NEW r \in Runtimes, NEW x \in Pollers,
         poller[r].pc # "idle", x.slot = poller[r].slot,
         poller' = [poller EXCEPT ![r] = x]
  PROVE  /\ poller' \in [Runtimes -> Pollers]
         /\ Taken' = Taken
         /\ Claiming' = IF x.pc \in {"claim", "handoff"} THEN Claiming \cup {r} ELSE Claiming \ {r}
         /\ \A p, q \in Runtimes :
              poller'[p].slot = poller'[q].slot => p = q \/ poller'[p] = AtRest
<1>1. /\ poller' \in [Runtimes -> Pollers]
      /\ \A q \in Runtimes : poller'[q] = IF q = r THEN x ELSE poller[q]
  BY DEF Types
<1>2. \A q \in Runtimes : poller'[q].slot = poller[q].slot
  BY <1>1
<1>3. Taken' = Taken
  BY <1>2 DEF Taken
<1>4. ASSUME NEW p \in Runtimes, NEW q \in Runtimes, poller'[p].slot = poller'[q].slot
      PROVE  p = q \/ poller'[p] = AtRest
  <2>1. p = q \/ poller[p] = AtRest
    BY <1>2, <1>4 DEF SlotsShared
  <2>2. poller[r] # AtRest
    BY DEF AtRest
  <2> QED BY <1>1, <2>1, <2>2
<1>5. Claiming' = IF x.pc \in {"claim", "handoff"} THEN Claiming \cup {r} ELSE Claiming \ {r}
  BY <1>1 DEF Claiming
<1> QED BY <1>1, <1>3, <1>4, <1>5

LEMMA EnterClaimStep == ASSUME DeliveryInv, NEW r \in Runtimes, EnterClaim(r) PROVE DeliveryInv'
<1>1. Types /\ SlotsShared /\ Counted /\ Barrier /\ DirectoryExclusive
  BY DEF DeliveryInv, TypeOK
<1>2. /\ UNCHANGED <<kind, server, handler, locks, activeTasks, updates>>
      /\ Busy' = Busy /\ DirectoryExclusive' /\ poller[r].pc = "slot" /\ r \notin Claiming
  BY <1>1, SameHandlers DEF EnterClaim, Claiming
<1>3. CASE ~pauseClaims
  <2> DEFINE x == [pc |-> "claim", slot |-> poller[r].slot, task |-> None]
  <2>1. x \in Pollers /\ x.slot = poller[r].slot /\ [poller[r] EXCEPT !.pc = "claim"] = x
    BY <1>1, <1>2 DEF Types, Pollers, AtRest
  <2>2. /\ poller' = [poller EXCEPT ![r] = [poller[r] EXCEPT !.pc = "claim"]]
        /\ claimsInFlight' = claimsInFlight + 1 /\ UNCHANGED sem
    BY <1>3 DEF EnterClaim
  <2>3. /\ poller' \in [Runtimes -> Pollers] /\ Taken' = Taken /\ Claiming' = Claiming \cup {r}
        /\ \A p, q \in Runtimes : poller'[p].slot = poller'[q].slot => p = q \/ poller'[p] = AtRest
    <3>1. poller' = [poller EXCEPT ![r] = x]
      BY <2>1, <2>2
    <3>2. x.pc = "claim"
      OBVIOUS
    <3> HIDE DEF x
    <3> QED BY <1>1, <1>2, <2>1, <3>1, <3>2, PollerGoes
  <2>4. Cardinality(Claiming') = Cardinality(Claiming) + 1 /\ Cardinality(Claiming) \in Nat
        /\ Cardinality(Busy) \in Nat
    BY <1>2, <2>3, Finite, OneMore, FS_CardinalityType
  <2>5. Counted'
    BY <1>1, <1>2, <2>2, <2>4 DEF Counted
  <2>6. Barrier'
    BY <1>1, <1>2, <1>3 DEF Barrier, UpdateInterruptsNothing, updates
  <2>7. SlotsShared'
    BY <1>1, <1>2, <2>2, <2>3 DEF SlotsShared
  <2>8. Types'
    BY <1>1, <1>2, <2>2, <2>3 DEF Types, server, locks, updates
  <2> QED BY <1>2, <2>5, <2>6, <2>7, <2>8 DEF DeliveryInv, TypeOK
<1>4. CASE pauseClaims
  <2>1. /\ poller' = [poller EXCEPT ![r] = AtRest]
        /\ sem' = sem \cup {poller[r].slot} /\ UNCHANGED claimsInFlight
    BY <1>4 DEF EnterClaim
  <2>2. /\ poller' \in [Runtimes -> Pollers]
        /\ poller[r].slot \in Slots /\ poller[r].slot \notin Busy
        /\ \A y \in Slots : y \in Taken' <=> y \in Taken /\ y # poller[r].slot
        /\ Taken' \subseteq (Taken \ {poller[r].slot}) \cup {None}
        /\ Claiming' = Claiming
        /\ \A p, q \in Runtimes : poller'[p].slot = poller'[q].slot => p = q \/ poller'[p] = AtRest
    <3>1. poller[r].pc # "idle" /\ Claiming \ {r} = Claiming
      BY <1>2
    <3> QED BY <1>1, <2>1, <3>1, Returns
  <2>3. SlotsShared'
    <3>1. None \notin Busy
      BY DeliveryAssumption DEF Busy
    <3> QED BY <1>1, <1>2, <2>1, <2>2, <3>1 DEF SlotsShared
  <2>4. Counted' /\ Barrier'
    BY <1>1, <1>2, <2>1, <2>2 DEF Counted, Barrier, UpdateInterruptsNothing, updates
  <2>5. Types'
    BY <1>1, <1>2, <2>1, <2>2 DEF Types, server, locks, updates
  <2> QED BY <1>2, <2>3, <2>4, <2>5 DEF DeliveryInv, TypeOK
<1> QED BY <1>3, <1>4

LEMMA ClaimTaskStep == ASSUME DeliveryInv, NEW r \in Runtimes, ClaimTask(r) PROVE DeliveryInv'
<1>1. Types /\ SlotsShared /\ Counted /\ Barrier /\ DirectoryExclusive
  BY DEF DeliveryInv, TypeOK
<1>2. /\ UNCHANGED <<kind, sem, handler, locks, counters, updates>>
      /\ Busy' = Busy /\ DirectoryExclusive' /\ poller[r].pc = "claim" /\ r \in Claiming
  BY <1>1, SameHandlers DEF ClaimTask, Claiming
<1>3. PICK t \in Claimable(r) :
        /\ SetStatus(t, "dispatched")
        /\ poller' = [poller EXCEPT ![r] = [pc |-> "handoff", slot |-> @.slot, task |-> t]]
  BY DEF ClaimTask
<1>4. t \in Tasks
  BY <1>1 DEF Claimable, Stale, Types
<1> DEFINE x == [pc |-> "handoff", slot |-> poller[r].slot, task |-> t]
<1>5. x \in Pollers /\ x.slot = poller[r].slot /\ x.pc = "handoff"
  BY <1>1, <1>2, <1>4 DEF Types, Pollers, AtRest
<1>6. poller' = [poller EXCEPT ![r] = x]
  BY <1>1, <1>2, <1>3 DEF Types, Pollers, AtRest
<1>7. /\ poller' \in [Runtimes -> Pollers] /\ Taken' = Taken /\ Claiming' = Claiming
      /\ \A p, q \in Runtimes : poller'[p].slot = poller'[q].slot => p = q \/ poller'[p] = AtRest
  <2> HIDE DEF x
  <2>1. poller[r].pc # "idle"
    BY <1>2
  <2>2. /\ poller' \in [Runtimes -> Pollers] /\ Taken' = Taken /\ Claiming' = Claiming \cup {r}
        /\ \A p, q \in Runtimes : poller'[p].slot = poller'[q].slot => p = q \/ poller'[p] = AtRest
    BY <1>1, <1>5, <1>6, <2>1, PollerGoes
  <2>3. Claiming \cup {r} = Claiming
    BY <1>2
  <2> QED BY <2>2, <2>3
<1>8. SlotsShared' /\ Counted' /\ Barrier'
  BY <1>1, <1>2, <1>7 DEF SlotsShared, Counted, Barrier, UpdateInterruptsNothing, counters, updates
<1>9. Types'
  BY <1>1, <1>2, <1>3, <1>4, <1>7, RowsTyped DEF Types, locks, counters, updates, Live, Pending
<1> QED BY <1>2, <1>8, <1>9 DEF DeliveryInv, TypeOK

LEMMA ClaimFailsStep == ASSUME DeliveryInv, NEW r \in Runtimes, ClaimFails(r) PROVE DeliveryInv'
<1>1. Types /\ SlotsShared /\ Counted /\ Barrier /\ DirectoryExclusive
  BY DEF DeliveryInv, TypeOK
<1>2. /\ UNCHANGED <<kind, handler, locks, activeTasks, updates>>
      /\ Busy' = Busy /\ DirectoryExclusive' /\ poller[r].pc = "claim" /\ r \in Claiming
      /\ poller' = [poller EXCEPT ![r] = AtRest] /\ sem' = sem \cup {poller[r].slot}
      /\ claimsInFlight' = claimsInFlight - 1
  BY <1>1, SameHandlers DEF ClaimFails, Claiming
<1>3. /\ status' \in [Tasks -> Live \cup Terminal]
      /\ stale' \subseteq {u \in Tasks : status'[u] = "dispatched"}
  <2>1. CASE UNCHANGED server
    BY <1>1, <2>1 DEF server, Types
  <2>2. CASE \E t \in Claimable(r) : SetStatus(t, "dispatched")
    BY <1>1, <2>2, RowsTyped DEF Claimable, Stale, Types, Live, Pending
  <2> QED BY <2>1, <2>2 DEF ClaimFails
<1>4. /\ poller' \in [Runtimes -> Pollers]
      /\ poller[r].slot \in Slots /\ poller[r].slot \notin Busy
      /\ \A y \in Slots : y \in Taken' <=> y \in Taken /\ y # poller[r].slot
      /\ Taken' \subseteq (Taken \ {poller[r].slot}) \cup {None}
      /\ Claiming' = Claiming \ {r}
      /\ \A p, q \in Runtimes : poller'[p].slot = poller'[q].slot => p = q \/ poller'[p] = AtRest
  BY <1>1, <1>2, Returns
<1>5. SlotsShared'
  <2>1. None \notin Busy
    BY DeliveryAssumption DEF Busy
  <2> QED BY <1>1, <1>2, <1>4, <2>1 DEF SlotsShared
<1>6. /\ Cardinality(Claiming') = Cardinality(Claiming) - 1
      /\ Cardinality(Claiming) \in Nat /\ Cardinality(Claiming) >= 1 /\ Cardinality(Busy) \in Nat
  BY <1>2, <1>4, Finite, OneLess, FS_CardinalityType
<1>7. Counted' /\ claimsInFlight' \in Nat
  BY <1>1, <1>2, <1>6 DEF Counted
<1>8. Barrier'
  BY <1>1, <1>2, <1>4 DEF Barrier, UpdateInterruptsNothing, updates
<1>9. Types'
  BY <1>1, <1>2, <1>3, <1>4, <1>7 DEF Types, locks, updates
<1> QED BY <1>2, <1>5, <1>7, <1>8, <1>9 DEF DeliveryInv, TypeOK

\* The goroutine starts where the poller lets the slot go.
LEMMA HandOffStep == ASSUME DeliveryInv, NEW r \in Runtimes, HandOff(r) PROVE DeliveryInv'
<1> DEFINE x == poller[r].slot
<1>1. Types /\ SlotsShared /\ Counted /\ Barrier /\ DirectoryExclusive
  BY DEF DeliveryInv, TypeOK
<1>2. /\ UNCHANGED <<kind, server, sem, locks, claimsInFlight, updates>>
      /\ poller[r].pc = "handoff" /\ r \in Claiming
      /\ poller' = [poller EXCEPT ![r] = AtRest] /\ activeTasks' = activeTasks + 1
      /\ handler' = [handler EXCEPT ![x] = [pc |-> "lock", task |-> poller[r].task]]
  BY DEF HandOff, Claiming
<1>3. poller[r].task \in Tasks
  BY <1>1, <1>2 DEF Types, Pollers, AtRest
<1>4. /\ poller' \in [Runtimes -> Pollers]
      /\ x \in Slots /\ x \notin Busy
      /\ \A y \in Slots : y \in Taken' <=> y \in Taken /\ y # x
      /\ Taken' \subseteq (Taken \ {x}) \cup {None}
      /\ Claiming' = Claiming \ {r}
      /\ \A p, q \in Runtimes : poller'[p].slot = poller'[q].slot => p = q \/ poller'[p] = AtRest
  <2>1. poller[r].pc # "idle"
    BY <1>2
  <2> QED BY <1>1, <1>2, <2>1, Returns
<1> HIDE DEF x
<1>5. /\ handler' \in [Slots -> {Free} \cup [pc : Working, task : Tasks]]
      /\ \A q \in Slots : handler'[q] = IF q = x THEN [pc |-> "lock", task |-> poller[r].task]
                                        ELSE handler[q]
  BY <1>1, <1>2, <1>3, <1>4 DEF Types, Working
<1>6. Busy' = Busy \cup {x}
  BY <1>4, <1>5 DEF Busy
<1>7. x \in Taken
  BY DEF Taken, x
<1>8. SlotsShared'
  <2>1. None \notin Busy /\ None # x
    BY <1>4, DeliveryAssumption DEF Busy
  <2>2. Taken' \cap Busy' = {}
    BY <1>1, <1>4, <1>6, <2>1 DEF SlotsShared
  <2>3. sem' = Slots \ (Busy' \cup Taken')
    BY <1>1, <1>2, <1>4, <1>6, <1>7 DEF SlotsShared
  <2> QED BY <1>4, <2>2, <2>3 DEF SlotsShared
<1>9. /\ Cardinality(Claiming') = Cardinality(Claiming) - 1 /\ Cardinality(Claiming) \in Nat
      /\ Cardinality(Busy') = Cardinality(Busy) + 1 /\ Cardinality(Busy) \in Nat
  BY <1>2, <1>4, <1>6, Finite, OneLess, OneMore, FS_CardinalityType
<1>10. Counted' /\ activeTasks' \in Nat
  BY <1>1, <1>2, <1>9 DEF Counted
<1>11. Barrier'
  BY <1>1, <1>2 DEF Barrier, UpdateInterruptsNothing, updates
<1>12. Types'
  BY <1>1, <1>2, <1>4, <1>5, <1>10 DEF Types, server, locks, updates
<1>13. DirectoryExclusive'
  <2> SUFFICES ASSUME NEW q \in Slots, Inside(q)', Key(q)' # None
               PROVE  owner'[Key(q)'] = q
    BY DEF DirectoryExclusive
  <2>1. q # x
    BY <1>5 DEF Inside
  <2>2. handler'[q] = handler[q] /\ owner' = owner
    BY <1>2, <1>5, <2>1 DEF locks
  <2>3. Inside(q) /\ Key(q)' = Key(q)
    BY <2>2 DEF Inside, Key, Row
  <2> QED BY <1>1, <2>2, <2>3 DEF DirectoryExclusive
<1> QED BY <1>8, <1>10, <1>11, <1>12, <1>13 DEF DeliveryInv, TypeOK

LEMMA PollSteps == ASSUME DeliveryInv, NEW r \in Runtimes, Poll(r) PROVE DeliveryInv'
  BY TakeSlotStep, EnterClaimStep, ClaimTaskStep, ClaimFailsStep, HandOffStep DEF Poll

-----------------------------------------------------------------------------
(* The updates and the restart.                                            *)

\* The barrier reads two counters; both are zero only of an idle daemon.
LEMMA UpdateSteps == ASSUME DeliveryInv, Update PROVE DeliveryInv'
<1>1. Types /\ SlotsShared /\ Counted /\ Barrier /\ DirectoryExclusive
  BY DEF DeliveryInv, TypeOK
<1>2. UNCHANGED Daemon
  BY DEF Update, AutoCheck, AutoSkip, TrySetClaimBarrier, AutoFails, UserUpdate, UserUpdateFails
<1>3. Busy' = Busy /\ Claiming' = Claiming /\ Taken' = Taken
  BY <1>2 DEF Daemon, Busy, Claiming, Taken
<1>4. SlotsShared' /\ Counted' /\ DirectoryExclusive'
  BY <1>1, <1>2, <1>3 DEF Daemon, counters, locks, SlotsShared, Counted, DirectoryExclusive,
                           Inside, Key, Row
<1>5. /\ pauseClaims' \in BOOLEAN /\ updating' \in BOOLEAN
      /\ auto' \in {"idle", "fetch", "upgrade"}
  BY <1>1 DEF Types, Update, AutoCheck, AutoSkip, TrySetClaimBarrier, AutoFails, UserUpdate,
              UserUpdateFails
<1>6. Types'
  BY <1>1, <1>2, <1>5 DEF Types, Daemon, server, locks, counters
<1>7. Barrier'
  <2>1. CASE AutoCheck
    BY <1>1, <2>1 DEF AutoCheck, Barrier, UpdateInterruptsNothing
  <2>2. CASE AutoSkip
    BY <1>1, <2>2 DEF AutoSkip, Barrier, UpdateInterruptsNothing
  <2>3. CASE TrySetClaimBarrier
    <3>1. CASE claimsInFlight > 0 \/ activeTasks > 0
      BY <1>1, <2>3, <3>1 DEF TrySetClaimBarrier, Barrier, UpdateInterruptsNothing
    <3>2. CASE ~(claimsInFlight > 0 \/ activeTasks > 0)
      <4>1. Cardinality(Busy) = 0 /\ Cardinality(Claiming) = 0
        <5>1. Cardinality(Busy) \in Nat /\ Cardinality(Claiming) \in Nat
          BY Finite, FS_CardinalityType
        <5>2. /\ activeTasks = Cardinality(Busy)
              /\ claimsInFlight = Cardinality(Claiming) + Cardinality(Busy)
          BY <1>1 DEF Counted
        <5> QED BY <3>2, <5>1, <5>2
      <4>2. Busy = {} /\ Claiming = {}
        BY <4>1, Finite, NoneLeft
      <4> QED BY <1>3, <2>3, <3>2, <4>2 DEF TrySetClaimBarrier, Barrier, UpdateInterruptsNothing
    <3> QED BY <3>1, <3>2
  <2>4. CASE AutoFails
    BY <2>4 DEF AutoFails, Barrier, UpdateInterruptsNothing
  <2>5. CASE UserUpdate
    BY <1>1, <1>3, <2>5 DEF UserUpdate, Barrier, UpdateInterruptsNothing
  <2>6. CASE UserUpdateFails
    BY <1>1, <2>6 DEF UserUpdateFails, Barrier, UpdateInterruptsNothing
  <2> QED BY <2>1, <2>2, <2>3, <2>4, <2>5, <2>6 DEF Update
<1> QED BY <1>4, <1>6, <1>7 DEF DeliveryInv, TypeOK

\* A daemon at work on nothing, as it is when it starts.
LEMMA NothingShared ==
  ASSUME poller = [r \in Runtimes |-> AtRest], handler = [s \in Slots |-> Free],
         sem = Slots, activeTasks = 0, claimsInFlight = 0
  PROVE  /\ SlotsShared /\ Counted /\ DirectoryExclusive /\ Busy = {} /\ Claiming = {}
         /\ poller \in [Runtimes -> Pollers]
         /\ handler \in [Slots -> {Free} \cup [pc : Working, task : Tasks]]
<1>1. Busy = {} /\ Claiming = {}
  BY DEF Busy, Claiming, Free, AtRest
<1>2. Taken \subseteq {None} /\ None \notin Slots
  BY DeliveryAssumption DEF Taken, AtRest
<1>3. SlotsShared
  BY <1>1, <1>2 DEF SlotsShared
<1>4. Counted
  BY <1>1, FS_EmptySet DEF Counted
<1>5. DirectoryExclusive
  BY DEF DirectoryExclusive, Inside, Free
<1> QED BY <1>1, <1>3, <1>4, <1>5 DEF Pollers

LEMMA DeliveryInit == Init => DeliveryInv
<1> SUFFICES ASSUME Init PROVE DeliveryInv
  OBVIOUS
<1>1. /\ SlotsShared /\ Counted /\ DirectoryExclusive /\ Busy = {} /\ Claiming = {}
      /\ poller \in [Runtimes -> Pollers]
      /\ handler \in [Slots -> {Free} \cup [pc : Working, task : Tasks]]
  BY NothingShared DEF Init
<1>2. Barrier
  BY DEF Init, Barrier, UpdateInterruptsNothing
<1>3. Types
  BY <1>1 DEF Init, Types, Live, Pending
<1> QED BY <1>1, <1>2, <1>3 DEF DeliveryInv, TypeOK

LEMMA RestartStep == ASSUME DeliveryInv, Restart PROVE DeliveryInv'
<1>1. Types
  BY DEF DeliveryInv, TypeOK
<1>2. /\ (SlotsShared /\ Counted /\ DirectoryExclusive /\ Busy = {} /\ Claiming = {})'
      /\ poller' \in [Runtimes -> Pollers]
      /\ handler' \in [Slots -> {Free} \cup [pc : Working, task : Tasks]]
  <2>1. /\ poller' = [r \in Runtimes |-> AtRest] /\ handler' = [s \in Slots |-> Free]
        /\ sem' = Slots /\ activeTasks' = 0 /\ claimsInFlight' = 0
    BY DEF Restart
  <2>2. Busy' = {} /\ Claiming' = {}
    BY <2>1 DEF Busy, Claiming, Free, AtRest
  <2>3. Taken' \subseteq {None} /\ None \notin Slots
    BY <2>1, DeliveryAssumption DEF Taken, AtRest
  <2>4. SlotsShared'
    BY <2>1, <2>2, <2>3 DEF SlotsShared
  <2>5. Counted'
    BY <2>1, <2>2, FS_EmptySet DEF Counted
  <2>6. DirectoryExclusive'
    BY <2>1 DEF DirectoryExclusive, Inside, Free
  <2> QED BY <2>1, <2>2, <2>4, <2>5, <2>6 DEF Pollers
<1>3. Barrier'
  BY DEF Restart, Barrier, UpdateInterruptsNothing
<1>4. status' \in [Tasks -> Live \cup Terminal]
  BY <1>1 DEF Restart, Types, Terminal
<1>5. Types'
  BY <1>1, <1>2, <1>4 DEF Restart, Types
<1> QED BY <1>2, <1>3, <1>5 DEF DeliveryInv, TypeOK

-----------------------------------------------------------------------------

LEMMA DeliveryStep == DeliveryInv /\ [Next]_vars => DeliveryInv'
<1> SUFFICES ASSUME DeliveryInv, [Next]_vars PROVE DeliveryInv'
  OBVIOUS
<1>1. CASE UNCHANGED vars
  <2>1. Busy' = Busy /\ Claiming' = Claiming /\ Taken' = Taken
    BY <1>1 DEF vars, Busy, Claiming, Taken
  <2>2. Types' /\ SlotsShared'
    BY <1>1, <2>1 DEF DeliveryInv, TypeOK, Types, SlotsShared, vars, server, locks, counters, updates
  <2>3. Counted' /\ Barrier'
    BY <1>1, <2>1 DEF DeliveryInv, Counted, Barrier, UpdateInterruptsNothing, vars, counters, updates
  <2>4. DirectoryExclusive'
    BY <1>1, SameHandlers DEF DeliveryInv, vars
  <2> QED BY <2>2, <2>3, <2>4 DEF DeliveryInv, TypeOK
<1>2. CASE Next
  BY <1>2, PollSteps, HandleSteps, GhostSteps, RowSteps, UpdateSteps, RestartStep DEF Next
<1> QED BY <1>1, <1>2

LEMMA DeliveryInvariant == Spec => []DeliveryInv
  BY DeliveryInit, DeliveryStep, PTL DEF Spec

\* No execution slot of the daemon is lost or given out twice, whichever way
\* pollers and goroutines return it (taskSlotSemaphore, runRuntimePoller).
THEOREM TypeCorrect == Spec => []TypeOK
<1>1. DeliveryInv => TypeOK
  BY DEF DeliveryInv
<1> QED BY <1>1, DeliveryInvariant, PTL

\* The barrier of tryAutoUpdate, one look at two counters that pollers and
\* goroutines move at different times, never lets an update begin beside a
\* claim or a task (trySetClaimBarrier).
THEOREM UpdatesInterruptNothing == Spec => []UpdateInterruptsNothing
<1>1. DeliveryInv => UpdateInterruptsNothing
  BY DEF DeliveryInv, Barrier
<1> QED BY <1>1, DeliveryInvariant, PTL

\* One goroutine at a time works in a directory, with any number of
\* duplicates of a row and of cancelled waiters (LocalPathLocker.Acquire).
THEOREM DirectoriesExclusive == Spec => []DirectoryExclusive
<1>1. DeliveryInv => DirectoryExclusive
  BY DEF DeliveryInv
<1> QED BY <1>1, DeliveryInvariant, PTL
=============================================================================
