------------------------ MODULE SchedulerLeaseProofs ------------------------
(***************************************************************************)
(* TypeOK, ExclusiveAttempt and PlanSpec for any number of runners, plans, *)
(* attempts and faults, any cadence, delay, window and backoff.            *)
(*                                                                         *)
(* None of them is inductive.  LeaseInv is what they have in common: the   *)
(* attempt of a row counts its lease tokens, and a runner holds an attempt *)
(* that was given out, so the attempt given out next is nobody's and a     *)
(* runner that still owns its row is in the latest attempt of it.  TickInv *)
(* keeps a tick within the plans that were due when it read the clock.     *)
(***************************************************************************)
EXTENDS SchedulerLease, TLAPS

Holding == {"run", "write"}

TickInv ==
  \A r \in Runners :
    /\ run[r].pc # "idle" => run[r].now \in ScheduleDelay .. clock
    /\ run[r].pc \in {"claim"} \cup Holding => run[r].next \in Plans /\ run[r].last \in Plans

LeaseInv ==
  /\ \A p \in Plans : rows[p].attempt = rows[p].token
  /\ \A r \in Runners : run[r].pc \in Holding =>
       /\ run[r].attempt = run[r].token
       /\ run[r].attempt \in 1 .. rows[run[r].next].attempt

ReturnedInv ==
  \A r \in Runners : run[r].pc = "write" /\ run[r].ok =>
    <<run[r].next, run[r].attempt>> \in returned

NoneInv == \A p \in Plans : rows[p].status = "none" => rows[p].attempt = 0

IInv == TypeOK /\ TickInv /\ LeaseInv /\ ReturnedInv /\ NoneInv /\ ExclusiveAttempt

-----------------------------------------------------------------------------
(* Plan numbers *)

\* Division rounds down and keeps the order.
LEMMA DivisionMonotone ==
  ASSUME NEW a \in Nat, NEW b \in Nat, a <= b, NEW c \in Nat \ {0}
  PROVE  a \div c \in Nat /\ b \div c \in Nat /\ a \div c <= b \div c
<1> DEFINE p == a \div c  q == b \div c
<1>1. p \in Nat /\ q \in Nat /\ c * p <= a /\ b < c * q + c
      BY Z3
<1> HIDE DEF p, q
<1>2. ASSUME q < p PROVE FALSE
      <2>1. c * (q + 1) <= c * p
            BY <1>1, <1>2, Z3
      <2>2. c * (q + 1) = c * q + c
            BY <1>1, Z3
      <2> QED BY <1>1, <2>1, <2>2, Z3
<1>3. p <= q
      BY <1>1, <1>2
<1> QED BY <1>1, <1>3 DEF p, q

\* A plan that is due at some time of the clock is one of Plans.
LEMMA DueIsPlan ==
  ASSUME NEW now \in ScheduleDelay .. MaxClock
  PROVE  LatestDue(now) \in Plans /\ LatestDue(MaxClock) \in Nat
<1>1. now - ScheduleDelay \in Nat /\ MaxClock - ScheduleDelay \in Nat
      BY JobAssumption
<1>2. now - ScheduleDelay <= MaxClock - ScheduleDelay
      BY JobAssumption
<1> QED BY <1>1, <1>2, DivisionMonotone, JobAssumption DEF LatestDue, Plans

\* The oldest plan of the window is a number.
LEMMA OldestIsNumber ==
  ASSUME NEW now \in ScheduleDelay .. MaxClock
  PROVE  OldestAllowed(now) \in Int
<1>1. CatchUpWindow - now \in Int /\ Cadence \in Nat \ {0}
      BY JobAssumption
<1>2. (CatchUpWindow - now) \div Cadence \in Int
      BY <1>1, Z3
<1> QED BY <1>2, DueIsPlan DEF OldestAllowed, Plans

\* The plans are the numbers up to the last one that becomes due.
LEMMA PlansAreNumbers ==
  /\ LatestDue(MaxClock) \in Nat
  /\ \A p \in Plans : p \in Nat /\ p <= LatestDue(MaxClock)
<1>1. MaxClock \in ScheduleDelay .. MaxClock
      BY JobAssumption
<1>2. LatestDue(MaxClock) \in Nat
      BY <1>1, DueIsPlan
<1> QED BY <1>2 DEF Plans

\* A runner between two ticks.
LEMMA IdleType == Idle \in Ticks /\ Idle.pc = "idle"
  BY JobAssumption DEF Idle, Ticks

\* What a tick goes on with keeps within the plans that were due.
LEMMA WithPlansType ==
  ASSUME NEW w \in Ticks, NEW first \in Nat, NEW last \in Plans
  PROVE  /\ WithPlans(w, first, last) \in Ticks
         /\ WithPlans(w, first, last).pc \in {"idle", "claim"}
         /\ WithPlans(w, first, last).pc = "claim" =>
              /\ WithPlans(w, first, last).now = w.now
              /\ WithPlans(w, first, last).next = first
              /\ WithPlans(w, first, last).last = last
              /\ first \in Plans
<1>1. last \in Nat /\ last <= LatestDue(MaxClock) /\ LatestDue(MaxClock) \in Nat
      BY PlansAreNumbers
<1>2. CASE first <= last
      <2> DEFINE t0 == [Idle EXCEPT !.pc = "claim"]
                 t1 == [t0 EXCEPT !.now = w.now]
                 t2 == [t1 EXCEPT !.next = first]
                 t3 == [t2 EXCEPT !.last = last]
      <2>1. t0 \in Ticks /\ t0.pc = "claim"
            BY IdleType DEF Ticks
      <2>2. w.now \in Nat
            BY DEF Ticks
      <2> HIDE DEF t0
      <2>3. t1 \in Ticks /\ t1.pc = "claim" /\ t1.now = w.now
            BY <2>1, <2>2 DEF Ticks
      <2> HIDE DEF t1
      <2>5. t2 \in Ticks /\ t2.pc = "claim" /\ t2.now = w.now /\ t2.next = first
            BY <2>3 DEF Ticks
      <2> HIDE DEF t2
      <2>6. t3 \in Ticks /\ t3.pc = "claim" /\ t3.now = w.now /\ t3.next = first /\ t3.last = last
            BY <1>1, <2>5 DEF Ticks
      <2>7. WithPlans(w, first, last) = t3
            BY <1>2 DEF WithPlans, t0, t1, t2
      <2>4. first \in Plans
            BY <1>1, <1>2 DEF Plans
      <2> QED BY <2>4, <2>6, <2>7
<1>3. CASE ~(first <= last)
      BY <1>3, IdleType DEF WithPlans
<1> QED BY <1>2, <1>3

-----------------------------------------------------------------------------
(* The invariant, one lemma for each kind of step *)

\* A step of one runner that holds no lease afterwards, and of no row.
LEMMA QuietStep ==
  ASSUME IInv, NEW r \in Runners, NEW t \in Ticks, t.pc \notin Holding,
         t.pc # "idle" => t.now \in ScheduleDelay .. clock,
         t.pc = "claim" => t.next \in Plans /\ t.last \in Plans,
         run' = [run EXCEPT ![r] = t],
         rows' \in [Plans -> Rows],
         \A p \in Plans : /\ rows'[p].attempt = rows[p].attempt
                          /\ rows'[p].token = rows[p].token
                          /\ rows'[p].status = "none" => rows[p].status = "none",
         faults' \in 0 .. MaxFaults, UNCHANGED <<job, clock, returned>>
  PROVE  IInv'
<1> USE DEF IInv
<1>1. run \in [Runners -> Ticks] /\ run' \in [Runners -> Ticks]
      BY DEF TypeOK
<1>2. run'[r] = t /\ \A s \in Runners : s # r => run'[s] = run[s]
      BY <1>1
<1>3. TypeOK'
      BY <1>1 DEF TypeOK
<1>4. TickInv'
      BY <1>2 DEF TickInv, Holding
<1>9. \A p \in Plans : rows'[p].attempt = rows[p].attempt /\ rows'[p].token = rows[p].token
      OBVIOUS
<1>5. LeaseInv'
      <2>1. \A p \in Plans : rows'[p].attempt = rows'[p].token
            BY <1>9 DEF LeaseInv
      <2>2. ASSUME NEW s \in Runners, run'[s].pc \in Holding
            PROVE  /\ run'[s] = run[s] /\ run[s].next \in Plans
                   /\ run[s].attempt = run[s].token
                   /\ run[s].attempt \in 1 .. rows[run[s].next].attempt
            BY <1>2, <2>2 DEF LeaseInv, TickInv
      <2> QED BY <1>9, <2>1, <2>2 DEF LeaseInv
<1>6. ReturnedInv'
      BY <1>2 DEF ReturnedInv, Holding
<1>7. ExclusiveAttempt'
      BY <1>2 DEF ExclusiveAttempt, Handling, Holding
<1>8. NoneInv'
      BY <1>9 DEF NoneInv
<1> QED BY <1>3, <1>4, <1>5, <1>6, <1>7, <1>8

\* Each row keeps its type when it is claimed, closed or finished.
LEMMA ClaimedType ==
  ASSUME NEW row \in Rows, NEW now \in Nat, row.attempt < MaxAttempts
  PROVE  /\ Claimed(row, now) \in Rows
         /\ Claimed(row, now).attempt = row.attempt + 1
         /\ Claimed(row, now).token = row.token + 1
<1>1. row.attempt \in 0 .. MaxAttempts /\ row.token \in Nat
      BY DEF Rows
<1>2. now + StaleTimeout \in Nat /\ row.attempt + 1 \in 0 .. MaxAttempts /\ row.token + 1 \in Nat
      BY <1>1, JobAssumption
<1> QED BY <1>2 DEF Claimed, Rows

\* A row that may be taken has attempts left.
LEMMA TakenType ==
  ASSUME IInv, NEW r \in Runners, run[r].pc = "claim", TakeLease(r, rows[run[r].next])
  PROVE  LET row == rows[run[r].next]
         IN  /\ run[r].next \in Plans /\ row \in Rows /\ row.attempt < MaxAttempts
             /\ row.status # "SUCCESS"
             /\ row.attempt + 1 \in 0 .. MaxAttempts /\ row.token + 1 \in Nat
<1> DEFINE row == rows[run[r].next]
<1>1. run[r].next \in Plans /\ row \in Rows
      BY DEF IInv, TypeOK, TickInv
<1>2. row.attempt < MaxAttempts /\ row.status # "SUCCESS"
      <2>1. CASE row.status = "none"
            BY <1>1, <2>1, JobAssumption DEF NoneInv, IInv
      <2>2. CASE Reclaimable(row, run[r].now)
            BY <2>2 DEF Reclaimable, RetryEligible, Expired
      <2> QED BY <2>1, <2>2 DEF TakeLease
<1>3. row.attempt \in 0 .. MaxAttempts /\ row.token \in Nat
      BY <1>1 DEF Rows
<1> HIDE DEF row
<1>4. row.attempt + 1 \in 0 .. MaxAttempts /\ row.token + 1 \in Nat
      BY <1>2, <1>3, JobAssumption
<1> QED BY <1>1, <1>2, <1>4 DEF row

\* A claim: what a runner goes on with holds the new attempt, or none.
LEMMA TakeStep ==
  ASSUME IInv, NEW r \in Runners, run[r].pc = "claim",
         TakeLease(r, rows[run[r].next]),
         NEW t \in Ticks, t.pc \in {"idle", "claim", "run"},
         t.pc # "idle" => t.now \in ScheduleDelay .. clock,
         t.pc \in {"claim", "run"} => t.next \in Plans /\ t.last \in Plans,
         t.pc = "run" => /\ t.next = run[r].next
                         /\ t.attempt = rows[t.next].attempt + 1
                         /\ t.token = rows[t.next].token + 1,
         run' = [run EXCEPT ![r] = t], faults' \in 0 .. MaxFaults
  PROVE  IInv'
<1> USE DEF IInv
<1> DEFINE p == run[r].next  now == run[r].now
<1>1. run \in [Runners -> Ticks] /\ run' \in [Runners -> Ticks] /\ rows \in [Plans -> Rows]
      BY DEF TypeOK
<1>2. run'[r] = t /\ \A s \in Runners : s # r => run'[s] = run[s]
      BY <1>1
<1>3. p \in Plans /\ now \in Nat /\ rows[p] \in Rows
      BY <1>1 DEF TickInv, Holding, Ticks
<1>4. rows[p].attempt < MaxAttempts /\ rows[p].attempt \in 0 .. MaxAttempts
      <2>1. CASE rows[p].status = "none"
            <3>1. rows[p].attempt = 0
                  BY <1>3, <2>1 DEF NoneInv
            <3> QED BY <3>1, JobAssumption
      <2>2. CASE Reclaimable(rows[p], now)
            BY <1>3, <2>2 DEF Reclaimable, RetryEligible, Rows
      <2> QED BY <2>1, <2>2 DEF TakeLease
<1> DEFINE new == Claimed(rows[p], now)
<1>5. new \in Rows /\ new.attempt = rows[p].attempt + 1 /\ new.token = rows[p].token + 1
      BY <1>3, <1>4, ClaimedType
<1>6. rows' = [rows EXCEPT ![p] = new]
      BY DEF TakeLease
<1> HIDE DEF new
<1>7. /\ rows' \in [Plans -> Rows] /\ rows'[p] = new
      /\ \A q \in Plans : q # p => rows'[q] = rows[q]
      BY <1>1, <1>3, <1>5, <1>6
<1>8. \A q \in Plans : rows[q].token \in Nat /\ rows[q].attempt \in Nat
      BY <1>1, JobAssumption DEF Rows
<1>9. UNCHANGED <<job, clock, returned>>
      BY DEF TakeLease
<1> HIDE DEF p, now
<1>10. TypeOK'
       BY <1>1, <1>7, <1>9 DEF TypeOK
<1>11. TickInv'
       BY <1>2, <1>9 DEF TickInv, Holding
<1>12. LeaseInv'
       <2>1. \A q \in Plans : rows'[q].attempt = rows'[q].token
             BY <1>5, <1>7 DEF LeaseInv
       <2>2. \A q \in Plans : rows'[q].attempt \in Nat /\ rows[q].attempt <= rows'[q].attempt
             BY <1>5, <1>7, <1>8
       <2>3. ASSUME NEW s \in Runners, s # r, run[s].pc \in Holding
             PROVE  /\ run[s].attempt = run[s].token
                    /\ run[s].attempt \in 1 .. rows'[run[s].next].attempt
             <3>1. run[s].next \in Plans /\ run[s].attempt = run[s].token
                   /\ run[s].attempt \in 1 .. rows[run[s].next].attempt
                   BY <2>3 DEF LeaseInv, TickInv
             <3> QED BY <3>1, <2>2, <1>8
       <2>4. ASSUME t.pc \in Holding
             PROVE  t.attempt = t.token /\ t.attempt \in 1 .. rows'[t.next].attempt
             <3>1. t.pc = "run" /\ t.next = p
                   BY <2>4 DEF Holding, p
             <3> QED BY <3>1, <1>3, <1>5, <1>7, <1>8 DEF LeaseInv
       <2> QED BY <1>2, <2>1, <2>3, <2>4 DEF LeaseInv
<1>13. ReturnedInv'
       BY <1>2, <1>9 DEF ReturnedInv
<1>14. ExclusiveAttempt'
       <2>1. ASSUME NEW s \in Runners, s # r, t.pc = "run", run[s].pc \in Holding,
                    run[s].next = p
             PROVE  t.token # run[s].token /\ t.attempt # run[s].attempt
             <3>1. run[s].attempt = run[s].token /\ run[s].attempt \in 1 .. rows[p].attempt
                   BY <2>1 DEF LeaseInv
             <3>2. t.attempt = rows[p].attempt + 1 /\ t.token = rows[p].token + 1
                   /\ rows[p].attempt = rows[p].token
                   BY <2>1, <1>3 DEF LeaseInv, p
             <3> QED BY <3>1, <3>2, <1>3, <1>8
       <2>2. t.pc \in Holding => t.pc = "run" /\ t.next = p
             BY DEF Holding, p
       <2> QED BY <1>2, <2>1, <2>2 DEF ExclusiveAttempt, Handling, Holding
<1>15. NoneInv'
       BY <1>7 DEF NoneInv, Claimed, new
<1> QED BY <1>10, <1>11, <1>12, <1>13, <1>14, <1>15

\* A heartbeat moves staleAfter only.
LEMMA HeartbeatStep ==
  ASSUME IInv, NEW r \in Runners, Heartbeat(r)
  PROVE  IInv'
<1> DEFINE p == run[r].next  new == [rows[p] EXCEPT !.staleAfter = clock + StaleTimeout]
<1>1. p \in Plans /\ rows \in [Plans -> Rows] /\ rows[p] \in Rows
      BY DEF IInv, TypeOK, TickInv, Heartbeat, Holding
<1>2. clock + StaleTimeout \in Nat
      BY JobAssumption DEF IInv, TypeOK
<1>3. /\ new \in Rows /\ new.attempt = rows[p].attempt /\ new.token = rows[p].token
      /\ new.status = rows[p].status
      BY <1>1, <1>2 DEF Rows
<1>4. rows' = [rows EXCEPT ![p] = new]
      BY DEF Heartbeat
<1> HIDE DEF new
<1>5. /\ rows' \in [Plans -> Rows]
      /\ \A q \in Plans : /\ rows'[q].attempt = rows[q].attempt
                          /\ rows'[q].token = rows[q].token
                          /\ rows'[q].status = rows[q].status
      BY <1>1, <1>3, <1>4
<1>6. UNCHANGED <<job, clock, run, returned, faults>>
      BY DEF Heartbeat
<1>7. TypeOK' /\ TickInv'
      BY <1>5, <1>6 DEF IInv, TypeOK, TickInv
<1>8. LeaseInv'
      <2>1. \A s \in Runners : run[s].pc \in Holding => run[s].next \in Plans
            BY DEF IInv, TickInv
      <2> QED BY <1>5, <1>6, <2>1 DEF IInv, LeaseInv
<1>9. ReturnedInv' /\ NoneInv' /\ ExclusiveAttempt'
      BY <1>5, <1>6 DEF IInv, ReturnedInv, NoneInv, ExclusiveAttempt, Handling
<1> QED BY <1>7, <1>8, <1>9 DEF IInv

\* The handler ends: its attempt is recorded with its outcome.
LEMMA ReturnStep ==
  ASSUME IInv, NEW r \in Runners, NEW ok \in BOOLEAN, Return(r, ok)
  PROVE  /\ IInv'
         /\ \A e \in returned' \ returned : e[1] \in Plans /\ e[2] \in 1 .. rows[e[1]].attempt
<1> DEFINE w == run[r]
           t == [w EXCEPT !.pc = "write", !.ok = ok, !.at = IF ok THEN 0 ELSE clock]
<1>1. /\ run \in [Runners -> Ticks] /\ w \in Ticks /\ w.pc = "run" /\ clock \in Nat
      BY JobAssumption DEF IInv, TypeOK, Return
<1>2. /\ t \in Ticks /\ t.pc = "write" /\ t.ok = ok /\ t.now = w.now /\ t.next = w.next
      /\ t.last = w.last /\ t.attempt = w.attempt /\ t.token = w.token
      BY <1>1 DEF Ticks
<1>3. run' = [run EXCEPT ![r] = t]
      BY <1>1 DEF Return
<1> HIDE DEF t
<1>4. /\ run' \in [Runners -> Ticks] /\ run'[r] = t
      /\ \A s \in Runners : s # r => run'[s] = run[s]
      BY <1>1, <1>2, <1>3
<1>5. w.next \in Plans /\ w.attempt \in 1 .. rows[w.next].attempt /\ rows[w.next] \in Rows
      BY <1>1 DEF IInv, TypeOK, TickInv, LeaseInv, Holding
<1>6. w.attempt \in 1 .. MaxAttempts
      BY <1>5, JobAssumption DEF Rows
<1>7. /\ returned \subseteq returned'
      /\ returned' \ returned \subseteq {<<w.next, w.attempt>>}
      /\ ok => <<w.next, w.attempt>> \in returned'
      BY DEF Return
<1>8. UNCHANGED <<job, clock, rows, faults>>
      BY DEF Return
<1> HIDE DEF w
<1>9. TypeOK'
      BY <1>4, <1>5, <1>6, <1>7, <1>8 DEF IInv, TypeOK
<1>10. TickInv' /\ LeaseInv' /\ NoneInv'
       BY <1>1, <1>2, <1>4, <1>8 DEF IInv, TickInv, LeaseInv, NoneInv, Holding, w
<1>11. ReturnedInv'
       BY <1>2, <1>4, <1>7 DEF IInv, ReturnedInv
<1>12. ExclusiveAttempt'
       BY <1>1, <1>2, <1>4 DEF IInv, ExclusiveAttempt, Handling, w
<1> QED BY <1>5, <1>7, <1>9, <1>10, <1>11, <1>12 DEF IInv

\* Time passes.
LEMMA PassStep ==
  ASSUME IInv, Pass
  PROVE  IInv'
<1>1. UNCHANGED <<job, rows, run, returned, faults>>
      BY DEF Pass
<1>2. clock' \in ScheduleDelay .. MaxClock /\ clock <= clock'
      BY JobAssumption DEF Pass, IInv, TypeOK
<1>3. TypeOK'
      BY <1>1, <1>2 DEF IInv, TypeOK
<1>4. TickInv'
      <2>1. ASSUME NEW r \in Runners, run[r].pc # "idle"
            PROVE  run[r].now \in ScheduleDelay .. clock'
            BY <1>2, <2>1, JobAssumption DEF IInv, TickInv, TypeOK
      <2> QED BY <1>1, <2>1 DEF IInv, TickInv
<1>5. LeaseInv' /\ ReturnedInv' /\ NoneInv' /\ ExclusiveAttempt'
      BY <1>1 DEF IInv, LeaseInv, ReturnedInv, NoneInv, ExclusiveAttempt, Handling
<1> QED BY <1>3, <1>4, <1>5 DEF IInv

-----------------------------------------------------------------------------
(* What a step does to the rows, as PlanLifecycle asks *)

RowMoves(p) ==
  \/ /\ rows[p].status # "SUCCESS" /\ rows'[p].status = "RUNNING"
     /\ rows[p].attempt < MaxAttempts /\ rows'[p].attempt = rows[p].attempt + 1
  \/ /\ rows[p].status = "RUNNING" /\ rows'[p].attempt = rows[p].attempt
     /\ \/ rows'[p].status = "FAILED"
        \/ rows'[p].status = "SUCCESS" /\ <<p, rows[p].attempt>> \in returned
  \/ rows'[p].status = rows[p].status /\ rows'[p].attempt = rows[p].attempt

RowsMove ==
  /\ \A p \in Plans : RowMoves(p)
  /\ returned \subseteq returned'
  /\ \A e \in returned' \ returned : e[1] \in Plans /\ e[2] \in 1 .. rows[e[1]].attempt

LEMMA RowsMoveIsNext ==
  ASSUME RowsMove
  PROVE  Lifecycle!Next
<1>1. ASSUME NEW p \in Plans
      PROVE  \/ Lifecycle!Attempted(p) \/ Lifecycle!Failed(p)
             \/ Lifecycle!Succeeded(p) \/ Lifecycle!Unmoved(p)
      BY DEF RowsMove, RowMoves, Lifecycle!Attempted, Lifecycle!Failed,
             Lifecycle!Succeeded, Lifecycle!Unmoved
<1> QED BY <1>1 DEF RowsMove, Lifecycle!Next

LEMMA SameRows ==
  ASSUME UNCHANGED <<rows, returned>>
  PROVE  RowsMove
  BY DEF RowsMove, RowMoves

\* A claim begins the next attempt.
LEMMA TakenMoves ==
  ASSUME IInv, NEW r \in Runners, run[r].pc = "claim", TakeLease(r, rows[run[r].next])
  PROVE  RowsMove
<1> DEFINE p == run[r].next  new == Claimed(rows[p], run[r].now)
<1>1. p \in Plans /\ rows[p].attempt < MaxAttempts /\ rows[p].status # "SUCCESS"
      /\ rows \in [Plans -> Rows]
      BY TakenType DEF IInv, TypeOK
<1>2. rows' = [rows EXCEPT ![p] = new] /\ returned' = returned
      BY DEF TakeLease
<1>3. new.status = "RUNNING" /\ new.attempt = rows[p].attempt + 1
      BY DEF Claimed
<1> HIDE DEF new, p
<1>4. \A q \in Plans : RowMoves(q)
      BY <1>1, <1>2, <1>3 DEF RowMoves
<1> QED BY <1>2, <1>4 DEF RowsMove

\* Where a runner stands, and what it holds.
LEMMA RunnerType ==
  ASSUME IInv, NEW r \in Runners
  PROVE  /\ run \in [Runners -> Ticks] /\ run[r] \in Ticks /\ rows \in [Plans -> Rows]
         /\ faults \in 0 .. MaxFaults /\ clock \in ScheduleDelay .. MaxClock
         /\ run[r].pc # "idle" => run[r].now \in ScheduleDelay .. MaxClock
         /\ run[r].pc # "idle" => run[r].now \in ScheduleDelay .. clock
         /\ run[r].pc \in {"claim", "run", "write"} =>
              run[r].next \in Plans /\ run[r].last \in Plans /\ run[r].next + 1 \in Nat
<1>1. /\ run \in [Runners -> Ticks] /\ run[r] \in Ticks /\ rows \in [Plans -> Rows]
      /\ faults \in 0 .. MaxFaults /\ clock \in ScheduleDelay .. MaxClock
      BY DEF IInv, TypeOK
<1>2. run[r].pc # "idle" => run[r].now \in ScheduleDelay .. clock
      BY DEF IInv, TickInv
<1>3. run[r].pc # "idle" => run[r].now \in ScheduleDelay .. MaxClock
      BY <1>1, <1>2, JobAssumption
<1>4. run[r].pc \in {"claim", "run", "write"} => run[r].next \in Plans /\ run[r].last \in Plans
      BY DEF IInv, TickInv, Holding
<1>5. \A p \in Plans : p + 1 \in Nat
      BY PlansAreNumbers
<1> QED BY <1>1, <1>2, <1>3, <1>4, <1>5

\* A runner that only changes its place in the tick.
LEMMA PlaceStep ==
  ASSUME IInv, NEW r \in Runners, NEW t \in Ticks, t.pc \notin Holding,
         t.pc # "idle" => t.now \in ScheduleDelay .. clock,
         t.pc = "claim" => t.next \in Plans /\ t.last \in Plans,
         run' = [run EXCEPT ![r] = t], faults' \in 0 .. MaxFaults,
         UNCHANGED <<job, clock, rows, returned>>
  PROVE  IInv' /\ RowsMove
<1>1. rows' \in [Plans -> Rows]
      BY RunnerType
<1>2. IInv'
      BY <1>1, QuietStep
<1> QED BY <1>2, SameRows

\* A tick that goes on with the plans from first on.
LEMMA GoOnStep ==
  ASSUME IInv, NEW r \in Runners, run[r].pc # "idle",
         NEW first \in Nat, NEW last \in Plans
  PROVE  LET t == WithPlans(run[r], first, last)
         IN  /\ t \in Ticks /\ t.pc \notin Holding /\ t.pc \in {"idle", "claim"}
             /\ t.pc # "idle" => t.now \in ScheduleDelay .. clock
             /\ t.pc = "claim" => t.next \in Plans /\ t.last \in Plans
<1> DEFINE t == WithPlans(run[r], first, last)
<1>1. run[r] \in Ticks /\ run[r].now \in ScheduleDelay .. clock
      BY RunnerType
<1>2. /\ t \in Ticks /\ t.pc \in {"idle", "claim"}
      /\ t.pc = "claim" => t.now = run[r].now /\ t.next = first /\ t.last = last /\ first \in Plans
      BY <1>1, WithPlansType
<1> HIDE DEF t
<1>3. t.pc \notin Holding
      BY <1>2 DEF Holding
<1> QED BY <1>1, <1>2, <1>3 DEF t

-----------------------------------------------------------------------------
(* The actions *)

LEMMA TickAction ==
  ASSUME IInv, NEW r \in Runners, Tick(r)
  PROVE  IInv' /\ RowsMove
<1> DEFINE t0 == [Idle EXCEPT !.pc = "sweep"]  t == [t0 EXCEPT !.now = clock]
<1>1. clock \in ScheduleDelay .. MaxClock /\ clock \in Nat /\ faults \in 0 .. MaxFaults
      BY RunnerType, JobAssumption
<1>2. t0 \in Ticks /\ t0.pc = "sweep"
      BY IdleType DEF Ticks
<1>4. run' = [run EXCEPT ![r] = t] /\ UNCHANGED <<job, clock, rows, returned, faults>>
      BY DEF Tick
<1> HIDE DEF t0
<1>3. t \in Ticks /\ t.pc = "sweep" /\ t.now = clock
      BY <1>1, <1>2 DEF Ticks
<1> HIDE DEF t
<1>5. t.now \in ScheduleDelay .. clock
      BY <1>1, <1>3, JobAssumption
<1> QED BY <1>1, <1>3, <1>4, <1>5, PlaceStep DEF Holding

\* The place after the sweep, whether it succeeded or not.
LEMMA AfterSweep ==
  ASSUME IInv, NEW r \in Runners, run[r].pc = "sweep"
  PROVE  LET t == [run[r] EXCEPT !.pc = "plan"]
         IN  /\ t \in Ticks /\ t.pc = "plan" /\ t.pc \notin Holding
             /\ t.now \in ScheduleDelay .. clock
  BY RunnerType DEF Ticks, Holding

LEMMA SweepAction ==
  ASSUME IInv, NEW r \in Runners, MarkStaleAsFailed(r)
  PROVE  IInv' /\ RowsMove
<1> DEFINE t == [run[r] EXCEPT !.pc = "plan"]
<1>1. /\ t \in Ticks /\ t.pc = "plan" /\ t.pc \notin Holding /\ t.now \in ScheduleDelay .. clock
      /\ run \in [Runners -> Ticks] /\ rows \in [Plans -> Rows] /\ faults \in 0 .. MaxFaults
      BY RunnerType, AfterSweep DEF MarkStaleAsFailed
<1>2. run' = [run EXCEPT ![r] = t] /\ UNCHANGED <<job, clock, returned, faults>>
      BY <1>1 DEF MarkStaleAsFailed
<1> HIDE DEF t
<1>3. ASSUME NEW p \in Plans
      PROVE  /\ rows'[p] \in Rows
             /\ rows'[p].attempt = rows[p].attempt /\ rows'[p].token = rows[p].token
             /\ rows'[p].status = "none" => rows[p].status = "none"
             /\ RowMoves(p)
      <2>1. rows[p] \in Rows
            BY <1>1
      <2>2. CASE Expired(rows[p], run[r].now)
            <3>1. rows'[p] = [rows[p] EXCEPT !.status = "FAILED", !.code = "stale_timeout"]
                  BY <2>2 DEF MarkStaleAsFailed
            <3>2. /\ rows'[p] \in Rows /\ rows'[p].status = "FAILED"
                  /\ rows'[p].attempt = rows[p].attempt /\ rows'[p].token = rows[p].token
                  BY <2>1, <3>1 DEF Rows
            <3> QED BY <2>2, <3>2 DEF Expired, RowMoves
      <2>3. CASE ~Expired(rows[p], run[r].now)
            <3>1. rows'[p] = rows[p]
                  BY <2>3 DEF MarkStaleAsFailed
            <3> QED BY <2>1, <3>1 DEF RowMoves
      <2> QED BY <2>2, <2>3
<1>4. rows' \in [Plans -> Rows]
      BY <1>3 DEF MarkStaleAsFailed
<1>5. IInv'
      BY <1>1, <1>2, <1>3, <1>4, QuietStep
<1> QED BY <1>2, <1>3, <1>5 DEF RowsMove

LEMMA PlanAction ==
  ASSUME IInv, NEW r \in Runners, PlansForTick(r)
  PROVE  IInv' /\ RowsMove
<1>1. PICK n \in 0 .. LatestDue(MaxClock) + 1 :
        run' = [run EXCEPT ![r] = WithPlans(run[r], FirstDue(n, run[r].now),
                                            LastDue(FirstDue(n, run[r].now), run[r].now))]
      BY RunnerType DEF PlansForTick
<1> DEFINE now == run[r].now  first == FirstDue(n, now)  last == LastDue(first, now)
<1>2. /\ run[r].pc # "idle" /\ now \in ScheduleDelay .. MaxClock /\ faults \in 0 .. MaxFaults
      /\ UNCHANGED <<job, clock, rows, returned, faults>>
      BY RunnerType DEF PlansForTick
<1> HIDE DEF now
<1>3. LatestDue(now) \in Plans /\ LatestDue(now) \in Nat /\ OldestAllowed(now) \in Int
      BY <1>2, DueIsPlan, OldestIsNumber, PlansAreNumbers
<1>4. first \in Nat
      BY <1>3, PlansAreNumbers DEF FirstDue, Larger
<1> HIDE DEF first
<1>5. CASE last \in Plans
      <2>1. run' = [run EXCEPT ![r] = WithPlans(run[r], first, last)]
            BY <1>1 DEF first, now
      <2> HIDE DEF last
      <2> QED BY <1>2, <1>4, <1>5, <2>1, GoOnStep, PlaceStep
<1>6. CASE last \notin Plans
      <2>1. job.mode # "latest_only"
            BY <1>3, <1>6 DEF LastDue, FirstDue, first
      <2>2. last = Smaller(LatestDue(now), first + MaxPlansPerTick - 1)
            BY <2>1 DEF LastDue
      <2>3. last \in Nat
            BY <1>3, <1>4, <2>2, JobAssumption DEF Smaller
      <2>4. last <= LatestDue(now)
            BY <1>3, <1>4, <2>2, JobAssumption DEF Smaller
      <2> HIDE DEF last
      <2> QED BY <1>3, <1>6, <2>3, <2>4, PlansAreNumbers DEF Plans
<1> QED BY <1>5, <1>6

LEMMA ConflictAction ==
  ASSUME IInv, NEW r \in Runners, Conflict(r)
  PROVE  IInv' /\ RowsMove
<1>1. /\ run[r].pc = "claim" /\ run[r].next + 1 \in Nat /\ run[r].last \in Plans
      /\ faults \in 0 .. MaxFaults /\ run \in [Runners -> Ticks]
      BY RunnerType DEF Conflict
<1>2. /\ run' = [run EXCEPT ![r] = WithPlans(run[r], run[r].next + 1, run[r].last)]
      /\ UNCHANGED <<job, clock, rows, returned, faults>>
      BY <1>1 DEF Conflict
<1> QED BY <1>1, <1>2, GoOnStep, PlaceStep

LEMMA ClaimAction ==
  ASSUME IInv, NEW r \in Runners, TryClaim(r)
  PROVE  IInv' /\ RowsMove
<1> DEFINE w == run[r]  row == rows[w.next]
           t0 == [w EXCEPT !.pc = "run"]
           t1 == [t0 EXCEPT !.attempt = row.attempt + 1]
           t == [t1 EXCEPT !.token = row.token + 1]
<1>1. /\ w \in Ticks /\ w.pc = "claim" /\ w.next \in Plans /\ w.last \in Plans
      /\ w.now \in ScheduleDelay .. clock /\ row \in Rows
      /\ faults' \in 0 .. MaxFaults /\ run \in [Runners -> Ticks]
      BY RunnerType DEF TryClaim
<1>2. TakeLease(r, row) /\ UNCHANGED <<job, clock, returned>>
      BY DEF TryClaim, TakeLease
<1>3. row.attempt + 1 \in 0 .. MaxAttempts /\ row.token + 1 \in Nat
      BY <1>1, <1>2, TakenType
<1>4. run' = [run EXCEPT ![r] = t]
      BY <1>1 DEF TryClaim
<1>5. RowsMove
      BY <1>1, <1>2, TakenMoves
<1> HIDE DEF w, row
<1>6. t0 \in Ticks /\ t0.pc = "run" /\ t0.now = w.now /\ t0.next = w.next /\ t0.last = w.last
      BY <1>1 DEF Ticks
<1> HIDE DEF t0
<1>7. /\ t1 \in Ticks /\ t1.pc = "run" /\ t1.now = w.now /\ t1.next = w.next /\ t1.last = w.last
      /\ t1.attempt = row.attempt + 1
      BY <1>3, <1>6 DEF Ticks
<1> HIDE DEF t1
<1>8. /\ t \in Ticks /\ t.pc = "run" /\ t.now = w.now /\ t.next = w.next /\ t.last = w.last
      /\ t.attempt = row.attempt + 1 /\ t.token = row.token + 1
      BY <1>3, <1>7 DEF Ticks
<1> HIDE DEF t
<1>9. IInv'
      BY <1>1, <1>2, <1>4, <1>8, TakeStep DEF w, row
<1> QED BY <1>5, <1>9

\* The claim whose answer is lost.
LEMMA LostClaimAction ==
  ASSUME IInv, NEW r \in Runners, ClaimAnswerLost(r)
  PROVE  IInv' /\ RowsMove
<1> DEFINE t == WithPlans(run[r], run[r].next + 1, run[r].last)
<1>1. /\ run[r].pc = "claim" /\ run[r].next \in Plans /\ run[r].next + 1 \in Nat
      /\ run[r].last \in Plans /\ run \in [Runners -> Ticks] /\ TakeLease(r, rows[run[r].next])
      BY RunnerType DEF ClaimAnswerLost
<1>2. faults' \in 0 .. MaxFaults
      BY RunnerType, JobAssumption DEF ClaimAnswerLost
<1>3. run' = [run EXCEPT ![r] = t]
      BY <1>1 DEF ClaimAnswerLost, AfterError
<1>4. /\ t \in Ticks /\ t.pc \notin Holding /\ t.pc \in {"idle", "claim"}
      /\ t.pc # "idle" => t.now \in ScheduleDelay .. clock
      /\ t.pc = "claim" => t.next \in Plans /\ t.last \in Plans
      BY <1>1, GoOnStep
<1> HIDE DEF t
<1>5. IInv'
      BY <1>1, <1>2, <1>3, <1>4, TakeStep DEF Holding
<1> QED BY <1>1, <1>5, TakenMoves

LEMMA DelayType ==
  ASSUME NEW n \in 0 .. MaxAttempts, NEW at \in Nat
  PROVE  at + RetryDelay(n) \in Nat
<1>1. CASE RetryBackoff = <<>>
      BY <1>1 DEF RetryDelay
<1>2. CASE RetryBackoff # <<>>
      <2> DEFINE i == Smaller(Larger(n, 1), Len(RetryBackoff))
      <2>1. RetryBackoff \in Seq(Nat) /\ Len(RetryBackoff) \in Nat \ {0}
            BY <1>2, JobAssumption
      <2>2. i \in 1 .. Len(RetryBackoff)
            BY <2>1, JobAssumption DEF Smaller, Larger
      <2> HIDE DEF i
      <2>3. RetryBackoff[i] \in Nat
            BY <2>1, <2>2
      <2> QED BY <1>2, <2>3 DEF RetryDelay, i
<1> QED BY <1>1, <1>2

\* The row after a terminal write.
LEMMA FinishedType ==
  ASSUME NEW row \in Rows, NEW w \in Ticks
  PROVE  LET new == Finished(row, w)
         IN  /\ new \in Rows /\ new.attempt = row.attempt /\ new.token = row.token
             /\ new.status = IF w.ok THEN "SUCCESS" ELSE "FAILED"
<1>1. CASE w.ok
      BY <1>1 DEF Finished, Rows
<1>2. CASE ~w.ok
      <2> DEFINE next == IF w.attempt < MaxAttempts THEN w.at + RetryDelay(w.attempt) ELSE 0
                 r0 == [row EXCEPT !.status = "FAILED"]
                 r1 == [r0 EXCEPT !.code = "handler_error"]
                 r2 == [r1 EXCEPT !.nextRetry = next]
      <2>1. next \in Nat
            BY DelayType DEF Ticks
      <2>2. r0 \in Rows /\ r0.status = "FAILED" /\ r0.attempt = row.attempt /\ r0.token = row.token
            BY DEF Rows
      <2>3. Finished(row, w) = r2
            BY <1>2 DEF Finished
      <2> HIDE DEF r0, next
      <2>4. r1 \in Rows /\ r1.status = "FAILED" /\ r1.attempt = row.attempt /\ r1.token = row.token
            BY <2>2 DEF Rows
      <2> HIDE DEF r1
      <2>5. r2 \in Rows /\ r2.status = "FAILED" /\ r2.attempt = row.attempt /\ r2.token = row.token
            BY <2>1, <2>4 DEF Rows
      <2> QED BY <1>2, <2>3, <2>5
<1> QED BY <1>1, <1>2

\* A terminal write: whoever still owns the row is in its latest attempt.
LEMMA FinishAction ==
  ASSUME IInv, NEW r \in Runners, Finish(r)
  PROVE  IInv' /\ RowsMove
<1> DEFINE w == run[r]  p == w.next  t == WithPlans(w, p + 1, w.last)
           new == Finished(rows[p], w)
<1>1. /\ w.pc = "write" /\ w \in Ticks /\ p \in Plans /\ p + 1 \in Nat /\ w.last \in Plans
      /\ run \in [Runners -> Ticks] /\ rows \in [Plans -> Rows] /\ faults \in 0 .. MaxFaults
      BY RunnerType DEF Finish
<1>2. run' = [run EXCEPT ![r] = t] /\ UNCHANGED <<job, clock, returned, faults>>
      BY <1>1 DEF Finish
<1>3. /\ t \in Ticks /\ t.pc \notin Holding
      /\ t.pc # "idle" => t.now \in ScheduleDelay .. clock
      /\ t.pc = "claim" => t.next \in Plans /\ t.last \in Plans
      BY <1>1, GoOnStep
<1> HIDE DEF t
<1>4. CASE ~Owns(w, rows[p])
      <2>1. rows' = rows
            BY <1>4 DEF Finish
      <2> QED BY <1>1, <1>2, <1>3, <2>1, PlaceStep
<1>5. CASE Owns(w, rows[p])
      <2>1. /\ new \in Rows /\ new.attempt = rows[p].attempt /\ new.token = rows[p].token
            /\ new.status = IF w.ok THEN "SUCCESS" ELSE "FAILED"
            BY <1>1, FinishedType
      <2>2. rows' = [rows EXCEPT ![p] = new]
            BY <1>1, <1>5 DEF Finish
      <2> HIDE DEF new
      <2>3. /\ rows' \in [Plans -> Rows] /\ rows'[p] = new
            /\ \A q \in Plans : q # p => rows'[q] = rows[q]
            BY <1>1, <2>1, <2>2
      <2>4. rows[p].status = "RUNNING" /\ rows[p].attempt = w.attempt
            BY <1>1, <1>5 DEF Owns, IInv, LeaseInv, Holding
      <2>5. w.ok => <<p, rows[p].attempt>> \in returned
            BY <1>1, <2>4 DEF IInv, ReturnedInv
      <2> HIDE DEF p, w
      <2>6. \A q \in Plans : /\ rows'[q].attempt = rows[q].attempt
                             /\ rows'[q].token = rows[q].token
                             /\ rows'[q].status = "none" => rows[q].status = "none"
            BY <2>1, <2>3
      <2>7. IInv'
            BY <1>2, <1>3, <1>1, <2>3, <2>6, QuietStep
      <2>8. \A q \in Plans : RowMoves(q)
            BY <2>1, <2>3, <2>4, <2>5 DEF RowMoves
      <2> QED BY <1>2, <2>7, <2>8 DEF RowsMove
<1> QED BY <1>4, <1>5

LEMMA FailsAction ==
  ASSUME IInv, NEW r \in Runners, StatementFails(r)
  PROVE  IInv' /\ RowsMove
<1> DEFINE t == AfterError(run[r])
<1>1. run[r].pc \in {"sweep", "plan", "claim", "write"}
      BY DEF StatementFails
<1>2. run' = [run EXCEPT ![r] = t] /\ UNCHANGED <<job, clock, rows, returned>>
      BY RunnerType DEF StatementFails
<1>3. faults' \in 0 .. MaxFaults
      BY RunnerType, JobAssumption DEF StatementFails
<1>4. /\ t \in Ticks /\ t.pc \notin Holding
      /\ t.pc # "idle" => t.now \in ScheduleDelay .. clock
      /\ t.pc = "claim" => t.next \in Plans /\ t.last \in Plans
      <2>1. CASE run[r].pc = "sweep"
            BY <2>1, AfterSweep DEF AfterError
      <2>2. CASE run[r].pc \in {"claim", "write"}
            <3>1. t = WithPlans(run[r], run[r].next + 1, run[r].last)
                  BY <2>2 DEF AfterError
            <3> QED BY <2>2, <3>1, RunnerType, GoOnStep
      <2>3. CASE run[r].pc = "plan"
            BY <2>3, IdleType DEF AfterError, Holding
      <2> QED BY <1>1, <2>1, <2>2, <2>3
<1> HIDE DEF t
<1> QED BY <1>2, <1>3, <1>4, PlaceStep

LEMMA CrashAction ==
  ASSUME IInv, NEW r \in Runners, Crash(r)
  PROVE  IInv' /\ RowsMove
<1>1. faults' \in 0 .. MaxFaults
      BY RunnerType, JobAssumption DEF Crash
<1>2. run' = [run EXCEPT ![r] = Idle] /\ UNCHANGED <<job, clock, rows, returned>>
      BY DEF Crash
<1> QED BY <1>1, <1>2, IdleType, PlaceStep DEF Holding

\* A heartbeat leaves status and attempt alone.
LEMMA HeartbeatMoves ==
  ASSUME IInv, NEW r \in Runners, Heartbeat(r)
  PROVE  RowsMove
<1>1. \A p \in Plans : rows'[p].status = rows[p].status /\ rows'[p].attempt = rows[p].attempt
      BY RunnerType DEF Heartbeat, Rows
<1> QED BY <1>1 DEF RowsMove, RowMoves, Heartbeat

\* Every step keeps the invariant and is a step of PlanLifecycle, or none.
LEMMA EveryStep ==
  ASSUME IInv, [Next]_vars
  PROVE  IInv' /\ (Lifecycle!Next \/ UNCHANGED <<rows, returned>>)
<1>1. CASE UNCHANGED vars
      BY <1>1 DEF vars, IInv, TypeOK, TickInv, LeaseInv, ReturnedInv, NoneInv,
                  ExclusiveAttempt, Handling
<1>2. CASE Pass
      BY <1>2, PassStep DEF Pass
<1>3. ASSUME NEW r \in Runners,
             Step(r) \/ Heartbeat(r) \/ StatementFails(r) \/ ClaimAnswerLost(r) \/ Crash(r)
      PROVE  IInv' /\ RowsMove
      <2>1. CASE Tick(r)
            BY <2>1, TickAction
      <2>2. CASE MarkStaleAsFailed(r)
            BY <2>2, SweepAction
      <2>3. CASE PlansForTick(r)
            BY <2>3, PlanAction
      <2>4. CASE TryClaim(r)
            BY <2>4, ClaimAction
      <2>5. CASE Conflict(r)
            BY <2>5, ConflictAction
      <2>6. ASSUME NEW ok \in BOOLEAN, Return(r, ok)
            PROVE  IInv' /\ RowsMove
            <3>1. rows' = rows /\ returned \subseteq returned'
                  BY <2>6 DEF Return
            <3> QED BY <2>6, <3>1, ReturnStep DEF RowsMove, RowMoves
      <2>7. CASE Finish(r)
            BY <2>7, FinishAction
      <2>8. CASE Heartbeat(r)
            BY <2>8, HeartbeatStep, HeartbeatMoves
      <2>9. CASE StatementFails(r)
            BY <2>9, FailsAction
      <2>10. CASE ClaimAnswerLost(r)
            BY <2>10, LostClaimAction
      <2>11. CASE Crash(r)
            BY <2>11, CrashAction
      <2> QED BY <1>3, <2>1, <2>2, <2>3, <2>4, <2>5, <2>6, <2>7, <2>8, <2>9, <2>10, <2>11 DEF Step
<1> QED BY <1>1, <1>2, <1>3, RowsMoveIsNext DEF Next

LEMMA InitInv == Init => IInv
<1> SUFFICES ASSUME Init PROVE IInv
    OBVIOUS
<1>1. NoRow \in Rows /\ NoRow.attempt = 0 /\ NoRow.token = 0
      BY JobAssumption DEF NoRow, Rows
<1>2. \A p \in Plans : rows[p] = NoRow
      BY DEF Init
<1>3. \A r \in Runners : run[r] = Idle
      BY DEF Init
<1>4. TypeOK
      BY <1>1, IdleType, JobAssumption DEF Init, TypeOK
<1>5. TickInv /\ ReturnedInv /\ ExclusiveAttempt
      BY <1>3, IdleType DEF TickInv, ReturnedInv, ExclusiveAttempt, Handling, Holding
<1>6. LeaseInv /\ NoneInv
      BY <1>1, <1>2, <1>3, IdleType DEF LeaseInv, NoneInv, Holding
<1> QED BY <1>4, <1>5, <1>6 DEF IInv

-----------------------------------------------------------------------------
(* The theorems *)

\* The invariant that the three results below have in common.
THEOREM LeaseInvariant == Spec => []IInv
<1>1. IInv /\ [Next]_vars => IInv'
      BY EveryStep
<1> QED BY <1>1, InitInv, PTL DEF Spec

\* Every variable keeps its type, and no attempt is beyond MaxAttempts.
THEOREM TypeCorrect == Spec => []TypeOK
<1>1. IInv => TypeOK
      BY DEF IInv
<1> QED BY <1>1, LeaseInvariant, PTL

\* No two instances ever handle the same attempt of a plan.
THEOREM AttemptsAreExclusive == Spec => []ExclusiveAttempt
<1>1. IInv => ExclusiveAttempt
      BY DEF IInv
<1> QED BY <1>1, LeaseInvariant, PTL

\* The scheduler implements PlanLifecycle: a plan is attempted at most
\* MaxAttempts times, is SUCCESS only by its latest attempt, and stays so.
THEOREM ImplementsLifecycle == Spec => PlanSpec
<1>1. Init => Lifecycle!Init
      BY DEF Init, Lifecycle!Init, NoRow
<1>2. IInv /\ [Next]_vars =>
        [Lifecycle!Next]_<<[p \in Plans |-> rows[p].status],
                           [p \in Plans |-> rows[p].attempt], returned>>
      BY EveryStep
<1> QED BY <1>1, <1>2, LeaseInvariant, PTL DEF Spec, PlanSpec, Lifecycle!Spec
=============================================================================
