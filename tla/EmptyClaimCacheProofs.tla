----------------------- MODULE EmptyClaimCacheProofs -----------------------
(***************************************************************************)
(* TrustedVerdictHidesNothing for any number of enqueues and claims.       *)
(*                                                                         *)
(* It is not inductive: it says nothing of a claim that found no row and   *)
(* has not written its verdict yet.  IInv adds what the version tag is     *)
(* for: no version in flight is ahead of the counter, and a claim about to *)
(* write the current version has missed no announced row.                  *)
(***************************************************************************)
EXTENDS EmptyClaimCache, TLAPS

SeenBehind ==
  /\ verdict # Absent => verdict <= Current
  /\ \A c \in Claimers : claimer[c].seen <= Current \/ claimer[c].pc \in {"idle", "version"}

MarkHidesNothing ==
  \A c \in Claimers : claimer[c].pc = "mark" /\ claimer[c].seen = Current =>
                        \A e \in Queued : Unannounced(e)

IInv == TypeOK /\ SeenBehind /\ MarkHidesNothing /\ TrustedVerdictHidesNothing

\* The current version is a number, an absent key counting as 0.
LEMMA CurrentNat == TypeOK => Current \in Nat
  BY DEF TypeOK, Current

\* Every state has values of the types the code gives them.
LEMMA TypeInit == Init => TypeOK
  BY CacheAssumption DEF Init, TypeOK, Idle

\* Every step keeps the types.
LEMMA TypeStep == TypeOK /\ [Next]_vars => TypeOK'
<1> SUFFICES ASSUME TypeOK, [Next]_vars PROVE TypeOK'
    OBVIOUS
<1> Current \in Nat BY CurrentNat
<1> USE DEF TypeOK
<1>1. CASE PollTick \/ VerdictExpires \/ VersionExpires
      BY <1>1 DEF PollTick, VerdictExpires, VersionExpires
<1>2. ASSUME NEW e \in Enqueuers, EnqueuerStep(e) PROVE TypeOK'
      BY <1>2 DEF EnqueuerStep, Insert, Reassign, Bump, Wakeup, EnqueuerDies
<1>3. ASSUME NEW c \in Claimers, ClaimerStep(c) PROVE TypeOK'
  <2>1. CASE IsEmpty(c)
        BY <2>1 DEF IsEmpty
  <2>2. CASE CurrentVersion(c)
        BY <2>2 DEF CurrentVersion
  <2>3. CASE Select(c)
        BY <2>3 DEF Select, Idle, Queued
  <2>4. CASE MarkEmpty(c)
        BY <2>4 DEF MarkEmpty, Idle
  <2> QED BY <1>3, <2>1, <2>2, <2>3, <2>4 DEF ClaimerStep
<1>4. CASE UNCHANGED vars
      BY <1>4 DEF vars
<1> QED BY <1>1, <1>2, <1>3, <1>4 DEF Next

\* Type correctness of the cache protocol.
THEOREM CacheTyping == Spec => []TypeOK
  BY TypeInit, TypeStep, PTL DEF Spec

\* The initial state satisfies the inductive invariant.
LEMMA InvInit == Init => IInv
<1> SUFFICES ASSUME Init PROVE IInv
    OBVIOUS
<1> TypeOK BY TypeInit
<1> QED BY DEF Init, IInv, Idle, SeenBehind, MarkHidesNothing,
               TrustedVerdictHidesNothing, Trusted

\* Every step keeps the inductive invariant.
LEMMA InvStep == IInv /\ [Next]_vars => IInv'
<1> SUFFICES ASSUME IInv, [Next]_vars PROVE IInv'
    OBVIOUS
<1>t. TypeOK /\ TypeOK' BY TypeStep DEF IInv
<1> Current \in Nat /\ Current' \in Nat BY <1>t, CurrentNat DEF TypeOK, Current
<1> USE DEF IInv, SeenBehind, MarkHidesNothing, TrustedVerdictHidesNothing, Trusted, Unannounced
<1>1. CASE PollTick
      BY <1>1, <1>t DEF PollTick, Current, Queued
<1>2. CASE VerdictExpires
      BY <1>2, <1>t DEF VerdictExpires, Current, Queued
<1>3. CASE VersionExpires
      BY <1>3, <1>t DEF VersionExpires, Current, Queued, Idle, TypeOK
<1>4. ASSUME NEW e \in Enqueuers, Insert(e) \/ Reassign(e) PROVE IInv'
      BY <1>4, <1>t DEF Insert, Reassign, Current, Queued, TypeOK
<1>5. ASSUME NEW e \in Enqueuers, Bump(e) PROVE IInv'
  <2>1. CASE version' = Current + 1 /\ UNCHANGED missed
    <3>1. Current' = Current + 1 BY <2>1, CacheAssumption DEF Current
    <3> QED BY <1>5, <1>t, <2>1, <3>1 DEF Bump, TypeOK
  <2>2. CASE missed' = missed \cup {e} /\ UNCHANGED version
        BY <1>5, <1>t, <2>2 DEF Bump, Current, Queued, TypeOK
  <2> QED BY <1>5, <2>1, <2>2 DEF Bump
<1>6. ASSUME NEW e \in Enqueuers, Wakeup(e) \/ EnqueuerDies(e) PROVE IInv'
      BY <1>6, <1>t DEF Wakeup, EnqueuerDies, Current, Queued, TypeOK
<1>7. ASSUME NEW c \in Claimers, IsEmpty(c) PROVE IInv'
      BY <1>7, <1>t DEF IsEmpty, Current, Queued, TypeOK
<1>8. ASSUME NEW c \in Claimers, CurrentVersion(c) PROVE IInv'
      BY <1>8, <1>t DEF CurrentVersion, Current, Queued, TypeOK
<1>9. ASSUME NEW c \in Claimers, Select(c) PROVE IInv'
  <2>1. Queued' \subseteq Queued /\ Current' = Current
        BY <1>9, <1>t DEF Select, Queued, Current, TypeOK
  <2>2. SeenBehind' /\ TrustedVerdictHidesNothing'
        BY <1>9, <1>t, <2>1 DEF Select, Idle, TypeOK
  <2>3. CASE Queued = {}
        BY <2>1, <2>2, <2>3, <1>t
  <2>4. CASE claimer' = [claimer EXCEPT ![c] = Idle]
        BY <1>9, <1>t, <2>1, <2>2, <2>4 DEF Select, Idle, TypeOK
  <2> QED BY <1>9, <2>3, <2>4 DEF Select
<1>10. ASSUME NEW c \in Claimers, MarkEmpty(c) PROVE IInv'
  <2>1. Queued' = Queued /\ Current' = Current /\ UNCHANGED <<enqueuer, missed>>
        BY <1>10 DEF MarkEmpty, Queued, Current
  <2>2. claimer[c].seen \in Nat /\ claimer[c].seen <= Current
        BY <1>10, <1>t DEF MarkEmpty, TypeOK
  <2>3. \A d \in Claimers : claimer'[d] = claimer[d] \/ claimer'[d] = Idle
        BY <1>10, <1>t DEF MarkEmpty, TypeOK
  <2>4. SeenBehind' /\ MarkHidesNothing'
        BY <1>10, <1>t, <2>1, <2>2, <2>3 DEF MarkEmpty, Idle
  <2>5. TrustedVerdictHidesNothing'
    <3>1. CASE verdict' = claimer[c].seen
          BY <1>10, <2>1, <3>1 DEF MarkEmpty
    <3>2. CASE UNCHANGED verdict
          BY <2>1, <3>2
    <3> QED BY <1>10, <3>1, <3>2 DEF MarkEmpty
  <2> QED BY <1>t, <2>4, <2>5
<1>11. CASE UNCHANGED vars
      BY <1>11, <1>t DEF vars, Current, Queued
<1> QED BY <1>1, <1>2, <1>3, <1>4, <1>5, <1>6, <1>7, <1>8, <1>9, <1>10, <1>11
        DEF Next, EnqueuerStep, ClaimerStep

\* No trusted verdict hides an announced row, for every number of enqueues and claims.
THEOREM CacheSafe == Spec => []TrustedVerdictHidesNothing
<1>1. IInv => TrustedVerdictHidesNothing BY DEF IInv
<1> QED BY InvInit, InvStep, <1>1, PTL DEF Spec
=============================================================================
