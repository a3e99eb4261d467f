-------------------------- MODULE EmptyClaimCache --------------------------
(***************************************************************************)
(* The Redis cache of "this runtime has no queued task" verdicts, and the  *)
(* two parties that use it: notifyTaskAvailable after an insert commits    *)
(* (INCR the version, then wake the daemon) and ClaimTaskForRuntime (MGET  *)
(* verdict and version, GET the version, SELECT, SET the verdict tagged    *)
(* with the version read).  Every Redis call and every SQL statement is an *)
(* action, so inserts and claims of several server processes interleave.   *)
(*                                                                         *)
(* One runtime: its keys are touched by no other runtime's claims.         *)
(***************************************************************************)
EXTENDS Naturals

CONSTANTS
  Enqueuers,     \* each inserts one row (or moves it here from a merged runtime)
  Claimers,      \* claim requests served at the same time
  Absent,        \* a Redis key that does not exist
  RedisFails,    \* whether Redis calls may fail
  Merges         \* whether rows may arrive by ReassignTasksToRuntime

ASSUME CacheAssumption ==
  /\ RedisFails \in BOOLEAN /\ Merges \in BOOLEAN
  /\ Absent \notin Nat

VARIABLES
  row,       \* per enqueuer its row: "absent", "queued" or "taken"
  enqueuer,  \* "insert", "bump", "wake", "done"
  missed,    \* enqueuers whose row arrived without a version bump
  version,   \* the version key
  verdict,   \* the empty key: the version it is tagged with
  claimer,   \* per claim: pc, and the version read before the SELECT
  daemon     \* "awake" once a wakeup or a poll tick asks for a claim

vars == <<row, enqueuer, missed, version, verdict, claimer, daemon>>

Idle == [pc |-> "idle", seen |-> 0]

Init ==
  /\ row = [e \in Enqueuers |-> "absent"]
  /\ enqueuer = [e \in Enqueuers |-> "insert"]
  /\ missed = {}
  /\ version = Absent
  /\ verdict = Absent
  /\ claimer = [c \in Claimers |-> Idle]
  /\ daemon = "asleep"

\* A missing version key counts as 0.
Current == IF version = Absent THEN 0 ELSE version

Queued == {e \in Enqueuers : row[e] = "queued"}

-----------------------------------------------------------------------------
(* Enqueue *)

\* The INSERT commits.
Insert(e) ==
  /\ enqueuer[e] = "insert"
  /\ row' = [row EXCEPT ![e] = "queued"]
  /\ enqueuer' = [enqueuer EXCEPT ![e] = "bump"]
  /\ UNCHANGED <<missed, version, verdict, claimer, daemon>>

\* Merging a legacy runtime row moves its tasks here and notifies nobody.
Reassign(e) ==
  /\ Merges /\ enqueuer[e] = "insert"
  /\ row' = [row EXCEPT ![e] = "queued"]
  /\ enqueuer' = [enqueuer EXCEPT ![e] = "done"]
  /\ missed' = missed \cup {e}
  /\ UNCHANGED <<version, verdict, claimer, daemon>>

Bump(e) ==
  /\ enqueuer[e] = "bump"
  /\ \/ version' = Current + 1 /\ UNCHANGED missed
     \/ RedisFails /\ missed' = missed \cup {e} /\ UNCHANGED version
  /\ enqueuer' = [enqueuer EXCEPT ![e] = "wake"]
  /\ UNCHANGED <<row, verdict, claimer, daemon>>

\* Best effort: the websocket may be gone.
Wakeup(e) ==
  /\ enqueuer[e] = "wake"
  /\ daemon' \in {"awake", daemon}
  /\ enqueuer' = [enqueuer EXCEPT ![e] = "done"]
  /\ UNCHANGED <<row, missed, version, verdict, claimer>>

\* The server process ends between the commit and the bump, or before the wakeup.
EnqueuerDies(e) ==
  /\ RedisFails /\ enqueuer[e] \in {"bump", "wake"}
  /\ missed' = IF enqueuer[e] = "bump" THEN missed \cup {e} ELSE missed
  /\ enqueuer' = [enqueuer EXCEPT ![e] = "done"]
  /\ UNCHANGED <<row, version, verdict, claimer, daemon>>

-----------------------------------------------------------------------------
(* ClaimTaskForRuntime *)

PollTick ==
  /\ daemon = "asleep" /\ daemon' = "awake"
  /\ UNCHANGED <<row, enqueuer, missed, version, verdict, claimer>>

\* Mutant of Trusted: any verdict is believed, whatever version it is tagged with.
TrustedAnyVersion == verdict # Absent

\* Mutant of Trusted: two missing keys match.
TrustedNilMatch == verdict = version

Trusted == verdict # Absent /\ verdict = Current

\* IsEmpty: a trusted verdict answers the poll without the database.
IsEmpty(c) ==
  /\ daemon = "awake" /\ claimer[c].pc = "idle"
  /\ daemon' = "asleep"
  /\ \/ Trusted /\ UNCHANGED claimer
     \/ (~Trusted \/ RedisFails) /\ claimer' = [claimer EXCEPT ![c].pc = "version"]
  /\ UNCHANGED <<row, enqueuer, missed, version, verdict>>

\* Mutant of CurrentVersion: a missing key is not read as 0.
CurrentVersionNil(c) ==
  /\ claimer[c].pc = "version"
  /\ claimer' = [claimer EXCEPT ![c] = [pc |-> "select", seen |-> version]]
  /\ UNCHANGED <<row, enqueuer, missed, version, verdict, daemon>>

\* CurrentVersion, 0 when the key is missing or the GET fails.
CurrentVersion(c) ==
  /\ claimer[c].pc = "version"
  /\ \E v \in {Current} \cup (IF RedisFails THEN {0} ELSE {}) :
       claimer' = [claimer EXCEPT ![c] = [pc |-> "select", seen |-> v]]
  /\ UNCHANGED <<row, enqueuer, missed, version, verdict, daemon>>

\* ListQueuedClaimCandidatesByRuntime and the claim of one row; with no candidate the
\* verdict is written next.
Select(c) ==
  /\ claimer[c].pc = "select"
  /\ \/ /\ Queued = {}
        /\ claimer' = [claimer EXCEPT ![c].pc = "mark"]
        /\ UNCHANGED row
     \/ /\ \E e \in Queued : row' = [row EXCEPT ![e] = "taken"]
        /\ claimer' = [claimer EXCEPT ![c] = Idle]
  /\ UNCHANGED <<enqueuer, missed, version, verdict, daemon>>

\* Mutant of MarkEmpty: the verdict is tagged with the version of now.
MarkEmptyNow(c) ==
  /\ claimer[c].pc = "mark"
  /\ \/ verdict' = Current
     \/ RedisFails /\ UNCHANGED verdict
  /\ claimer' = [claimer EXCEPT ![c] = Idle]
  /\ UNCHANGED <<row, enqueuer, missed, version, daemon>>

MarkEmpty(c) ==
  /\ claimer[c].pc = "mark"
  /\ \/ verdict' = claimer[c].seen
     \/ RedisFails /\ UNCHANGED verdict
  /\ claimer' = [claimer EXCEPT ![c] = Idle]
  /\ UNCHANGED <<row, enqueuer, missed, version, daemon>>

-----------------------------------------------------------------------------
(* Expiry *)

\* EmptyClaimCacheTTL, three minutes.
VerdictExpires ==
  /\ verdict # Absent /\ verdict' = Absent
  /\ UNCHANGED <<row, enqueuer, missed, version, claimer, daemon>>

\* emptyClaimVersionTTL, 24 hours, renewed by every Bump and every GET: a verdict, and
\* a claim or an enqueue in flight, are younger than that.
VersionExpires ==
  /\ version # Absent /\ verdict = Absent
  /\ \A c \in Claimers : claimer[c] = Idle
  /\ \A e \in Enqueuers : enqueuer[e] \in {"insert", "done"}
  /\ version' = Absent
  /\ UNCHANGED <<row, enqueuer, missed, verdict, claimer, daemon>>

EnqueuerStep(e) == Insert(e) \/ Reassign(e) \/ Bump(e) \/ Wakeup(e) \/ EnqueuerDies(e)
ClaimerStep(c)  == IsEmpty(c) \/ CurrentVersion(c) \/ Select(c) \/ MarkEmpty(c)

Next ==
  \/ PollTick \/ VerdictExpires \/ VersionExpires
  \/ \E e \in Enqueuers : EnqueuerStep(e)
  \/ \E c \in Claimers : ClaimerStep(c)

Spec == Init /\ [][Next]_vars

\* Server goroutines run and the daemon polls.  Expiry is not assumed here.
FairSpec ==
  /\ Spec
  /\ WF_vars(PollTick)
  /\ \A e \in Enqueuers : WF_vars(Bump(e)) /\ WF_vars(Wakeup(e))
  /\ \A c \in Claimers : WF_vars(ClaimerStep(c))

-----------------------------------------------------------------------------
(* Properties *)

\* The keys hold versions, the goroutines are where the code can be.
TypeOK ==
  /\ row \in [Enqueuers -> {"absent", "queued", "taken"}]
  /\ enqueuer \in [Enqueuers -> {"insert", "bump", "wake", "done"}]
  /\ missed \subseteq Enqueuers
  /\ version \in {Absent} \cup Nat
  /\ verdict \in {Absent} \cup Nat
  /\ claimer \in [Claimers -> [pc : {"idle", "version", "select", "mark"}, seen : Nat]]
  /\ daemon \in {"asleep", "awake"}

\* The enqueuer of a queued row has not bumped yet, or nobody will.
Unannounced(e) == enqueuer[e] = "bump" \/ e \in missed

\* A verdict the claim path would trust hides a queued row only while the row's own
\* notifyTaskAvailable has not bumped yet, or when nobody bumps for it: however the
\* GET, the SELECT and the SET of slow claims interleave with inserts and expiries.  So
\* the claim a wakeup causes, which comes after the bump, reaches the database.
TrustedVerdictHidesNothing ==
  Trusted => \A e \in Queued : Unannounced(e)

\* Nothing stalls on the cache: a row is claimed, without help from the TTL, unless its
\* bump was lost or it was merged in.
AnnouncedRowClaimed ==
  \A e \in Enqueuers : row[e] = "queued" ~> row[e] = "taken" \/ e \in missed

\* The TTL of the verdict bounds every other stall: whichever Redis call fails and
\* whichever wakeup is lost, once verdicts expire every queued row is claimed.
StallEndsWithTTL ==
  WF_vars(VerdictExpires) => \A e \in Enqueuers : row[e] = "queued" ~> row[e] = "taken"
=============================================================================
