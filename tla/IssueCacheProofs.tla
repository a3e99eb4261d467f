--------------------------- MODULE IssueCacheProofs ---------------------------
(***************************************************************************)
(* What IssueCache promises of the three caches, for every number of       *)
(* issues, columns, clients' mutations, frames and faults: once nothing is *)
(* on its way, each shows what the server has, unless an excuse is noted.  *)
(*                                                                         *)
(* While something is on its way a cache may differ from the server; the   *)
(* inductive invariant says by how much.  My Issues is only invalidated:   *)
(* it may differ as long as any frame or a failed delete is to come.  The  *)
(* board is patched by the frames: each difference is one that a frame     *)
(* still to come undoes, or the whole list will be invalidated.  The page  *)
(* is patched by the frames of its issue alone.                            *)
(***************************************************************************)
EXTENDS IssueCache, SequenceTheorems, FiniteSetTheorems, TLAPS

-----------------------------------------------------------------------------
(* The types *)

\* A request for rows of V: a page read holds rows of its column.
Requests(V) ==
  {f \in Fetch : \A s \in Status : f.page[s] = Absent \/ f.page[s] \subseteq {r \in V : r.st = s}}

\* A query whose data, if there is any, is one of D, made of rows of V.
Query(D, V) ==
  [data: D \cup {Absent}, inv: BOOLEAN, why: SUBSET Causes, fetch: Requests(V) \cup {Absent}]

OpenedRows == {r \in Row : r.id = Opened}

ListQuery == Query(SUBSET Row, Row)

PageQuery == Query(OpenedRows, OpenedRows)

Event == [type: {"created", "updated", "metadata", "deleted"}, row: Row, late: BOOLEAN]

Mutations ==
  [n: Nat, kind: {"create", "update", "delete"}, id: Issues, to: Status,
   phase: {"sent", "ok", "failed"}, row: Row \cup {Absent},
   snap: [Queries -> (SUBSET Row) \cup Row \cup {Absent}]]

\* What onMutate keeps: only a delete keeps My Issues, and an issue's page is kept
\* by a mutation of that issue.
MutationOK(m) ==
  /\ m \in Mutations
  /\ (m.kind = "create" /\ m.phase = "ok") => m.row \in Row
  /\ m.snap["list"] \in (SUBSET Row) \cup {Absent}
  /\ m.snap["my"] \in (SUBSET Row) \cup {Absent}
  /\ m.snap["detail"] \in OpenedRows \cup {Absent}
  /\ m.kind # "delete" => m.snap["my"] = Absent
  /\ m.snap["detail"] # Absent => (m.kind # "create" /\ m.id = Opened /\ Opened \in born)

ServerInv ==
  /\ rows \subseteq Row
  /\ \A r, t \in rows : r.id = t.id => r = t
  /\ born \subseteq Issues /\ Alive \subseteq born
  /\ outbox \in Seq(Event) /\ pipe \in Seq(Event)
  /\ \A n \in DOMAIN outbox : outbox[n].row.id \in born
  /\ \A n \in DOMAIN pipe : pipe[n].row.id \in born

SocketInv ==
  /\ registered \in BOOLEAN /\ connected \in BOOLEAN
  /\ registered => connected
  /\ pipe = <<>> \/ registered
  /\ events \in Nat
  /\ mounted = {} \/ \E c \in Queries : mounted = {c}
  /\ "detail" \in mounted => Opened \in born

\* A function of the three queries.
IsQueries(Q) == Q = [c \in Queries |-> Q[c]]

QueryInv ==
  /\ IsQueries(query)
  /\ query["list"] \in ListQuery /\ query["my"] \in ListQuery
  /\ query["detail"] \in PageQuery
  /\ query["detail"].data # Absent \/ InFlight(query["detail"]) => Opened \in born

TypeInv == ServerInv /\ SocketInv /\ QueryInv /\ \A m \in mutation : MutationOK(m)

-----------------------------------------------------------------------------
(* What the queries hold *)

\* Data that nothing excuses and no request is about to replace.
Held(q) == q.data # Absent /\ q.why = {} /\ ~InFlight(q)

\* A request in flight that nothing excuses.
Asked(q) == InFlight(q) /\ q.fetch.why = {}

\* Such a query is flagged only while no page observes it.
Unobserved(c) == Held(query[c]) /\ query[c].inv => c \notin mounted

Settled(q) == Held(q) /\ ~q.inv

Pending == outbox # <<>> \/ pipe # <<>>

\* A delete that may fail yet will put My Issues back as it was.
AwaitsRollback == \E m \in mutation : m.kind = "delete" /\ m.snap["my"] # Absent

Column(s) == {r \in rows : r.st = s}

MyHolds(D) == Pending \/ D = rows \/ AwaitsRollback

MyReads(p, s) == Pending \/ p = Column(s)

MyInv ==
  /\ Unobserved("my")
  /\ Settled(query["my"]) => MyHolds(query["my"].data)
  /\ Asked(query["my"]) =>
       \A s \in Status : query["my"].fetch.page[s] # Absent => MyReads(query["my"].fetch.page[s], s)

\* The frames still to come, in the order of their handling.
Joined(p, o) == [n \in 1..(Len(p) + Len(o)) |-> IF n <= Len(p) THEN p[n] ELSE o[n - Len(p)]]

Wire == Joined(pipe, outbox)

\* No frame of T about the same issue comes after the n-th.
NoneAfter(n, T) ==
  \A k \in DOMAIN Wire : k > n /\ Wire[k].row.id = Wire[n].row.id => Wire[k].type \notin T

\* What a frame in time says of the server, unless a later frame says otherwise.
WireInv ==
  /\ \A n \in DOMAIN Wire : Wire[n].type = "deleted" => Wire[n].row.id \notin Alive
  /\ \A n \in DOMAIN Wire : ~Wire[n].late /\ Wire[n].type # "deleted" =>
       /\ NoneAfter(n, {"updated", "deleted"}) =>
            \E r \in rows : r.id = Wire[n].row.id /\ r.st = Wire[n].row.st
       /\ NoneAfter(n, {"updated", "deleted", "metadata"}) => Wire[n].row \in rows
  /\ \A n, k \in DOMAIN Wire :
       ~Wire[n].late /\ Wire[n].type = "created" /\ k < n => Wire[k].row.id # Wire[n].row.id

Due(id, T) == \E n \in DOMAIN Wire : Wire[n].row.id = id /\ Wire[n].type \in T

\* The list will be invalidated.
Unsettled ==
  \/ mutation # {}
  \/ \E n \in DOMAIN Wire : Wire[n].late \/ Wire[n].type \in {"updated", "deleted"}

AgreesOn(D, id, s) ==
  LET shown == InBucket(D, id, s)
  IN  \/ shown = InBucket(rows, id, s)
      \/ /\ InBucket(rows, id, s) # {}
         /\ \/ shown = {} /\ Due(id, {"created"})
            \/ (\E t \in Row : shown = {t}) /\ Due(id, {"metadata"})

\* D shows the rows of column s, but for frames still to come.
Agrees(D, s) == \A id \in Issues : AgreesOn(D, id, s)

ListHolds(D) == Unsettled \/ \A s \in Status : Agrees(D, s)

ListReads(p, s) == Unsettled \/ Agrees(p, s)

ListInv ==
  /\ Unobserved("list")
  /\ Settled(query["list"]) => ListHolds(query["list"].data)
  /\ Asked(query["list"]) =>
       \A s \in Status : query["list"].fetch.page[s] # Absent => ListReads(query["list"].fetch.page[s], s)

\* The page will be invalidated or excused.
PageUnsettled ==
  \/ \E m \in mutation : m.kind = "update" /\ m.id = Opened
  \/ \E n \in DOMAIN Wire :
       Wire[n].late /\ Wire[n].row.id = Opened /\ Wire[n].type \in {"updated", "metadata"}

AgreesPage(d) ==
  \A r \in rows : r.id = Opened =>
    /\ d.st = r.st \/ Due(Opened, {"updated"})
    /\ d.meta = r.meta \/ Due(Opened, {"updated", "metadata"})

PageHolds(d) == PageUnsettled \/ AgreesPage(d)

PageReads(p) == PageUnsettled \/ \A d \in p : AgreesPage(d)

PageInv ==
  /\ Unobserved("detail")
  /\ Settled(query["detail"]) => PageHolds(query["detail"].data)
  /\ Asked(query["detail"]) =>
       \A s \in Status : query["detail"].fetch.page[s] # Absent => PageReads(query["detail"].fetch.page[s])

CacheInv == TypeInv /\ MyInv /\ WireInv /\ ListInv /\ PageInv

-----------------------------------------------------------------------------
(* Calls of the query library.  Whatever a call leaves, it is a query of    *)
(* the same kind; the lemmas say when it is held or asked.                  *)

\* A request that has read nothing.
Blank(q) == \A s \in Status : q.fetch.page[s] = Absent

\* A query that shows nothing the server could contradict.
Stale(q, active) == (Held(q) => q.inv /\ ~active) /\ (Asked(q) => Blank(q))

\* The constants of the model.
LEMMA AbsentFacts ==
  /\ Absent \notin Row /\ Absent \notin Fetch /\ \A S \in SUBSET Row : S # Absent
  /\ \A V : Absent \notin Requests(V)
  /\ OpenedRows \subseteq Row
  BY CacheAssumption DEF Requests, OpenedRows

\* A new request has the type of a request.
LEMMA NewFetchType ==
  ASSUME NEW D, NEW V, NEW q \in Query(D, V)
  PROVE  /\ NewFetch(q) \in Requests(V)
         /\ NewFetch(q).why = {}
         /\ \A s \in Status : NewFetch(q).page[s] = Absent
<1>1. [s \in Status |-> Absent] \in [Status -> Page]
  BY DEF Page
<1>2. q.inv \in BOOLEAN /\ {} \in SUBSET Causes
  BY DEF Query
<1>3. NewFetch(q) \in Fetch
  BY <1>1, <1>2 DEF NewFetch, Fetch
<1> QED BY <1>3 DEF NewFetch, Requests

\* Excusing the data.
LEMMA BecauseFacts ==
  ASSUME NEW D, NEW V, NEW q \in Query(D, V), NEW w \in Causes
  PROVE  /\ Because(q, w) \in Query(D, V)
         /\ ~Held(Because(q, w))
         /\ Asked(Because(q, w)) <=> Asked(q)
         /\ Because(q, w).fetch = q.fetch /\ Because(q, w).data = q.data
         /\ Because(q, w).inv = q.inv
  BY DEF Because, Query, Held, Asked, InFlight

\* Blaming a request.
LEMMA BlameFetchFacts ==
  ASSUME NEW D, NEW V, NEW q \in Query(D, V), NEW w \in Causes
  PROVE  /\ BlameFetch(q, w) \in Query(D, V)
         /\ ~Asked(BlameFetch(q, w))
         /\ Held(BlameFetch(q, w)) <=> Held(q)
         /\ BlameFetch(q, w).data = q.data /\ BlameFetch(q, w).inv = q.inv
         /\ BlameFetch(q, w).why = q.why
         /\ InFlight(BlameFetch(q, w)) <=> InFlight(q)
<1>1. CASE ~InFlight(q)
  BY <1>1 DEF BlameFetch, Asked
<1>2. CASE InFlight(q)
  <2> DEFINE f == [q.fetch EXCEPT !.why = @ \cup {w}]
  <2>1. q.fetch \in Requests(V)
    BY <1>2 DEF InFlight, Query
  <2>2. f \in Fetch /\ f.page = q.fetch.page /\ f.why = q.fetch.why \cup {w}
    BY <2>1 DEF Requests, Fetch
  <2>3. f \in Requests(V)
    BY <2>1, <2>2 DEF Requests
  <2>4. f # Absent
    BY <2>3, AbsentFacts
  <2>5. BlameFetch(q, w) = [q EXCEPT !.fetch = f]
    BY <1>2 DEF BlameFetch, Query
  <2> HIDE DEF f
  <2> QED BY <1>2, <2>2, <2>3, <2>4, <2>5 DEF Query, Held, Asked, InFlight
<1> QED BY <1>1, <1>2

\* Blaming both.
LEMMA BlameFacts ==
  ASSUME NEW D, NEW V, NEW q \in Query(D, V), NEW w \in Causes
  PROVE  /\ Blame(q, w) \in Query(D, V)
         /\ ~Held(Blame(q, w)) /\ ~Asked(Blame(q, w))
         /\ Blame(q, w).data = q.data
         /\ InFlight(Blame(q, w)) <=> InFlight(q)
<1>1. Because(q, w) \in Query(D, V) /\ ~Held(Because(q, w))
      /\ Because(q, w).data = q.data /\ (InFlight(Because(q, w)) <=> InFlight(q))
  BY BecauseFacts DEF InFlight
<1> QED BY <1>1, BlameFetchFacts DEF Blame

\* A change that was missed.
LEMMA MissedFacts ==
  ASSUME NEW D, NEW V, NEW q \in Query(D, V)
  PROVE  /\ Missed(q) \in Query(D, V)
         /\ ~Held(Missed(q)) /\ (Asked(Missed(q)) => Blank(Missed(q)))
         /\ Missed(q).data = q.data
         /\ InFlight(Missed(q)) <=> InFlight(q)
<1> "missed" \in Causes
  BY DEF Causes
<1>1. CASE InFlight(q) /\ \A s \in Status : q.fetch.page[s] = Absent
  BY <1>1, BecauseFacts DEF Missed, Blank, InFlight
<1>2. CASE ~(InFlight(q) /\ \A s \in Status : q.fetch.page[s] = Absent)
  BY <1>2, BlameFacts DEF Missed
<1> QED BY <1>1, <1>2

\* New data.
LEMMA SetQueryDataFacts ==
  ASSUME NEW D, NEW V, NEW q \in Query(D, V), NEW d \in D
  PROVE  /\ SetQueryData(q, d) \in Query(D, V)
         /\ ~Asked(SetQueryData(q, d))
         /\ Held(SetQueryData(q, d)) => ~InFlight(q) /\ ~q.inv /\ q.why = {}
         /\ ~SetQueryData(q, d).inv
         /\ SetQueryData(q, d).data = d
         /\ InFlight(SetQueryData(q, d)) <=> InFlight(q)
<1> DEFINE marked == BlameFetch(q, "overtaken")
           f == IF marked.fetch = Absent THEN marked.fetch ELSE [marked.fetch EXCEPT !.inv0 = FALSE]
           why == IF q.inv THEN q.why \cup {"cleared"} ELSE q.why
<1>1. "overtaken" \in Causes /\ "cleared" \in Causes
  BY DEF Causes
<1>2. /\ marked \in Query(D, V) /\ ~Asked(marked) /\ marked.why = q.why
      /\ InFlight(marked) <=> InFlight(q)
  BY <1>1, BlameFetchFacts
<1>3. SetQueryData(q, d) = [marked EXCEPT !.data = d, !.inv = FALSE, !.why = why, !.fetch = f]
  <2> HIDE DEF marked
  <2> QED BY <1>2 DEF SetQueryData, Query, marked
<1>4. f \in Requests(V) \cup {Absent} /\ (f # Absent <=> InFlight(q)) /\ (f # Absent => f.why # {})
  <2> HIDE DEF marked
  <2>1. CASE marked.fetch = Absent
    BY <2>1, <1>2 DEF InFlight
  <2>2. CASE marked.fetch # Absent
    <3>1. marked.fetch \in Requests(V) /\ marked.fetch.why # {}
      BY <2>2, <1>2 DEF Query, Asked, InFlight
    <3>2. f \in Fetch /\ f.page = marked.fetch.page /\ f.why = marked.fetch.why
      BY <3>1, <2>2 DEF Requests, Fetch
    <3>3. f \in Requests(V)
      BY <3>1, <3>2 DEF Requests
    <3>4. f # Absent
      BY <3>3, AbsentFacts
    <3> QED BY <3>1, <3>2, <3>3, <3>4, <2>2, <1>2 DEF InFlight
  <2> QED BY <2>1, <2>2
<1>5. why \in SUBSET Causes /\ (why = {} => ~q.inv /\ q.why = {})
  BY <1>1 DEF Query
<1> HIDE DEF marked, f, why
<1>6. /\ SetQueryData(q, d).data = d /\ SetQueryData(q, d).inv = FALSE
      /\ SetQueryData(q, d).why = why /\ SetQueryData(q, d).fetch = f
      /\ SetQueryData(q, d) \in Query(D, V)
  BY <1>2, <1>3, <1>4, <1>5 DEF Query
<1> QED BY <1>4, <1>5, <1>6 DEF Held, Asked, InFlight

\* A patch: what is held afterwards was held before, and is not flagged.
LEMMA PatchFacts ==
  ASSUME NEW D, NEW V, NEW q \in Query(D, V), NEW d, q.data # Absent => d \in D
  PROVE  /\ Patch(q, d) \in Query(D, V)
         /\ ~Asked(Patch(q, d))
         /\ Held(Patch(q, d)) => Settled(q) /\ ~Patch(q, d).inv /\ Patch(q, d).data = d
         /\ Patch(q, d).data # Absent <=> (q.data # Absent /\ d # Absent)
         /\ InFlight(Patch(q, d)) <=> InFlight(q)
<1>1. CASE q.data = Absent
  <2>1. "overtaken" \in Causes
    BY DEF Causes
  <2>2. Patch(q, d) = BlameFetch(q, "overtaken")
    BY <1>1 DEF Patch
  <2>3. BlameFetch(q, "overtaken").data = Absent
    BY <1>1, <2>1, BlameFetchFacts
  <2> QED BY <1>1, <2>1, <2>2, <2>3, BlameFetchFacts DEF Held
<1>2. CASE q.data # Absent
  <2>1. Patch(q, d) = SetQueryData(q, d)
    BY <1>2 DEF Patch
  <2> QED BY <1>2, <2>1, SetQueryDataFacts DEF Held, Settled
<1> QED BY <1>1, <1>2

\* An invalidation.
LEMMA InvalidateFacts ==
  ASSUME NEW D, NEW V, NEW q \in Query(D, V), NEW active
  PROVE  /\ Invalidate(q, active) \in Query(D, V)
         /\ Stale(Invalidate(q, active), active)
         /\ Invalidate(q, active).data = q.data
         /\ InFlight(Invalidate(q, active)) => InFlight(q) \/ active
<1> DEFINE flagged == [q EXCEPT !.inv = TRUE]
<1>1. /\ flagged \in Query(D, V) /\ flagged.data = q.data /\ flagged.inv
      /\ flagged.fetch = q.fetch /\ flagged.why = q.why
  BY DEF Query
<1> HIDE DEF flagged
<1>2. CASE InFlight(q) /\ (q.data = Absent \/ ~active)
  <2>1. Invalidate(q, active) = BlameFetch(flagged, "swallowed")
    BY <1>2 DEF Invalidate, flagged
  <2>2. "swallowed" \in Causes
    BY DEF Causes
  <2>3. InFlight(flagged)
    BY <1>1, <1>2 DEF InFlight
  <2> QED BY <1>1, <1>2, <2>1, <2>2, <2>3, BlameFetchFacts DEF Stale, Held
<1>3. CASE ~(InFlight(q) /\ (q.data = Absent \/ ~active)) /\ active
  <2>1. Invalidate(q, active) = [flagged EXCEPT !.fetch = NewFetch(flagged)]
    BY <1>3 DEF Invalidate, flagged
  <2>2. NewFetch(flagged) \in Requests(V) /\ \A s \in Status : NewFetch(flagged).page[s] = Absent
    BY <1>1, NewFetchType
  <2>3. NewFetch(flagged) # Absent
    BY <2>2, AbsentFacts
  <2>4. /\ Invalidate(q, active) \in Query(D, V)
        /\ Invalidate(q, active).fetch = NewFetch(flagged)
        /\ Invalidate(q, active).data = q.data
    BY <1>1, <2>1, <2>2 DEF Query
  <2> QED BY <1>3, <2>2, <2>3, <2>4 DEF Stale, Held, Asked, InFlight, Blank
<1>4. CASE ~(InFlight(q) /\ (q.data = Absent \/ ~active)) /\ ~active /\ q.data = Absent
  <2>1. Invalidate(q, active) = q
    BY <1>4 DEF Invalidate
  <2> QED BY <1>4, <2>1 DEF Stale, Held, Asked
<1>5. CASE ~(InFlight(q) /\ (q.data = Absent \/ ~active)) /\ ~active /\ q.data # Absent
  <2>1. Invalidate(q, active) = flagged
    BY <1>5 DEF Invalidate, flagged
  <2> QED BY <1>1, <1>5, <2>1 DEF Stale, Held, Asked, InFlight
<1> QED BY <1>2, <1>3, <1>4, <1>5

\* Of a query that a page observes, and of one that none does.
LEMMA InvalidateOpen ==
  ASSUME NEW D, NEW V, NEW q \in Query(D, V)
  PROVE  /\ Invalidate(q, TRUE) \in Query(D, V)
         /\ Stale(Invalidate(q, TRUE), TRUE)
         /\ Invalidate(q, TRUE).data = q.data
<1> DEFINE on == TRUE
<1> HIDE DEF on
<1>1. /\ Invalidate(q, on) \in Query(D, V) /\ Stale(Invalidate(q, on), on)
      /\ Invalidate(q, on).data = q.data
  BY InvalidateFacts
<1> QED BY <1>1 DEF on

LEMMA InvalidateClosed ==
  ASSUME NEW D, NEW V, NEW q \in Query(D, V)
  PROVE  /\ Invalidate(q, FALSE) \in Query(D, V)
         /\ Stale(Invalidate(q, FALSE), FALSE)
         /\ Invalidate(q, FALSE).data = q.data
         /\ InFlight(Invalidate(q, FALSE)) => InFlight(q)
<1> DEFINE on == FALSE
<1> HIDE DEF on
<1>1. /\ Invalidate(q, on) \in Query(D, V) /\ Stale(Invalidate(q, on), on)
      /\ Invalidate(q, on).data = q.data
      /\ InFlight(Invalidate(q, on)) => InFlight(q) \/ on
  BY InvalidateFacts
<1> QED BY <1>1 DEF on

\* A cancellation.
LEMMA CancelFacts ==
  ASSUME NEW D, NEW V, NEW q \in Query(D, V)
  PROVE  /\ Cancel(q) \in Query(D, V)
         /\ ~InFlight(Cancel(q))
         /\ Cancel(q).data = q.data
         /\ ~InFlight(q) => Cancel(q) = q
<1>1. CASE ~InFlight(q)
  BY <1>1 DEF Cancel
<1>2. CASE InFlight(q)
  <2>1. q.fetch.inv0 \in BOOLEAN
    BY <1>2 DEF InFlight, Query, Requests, Fetch
  <2>2. Cancel(q) = [q EXCEPT !.inv = q.fetch.inv0, !.fetch = Absent]
    BY <1>2 DEF Cancel
  <2>3. Cancel(q) \in Query(D, V) /\ Cancel(q).fetch = Absent /\ Cancel(q).data = q.data
    BY <2>1, <2>2 DEF Query
  <2> QED BY <1>2, <2>3 DEF InFlight
<1> QED BY <1>1, <1>2

\* A snapshot put back unflagged shows nothing unexcused.
LEMMA RestoreUnflaggedFacts ==
  ASSUME NEW D, NEW V, NEW q \in Query(D, V), NEW snapshot \in D \cup {Absent}
  PROVE  /\ RestoreUnflagged(q, snapshot) \in Query(D, V)
         /\ snapshot # Absent => ~Held(RestoreUnflagged(q, snapshot)) /\ ~Asked(RestoreUnflagged(q, snapshot))
         /\ snapshot = Absent => RestoreUnflagged(q, snapshot) = q
         /\ InFlight(RestoreUnflagged(q, snapshot)) <=> InFlight(q)
<1>1. CASE snapshot = Absent
  BY <1>1 DEF RestoreUnflagged
<1>2. CASE snapshot # Absent
  <2>1. /\ SetQueryData(q, snapshot) \in Query(D, V) /\ ~Asked(SetQueryData(q, snapshot))
        /\ InFlight(SetQueryData(q, snapshot)) <=> InFlight(q)
    BY <1>2, SetQueryDataFacts
  <2>2. "restored" \in Causes
    BY DEF Causes
  <2>3. RestoreUnflagged(q, snapshot) = Because(SetQueryData(q, snapshot), "restored")
    BY <1>2 DEF RestoreUnflagged
  <2> QED BY <1>2, <2>1, <2>2, <2>3, BecauseFacts DEF InFlight
<1> QED BY <1>1, <1>2

\* A snapshot put back.
LEMMA RestoreFacts ==
  ASSUME NEW D, NEW V, NEW q \in Query(D, V), NEW snapshot \in D \cup {Absent}
  PROVE  /\ Restore(q, snapshot) \in Query(D, V)
         /\ InFlight(Restore(q, snapshot)) <=> InFlight(q)
         /\ snapshot = Absent => Restore(q, snapshot) = q
  BY SetQueryDataFacts DEF Restore

\* An observer mounts.
LEMMA MountFacts ==
  ASSUME NEW D, NEW V, NEW q \in Query(D, V)
  PROVE  /\ Mount(q) \in Query(D, V)
         /\ \/ Mount(q) = q /\ (Held(q) => ~q.inv)
            \/ ~Held(Mount(q)) /\ Blank(Mount(q)) /\ Mount(q).data = q.data
<1>1. CASE ~InFlight(q) /\ (q.data = Absent \/ q.inv)
  <2>1. NewFetch(q) \in Requests(V) /\ \A s \in Status : NewFetch(q).page[s] = Absent
    BY NewFetchType
  <2>2. NewFetch(q) # Absent
    BY <2>1, AbsentFacts
  <2>3. Mount(q) = [q EXCEPT !.fetch = NewFetch(q)]
    BY <1>1 DEF Mount
  <2>4. Mount(q) \in Query(D, V) /\ Mount(q).fetch = NewFetch(q) /\ Mount(q).data = q.data
    BY <2>1, <2>3 DEF Query
  <2> QED BY <2>1, <2>2, <2>4 DEF Held, InFlight, Blank
<1>2. CASE ~(~InFlight(q) /\ (q.data = Absent \/ q.inv))
  BY <1>2 DEF Mount, Held
<1> QED BY <1>1, <1>2

\* A request that fails.
LEMMA FetchErrorFacts ==
  ASSUME NEW D, NEW V, NEW q \in Query(D, V)
  PROVE  /\ FetchError(q) \in Query(D, V)
         /\ ~Held(FetchError(q)) /\ ~InFlight(FetchError(q))
         /\ FetchError(q).data = q.data
<1> DEFINE p == [q EXCEPT !.fetch = Absent, !.inv = TRUE]
<1>1. p \in Query(D, V) /\ p.fetch = Absent /\ p.data = q.data
  BY DEF Query
<1>2. "failed" \in Causes /\ FetchError(q) = Because(p, "failed")
  BY DEF Causes, FetchError
<1> HIDE DEF p
<1> QED BY <1>1, <1>2, BecauseFacts DEF InFlight

\* A query nobody made.
LEMMA NoQueryFacts ==
  /\ \A D, V : NoQuery \in Query(D, V)
  /\ ~Held(NoQuery) /\ ~InFlight(NoQuery) /\ ~Asked(NoQuery) /\ NoQuery.data = Absent
  BY DEF NoQuery, Query, Held, Asked, InFlight, Causes

-----------------------------------------------------------------------------
(* Rows and buckets *)

\* Patching a row by a row, by its metadata and by its column.
LEMMA OverRow ==
  ASSUME NEW r \in Row, NEW t \in Row PROVE Spread(r, t) = t
<1>1. /\ r = [id |-> r.id, st |-> r.st, meta |-> r.meta]
      /\ t = [id |-> t.id, st |-> t.st, meta |-> t.meta]
  BY DEF Row
<1>2. DOMAIN r = {"id", "st", "meta"} /\ DOMAIN t = {"id", "st", "meta"}
  BY <1>1
<1>3. Spread(r, t) = [x \in {"id", "st", "meta"} |-> t[x]]
  BY <1>2 DEF Spread
<1> QED BY <1>1, <1>2, <1>3

LEMMA OverMeta ==
  ASSUME NEW r \in Row, NEW x \in {0, 1}
  PROVE  /\ Spread(r, [meta |-> x]) = [id |-> r.id, st |-> r.st, meta |-> x]
         /\ Spread(r, [meta |-> x]) \in Row
<1>1. r = [id |-> r.id, st |-> r.st, meta |-> r.meta]
  BY DEF Row
<1>2. DOMAIN r = {"id", "st", "meta"} /\ DOMAIN [meta |-> x] = {"meta"}
  BY <1>1
<1>3. Spread(r, [meta |-> x]) = [y \in {"id", "st", "meta"} |-> IF y = "meta" THEN x ELSE r[y]]
  BY <1>2 DEF Spread
<1>4. Spread(r, [meta |-> x]) = [id |-> r.id, st |-> r.st, meta |-> x]
  BY <1>3
<1> QED BY <1>4 DEF Row

LEMMA OverColumn ==
  ASSUME NEW r \in Row, NEW x \in Status
  PROVE  /\ Spread(r, [st |-> x]) = [id |-> r.id, st |-> x, meta |-> r.meta]
         /\ Spread(r, [st |-> x]) \in Row
<1>1. r = [id |-> r.id, st |-> r.st, meta |-> r.meta]
  BY DEF Row
<1>2. DOMAIN r = {"id", "st", "meta"} /\ DOMAIN [st |-> x] = {"st"}
  BY <1>1
<1>3. Spread(r, [st |-> x]) = [y \in {"id", "st", "meta"} |-> IF y = "st" THEN x ELSE r[y]]
  BY <1>2 DEF Spread
<1>4. Spread(r, [st |-> x]) = [id |-> r.id, st |-> x, meta |-> r.meta]
  BY <1>3
<1> QED BY <1>4 DEF Row

\* A patch makes rows of rows.
LEMMA BucketTypes ==
  ASSUME NEW data \in SUBSET Row, NEW id \in Issues
  PROVE  /\ \A row \in Row : AddIssueToBuckets(data, row) \in SUBSET Row
         /\ RemoveIssueFromBuckets(data, id) \in SUBSET Row
         /\ \A row \in Row : PatchIssueInBuckets(data, id, row) \in SUBSET Row
         /\ \A x \in {0, 1} : PatchIssueInBuckets(data, id, [meta |-> x]) \in SUBSET Row
         /\ \A x \in Status : PatchIssueInBuckets(data, id, [st |-> x]) \in SUBSET Row
<1>1. \A row \in Row : AddIssueToBuckets(data, row) \in SUBSET Row
  BY DEF AddIssueToBuckets
<1>2. RemoveIssueFromBuckets(data, id) \in SUBSET Row
  BY DEF RemoveIssueFromBuckets
<1>3. ASSUME NEW change, \A r \in Row : Spread(r, change) \in Row
      PROVE  PatchIssueInBuckets(data, id, change) \in SUBSET Row
  BY <1>3 DEF PatchIssueInBuckets, InBucket, Copies
<1>4. \A row \in Row : PatchIssueInBuckets(data, id, row) \in SUBSET Row
  BY <1>3, OverRow
<1>5. \A x \in {0, 1} : PatchIssueInBuckets(data, id, [meta |-> x]) \in SUBSET Row
  BY <1>3, OverMeta
<1>6. \A x \in Status : PatchIssueInBuckets(data, id, [st |-> x]) \in SUBSET Row
  BY <1>3, OverColumn
<1> QED BY <1>1, <1>2, <1>4, <1>5, <1>6

\* An issue shown in one column only is found there.
LEMMA FoundThere ==
  ASSUME NEW data \in SUBSET Row, NEW id, NEW s \in Status,
         Copies(data, id) # {}, \A r \in Copies(data, id) : r.st = s
  PROVE  FindIssueLocation(data, id) = s
<1> DEFINE columns == {n \in 1..Len(Statuses) : \E r \in Copies(data, id) : r.st = Statuses[n]}
<1>1. Statuses \in Seq(Status) /\ IsInjective(Statuses)
  BY CacheAssumption
<1>2. PICK k \in 1..Len(Statuses) : Statuses[k] = s
  BY <1>1 DEF Status, ToSet
<1>3. columns = {k}
  <2>1. k \in columns
    BY <1>2
  <2>2. \A n \in columns : Statuses[n] = s
    OBVIOUS
  <2>3. \A n \in columns : n = k
    BY <1>1, <1>2, <2>2 DEF IsInjective
  <2> QED BY <2>1, <2>3
<1>4. (CHOOSE n \in columns : \A m \in columns : n <= m) \in columns
  <2> HIDE DEF columns
  <2>1. k \in columns /\ \A m \in columns : k <= m
    BY <1>2, <1>3
  <2> QED BY <2>1
<1>5. FindIssueLocation(data, id) = Statuses[CHOOSE n \in columns : \A m \in columns : n <= m]
  BY DEF FindIssueLocation
<1> HIDE DEF columns
<1> QED BY <1>2, <1>3, <1>4, <1>5

\* What a patch leaves of the issue in each column, and of the others.
LEMMA AddedIssue ==
  ASSUME NEW data \in SUBSET Row, NEW row \in Row, NEW id \in Issues, NEW s \in Status
  PROVE  InBucket(AddIssueToBuckets(data, row), id, s)
           = IF id = row.id /\ s = row.st /\ InBucket(data, id, s) = {} THEN {row}
                                                                     ELSE InBucket(data, id, s)
  BY DEF AddIssueToBuckets, InBucket, Copies

LEMMA AnnotatedIssue ==
  ASSUME NEW data \in SUBSET Row, NEW id \in Issues, NEW x \in {0, 1}, NEW s \in Status,
         \A r \in Copies(data, id) : r.st = s,
         NEW other \in Issues, NEW c \in Status
  PROVE  InBucket(PatchIssueInBuckets(data, id, [meta |-> x]), other, c)
           = IF other = id /\ c = s
             THEN {[id |-> id, st |-> s, meta |-> x] : r \in InBucket(data, id, s)}
             ELSE InBucket(data, other, c)
<1> DEFINE new == PatchIssueInBuckets(data, id, [meta |-> x])
           there == InBucket(data, id, s)
<1>1. CASE Copies(data, id) = {}
  BY <1>1 DEF PatchIssueInBuckets, InBucket, Copies
<1>2. CASE Copies(data, id) # {}
  <2>1. FindIssueLocation(data, id) = s
    BY <1>2, FoundThere
  <2>2. new = (data \ there) \cup {Spread(r, [meta |-> x]) : r \in there}
    BY <1>2, <2>1 DEF PatchIssueInBuckets
  <2>3. \A r \in there : r \in Row /\ r.id = id /\ r.st = s
    BY DEF InBucket, Copies
  <2>4. \A r \in there : Spread(r, [meta |-> x]) = [id |-> id, st |-> s, meta |-> x]
    BY <2>3, OverMeta
  <2> DEFINE v == [id |-> id, st |-> s, meta |-> x]
             put == {v : r \in there}
  <2>5. new = (data \ there) \cup put
    BY <2>2, <2>4
  <2>6. \A y : y \in there <=> y \in data /\ y.id = id /\ y.st = s
    BY DEF InBucket, Copies
  <2>7. \A y \in put : y.id = id /\ y.st = s
    OBVIOUS
  <2>8. \A r \in data : r.id = id => r.st = s
    BY DEF Copies
  <2> HIDE DEF new, there, v, put
  <2>9. \A y : y \in InBucket(new, other, c) <=> y \in new /\ y.id = other /\ y.st = c
    BY DEF InBucket, Copies
  <2>10. \A y : y \in InBucket(data, other, c) <=> y \in data /\ y.id = other /\ y.st = c
    BY DEF InBucket, Copies
  <2>11. CASE other = id /\ c = s
    <3>1. InBucket(new, other, c) = put
      BY <2>5, <2>6, <2>7, <2>9, <2>11
    <3> QED BY <2>11, <3>1 DEF new, put, there, v
  <2>12. CASE ~(other = id /\ c = s)
    <3>1. InBucket(new, other, c) = InBucket(data, other, c)
      <4>1. ASSUME NEW y, y.id = other, y.st = c PROVE y \in new <=> y \in data
        <5>1. y \notin put /\ y \notin there
          BY <2>6, <2>7, <2>12, <4>1
        <5> QED BY <2>5, <5>1
      <4>2. \A y : y \in InBucket(new, other, c) <=> y \in InBucket(data, other, c)
        BY <2>9, <2>10, <4>1
      <4> QED BY <4>2 DEF InBucket
    <3> QED BY <2>12, <3>1 DEF new
  <2> QED BY <2>11, <2>12
<1> QED BY <1>1, <1>2

\* The same, with names for the metadata, the patch, its condition and the row it leaves.
Notes == {0, 1}

Annotated(data, id, x) == PatchIssueInBuckets(data, id, [meta |-> x])

OnlyIn(data, id, s) == \A r \in Copies(data, id) : r.st = s

Noted(id, s, x) == [id |-> id, st |-> s, meta |-> x]

\* What the patch does to an issue whose row is in that column and nowhere else.
AnnotatedThere(data, id, x, s) ==
  \A other \in Issues, c \in Status :
    InBucket(Annotated(data, id, x), other, c)
      = IF other = id /\ c = s /\ InBucket(data, id, s) # {} THEN {Noted(id, s, x)}
                                                           ELSE InBucket(data, other, c)

\* It does so.
LEMMA AnnotatedRow ==
  ASSUME NEW data \in SUBSET Row, NEW id \in Issues, NEW x \in Notes, NEW s \in Status,
         OnlyIn(data, id, s)
  PROVE  AnnotatedThere(data, id, x, s)
<1> SUFFICES ASSUME NEW other \in Issues, NEW c \in Status
             PROVE  InBucket(Annotated(data, id, x), other, c)
                      = IF other = id /\ c = s /\ InBucket(data, id, s) # {} THEN {Noted(id, s, x)}
                                                                           ELSE InBucket(data, other, c)
  BY DEF AnnotatedThere
<1>1. InBucket(Annotated(data, id, x), other, c)
        = IF other = id /\ c = s
          THEN {[id |-> id, st |-> s, meta |-> x] : r \in InBucket(data, id, s)}
          ELSE InBucket(data, other, c)
  BY AnnotatedIssue DEF Annotated, Notes, OnlyIn
<1> DEFINE there == InBucket(data, id, s)
<1>2. InBucket(Annotated(data, id, x), other, c)
        = IF other = id /\ c = s THEN {Noted(id, s, x) : r \in there} ELSE InBucket(data, other, c)
  BY <1>1 DEF Noted
<1> HIDE DEF there
<1>3. /\ there # {} => {Noted(id, s, x) : r \in there} = {Noted(id, s, x)}
      /\ there = {} => {Noted(id, s, x) : r \in there} = {}
  OBVIOUS
<1> QED BY <1>2, <1>3 DEF there

-----------------------------------------------------------------------------
(* The server's writes and the frames they become *)

\* A commit of one of the four handlers.
Sound(type, old, new, row) ==
  /\ row \in Row
  /\ \/ type = "created" /\ old = {} /\ new = {row} /\ row.id \notin born
     \/ type = "updated" /\ new = {row} /\ \E r \in rows : r.id = row.id /\ old = {r}
     \/ type = "metadata" /\ new = {row} /\ \E r \in rows : r.id = row.id /\ r.st = row.st /\ old = {r}
     \/ type = "deleted" /\ new = {} /\ old = {row} /\ row \in rows

Writes == \E type, old, new, row : Sound(type, old, new, row) /\ Commit(type, old, new, row)

LEMMA CreateWrites ==
  ASSUME NEW id \in Issues \ born, Create(id) PROVE Writes
<1> DEFINE r == [id |-> id, st |-> First, meta |-> 0]
<1>1. First \in Status
  BY CacheAssumption DEF First, Status, ToSet
<1>2. r \in Row /\ r.id = id
  BY <1>1 DEF Row
<1>3. Commit("created", {}, {r}, r)
  BY DEF Create
<1>4. Sound("created", {}, {r}, r)
  BY <1>2 DEF Sound
<1> QED BY <1>3, <1>4 DEF Writes

LEMMA ChangeWrites ==
  ASSUME ServerInv, NEW r \in rows
  PROVE  /\ \A st \in Status : Move(r, st) => Writes
         /\ Annotate(r) => Writes
         /\ Delete(r) => Writes
<1>1. r \in Row
  BY DEF ServerInv
<1>2. ASSUME NEW st \in Status, Move(r, st) PROVE Writes
  <2> DEFINE moved == [r EXCEPT !.st = st]
  <2>1. moved \in Row /\ moved.id = r.id
    BY <1>1 DEF Row
  <2>2. Commit("updated", {r}, {moved}, moved)
    BY <1>2 DEF Move
  <2> HIDE DEF moved
  <2>3. Sound("updated", {r}, {moved}, moved)
    BY <2>1 DEF Sound
  <2> QED BY <2>2, <2>3 DEF Writes
<1>3. ASSUME Annotate(r) PROVE Writes
  <2> DEFINE noted == [r EXCEPT !.meta = 1 - @]
  <2>1. noted \in Row /\ noted.id = r.id /\ noted.st = r.st
    BY <1>1 DEF Row
  <2>2. Commit("metadata", {r}, {noted}, noted)
    BY <1>3 DEF Annotate
  <2> HIDE DEF noted
  <2>3. Sound("metadata", {r}, {noted}, noted)
    BY <2>1 DEF Sound
  <2> QED BY <2>2, <2>3 DEF Writes
<1>4. ASSUME Delete(r) PROVE Writes
  <2>1. Commit("deleted", {r}, {}, r)
    BY <1>4 DEF Delete
  <2>2. Sound("deleted", {r}, {}, r)
    BY <1>1 DEF Sound
  <2> QED BY <2>1, <2>2 DEF Writes
<1> QED BY <1>2, <1>3, <1>4

\* The row of an issue that is alive.
LEMMA RowOfFacts ==
  ASSUME NEW id \in Alive PROVE RowOf(id) \in rows /\ RowOf(id).id = id
<1>1. \E r \in rows : r.id = id
  BY DEF Alive
<1> QED BY <1>1 DEF RowOf

\* What a commit leaves: one row of each issue, those of other issues as they were.
LEMMA WroteRows ==
  ASSUME ServerInv, NEW type, NEW old, NEW new, NEW row,
         Sound(type, old, new, row), Commit(type, old, new, row)
  PROVE  /\ rows' \subseteq Row
         /\ \A r, t \in rows' : r.id = t.id => r = t
         /\ \A r \in Row : r.id # row.id => (r \in rows' <=> r \in rows)
         /\ type # "deleted" => row \in rows'
         /\ \A r \in rows' : r.id = row.id => r = row
         /\ type = "deleted" => row.id \notin Alive'
         /\ type = "created" => row.id \notin Alive
         /\ born' \subseteq Issues /\ Alive' \subseteq born' /\ born \subseteq born' /\ row.id \in born'
<1>1. row \in Row /\ row.id \in Issues
  BY DEF Sound, Row
<1>2. rows' = (rows \ old) \cup new /\ born' = born \cup {row.id}
  BY DEF Commit
<1>3. rows \subseteq Row /\ \A r, t \in rows : r.id = t.id => r = t
  BY DEF ServerInv
<1>4. \A r \in rows : r.id \in born
  BY DEF ServerInv, Alive
<1>5. \A r \in rows \ old : r.id # row.id
  BY <1>1, <1>3, <1>4 DEF Sound
<1>6. old \subseteq {r \in rows : r.id = row.id}
  BY DEF Sound
<1>7. new \subseteq {row} /\ (type # "deleted" => row \in new) /\ (type = "deleted" => new = {})
  BY DEF Sound
<1>8. rows' \subseteq Row /\ \A r, t \in rows' : r.id = t.id => r = t
  BY <1>1, <1>2, <1>3, <1>5, <1>7
<1>9. \A r \in rows' : r.id = row.id => r = row
  BY <1>2, <1>5, <1>7
<1>10. \A r \in Row : r.id # row.id => (r \in rows' <=> r \in rows)
  BY <1>2, <1>6, <1>7
<1>11. type = "deleted" => row.id \notin Alive'
  BY <1>2, <1>5, <1>7 DEF Alive
<1>12. type = "created" => row.id \notin Alive
  BY <1>4 DEF Sound, Alive
<1>13. born' \subseteq Issues /\ Alive' \subseteq born'
  BY <1>1, <1>2, <1>4, <1>7 DEF Alive, ServerInv
<1>14. type # "deleted" => row \in rows'
  BY <1>2, <1>7
<1> QED BY <1>2, <1>8, <1>9, <1>10, <1>11, <1>12, <1>13, <1>14

\* The types after a commit.
LEMMA WroteTypes ==
  ASSUME ServerInv, Writes, UNCHANGED pipe
  PROVE  ServerInv' /\ born \subseteq born'
<1> PICK type, old, new, row : Sound(type, old, new, row) /\ Commit(type, old, new, row)
  BY DEF Writes
<1>1. /\ rows' \subseteq Row /\ (\A r, t \in rows' : r.id = t.id => r = t)
      /\ born' \subseteq Issues /\ Alive' \subseteq born' /\ born \subseteq born' /\ row.id \in born'
  BY WroteRows
<1> DEFINE e == [type |-> type, row |-> row, late |-> FALSE]
<1>2. e \in Event /\ e.row = row
  BY DEF Sound, Event
<1>3. outbox' = Append(outbox, e)
  BY DEF Commit
<1> HIDE DEF e
<1>4. outbox \in Seq(Event)
  BY DEF ServerInv
<1>5. outbox' \in Seq(Event) /\ Len(outbox') = Len(outbox) + 1
      /\ \A n \in 1..Len(outbox') : outbox'[n] = IF n <= Len(outbox) THEN outbox[n] ELSE e
  BY <1>2, <1>3, <1>4
<1>6. \A n \in DOMAIN outbox' : outbox'[n].row.id \in born'
  BY <1>1, <1>2, <1>4, <1>5 DEF ServerInv
<1>7. \A n \in DOMAIN pipe' : pipe'[n].row.id \in born'
  BY <1>1 DEF ServerInv
<1> QED BY <1>1, <1>5, <1>6, <1>7 DEF ServerInv

\* A sequence without its k-th element.
LEMMA RemovedAt ==
  ASSUME NEW S, NEW t \in Seq(S), NEW k \in 1..Len(t)
  PROVE  /\ RemoveAt(t, k) \in Seq(S)
         /\ Len(RemoveAt(t, k)) = Len(t) - 1
         /\ \A n \in 1..(Len(t) - 1) : RemoveAt(t, k)[n] = IF n < k THEN t[n] ELSE t[n + 1]
<1> DEFINE u == SubSeq(t, 1, k - 1)
           v == SubSeq(t, k + 1, Len(t))
<1>1. u \in Seq(S) /\ Len(u) = k - 1 /\ \A i \in 1..(k - 1) : u[i] = t[i]
  <2>1. \A i \in 1..(k - 1) : i \in 1..Len(t)
    OBVIOUS
  <2>2. u \in Seq(S)
    BY <2>1
  <2>3. Len(u) = k - 1
    BY <2>1
  <2> QED BY <2>2, <2>3
<1>2. v \in Seq(S) /\ Len(v) = Len(t) - k /\ \A i \in 1..(Len(t) - k) : v[i] = t[i + k]
  <2>1. \A i \in (k + 1)..Len(t) : i \in 1..Len(t)
    OBVIOUS
  <2>2. v \in Seq(S)
    BY <2>1
  <2>3. Len(v) = Len(t) - k
    BY <2>1
  <2>4. \A i \in 1..(Len(t) - k) : v[i] = t[i + k]
    BY <2>1
  <2> QED BY <2>2, <2>3, <2>4
<1>3. RemoveAt(t, k) = u \o v
  BY DEF RemoveAt
<1> HIDE DEF u, v
<1>4. u \o v \in Seq(S) /\ Len(u \o v) = Len(u) + Len(v)
      /\ \A i \in 1..(Len(u) + Len(v)) : (u \o v)[i] = IF i <= Len(u) THEN u[i] ELSE v[i - Len(u)]
  BY <1>1, <1>2, ConcatProperties
<1>5. Len(t) \in Nat /\ k \in Nat
  OBVIOUS
<1>6. Len(RemoveAt(t, k)) = Len(t) - 1
  BY <1>1, <1>2, <1>3, <1>4, <1>5
<1>7. ASSUME NEW n \in 1..(Len(t) - 1)
      PROVE  RemoveAt(t, k)[n] = IF n < k THEN t[n] ELSE t[n + 1]
  <2>1. n \in 1..(Len(u) + Len(v))
    BY <1>1, <1>2, <1>5
  <2>2. CASE n < k
    <3>1. n \in 1..(k - 1) /\ n <= Len(u)
      BY <2>2, <1>1, <1>5
    <3> QED BY <2>1, <2>2, <3>1, <1>1, <1>3, <1>4
  <2>3. CASE ~(n < k)
    <3>1. ~(n <= Len(u)) /\ n - Len(u) \in 1..(Len(t) - k) /\ (n - Len(u)) + k = n + 1
      BY <2>3, <1>1, <1>5
    <3> QED BY <2>1, <2>3, <3>1, <1>2, <1>3, <1>4
  <2> QED BY <2>2, <2>3
<1> QED BY <1>3, <1>4, <1>6, <1>7

\* What Publish leaves to be published.
LEMMA OvertakenFacts ==
  ASSUME outbox \in Seq(Event), NEW k \in DOMAIN outbox
  PROVE  /\ Overtaken(k) \in Seq(Event) /\ Len(Overtaken(k)) = Len(outbox) - 1
         /\ k \in 1..Len(outbox) /\ outbox[k] \in Event
         /\ \A n \in 1..(Len(outbox) - 1) :
              /\ n < k =>
                   /\ Overtaken(k)[n].row = outbox[n].row /\ Overtaken(k)[n].type = outbox[n].type
                   /\ outbox[n].late => Overtaken(k)[n].late
                   /\ outbox[n].row.id = outbox[k].row.id => Overtaken(k)[n].late
              /\ n >= k => Overtaken(k)[n] = outbox[n + 1]
<1> DEFINE g == [n \in DOMAIN outbox |->
                   IF n < k /\ outbox[n].row.id = outbox[k].row.id
                   THEN [outbox[n] EXCEPT !.late = TRUE] ELSE outbox[n]]
<1>1. k \in 1..Len(outbox) /\ DOMAIN outbox = 1..Len(outbox) /\ Len(outbox) \in Nat
  OBVIOUS
<1>2. \A n \in 1..Len(outbox) : outbox[n] \in Event
  BY <1>1
<1>3. ASSUME NEW n \in 1..Len(outbox)
      PROVE  /\ g[n] \in Event /\ g[n].row = outbox[n].row /\ g[n].type = outbox[n].type
             /\ outbox[n].late => g[n].late
             /\ n < k /\ outbox[n].row.id = outbox[k].row.id => g[n].late
             /\ n >= k => g[n] = outbox[n]
  <2>1. outbox[n] \in Event /\ n \in Nat /\ k \in Nat
    BY <1>1, <1>2
  <2>2. CASE n < k /\ outbox[n].row.id = outbox[k].row.id
    <3>1. g[n] = [outbox[n] EXCEPT !.late = TRUE]
      BY <1>1, <2>2
    <3>2. /\ g[n] \in Event /\ g[n].row = outbox[n].row /\ g[n].type = outbox[n].type
          /\ g[n].late
      BY <2>1, <3>1 DEF Event
    <3>3. ~(n >= k)
      BY <2>1, <2>2
    <3> QED BY <3>2, <3>3
  <2>3. CASE ~(n < k /\ outbox[n].row.id = outbox[k].row.id)
    <3>1. g[n] = outbox[n]
      BY <1>1, <2>3
    <3> QED BY <2>1, <2>3, <3>1
  <2> QED BY <2>2, <2>3
<1>4. g \in [1..Len(outbox) -> Event]
  BY <1>1, <1>3
<1>5. g \in Seq(Event)
  BY <1>1, <1>4
<1>6. Len(g) = Len(outbox)
  BY <1>1, <1>4
<1>7. Overtaken(k) = RemoveAt(g, k)
  BY DEF Overtaken
<1> HIDE DEF g
<1>8. /\ Overtaken(k) \in Seq(Event) /\ Len(Overtaken(k)) = Len(outbox) - 1
      /\ \A n \in 1..(Len(outbox) - 1) : Overtaken(k)[n] = IF n < k THEN g[n] ELSE g[n + 1]
  <2>1. k \in 1..Len(g)
    BY <1>1, <1>6
  <2> QED BY <1>5, <1>6, <1>7, <2>1, RemovedAt
<1>9. ASSUME NEW n \in 1..(Len(outbox) - 1)
      PROVE  /\ n < k => Overtaken(k)[n] = g[n] /\ n \in 1..Len(outbox)
             /\ n >= k => Overtaken(k)[n] = g[n + 1] /\ g[n + 1] = outbox[n + 1]
  <2>1. n \in 1..Len(outbox) /\ n + 1 \in 1..Len(outbox) /\ (n >= k => n + 1 >= k /\ ~(n < k))
    BY <1>1
  <2> QED BY <1>3, <1>8, <2>1
<1> QED BY <1>1, <1>2, <1>3, <1>8, <1>9

-----------------------------------------------------------------------------
(* The frames still to come *)

\* The frames of two sequences, one after the other.
LEMMA JoinedFacts ==
  ASSUME NEW p \in Seq(Event), NEW o \in Seq(Event)
  PROVE  /\ Len(p) \in Nat /\ Len(o) \in Nat
         /\ DOMAIN Joined(p, o) = 1..(Len(p) + Len(o))
         /\ \A n \in 1..Len(p) : Joined(p, o)[n] = p[n]
         /\ \A n \in 1..Len(o) : Joined(p, o)[Len(p) + n] = o[n]
         /\ \A n \in DOMAIN Joined(p, o) :
              \/ n \in 1..Len(p) /\ Joined(p, o)[n] = p[n]
              \/ n - Len(p) \in 1..Len(o) /\ Joined(p, o)[n] = o[n - Len(p)]
         /\ \A n \in DOMAIN Joined(p, o) : Joined(p, o)[n] \in Event
<1>1. Len(p) \in Nat /\ Len(o) \in Nat
  OBVIOUS
<1>2. DOMAIN Joined(p, o) = 1..(Len(p) + Len(o))
  BY DEF Joined
<1>3. \A n \in 1..(Len(p) + Len(o)) :
        Joined(p, o)[n] = IF n <= Len(p) THEN p[n] ELSE o[n - Len(p)]
  BY DEF Joined
<1>4. \A n \in 1..Len(p) : Joined(p, o)[n] = p[n]
  BY <1>1, <1>3
<1>5. ASSUME NEW n \in 1..Len(o) PROVE Joined(p, o)[Len(p) + n] = o[n]
  <2>1. Len(p) + n \in 1..(Len(p) + Len(o)) /\ ~(Len(p) + n <= Len(p)) /\ (Len(p) + n) - Len(p) = n
    BY <1>1
  <2> QED BY <2>1, <1>3
<1>6. ASSUME NEW n \in DOMAIN Joined(p, o)
      PROVE  \/ n \in 1..Len(p) /\ Joined(p, o)[n] = p[n]
             \/ n - Len(p) \in 1..Len(o) /\ Joined(p, o)[n] = o[n - Len(p)]
  BY <1>1, <1>2, <1>3
<1>7. (\A n \in 1..Len(p) : p[n] \in Event) /\ (\A n \in 1..Len(o) : o[n] \in Event)
  OBVIOUS
<1>8. \A n \in DOMAIN Joined(p, o) : Joined(p, o)[n] \in Event
  BY <1>6, <1>7
<1> QED BY <1>1, <1>2, <1>4, <1>5, <1>6, <1>8

LEMMA WireFacts ==
  ASSUME ServerInv
  PROVE  /\ pipe \in Seq(Event) /\ outbox \in Seq(Event)
         /\ \A n \in DOMAIN Wire : Wire[n] \in Event /\ Wire[n].row.id \in born
<1>1. pipe \in Seq(Event) /\ outbox \in Seq(Event)
  BY DEF ServerInv
<1>2. \A n \in DOMAIN Wire : Wire[n] \in Event
  BY <1>1, JoinedFacts DEF Wire
<1>3. ASSUME NEW n \in DOMAIN Wire PROVE Wire[n].row.id \in born
  <2>1. \/ n \in 1..Len(pipe) /\ Wire[n] = pipe[n]
        \/ n - Len(pipe) \in 1..Len(outbox) /\ Wire[n] = outbox[n - Len(pipe)]
    BY <1>1, JoinedFacts DEF Wire
  <2>2. DOMAIN pipe = 1..Len(pipe) /\ DOMAIN outbox = 1..Len(outbox)
    BY <1>1
  <2> QED BY <2>1, <2>2 DEF ServerInv
<1> QED BY <1>1, <1>2, <1>3

\* After a commit its event comes last.
LEMMA WireAppended ==
  ASSUME ServerInv, NEW type, NEW old, NEW new, NEW row,
         Sound(type, old, new, row), Commit(type, old, new, row), UNCHANGED pipe,
         NEW N, N = Len(pipe) + Len(outbox)
  PROVE  /\ N \in Nat /\ DOMAIN Wire = 1..N /\ DOMAIN Wire' = 1..(N + 1)
         /\ \A n \in 1..N : Wire'[n] = Wire[n]
         /\ Wire'[N + 1] = [type |-> type, row |-> row, late |-> FALSE]
<1> DEFINE e == [type |-> type, row |-> row, late |-> FALSE]
<1>1. e \in Event
  BY DEF Sound, Event
<1>2. outbox' = Append(outbox, e) /\ pipe' = pipe
  BY DEF Commit
<1> HIDE DEF e
<1>3. outbox \in Seq(Event) /\ pipe \in Seq(Event)
  BY DEF ServerInv
<1>4. outbox' \in Seq(Event) /\ Len(outbox') = Len(outbox) + 1
      /\ \A n \in 1..Len(outbox') : outbox'[n] = IF n <= Len(outbox) THEN outbox[n] ELSE e
  BY <1>1, <1>2, <1>3
<1>5. Wire' = Joined(pipe, outbox') /\ Wire = Joined(pipe, outbox)
  BY <1>2 DEF Wire
<1>6. /\ Len(pipe) \in Nat /\ Len(outbox) \in Nat /\ N \in Nat /\ DOMAIN Wire = 1..N
      /\ DOMAIN Wire' = 1..(Len(pipe) + Len(outbox'))
  BY <1>3, <1>4, <1>5, JoinedFacts
<1>7. DOMAIN Wire' = 1..(N + 1)
  BY <1>4, <1>6
<1>8. ASSUME NEW n \in 1..N PROVE Wire'[n] = Wire[n]
  <2>1. CASE n \in 1..Len(pipe)
    <3>1. Joined(pipe, outbox')[n] = pipe[n]
      BY <2>1, <1>3, <1>4, JoinedFacts
    <3>2. Joined(pipe, outbox)[n] = pipe[n]
      BY <2>1, <1>3, JoinedFacts
    <3> QED BY <3>1, <3>2, <1>5
  <2>2. CASE n \notin 1..Len(pipe)
    <3> DEFINE m == n - Len(pipe)
    <3>1. m \in 1..Len(outbox) /\ m \in 1..Len(outbox') /\ Len(pipe) + m = n
      BY <2>2, <1>4, <1>6
    <3>2. Joined(pipe, outbox')[Len(pipe) + m] = outbox'[m]
      <4> HIDE DEF m
      <4> QED BY <3>1, <1>3, <1>4, JoinedFacts
    <3>3. Joined(pipe, outbox)[Len(pipe) + m] = outbox[m]
      <4> HIDE DEF m
      <4> QED BY <3>1, <1>3, JoinedFacts
    <3>4. outbox'[m] = outbox[m]
      BY <3>1, <1>4, <1>6
    <3> QED BY <3>1, <3>2, <3>3, <3>4, <1>5
  <2> QED BY <2>1, <2>2
<1>9. Wire'[N + 1] = e
  <2>1. Len(outbox') \in 1..Len(outbox') /\ Len(pipe) + Len(outbox') = N + 1
    BY <1>4, <1>6
  <2>2. Joined(pipe, outbox')[Len(pipe) + Len(outbox')] = outbox'[Len(outbox')]
    BY <2>1, <1>3, <1>4, JoinedFacts
  <2>3. outbox'[Len(outbox')] = e
    BY <2>1, <1>4, <1>6
  <2> QED BY <2>1, <2>2, <2>3, <1>5
<1> QED BY <1>6, <1>7, <1>8, <1>9 DEF e

\* The frames after a step are frames before it, f tells which: those of an issue
\* stay in their order, behind one that is not late none is lost.
Follows(f) ==
  /\ f \in [DOMAIN Wire' -> DOMAIN Wire]
  /\ \A n \in DOMAIN Wire' :
       /\ Wire'[n].row = Wire[f[n]].row /\ Wire'[n].type = Wire[f[n]].type
       /\ Wire[f[n]].late => Wire'[n].late
  /\ \A n \in DOMAIN Wire' : \A k \in DOMAIN Wire :
       ~Wire'[n].late /\ k > f[n] /\ Wire[k].row.id = Wire[f[n]].row.id
         => \E j \in DOMAIN Wire' : j > n /\ f[j] = k
  /\ \A n, j \in DOMAIN Wire' :
       ~Wire'[n].late /\ j < n /\ Wire'[j].row.id = Wire'[n].row.id => f[j] < f[n]

LEMMA FollowedWire ==
  ASSUME ServerInv, WireInv, UNCHANGED rows, NEW f, Follows(f)
  PROVE  WireInv'
<1>1. Alive' = Alive
  BY DEF Alive
<1>2. ASSUME NEW n \in DOMAIN Wire', ~Wire'[n].late, NEW T, NoneAfter(n, T)'
      PROVE  NoneAfter(f[n], T)
  <2> SUFFICES ASSUME NEW k \in DOMAIN Wire, k > f[n], Wire[k].row.id = Wire[f[n]].row.id
               PROVE  Wire[k].type \notin T
    BY DEF NoneAfter
  <2>1. PICK j \in DOMAIN Wire' : j > n /\ f[j] = k
    BY <1>2 DEF Follows
  <2>2. Wire'[j].row.id = Wire'[n].row.id /\ Wire'[j].type = Wire[k].type
    BY <2>1 DEF Follows
  <2> QED BY <1>2, <2>1, <2>2 DEF NoneAfter
<1>3. \A n \in DOMAIN Wire' : Wire'[n].type = "deleted" => Wire'[n].row.id \notin Alive'
  BY <1>1 DEF Follows, WireInv
<1>4. ASSUME NEW n \in DOMAIN Wire', ~Wire'[n].late, Wire'[n].type # "deleted"
      PROVE  /\ NoneAfter(n, {"updated", "deleted"})' =>
                  \E r \in rows' : r.id = Wire'[n].row.id /\ r.st = Wire'[n].row.st
             /\ NoneAfter(n, {"updated", "deleted", "metadata"})' => Wire'[n].row \in rows'
  <2>1. /\ f[n] \in DOMAIN Wire /\ ~Wire[f[n]].late /\ Wire[f[n]].type # "deleted"
        /\ Wire'[n].row = Wire[f[n]].row
    BY <1>4 DEF Follows
  <2>2. /\ NoneAfter(f[n], {"updated", "deleted"}) =>
             \E r \in rows : r.id = Wire[f[n]].row.id /\ r.st = Wire[f[n]].row.st
        /\ NoneAfter(f[n], {"updated", "deleted", "metadata"}) => Wire[f[n]].row \in rows
    BY <2>1 DEF WireInv
  <2>3. NoneAfter(n, {"updated", "deleted"})' => NoneAfter(f[n], {"updated", "deleted"})
    BY <1>2, <1>4
  <2>4. NoneAfter(n, {"updated", "deleted", "metadata"})' => NoneAfter(f[n], {"updated", "deleted", "metadata"})
    BY <1>2, <1>4
  <2> QED BY <2>1, <2>2, <2>3, <2>4
<1>5. ASSUME NEW n \in DOMAIN Wire', NEW k \in DOMAIN Wire',
             ~Wire'[n].late, Wire'[n].type = "created", k < n
      PROVE  Wire'[k].row.id # Wire'[n].row.id
  <2> SUFFICES ASSUME Wire'[k].row.id = Wire'[n].row.id PROVE FALSE
    OBVIOUS
  <2>1. f[k] < f[n] /\ f[k] \in DOMAIN Wire /\ f[n] \in DOMAIN Wire
    BY <1>5 DEF Follows
  <2>2. ~Wire[f[n]].late /\ Wire[f[n]].type = "created" /\ Wire[f[k]].row.id = Wire[f[n]].row.id
    BY <1>5 DEF Follows
  <2> QED BY <2>1, <2>2 DEF WireInv
<1> QED BY <1>3, <1>4, <1>5 DEF WireInv

\* A commit's event says what the server now has, and is the last to say so.
LEMMA WroteWire ==
  ASSUME ServerInv, WireInv, Writes, UNCHANGED pipe
  PROVE  WireInv'
<1> PICK type, old, new, row : Sound(type, old, new, row) /\ Commit(type, old, new, row)
  BY DEF Writes
<1> DEFINE N == Len(pipe) + Len(outbox)
<1>1. /\ N \in Nat /\ DOMAIN Wire = 1..N /\ DOMAIN Wire' = 1..(N + 1)
      /\ \A n \in 1..N : Wire'[n] = Wire[n]
      /\ Wire'[N + 1] = [type |-> type, row |-> row, late |-> FALSE]
  BY WireAppended
<1> HIDE DEF N
<1>2. N + 1 \in DOMAIN Wire' /\ N + 1 \notin DOMAIN Wire
      /\ \A n \in DOMAIN Wire : n \in DOMAIN Wire' /\ n < N + 1
  BY <1>1
<1>3. \A n \in DOMAIN Wire' : n \in DOMAIN Wire \/ n = N + 1
  BY <1>1
<1>4. Wire'[N + 1].type = type /\ Wire'[N + 1].row = row
  BY <1>1
<1>5. \A n \in DOMAIN Wire : Wire[n].row \in Row /\ Wire[n].row.id \in born
  BY WireFacts DEF Event
<1>6. /\ rows' \subseteq Row
      /\ \A r \in Row : r.id # row.id => (r \in rows' <=> r \in rows)
      /\ type # "deleted" => row \in rows'
      /\ \A r \in rows' : r.id = row.id => r = row
      /\ type = "deleted" => row.id \notin Alive'
      /\ type = "created" => row.id \notin Alive
  BY WroteRows
<1>7. \A r \in rows : r \in Row
  BY DEF ServerInv
<1>8. \A id : id # row.id => (id \in Alive' <=> id \in Alive)
  <2>1. \A r \in rows' : r.id # row.id => r \in rows
    BY <1>6
  <2>2. \A r \in rows : r.id # row.id => r \in rows'
    BY <1>6, <1>7
  <2> QED BY <2>1, <2>2 DEF Alive
<1>9. type \in {"created", "updated", "metadata", "deleted"} /\ row \in Row
  BY DEF Sound
<1>10. ASSUME NEW n \in DOMAIN Wire', Wire'[n].type = "deleted" PROVE Wire'[n].row.id \notin Alive'
  <2>1. CASE n = N + 1
    BY <2>1, <1>4, <1>6, <1>10
  <2>2. CASE n \in DOMAIN Wire
    <3>1. Wire[n].row.id \notin Alive /\ Wire[n].row.id \in born
      BY <2>2, <1>1, <1>5, <1>10 DEF WireInv
    <3>2. Wire[n].row.id # row.id
      BY <3>1, <1>9 DEF Sound, Alive
    <3> QED BY <2>2, <3>1, <3>2, <1>1, <1>8
  <2> QED BY <2>1, <2>2, <1>3
<1>11. ASSUME NEW n \in DOMAIN Wire, NEW T, NoneAfter(n, T)'
       PROVE  NoneAfter(n, T) /\ (Wire[n].row.id = row.id => type \notin T)
  <2>1. \A k \in DOMAIN Wire : k > n /\ Wire[k].row.id = Wire[n].row.id => Wire[k].type \notin T
    BY <1>1, <1>2, <1>11 DEF NoneAfter
  <2>2. N + 1 > n
    BY <1>1, <1>2
  <2>3. Wire[n].row.id = row.id => type \notin T
    BY <1>1, <1>2, <1>4, <1>11, <2>2 DEF NoneAfter
  <2> QED BY <2>1, <2>3 DEF NoneAfter
<1>12. ASSUME NEW n \in DOMAIN Wire', ~Wire'[n].late, Wire'[n].type # "deleted"
       PROVE  /\ NoneAfter(n, {"updated", "deleted"})' =>
                   \E r \in rows' : r.id = Wire'[n].row.id /\ r.st = Wire'[n].row.st
              /\ NoneAfter(n, {"updated", "deleted", "metadata"})' => Wire'[n].row \in rows'
  <2>1. CASE n = N + 1
    BY <2>1, <1>4, <1>6, <1>12
  <2>2. CASE n \in DOMAIN Wire
    <3> DEFINE w == Wire[n]
    <3>1. Wire'[n] = w /\ ~w.late /\ w.type # "deleted" /\ w.row \in Row
      BY <2>2, <1>1, <1>5, <1>12
    <3>2. /\ NoneAfter(n, {"updated", "deleted"}) => \E r \in rows : r.id = w.row.id /\ r.st = w.row.st
          /\ NoneAfter(n, {"updated", "deleted", "metadata"}) => w.row \in rows
      BY <2>2, <3>1 DEF WireInv
    <3>3. ASSUME NoneAfter(n, {"updated", "deleted", "metadata"})' PROVE w.row \in rows'
      <4>1. NoneAfter(n, {"updated", "deleted", "metadata"})
        BY <2>2, <1>11, <3>3
      <4>2. w.row.id = row.id => type = "created"
        BY <2>2, <1>9, <1>11, <3>3
      <4>3. w.row \in rows
        BY <3>2, <4>1
      <4>4. w.row.id # row.id
        BY <4>2, <4>3, <1>6 DEF Alive
      <4> QED BY <3>1, <4>3, <4>4, <1>6
    <3>4. ASSUME NoneAfter(n, {"updated", "deleted"})'
          PROVE  \E r \in rows' : r.id = w.row.id /\ r.st = w.row.st
      <4>1. NoneAfter(n, {"updated", "deleted"})
        BY <2>2, <1>11, <3>4
      <4>2. w.row.id = row.id => type \in {"created", "metadata"}
        BY <2>2, <1>9, <1>11, <3>4
      <4>3. PICK r \in rows : r.id = w.row.id /\ r.st = w.row.st
        BY <3>2, <4>1
      <4>4. CASE w.row.id # row.id
        BY <4>3, <4>4, <1>6, <1>7
      <4>5. CASE w.row.id = row.id
        <5>1. type # "created"
          BY <4>3, <4>5, <1>6 DEF Alive
        <5>2. type = "metadata"
          BY <4>2, <4>5, <5>1
        <5>3. PICK t \in rows : t.id = row.id /\ t.st = row.st
          BY <5>2 DEF Sound
        <5>4. t = r
          BY <4>3, <4>5, <5>3 DEF ServerInv
        <5> QED BY <4>3, <4>5, <5>2, <5>3, <5>4, <1>6
      <4> QED BY <4>4, <4>5
    <3> QED BY <3>1, <3>3, <3>4
  <2> QED BY <2>1, <2>2, <1>3
<1>13. ASSUME NEW n \in DOMAIN Wire', NEW k \in DOMAIN Wire',
              ~Wire'[n].late, Wire'[n].type = "created", k < n
       PROVE  Wire'[k].row.id # Wire'[n].row.id
  <2>1. k \in DOMAIN Wire
    BY <1>1, <1>13
  <2>2. CASE n \in DOMAIN Wire
    BY <2>1, <2>2, <1>1, <1>13 DEF WireInv
  <2>3. CASE n = N + 1
    <3>1. row.id \notin born
      BY <2>3, <1>4, <1>13 DEF Sound
    <3> QED BY <2>1, <2>3, <3>1, <1>1, <1>4, <1>5
  <2> QED BY <2>2, <2>3, <1>3
<1> QED BY <1>10, <1>12, <1>13 DEF WireInv

\* Every frame is still to come.
Carried ==
  \A n \in DOMAIN Wire : \E j \in DOMAIN Wire' :
    /\ Wire'[j].row = Wire[n].row /\ Wire'[j].type = Wire[n].type
    /\ Wire[n].late => Wire'[j].late

\* A handler's frame joins the pipe.
LEMMA PublishedWire ==
  ASSUME ServerInv, WireInv, NEW k \in DOMAIN outbox, UNCHANGED rows,
         pipe' = Append(pipe, outbox[k]), outbox' = Overtaken(k)
  PROVE  WireInv' /\ Carried
<1> DEFINE P == Len(pipe)
           O == Len(outbox)
           L == P + O
<1>1. pipe \in Seq(Event) /\ outbox \in Seq(Event) /\ P \in Nat /\ O \in Nat /\ L \in Nat
  BY DEF ServerInv
<1>2. /\ outbox' \in Seq(Event) /\ Len(outbox') = O - 1
      /\ k \in 1..O /\ outbox[k] \in Event
      /\ \A n \in 1..(O - 1) :
           /\ n < k =>
                /\ outbox'[n].row = outbox[n].row /\ outbox'[n].type = outbox[n].type
                /\ outbox[n].late => outbox'[n].late
                /\ outbox[n].row.id = outbox[k].row.id => outbox'[n].late
           /\ n >= k => outbox'[n] = outbox[n + 1]
  BY <1>1, OvertakenFacts
<1>3. /\ pipe' \in Seq(Event) /\ Len(pipe') = P + 1
      /\ \A n \in 1..P : pipe'[n] = pipe[n]
      /\ pipe'[P + 1] = outbox[k]
  BY <1>1, <1>2
<1>4. Wire = Joined(pipe, outbox) /\ Wire' = Joined(pipe', outbox')
  BY DEF Wire
<1> DEFINE p == pipe'
           o == outbox'
<1>4a. p \in Seq(Event) /\ o \in Seq(Event)
  BY <1>2, <1>3
<1>4b. /\ DOMAIN Wire' = 1..(Len(p) + Len(o))
       /\ \A n \in 1..Len(p) : Wire'[n] = p[n]
       /\ \A n \in 1..Len(o) : Wire'[Len(p) + n] = o[n]
  <2> HIDE DEF p, o
  <2>1. /\ DOMAIN Joined(p, o) = 1..(Len(p) + Len(o))
        /\ \A n \in 1..Len(p) : Joined(p, o)[n] = p[n]
        /\ \A n \in 1..Len(o) : Joined(p, o)[Len(p) + n] = o[n]
    BY <1>4a, JoinedFacts
  <2> QED BY <2>1, <1>4 DEF p, o
<1>5. DOMAIN Wire = 1..L /\ DOMAIN Wire' = 1..L
  <2>1. DOMAIN Wire = 1..(Len(pipe) + Len(outbox))
    BY <1>1, <1>4, JoinedFacts
  <2>2. DOMAIN Wire' = 1..(Len(pipe') + Len(outbox'))
    BY <1>4b
  <2>3. Len(pipe') + Len(outbox') = L
    BY <1>1, <1>2, <1>3
  <2> QED BY <2>1, <2>2, <2>3
<1>6. (\A n \in 1..P : Wire[n] = pipe[n]) /\ \A n \in 1..O : Wire[P + n] = outbox[n]
  BY <1>1, <1>4, JoinedFacts
<1>7. /\ \A n \in 1..(P + 1) : Wire'[n] = pipe'[n]
      /\ \A n \in 1..(O - 1) : Wire'[P + 1 + n] = outbox'[n]
  <2>1. /\ \A n \in 1..Len(pipe') : Wire'[n] = pipe'[n]
        /\ \A n \in 1..Len(outbox') : Wire'[Len(pipe') + n] = outbox'[n]
    BY <1>4b
  <2>2. Len(pipe') = P + 1 /\ Len(outbox') = O - 1
    BY <1>2, <1>3
  <2> HIDE DEF P, O
  <2> QED BY <2>1, <2>2
<1> HIDE DEF P, O, L
<1>8. L = P + O
  BY DEF L
<1> DEFINE K == P + k
<1>9. K \in Nat /\ K \in 1..L /\ P < K /\ k \in 1..O
  BY <1>1, <1>2, <1>8
<1>10. \A n \in 1..P : Wire'[n] = Wire[n]
  BY <1>1, <1>3, <1>6, <1>7
<1>11. Wire'[P + 1] = Wire[K]
  BY <1>1, <1>2, <1>3, <1>6, <1>7
<1>12. ASSUME NEW n \in 1..L, n > P, n < K
       PROVE  /\ Wire'[n + 1].row = Wire[n].row /\ Wire'[n + 1].type = Wire[n].type
              /\ Wire[n].late => Wire'[n + 1].late
              /\ Wire[n].row.id = Wire[K].row.id => Wire'[n + 1].late
  <2> DEFINE m == n - P
  <2>1. m \in 1..(O - 1) /\ m \in 1..O /\ m < k /\ P + m = n /\ P + 1 + m = n + 1
    BY <1>1, <1>2, <1>8, <1>12
  <2>2. Wire[P + m] = outbox[m] /\ Wire'[P + 1 + m] = outbox'[m] /\ Wire[P + k] = outbox[k]
    <3> HIDE DEF m
    <3> QED BY <2>1, <1>2, <1>6, <1>7
  <2>3. /\ outbox'[m].row = outbox[m].row /\ outbox'[m].type = outbox[m].type
        /\ outbox[m].late => outbox'[m].late
        /\ outbox[m].row.id = outbox[k].row.id => outbox'[m].late
    <3> HIDE DEF m
    <3> QED BY <2>1, <1>2
  <2> HIDE DEF m
  <2> QED BY <2>1, <2>2, <2>3
<1>13. ASSUME NEW n \in 1..L, n > K PROVE Wire'[n] = Wire[n]
  <2> DEFINE m == n - P - 1
  <2>1. m \in 1..(O - 1) /\ m + 1 \in 1..O /\ m >= k /\ P + (m + 1) = n /\ P + 1 + m = n
    BY <1>1, <1>8, <1>9, <1>13
  <2>2. Wire[P + (m + 1)] = outbox[m + 1] /\ Wire'[P + 1 + m] = outbox'[m]
    <3> HIDE DEF m
    <3> QED BY <2>1, <1>6, <1>7
  <2>3. outbox'[m] = outbox[m + 1]
    <3> HIDE DEF m
    <3> QED BY <2>1, <1>2
  <2> HIDE DEF m
  <2> QED BY <2>1, <2>2, <2>3
<1> DEFINE f == [n \in 1..L |-> IF n <= P \/ n > K THEN n
                                ELSE IF n = P + 1 THEN K ELSE n - 1]
<1>14. ASSUME NEW n \in 1..L
       PROVE  /\ n <= P => f[n] = n
              /\ n = P + 1 => f[n] = K
              /\ n > P + 1 /\ n <= K => f[n] = n - 1
              /\ n > K => f[n] = n
              /\ f[n] \in 1..L
  BY <1>1, <1>9
<1> HIDE DEF f
<1>15. ASSUME NEW n \in 1..L
       PROVE  /\ Wire'[n].row = Wire[f[n]].row /\ Wire'[n].type = Wire[f[n]].type
              /\ Wire[f[n]].late => Wire'[n].late
              /\ n > P + 1 /\ n <= K /\ Wire[f[n]].row.id = Wire[K].row.id => Wire'[n].late
  <2>1. CASE n <= P
    BY <2>1, <1>1, <1>10, <1>14
  <2>2. CASE n = P + 1
    BY <2>2, <1>1, <1>11, <1>14
  <2>3. CASE n > P + 1 /\ n <= K
    <3> DEFINE m == n - 1
    <3>1. m \in 1..L /\ m > P /\ m < K /\ m + 1 = n /\ f[n] = m
      BY <2>3, <1>1, <1>8, <1>9, <1>14
    <3> HIDE DEF m
    <3> QED BY <3>1, <1>12
  <2>4. CASE n > K
    BY <2>4, <1>1, <1>9, <1>13, <1>14
  <2> QED BY <2>1, <2>2, <2>3, <2>4, <1>1
<1>16. ASSUME NEW n \in 1..L
       PROVE  \E j \in 1..L : f[j] = n /\ (n < K /\ n > P => j = n + 1) /\ (n <= P \/ n > K => j = n)
                /\ (n = K => j = P + 1)
  <2>1. CASE n <= P \/ n > K
    BY <2>1, <1>1, <1>9, <1>14
  <2>2. CASE n = K
    BY <2>2, <1>1, <1>9, <1>14
  <2>3. CASE n < K /\ n > P
    <3> DEFINE m == n + 1
    <3>1. m \in 1..L /\ m > P + 1 /\ m <= K /\ m - 1 = n
      BY <2>3, <1>1, <1>8, <1>9
    <3>2. f[m] = n
      <4> HIDE DEF m
      <4> QED BY <3>1, <1>14
    <3>3. ~(n <= P) /\ ~(n > K) /\ n # K
      BY <2>3, <1>1, <1>9
    <3> HIDE DEF K
    <3> QED BY <2>3, <3>1, <3>2, <3>3
  <2>4. n < K \/ n = K \/ n > K
    BY <1>9
  <2>5. n <= P \/ n > P
    BY <1>1
  <2> HIDE DEF K
  <2> QED BY <2>1, <2>2, <2>3, <2>4, <2>5
<1>17. f \in [DOMAIN Wire' -> DOMAIN Wire]
  BY <1>5, <1>14 DEF f
<1>18. ASSUME NEW n \in 1..L, NEW i \in 1..L, ~Wire'[n].late, i > f[n], Wire[i].row.id = Wire[f[n]].row.id
       PROVE  \E j \in 1..L : j > n /\ f[j] = i
  <2> PICK j \in 1..L : f[j] = i /\ (i < K /\ i > P => j = i + 1) /\ (i <= P \/ i > K => j = i)
                        /\ (i = K => j = P + 1)
    BY <1>16
  <2>1. CASE n <= P
    BY <2>1, <1>1, <1>9, <1>14, <1>18
  <2>2. CASE n = P + 1
    BY <2>2, <1>1, <1>9, <1>14, <1>18
  <2>3. CASE n > P + 1 /\ n <= K
    <3>1. f[n] = n - 1
      BY <2>3, <1>14
    <3>2. Wire[f[n]].row.id # Wire[K].row.id
      BY <2>3, <1>15, <1>18
    <3>3. i # K
      BY <3>2, <1>18
    <3> QED BY <2>3, <3>1, <3>3, <1>1, <1>9, <1>18
  <2>4. CASE n > K
    BY <2>4, <1>1, <1>9, <1>14, <1>18
  <2> QED BY <2>1, <2>2, <2>3, <2>4, <1>1
<1>19. ASSUME NEW n \in 1..L, NEW j \in 1..L, ~Wire'[n].late, j < n, Wire'[j].row.id = Wire'[n].row.id
       PROVE  f[j] < f[n]
  <2>1. ~(j = P + 1 /\ n <= K)
    <3> SUFFICES ASSUME j = P + 1, n <= K PROVE FALSE
      OBVIOUS
    <3>1. Wire[f[n]].row.id = Wire[K].row.id
      BY <1>11, <1>15, <1>19
    <3> QED BY <3>1, <1>1, <1>15, <1>19
  <2>2. CASE n <= P
    BY <2>2, <1>1, <1>9, <1>14, <1>19
  <2>3. CASE n = P + 1
    BY <2>3, <1>1, <1>9, <1>14, <1>19
  <2>4. CASE n > P + 1 /\ n <= K
    <3>1. f[n] = n - 1
      BY <2>4, <1>14
    <3>2. j <= P \/ (j > P + 1 /\ j <= K)
      BY <2>1, <2>4, <1>1, <1>9, <1>19
    <3>3. f[j] <= j
      BY <3>2, <1>1, <1>14
    <3>4. j <= P => f[j] = j /\ j < n - 1
      BY <2>4, <1>1, <1>14
    <3>5. j > P + 1 => f[j] = j - 1
      BY <3>2, <1>1, <1>14
    <3> QED BY <3>1, <3>2, <3>4, <3>5, <1>1, <1>19
  <2>5. CASE n > K
    <3>1. f[n] = n
      BY <2>5, <1>14
    <3>2. CASE j <= P \/ j > K
      BY <3>2, <3>1, <1>14, <1>19
    <3>3. CASE j = P + 1
      BY <3>1, <3>3, <2>5, <1>14
    <3>4. CASE j > P + 1 /\ j <= K
      <4>1. f[j] = j - 1
        BY <3>4, <1>14
      <4> QED BY <3>1, <4>1, <1>19
    <3> QED BY <3>2, <3>3, <3>4, <1>1, <1>9
  <2> QED BY <2>2, <2>3, <2>4, <2>5, <1>1
<1>20. Follows(f)
  <2>1. \A n \in DOMAIN Wire' :
          /\ Wire'[n].row = Wire[f[n]].row /\ Wire'[n].type = Wire[f[n]].type
          /\ Wire[f[n]].late => Wire'[n].late
    BY <1>5, <1>15
  <2>2. \A n \in DOMAIN Wire' : \A i \in DOMAIN Wire :
          ~Wire'[n].late /\ i > f[n] /\ Wire[i].row.id = Wire[f[n]].row.id
            => \E j \in DOMAIN Wire' : j > n /\ f[j] = i
    BY <1>5, <1>18
  <2>3. \A n, j \in DOMAIN Wire' :
          ~Wire'[n].late /\ j < n /\ Wire'[j].row.id = Wire'[n].row.id => f[j] < f[n]
    BY <1>5, <1>19
  <2> QED BY <1>17, <2>1, <2>2, <2>3 DEF Follows
<1>21. WireInv'
  BY <1>20, FollowedWire
<1>22. ASSUME NEW n \in DOMAIN Wire
       PROVE  \E j \in DOMAIN Wire' : /\ Wire'[j].row = Wire[n].row /\ Wire'[j].type = Wire[n].type
                                      /\ Wire[n].late => Wire'[j].late
  BY <1>5, <1>15, <1>16
<1> QED BY <1>21, <1>22 DEF Carried

\* Nobody is registered: the frame goes nowhere.
LEMMA UnpublishedWire ==
  ASSUME ServerInv, WireInv, NEW k \in DOMAIN outbox, UNCHANGED rows,
         pipe = <<>>, pipe' = <<>>, outbox' = Overtaken(k)
  PROVE  WireInv'
<1> DEFINE O == Len(outbox)
           p == <<>>
           o == outbox'
<1>1. outbox \in Seq(Event) /\ O \in Nat /\ p \in Seq(Event) /\ Len(p) = 0
  BY DEF ServerInv
<1>2. /\ o \in Seq(Event) /\ Len(o) = O - 1
      /\ k \in 1..O /\ outbox[k] \in Event
      /\ \A n \in 1..(O - 1) :
           /\ n < k =>
                /\ o[n].row = outbox[n].row /\ o[n].type = outbox[n].type
                /\ outbox[n].late => o[n].late
                /\ outbox[n].row.id = outbox[k].row.id => o[n].late
           /\ n >= k => o[n] = outbox[n + 1]
  BY <1>1, OvertakenFacts
<1>3. Wire = Joined(p, outbox) /\ Wire' = Joined(p, o)
  BY DEF Wire
<1> HIDE DEF O, p, o
<1>4. /\ DOMAIN Joined(p, outbox) = 1..(0 + O)
      /\ \A n \in 1..O : Joined(p, outbox)[0 + n] = outbox[n]
  BY <1>1, JoinedFacts DEF O
<1>5. /\ DOMAIN Joined(p, o) = 1..(0 + (O - 1))
      /\ \A n \in 1..(O - 1) : Joined(p, o)[0 + n] = o[n]
  <2>1. Len(o) = O - 1 /\ o \in Seq(Event)
    BY <1>2
  <2>2. /\ DOMAIN Joined(p, o) = 1..(Len(p) + Len(o))
        /\ \A n \in 1..Len(o) : Joined(p, o)[Len(p) + n] = o[n]
    BY <1>1, <2>1, JoinedFacts
  <2> QED BY <1>1, <2>1, <2>2
<1>6. /\ DOMAIN Wire = 1..O /\ DOMAIN Wire' = 1..(O - 1)
      /\ \A n \in 1..O : Wire[n] = outbox[n]
      /\ \A n \in 1..(O - 1) : Wire'[n] = o[n]
  BY <1>1, <1>3, <1>4, <1>5
<1> DEFINE f == [n \in 1..(O - 1) |-> IF n < k THEN n ELSE n + 1]
<1>7. ASSUME NEW n \in 1..(O - 1)
      PROVE  /\ n \in 1..O /\ n + 1 \in 1..O /\ n \in Nat /\ k \in Nat
             /\ n < k => f[n] = n
             /\ n >= k => f[n] = n + 1
             /\ f[n] \in 1..O
  BY <1>1, <1>2
<1> HIDE DEF f
<1>8. ASSUME NEW n \in 1..(O - 1)
      PROVE  /\ Wire'[n].row = Wire[f[n]].row /\ Wire'[n].type = Wire[f[n]].type
             /\ Wire[f[n]].late => Wire'[n].late
             /\ n < k /\ Wire[f[n]].row.id = Wire[k].row.id => Wire'[n].late
  <2>1. CASE n < k
    BY <2>1, <1>2, <1>6, <1>7
  <2>2. CASE n >= k
    BY <2>2, <1>2, <1>6, <1>7
  <2> QED BY <2>1, <2>2, <1>7
<1>9. f \in [DOMAIN Wire' -> DOMAIN Wire]
  BY <1>6, <1>7 DEF f
<1>10. ASSUME NEW n \in 1..(O - 1), NEW i \in 1..O, ~Wire'[n].late, i > f[n], Wire[i].row.id = Wire[f[n]].row.id
       PROVE  \E j \in 1..(O - 1) : j > n /\ f[j] = i
  <2>1. n < k => i # k
    BY <1>8, <1>10
  <2>2. n >= k => f[n] > k
    BY <1>7
  <2>3. CASE i < k
    <3>1. i \in 1..(O - 1) /\ n < k
      BY <2>2, <2>3, <1>1, <1>2, <1>7, <1>10
    <3> QED BY <3>1, <2>3, <1>7, <1>10
  <2>4. CASE i > k
    <3> DEFINE j == i - 1
    <3>1. j \in 1..(O - 1) /\ j >= k /\ j + 1 = i
      BY <2>4, <1>1, <1>2
    <3>2. f[j] = i
      <4> HIDE DEF j
      <4> QED BY <3>1, <1>7
    <3>3. j > n
      <4>1. CASE n < k
        BY <2>4, <4>1, <1>7
      <4>2. CASE n >= k
        BY <4>2, <1>7, <1>10
      <4> QED BY <4>1, <4>2, <1>7
    <3> QED BY <3>1, <3>2, <3>3
  <2>5. i # k
    BY <2>1, <2>2, <1>7, <1>10
  <2> QED BY <2>3, <2>4, <2>5, <1>1, <1>2
<1>11. ASSUME NEW n \in 1..(O - 1), NEW j \in 1..(O - 1), j < n PROVE f[j] < f[n]
  <2>1. /\ j \in Nat /\ n \in Nat /\ k \in Nat
        /\ f[j] = j \/ (f[j] = j + 1 /\ j >= k)
        /\ f[n] = n + 1 \/ (f[n] = n /\ n < k)
    BY <1>7
  <2> QED BY <2>1, <1>11
<1>12. Follows(f)
  <2>1. \A n \in DOMAIN Wire' :
          /\ Wire'[n].row = Wire[f[n]].row /\ Wire'[n].type = Wire[f[n]].type
          /\ Wire[f[n]].late => Wire'[n].late
    BY <1>6, <1>8
  <2>2. \A n \in DOMAIN Wire' : \A i \in DOMAIN Wire :
          ~Wire'[n].late /\ i > f[n] /\ Wire[i].row.id = Wire[f[n]].row.id
            => \E j \in DOMAIN Wire' : j > n /\ f[j] = i
    BY <1>6, <1>10
  <2>3. \A n, j \in DOMAIN Wire' :
          ~Wire'[n].late /\ j < n /\ Wire'[j].row.id = Wire'[n].row.id => f[j] < f[n]
    BY <1>6, <1>11
  <2> QED BY <1>9, <2>1, <2>2, <2>3 DEF Follows
<1> QED BY <1>12, FollowedWire

\* The first d frames are gone.
LEMMA ShiftedWire ==
  ASSUME ServerInv, WireInv, UNCHANGED rows, NEW d \in Nat, NEW N \in Nat, NEW M \in Nat, N = d + M,
         DOMAIN Wire = 1..N, DOMAIN Wire' = 1..M, \A n \in 1..M : Wire'[n] = Wire[n + d]
  PROVE  WireInv'
<1> DEFINE f == [n \in 1..M |-> n + d]
<1>1. \A n \in 1..M : f[n] = n + d /\ f[n] \in 1..N
  OBVIOUS
<1>2. f \in [DOMAIN Wire' -> DOMAIN Wire]
  BY <1>1
<1> HIDE DEF f
<1>3. \A n \in DOMAIN Wire' : Wire'[n] = Wire[f[n]]
  BY <1>1
<1>4. ASSUME NEW n \in 1..M, NEW i \in 1..N, i > f[n]
      PROVE  \E j \in 1..M : j > n /\ f[j] = i
  <2>1. i - d \in 1..M /\ i - d > n /\ (i - d) + d = i
    BY <1>1, <1>4
  <2> QED BY <2>1, <1>1
<1>5. \A n, j \in 1..M : j < n => f[j] < f[n]
  BY <1>1
<1>6. Follows(f)
  <2>1. \A n \in DOMAIN Wire' : \A i \in DOMAIN Wire :
          i > f[n] => \E j \in DOMAIN Wire' : j > n /\ f[j] = i
    BY <1>4
  <2> QED BY <1>2, <1>3, <1>5, <2>1 DEF Follows
<1> QED BY <1>6, FollowedWire

\* The client handles a frame.
LEMMA DeliveredWire ==
  ASSUME ServerInv, WireInv, UNCHANGED <<rows, outbox>>, pipe # <<>>, pipe' = Tail(pipe)
  PROVE  /\ WireInv'
         /\ 1 \in DOMAIN Wire /\ Wire[1] = Head(pipe) /\ Head(pipe) \in Event
         /\ \A n \in DOMAIN Wire : n = 1 \/ \E j \in DOMAIN Wire' : Wire'[j] = Wire[n]
         /\ \A j \in DOMAIN Wire' : \E n \in DOMAIN Wire : n > 1 /\ Wire'[j] = Wire[n]
<1> DEFINE p == pipe'
           P == Len(pipe)
           O == Len(outbox)
<1>1. pipe \in Seq(Event) /\ outbox \in Seq(Event) /\ O \in Nat
  BY DEF ServerInv
<1>2. /\ P \in Nat /\ P >= 1 /\ p \in Seq(Event) /\ Len(p) = P - 1 /\ Head(pipe) = pipe[1]
      /\ Head(pipe) \in Event
      /\ \A n \in 1..(P - 1) : p[n] = pipe[n + 1]
  <2>1. P \in Nat /\ P >= 1
    BY <1>1, EmptySeq
  <2>2. p \in Seq(Event) /\ Len(p) = P - 1
    BY <1>1, HeadTailProperties
  <2>3. \A n \in 1..Len(Tail(pipe)) : Tail(pipe)[n] = pipe[n + 1]
    BY <1>1, HeadTailProperties
  <2> QED BY <1>1, <2>1, <2>2, <2>3
<1>3. Wire = Joined(pipe, outbox) /\ Wire' = Joined(p, outbox)
  BY DEF Wire
<1>4. /\ DOMAIN Wire = 1..(P + O)
      /\ \A n \in 1..P : Wire[n] = pipe[n]
      /\ \A n \in 1..O : Wire[P + n] = outbox[n]
  BY <1>1, <1>3, JoinedFacts
<1> HIDE DEF p
<1>5. /\ DOMAIN Joined(p, outbox) = 1..(Len(p) + O)
      /\ \A n \in 1..Len(p) : Joined(p, outbox)[n] = p[n]
      /\ \A n \in 1..O : Joined(p, outbox)[Len(p) + n] = outbox[n]
  BY <1>1, <1>2, JoinedFacts
<1> HIDE DEF P, O
<1> DEFINE M == P + O - 1
           N == P + O
<1>6. M \in Nat /\ N \in Nat /\ N = 1 + M /\ DOMAIN Wire = 1..N /\ DOMAIN Wire' = 1..M
  BY <1>1, <1>2, <1>3, <1>4, <1>5
<1>7. ASSUME NEW n \in 1..M PROVE Wire'[n] = Wire[n + 1]
  <2>1. CASE n <= P - 1
    BY <2>1, <1>1, <1>2, <1>3, <1>4, <1>5
  <2>2. CASE n > P - 1
    <3> DEFINE m == n - (P - 1)
    <3>1. m \in 1..O /\ (P - 1) + m = n /\ P + m = n + 1
      BY <2>2, <1>1, <1>2
    <3>2. Wire'[Len(p) + m] = outbox[m] /\ Wire[P + m] = outbox[m]
      <4> HIDE DEF m
      <4> QED BY <3>1, <1>3, <1>4, <1>5
    <3> HIDE DEF m
    <3> QED BY <3>1, <3>2, <1>2
  <2> QED BY <2>1, <2>2, <1>1, <1>2
<1> HIDE DEF M, N
<1>8. WireInv'
  <2>1. 1 \in Nat
    OBVIOUS
  <2> QED BY <2>1, <1>6, <1>7, ShiftedWire
<1>9. 1 \in DOMAIN Wire /\ Wire[1] = Head(pipe)
  BY <1>1, <1>2, <1>4
<1>10. ASSUME NEW n \in DOMAIN Wire, n # 1 PROVE \E j \in DOMAIN Wire' : Wire'[j] = Wire[n]
  <2>1. n - 1 \in 1..M /\ (n - 1) + 1 = n
    BY <1>6, <1>10
  <2> QED BY <2>1, <1>6, <1>7
<1>11. ASSUME NEW j \in DOMAIN Wire' PROVE \E n \in DOMAIN Wire : n > 1 /\ Wire'[j] = Wire[n]
  <2>1. j + 1 \in 1..N /\ j + 1 > 1
    BY <1>6
  <2> QED BY <2>1, <1>6, <1>7
<1> QED BY <1>2, <1>8, <1>9, <1>10, <1>11

\* The frames in the pipe are lost.
LEMMA LostWire ==
  ASSUME ServerInv, WireInv, UNCHANGED <<rows, outbox>>, pipe' = <<>>
  PROVE  WireInv'
<1> DEFINE p == <<>>
           P == Len(pipe)
           O == Len(outbox)
<1>1. pipe \in Seq(Event) /\ outbox \in Seq(Event) /\ P \in Nat /\ O \in Nat
      /\ p \in Seq(Event) /\ Len(p) = 0
  BY DEF ServerInv
<1>2. Wire = Joined(pipe, outbox) /\ Wire' = Joined(p, outbox)
  BY DEF Wire
<1>3. DOMAIN Wire = 1..(P + O) /\ \A n \in 1..O : Wire[P + n] = outbox[n]
  BY <1>1, <1>2, JoinedFacts
<1> HIDE DEF p
<1>4. /\ DOMAIN Joined(p, outbox) = 1..(0 + O)
      /\ \A n \in 1..O : Joined(p, outbox)[0 + n] = outbox[n]
  BY <1>1, JoinedFacts
<1> HIDE DEF P, O
<1>5. DOMAIN Wire' = 1..O /\ \A n \in 1..O : Wire'[n] = outbox[n]
  BY <1>1, <1>2, <1>4
<1>6. \A n \in 1..O : Wire'[n] = Wire[n + P]
  <2>1. \A n \in 1..O : n + P = P + n
    BY <1>1
  <2> QED BY <1>3, <1>5, <2>1
<1>7. P + O \in Nat
  BY <1>1
<1> QED BY <1>1, <1>3, <1>5, <1>6, <1>7, ShiftedWire

-----------------------------------------------------------------------------
(* What a step leaves of the three invariants                               *)

\* Functions of the three queries.
LEMMA ThreeQueries ==
  ASSUME NEW a, NEW b, NEW d
  PROVE  /\ IsQueries([list |-> a, my |-> b, detail |-> d])
         /\ [list |-> a, my |-> b, detail |-> d]["list"] = a
         /\ [list |-> a, my |-> b, detail |-> d]["my"] = b
         /\ [list |-> a, my |-> b, detail |-> d]["detail"] = d
  BY DEF IsQueries, Queries

\* One of them replaced.
LEMMA ExceptQueries ==
  ASSUME NEW Q, IsQueries(Q), NEW c \in Queries, NEW x
  PROVE  /\ IsQueries([Q EXCEPT ![c] = x])
         /\ \A e \in Queries : [Q EXCEPT ![c] = x][e] = IF e = c THEN x ELSE Q[e]
  BY DEF IsQueries

\* A stale query needs no reason.
LEMMA StaleHolds ==
  /\ Stale(query'["list"], "list" \in mounted') => ListInv'
  /\ Stale(query'["my"], "my" \in mounted') => MyInv'
  /\ Stale(query'["detail"], "detail" \in mounted') => PageInv'
  BY DEF Stale, Blank, Held, Asked, Settled, ListInv, MyInv, PageInv, Unobserved

\* Each invariant after a step, from what the query has become.
LEMMA ListBecomes ==
  ASSUME Held(query'["list"]) /\ query'["list"].inv => "list" \notin mounted',
         \A D : Settled(query'["list"]) /\ D = query'["list"].data => ListHolds(D)',
         \A p : \A s \in Status :
           Asked(query'["list"]) /\ p = query'["list"].fetch.page[s] /\ p # Absent => ListReads(p, s)'
  PROVE  ListInv'
  BY DEF ListInv, Unobserved

LEMMA MyBecomes ==
  ASSUME Held(query'["my"]) /\ query'["my"].inv => "my" \notin mounted',
         \A D : Settled(query'["my"]) /\ D = query'["my"].data => MyHolds(D)',
         \A p : \A s \in Status :
           Asked(query'["my"]) /\ p = query'["my"].fetch.page[s] /\ p # Absent => MyReads(p, s)'
  PROVE  MyInv'
  BY DEF MyInv, Unobserved

LEMMA PageBecomes ==
  ASSUME Held(query'["detail"]) /\ query'["detail"].inv => "detail" \notin mounted',
         \A d : Settled(query'["detail"]) /\ d = query'["detail"].data => PageHolds(d)',
         \A p : \A s \in Status :
           Asked(query'["detail"]) /\ p = query'["detail"].fetch.page[s] /\ p # Absent => PageReads(p)'
  PROVE  PageInv'
  BY DEF PageInv, Unobserved

\* What the holds of a query have become.
MyStays ==
  /\ \A D : MyHolds(D) => MyHolds(D)'
  /\ \A p, s : MyReads(p, s) => MyReads(p, s)'

ListStays ==
  /\ \A D \in SUBSET Row : ListHolds(D) => ListHolds(D)'
  /\ \A p \in SUBSET Row : \A s \in Status : ListReads(p, s) => ListReads(p, s)'

PageStays ==
  Opened \in born =>
    /\ \A d : PageHolds(d) => PageHolds(d)'
    /\ \A p : PageReads(p) => PageReads(p)'

\* A query that the step leaves alone.
LEMMA SameHolds ==
  ASSUME QueryInv
  PROVE  /\ /\ ListInv /\ ListStays /\ query'["list"] = query["list"]
            /\ Held(query["list"]) /\ query["list"].inv => "list" \notin mounted'
            => ListInv'
         /\ /\ MyInv /\ MyStays /\ query'["my"] = query["my"]
            /\ Held(query["my"]) /\ query["my"].inv => "my" \notin mounted'
            => MyInv'
         /\ /\ PageInv /\ PageStays /\ query'["detail"] = query["detail"]
            /\ Held(query["detail"]) /\ query["detail"].inv => "detail" \notin mounted'
            => PageInv'
<1>1. ASSUME ListInv, ListStays, query'["list"] = query["list"],
             Held(query["list"]) /\ query["list"].inv => "list" \notin mounted'
      PROVE  ListInv'
  <2> DEFINE q == query["list"]
  <2>1. q \in Query(SUBSET Row, Row)
    BY DEF QueryInv, ListQuery
  <2>2. Held(q) => q.data \in SUBSET Row
    BY <2>1 DEF Held, Query
  <2>3. ASSUME Asked(q), NEW s \in Status, q.fetch.page[s] # Absent
        PROVE  q.fetch.page[s] \in SUBSET Row
    BY <2>1, <2>3 DEF Asked, InFlight, Query, Requests
  <2>4. Settled(q) => ListHolds(q.data)'
    BY <1>1, <2>2 DEF ListInv, ListStays, Settled
  <2>5. ASSUME Asked(q), NEW s \in Status, q.fetch.page[s] # Absent
        PROVE  ListReads(q.fetch.page[s], s)'
    BY <1>1, <2>3, <2>5 DEF ListInv, ListStays
  <2> QED BY <1>1, <2>4, <2>5 DEF ListInv, Unobserved, Held, Asked, Settled
<1>2. ASSUME MyInv, MyStays, query'["my"] = query["my"],
             Held(query["my"]) /\ query["my"].inv => "my" \notin mounted'
      PROVE  MyInv'
  <2> DEFINE q == query["my"]
  <2>4. Settled(q) => MyHolds(q.data)'
    BY <1>2 DEF MyInv, MyStays
  <2>5. ASSUME Asked(q), NEW s \in Status, q.fetch.page[s] # Absent
        PROVE  MyReads(q.fetch.page[s], s)'
    BY <1>2, <2>5 DEF MyInv, MyStays
  <2> QED BY <1>2, <2>4, <2>5 DEF MyInv, Unobserved, Held, Asked, Settled
<1>3. ASSUME PageInv, PageStays, query'["detail"] = query["detail"],
             Held(query["detail"]) /\ query["detail"].inv => "detail" \notin mounted'
      PROVE  PageInv'
  <2> DEFINE q == query["detail"]
  <2>1. Held(q) \/ Asked(q) => Opened \in born
    BY DEF QueryInv, Held, Asked
  <2>4. Settled(q) => PageHolds(q.data)'
    BY <1>3, <2>1 DEF PageInv, PageStays, Settled
  <2>5. ASSUME Asked(q), NEW s \in Status, q.fetch.page[s] # Absent
        PROVE  PageReads(q.fetch.page[s])'
    BY <1>3, <2>1, <2>5 DEF PageInv, PageStays
  <2> QED BY <1>3, <2>4, <2>5 DEF PageInv, Unobserved, Held, Asked, Settled
<1> QED BY <1>1, <1>2, <1>3

\* Every mutation is still there, whatever its phase.
Continued ==
  \A m \in mutation : \E t \in mutation' : t.kind = m.kind /\ t.id = m.id /\ t.snap = m.snap

\* A step that adds frames and mutations, and leaves the rows alone.
LEMMA CarriedStays ==
  ASSUME UNCHANGED rows, Carried, Continued, Pending => Pending'
  PROVE  MyStays /\ ListStays /\ PageStays
<1>1. AwaitsRollback => AwaitsRollback'
  BY DEF AwaitsRollback, Continued
<1>2. MyStays
  BY <1>1 DEF MyStays, MyHolds, MyReads, Column
<1>3. ASSUME NEW id, NEW T, Due(id, T) PROVE Due(id, T)'
  BY <1>3 DEF Due, Carried
<1>4. Unsettled => Unsettled'
  <2>1. (mutation # {}) => mutation' # {}
    BY DEF Continued
  <2>2. ASSUME NEW n \in DOMAIN Wire, Wire[n].late \/ Wire[n].type \in {"updated", "deleted"}
        PROVE  \E j \in DOMAIN Wire' : Wire'[j].late \/ Wire'[j].type \in {"updated", "deleted"}
    BY <2>2 DEF Carried
  <2> QED BY <2>1, <2>2 DEF Unsettled
<1>5. ASSUME NEW D, NEW id, NEW s, AgreesOn(D, id, s) PROVE AgreesOn(D, id, s)'
  BY <1>3, <1>5 DEF AgreesOn, InBucket, Copies
<1>6. ASSUME NEW D, NEW s, Agrees(D, s) PROVE Agrees(D, s)'
  BY <1>5, <1>6 DEF Agrees
<1>7. ListStays
  BY <1>4, <1>6 DEF ListStays, ListHolds, ListReads
<1>8. PageUnsettled => PageUnsettled'
  <2>1. (\E m \in mutation : m.kind = "update" /\ m.id = Opened)
          => \E m \in mutation' : m.kind = "update" /\ m.id = Opened
    BY DEF Continued
  <2>2. ASSUME NEW n \in DOMAIN Wire,
               Wire[n].late /\ Wire[n].row.id = Opened /\ Wire[n].type \in {"updated", "metadata"}
        PROVE  \E j \in DOMAIN Wire' :
                 Wire'[j].late /\ Wire'[j].row.id = Opened /\ Wire'[j].type \in {"updated", "metadata"}
    BY <2>2 DEF Carried
  <2> QED BY <2>1, <2>2 DEF PageUnsettled
<1>9. ASSUME NEW d, AgreesPage(d) PROVE AgreesPage(d)'
  BY <1>3, <1>9 DEF AgreesPage
<1>10. PageStays
  BY <1>8, <1>9 DEF PageStays, PageHolds, PageReads
<1> QED BY <1>2, <1>7, <1>10

\* A step that leaves the wire alone.
LEMMA QuietStays ==
  ASSUME UNCHANGED <<rows, outbox, pipe>>, Continued
  PROVE  Carried /\ MyStays /\ ListStays /\ PageStays /\ (WireInv => WireInv')
<1>1. Wire' = Wire
  BY DEF Wire
<1>2. Carried
  BY <1>1 DEF Carried
<1>3. Pending => Pending'
  BY DEF Pending
<1>4. WireInv => WireInv'
  BY <1>1 DEF WireInv, NoneAfter, Alive
<1> QED BY <1>2, <1>3, <1>4, CarriedStays

\* A commit: My Issues is out of date until its frame comes; a row of the list is
\* one that the frame will bring or patch, or the whole list will be read anew; so
\* is the page.
LEMMA WroteStays ==
  ASSUME ServerInv, Writes, UNCHANGED pipe, Continued
  PROVE  MyStays /\ ListStays /\ PageStays
<1> PICK type, old, new, row : Sound(type, old, new, row) /\ Commit(type, old, new, row)
  BY DEF Writes
<1> DEFINE N == Len(pipe) + Len(outbox)
<1>1. /\ N \in Nat /\ DOMAIN Wire = 1..N /\ DOMAIN Wire' = 1..(N + 1)
      /\ \A n \in 1..N : Wire'[n] = Wire[n]
      /\ Wire'[N + 1] = [type |-> type, row |-> row, late |-> FALSE]
  BY WireAppended
<1> HIDE DEF N
<1>2. N + 1 \in DOMAIN Wire' /\ \A n \in DOMAIN Wire : n \in DOMAIN Wire' /\ Wire'[n] = Wire[n]
  BY <1>1
<1>3. Wire'[N + 1].type = type /\ Wire'[N + 1].row = row
  BY <1>1
<1>4. /\ rows' \subseteq Row
      /\ \A r, t \in rows' : r.id = t.id => r = t
      /\ \A r \in Row : r.id # row.id => (r \in rows' <=> r \in rows)
      /\ type # "deleted" => row \in rows'
      /\ \A r \in rows' : r.id = row.id => r = row
      /\ type = "deleted" => row.id \notin Alive'
      /\ type = "created" => row.id \notin Alive
  BY WroteRows
<1>5. rows \subseteq Row /\ \A r, t \in rows : r.id = t.id => r = t
  BY DEF ServerInv
<1>6. type \in {"created", "updated", "metadata", "deleted"} /\ row \in Row
  BY DEF Sound
<1>7. MyStays
  <2>1. outbox' = Append(outbox, [type |-> type, row |-> row, late |-> FALSE])
    BY DEF Commit
  <2>2. outbox' # <<>>
    <3> DEFINE e == [type |-> type, row |-> row, late |-> FALSE]
    <3>1. outbox \in Seq(Event)
      BY DEF ServerInv
    <3>2. e \in Event
      BY DEF Sound, Event
    <3> HIDE DEF e
    <3>3. Append(outbox, e) # <<>>
      BY <3>1, <3>2, AppendProperties
    <3> QED BY <2>1, <3>3 DEF e
  <2> QED BY <2>2 DEF MyStays, MyHolds, MyReads, Pending
<1>8. ASSUME NEW id, NEW T, Due(id, T) PROVE Due(id, T)'
  BY <1>2, <1>8 DEF Due
<1>9. ASSUME NEW T, type \in T PROVE Due(row.id, T)'
  BY <1>2, <1>3, <1>9 DEF Due
<1>10. Unsettled => Unsettled'
  BY <1>2 DEF Unsettled, Continued
<1>11. type \in {"updated", "deleted"} => Unsettled'
  BY <1>2, <1>3 DEF Unsettled
<1>12. ASSUME NEW D \in SUBSET Row, NEW id \in Issues, NEW s \in Status, AgreesOn(D, id, s),
              type \in {"created", "metadata"}
       PROVE  AgreesOn(D, id, s)'
  <2> DEFINE shown == InBucket(D, id, s)
             had == InBucket(rows, id, s)
             has == InBucket(rows', id, s)
  <2>1. \/ shown = had
        \/ had # {} /\ ((shown = {} /\ Due(id, {"created"}))
                        \/ ((\E t \in Row : shown = {t}) /\ Due(id, {"metadata"})))
    BY <1>12 DEF AgreesOn
  <2>2. SUFFICES \/ shown = has
                 \/ has # {} /\ ((shown = {} /\ Due(id, {"created"})')
                                 \/ ((\E t \in Row : shown = {t}) /\ Due(id, {"metadata"})'))
    BY DEF AgreesOn, InBucket, Copies
  <2>3. /\ \A r : r \in had <=> r \in rows /\ r.id = id /\ r.st = s
        /\ \A r : r \in has <=> r \in rows' /\ r.id = id /\ r.st = s
    BY DEF InBucket, Copies
  <2>4. Due(id, {"created"}) => Due(id, {"created"})'
    BY <1>8
  <2>5. Due(id, {"metadata"}) => Due(id, {"metadata"})'
    BY <1>8
  <2>6. CASE id # row.id
    <3>1. had = has
      <4>1. \A r : r \in had <=> r \in has
        BY <2>3, <2>6, <1>4, <1>5
      <4> QED BY <4>1 DEF InBucket
    <3> HIDE DEF shown, had, has
    <3> QED BY <2>1, <2>4, <2>5, <3>1
  <2>7. CASE id = row.id /\ type = "created"
    <3>1. had = {}
      <4>1. \A r : r \notin had
        BY <2>3, <2>7, <1>4 DEF Alive
      <4> QED BY <4>1
    <3>2. shown = {}
      <4> HIDE DEF shown, had
      <4> QED BY <2>1, <3>1
    <3>3. CASE s = row.st
      <4>1. row \in has
        BY <2>3, <2>7, <3>3, <1>4
      <4>2. Due(id, {"created"})'
        BY <2>7, <1>9
      <4> HIDE DEF shown, had, has
      <4> QED BY <3>2, <4>1, <4>2
    <3>4. CASE s # row.st
      <4>1. \A r : r \notin has
        BY <2>3, <2>7, <3>4, <1>4
      <4>2. has = {}
        BY <4>1
      <4> HIDE DEF shown, had, has
      <4> QED BY <3>2, <4>2
    <3> QED BY <3>3, <3>4
  <2>8. CASE id = row.id /\ type = "metadata"
    <3>1. PICK r \in rows : r.id = row.id /\ r.st = row.st
      BY <2>8 DEF Sound
    <3>2. Due(id, {"metadata"})'
      BY <2>8, <1>9
    <3>3. CASE s = row.st
      <4>1. row \in has
        BY <2>3, <2>8, <3>3, <1>4
      <4>2. had = {r}
        <5>1. \A t : t \in had <=> t = r
          BY <2>3, <2>8, <3>1, <3>3, <1>5
        <5> QED BY <5>1
      <4>3. r \in Row
        BY <1>5
      <4> HIDE DEF shown, had, has
      <4> QED BY <2>1, <2>4, <3>2, <4>1, <4>2, <4>3
    <3>4. CASE s # row.st
      <4>1. \A t : t \notin has
        BY <2>3, <2>8, <3>4, <1>4
      <4>2. \A t : t \notin had
        BY <2>3, <2>8, <3>1, <3>4, <1>5
      <4>3. has = {} /\ had = {}
        BY <4>1, <4>2
      <4> HIDE DEF shown, had, has
      <4> QED BY <2>1, <4>3
    <3> QED BY <3>3, <3>4
  <2> QED BY <2>6, <2>7, <2>8, <1>12
<1>13. ASSUME NEW D \in SUBSET Row, NEW s \in Status, Agrees(D, s), type \in {"created", "metadata"}
       PROVE  Agrees(D, s)'
  BY <1>12, <1>13 DEF Agrees
<1>14. ListStays
  <2>1. ASSUME NEW D \in SUBSET Row, ListHolds(D) PROVE ListHolds(D)'
    BY <1>6, <1>10, <1>11, <1>13, <2>1 DEF ListHolds
  <2>2. ASSUME NEW p \in SUBSET Row, NEW s \in Status, ListReads(p, s) PROVE ListReads(p, s)'
    BY <1>6, <1>10, <1>11, <1>13, <2>2 DEF ListReads
  <2> QED BY <2>1, <2>2 DEF ListStays
<1>15. PageUnsettled => PageUnsettled'
  <2>1. (\E m \in mutation : m.kind = "update" /\ m.id = Opened)
          => \E m \in mutation' : m.kind = "update" /\ m.id = Opened
    BY DEF Continued
  <2> QED BY <2>1, <1>2 DEF PageUnsettled
<1>16. ASSUME NEW d, AgreesPage(d), Opened \in born PROVE AgreesPage(d)'
  <2> SUFFICES ASSUME NEW r \in rows', r.id = Opened
               PROVE  /\ d.st = r.st \/ Due(Opened, {"updated"})'
                      /\ d.meta = r.meta \/ Due(Opened, {"updated", "metadata"})'
    BY DEF AgreesPage
  <2>1. /\ Due(Opened, {"updated"}) => Due(Opened, {"updated"})'
        /\ Due(Opened, {"updated", "metadata"}) => Due(Opened, {"updated", "metadata"})'
    BY <1>8
  <2>2. CASE row.id # Opened
    <3>1. r \in rows
      BY <2>2, <1>4
    <3> QED BY <2>1, <3>1, <1>16 DEF AgreesPage
  <2>3. CASE row.id = Opened
    <3>1. r = row
      BY <2>3, <1>4
    <3>2. type # "deleted"
      BY <2>3, <1>4 DEF Alive
    <3>3. type # "created"
      BY <2>3, <1>16 DEF Sound
    <3>4. CASE type = "updated"
      <4>1. Due(Opened, {"updated"})' /\ Due(Opened, {"updated", "metadata"})'
        BY <2>3, <3>4, <1>9
      <4> QED BY <4>1
    <3>5. CASE type = "metadata"
      <4>1. Due(Opened, {"updated", "metadata"})'
        BY <2>3, <3>5, <1>9
      <4>2. PICK t \in rows : t.id = row.id /\ t.st = row.st
        BY <3>5 DEF Sound
      <4>3. d.st = t.st \/ Due(Opened, {"updated"})
        BY <2>3, <4>2, <1>16 DEF AgreesPage
      <4> QED BY <2>1, <3>1, <4>1, <4>2, <4>3
    <3> QED BY <3>2, <3>3, <3>4, <3>5, <1>6
  <2> QED BY <2>2, <2>3
<1>17. PageStays
  BY <1>15, <1>16 DEF PageStays, PageHolds, PageReads
<1> QED BY <1>7, <1>14, <1>17

-----------------------------------------------------------------------------
(* Steps of the server and of the socket                                    *)

MutationsInv == \A m \in mutation : MutationOK(m)

\* The parts of the types that a step leaves alone.
LEMMA TypesStay ==
  /\ ServerInv /\ UNCHANGED <<rows, born, outbox, pipe>> => ServerInv'
  /\ SocketInv /\ UNCHANGED <<registered, connected, pipe, events, mounted>>
       /\ born \subseteq born' => SocketInv'
  /\ QueryInv /\ UNCHANGED query /\ born \subseteq born' => QueryInv'
  /\ MutationsInv /\ mutation' \subseteq mutation /\ born \subseteq born' => MutationsInv'
  /\ UNCHANGED mutation => Continued
<1>1. ServerInv /\ UNCHANGED <<rows, born, outbox, pipe>> => ServerInv'
  BY DEF ServerInv, Alive
<1>2. SocketInv /\ UNCHANGED <<registered, connected, pipe, events, mounted>>
       /\ born \subseteq born' => SocketInv'
  BY DEF SocketInv
<1>3. QueryInv /\ UNCHANGED query /\ born \subseteq born' => QueryInv'
  BY DEF QueryInv
<1>4. MutationsInv /\ mutation' \subseteq mutation /\ born \subseteq born' => MutationsInv'
  BY DEF MutationsInv, MutationOK
<1>5. UNCHANGED mutation => Continued
  BY DEF Continued
<1> QED BY <1>1, <1>2, <1>3, <1>4, <1>5

\* A mutation goes on to another phase.
LEMMA BecomeFacts ==
  ASSUME MutationsInv, NEW m \in mutation, NEW phase \in {"sent", "ok", "failed"},
         NEW row \in Row \cup {Absent}, Become(m, phase, row),
         m.kind = "create" /\ phase = "ok" => row \in Row, born \subseteq born'
  PROVE  MutationsInv' /\ Continued
<1> DEFINE t == [m EXCEPT !.phase = phase, !.row = row]
<1>1. m \in Mutations /\ MutationOK(m)
  BY DEF MutationsInv, MutationOK
<1>2. /\ t \in Mutations /\ t.kind = m.kind /\ t.id = m.id /\ t.snap = m.snap
      /\ t.phase = phase /\ t.row = row
  BY <1>1 DEF Mutations
<1>3. mutation' = (mutation \ {m}) \cup {t}
  BY DEF Become
<1> HIDE DEF t
<1>4. MutationOK(t)'
  BY <1>1, <1>2 DEF MutationOK
<1>5. \A u \in mutation : MutationOK(u)'
  BY DEF MutationsInv, MutationOK
<1>6. MutationsInv'
  BY <1>3, <1>4, <1>5 DEF MutationsInv
<1>7. Continued
  BY <1>2, <1>3 DEF Continued
<1> QED BY <1>6, <1>7

\* A step that leaves the queries alone, and closes pages at most.
LEMMA SameQueries ==
  ASSUME QueryInv, ListInv, MyInv, PageInv, ListStays, MyStays, PageStays,
         UNCHANGED query, mounted' \subseteq mounted, born \subseteq born'
  PROVE  QueryInv' /\ ListInv' /\ MyInv' /\ PageInv'
<1>1. QueryInv'
  BY TypesStay
<1>2. ListInv' /\ MyInv' /\ PageInv'
  BY SameHolds DEF ListInv, MyInv, PageInv, Unobserved
<1> QED BY <1>1, <1>2

\* A step that makes every query stale.
LEMMA StaleQueries ==
  ASSUME QueryInv, born \subseteq born', IsQueries(query'),
         query'["list"] \in ListQuery, query'["my"] \in ListQuery, query'["detail"] \in PageQuery,
         \A c \in Queries : Stale(query'[c], c \in mounted'),
         query'["detail"].data # Absent \/ InFlight(query'["detail"]) => Opened \in born'
  PROVE  QueryInv' /\ ListInv' /\ MyInv' /\ PageInv'
<1>1. "list" \in Queries /\ "my" \in Queries /\ "detail" \in Queries
  BY DEF Queries
<1>2. QueryInv'
  BY DEF QueryInv
<1>3. ListInv' /\ MyInv' /\ PageInv'
  BY <1>1, StaleHolds
<1> QED BY <1>2, <1>3

\* A frame is missed by every query.
LEMMA MissedQueries ==
  ASSUME QueryInv, born \subseteq born', query' = MissedByAll
  PROVE  QueryInv' /\ ListInv' /\ MyInv' /\ PageInv'
<1>1. IsQueries(query') /\ \A c \in Queries : query'[c] = Missed(query[c])
  BY DEF MissedByAll, IsQueries
<1>2. query["list"] \in ListQuery /\ query["my"] \in ListQuery /\ query["detail"] \in PageQuery
  BY DEF QueryInv
<1>3. /\ query'["list"] = Missed(query["list"]) /\ query'["my"] = Missed(query["my"])
      /\ query'["detail"] = Missed(query["detail"])
  BY <1>1 DEF Queries
<1>4. query'["list"] \in ListQuery /\ Stale(query'["list"], "list" \in mounted')
  BY <1>2, <1>3, MissedFacts DEF ListQuery, Stale
<1>5. query'["my"] \in ListQuery /\ Stale(query'["my"], "my" \in mounted')
  BY <1>2, <1>3, MissedFacts DEF ListQuery, Stale
<1>6. /\ query'["detail"] \in PageQuery /\ Stale(query'["detail"], "detail" \in mounted')
      /\ query'["detail"].data = query["detail"].data
      /\ InFlight(query'["detail"]) <=> InFlight(query["detail"])
  BY <1>2, <1>3, MissedFacts DEF PageQuery, Stale
<1>7. \A c \in Queries : Stale(query'[c], c \in mounted')
  BY <1>4, <1>5, <1>6 DEF Queries
<1>8. query'["detail"].data # Absent \/ InFlight(query'["detail"]) => Opened \in born'
  BY <1>6 DEF QueryInv, SocketInv
<1> QED BY <1>1, <1>4, <1>5, <1>6, <1>7, <1>8, StaleQueries

\* Every query is invalidated.
LEMMA InvalidatedQueries ==
  ASSUME QueryInv, born \subseteq born', SocketInv',
         query' = InvalidateWorkspaceScopedQueries(mounted')
  PROVE  QueryInv' /\ ListInv' /\ MyInv' /\ PageInv'
<1>1. /\ IsQueries(query')
      /\ \A c \in Queries : query'[c] = Invalidate(query[c], c \in mounted')
  BY DEF InvalidateWorkspaceScopedQueries, IsQueries
<1>2. query["list"] \in ListQuery /\ query["my"] \in ListQuery /\ query["detail"] \in PageQuery
  BY DEF QueryInv
<1>3. /\ query'["list"] = Invalidate(query["list"], "list" \in mounted')
      /\ query'["my"] = Invalidate(query["my"], "my" \in mounted')
      /\ query'["detail"] = Invalidate(query["detail"], "detail" \in mounted')
  BY <1>1 DEF Queries
<1>4. query'["list"] \in ListQuery /\ Stale(query'["list"], "list" \in mounted')
  BY <1>2, <1>3, InvalidateFacts DEF ListQuery
<1>5. query'["my"] \in ListQuery /\ Stale(query'["my"], "my" \in mounted')
  BY <1>2, <1>3, InvalidateFacts DEF ListQuery
<1>6. /\ query'["detail"] \in PageQuery /\ Stale(query'["detail"], "detail" \in mounted')
      /\ query'["detail"].data = query["detail"].data
      /\ InFlight(query'["detail"]) => InFlight(query["detail"]) \/ "detail" \in mounted'
  <2> DEFINE q == query["detail"]
             active == "detail" \in mounted'
  <2>1. q \in Query(OpenedRows, OpenedRows)
    BY <1>2 DEF PageQuery
  <2> HIDE DEF q, active
  <2>2. /\ Invalidate(q, active) \in Query(OpenedRows, OpenedRows)
        /\ Stale(Invalidate(q, active), active)
        /\ Invalidate(q, active).data = q.data
        /\ InFlight(Invalidate(q, active)) => InFlight(q) \/ active
    BY <2>1, InvalidateFacts
  <2>3. query'["detail"] = Invalidate(q, active)
    BY <1>3 DEF q, active
  <2>4. query'["detail"] \in PageQuery
    BY <2>2, <2>3 DEF PageQuery
  <2>5. Stale(query'["detail"], active) /\ query'["detail"].data = q.data
        /\ (InFlight(query'["detail"]) => InFlight(q) \/ active)
    BY <2>2, <2>3
  <2> QED BY <2>4, <2>5 DEF q, active
<1>7. \A c \in Queries : Stale(query'[c], c \in mounted')
  BY <1>4, <1>5, <1>6 DEF Queries
<1>8. query'["detail"].data # Absent \/ InFlight(query'["detail"]) => Opened \in born'
  BY <1>6 DEF QueryInv, SocketInv
<1> QED BY <1>1, <1>4, <1>5, <1>6, <1>7, <1>8, StaleQueries

\* The parts of the invariant, before a step and after it.
LEMMA InvParts ==
  CacheInv <=> /\ ServerInv /\ SocketInv /\ QueryInv /\ MutationsInv
               /\ MyInv /\ WireInv /\ ListInv /\ PageInv
  BY DEF CacheInv, TypeInv, MutationsInv

\* The same after the step.
LEMMA InvParts_ ==
  CacheInv' <=> /\ ServerInv' /\ SocketInv' /\ QueryInv' /\ MutationsInv'
                /\ MyInv' /\ WireInv' /\ ListInv' /\ PageInv'
  BY DEF CacheInv, TypeInv, MutationsInv

\* Somebody else writes.
LEMMA OtherWriteStep ==
  ASSUME CacheInv, OtherWrite PROVE CacheInv'
<1>1. /\ ServerInv /\ SocketInv /\ QueryInv /\ MutationsInv
      /\ MyInv /\ WireInv /\ ListInv /\ PageInv
  BY InvParts
<1>2. Writes
  BY <1>1, CreateWrites, ChangeWrites DEF OtherWrite
<1>3. /\ UNCHANGED <<pipe, registered, connected, query, mounted, mutation>>
      /\ events' = events + 1
  BY DEF OtherWrite, socketVars, Happens
<1>4. ServerInv' /\ born \subseteq born'
  BY <1>1, <1>2, <1>3, WroteTypes
<1>5. SocketInv'
  BY <1>1, <1>3, <1>4 DEF SocketInv
<1>6. MutationsInv' /\ Continued
  BY <1>1, <1>3, <1>4, TypesStay
<1>7. WireInv'
  BY <1>1, <1>2, <1>3, WroteWire
<1>8. MyStays /\ ListStays /\ PageStays
  BY <1>1, <1>2, <1>3, <1>6, WroteStays
<1>9. QueryInv' /\ ListInv' /\ MyInv' /\ PageInv'
  BY <1>1, <1>3, <1>4, <1>8, SameQueries
<1> QED BY <1>4, <1>5, <1>6, <1>7, <1>9, InvParts_

\* A handler publishes.
LEMMA PublishStep ==
  ASSUME CacheInv, NEW k \in DOMAIN outbox, Publish(k) PROVE CacheInv'
<1>1. /\ ServerInv /\ SocketInv /\ QueryInv /\ MutationsInv
      /\ MyInv /\ WireInv /\ ListInv /\ PageInv
  BY InvParts
<1>2. /\ UNCHANGED <<rows, born, registered, connected, before, away, mounted, mutation, events>>
      /\ outbox' = Overtaken(k)
      /\ \/ registered /\ pipe' = Append(pipe, outbox[k]) /\ UNCHANGED query
         \/ ~registered /\ query' = MissedByAll /\ UNCHANGED pipe
  BY DEF Publish
<1>3. outbox \in Seq(Event) /\ pipe \in Seq(Event)
  BY <1>1 DEF ServerInv
<1>4. /\ Overtaken(k) \in Seq(Event) /\ Len(Overtaken(k)) = Len(outbox) - 1
      /\ k \in 1..Len(outbox) /\ outbox[k] \in Event
      /\ \A n \in 1..(Len(outbox) - 1) :
           /\ n < k => Overtaken(k)[n].row = outbox[n].row
           /\ n >= k => Overtaken(k)[n] = outbox[n + 1]
  BY <1>3, OvertakenFacts
<1>5. \A n \in 1..Len(outbox) : outbox[n].row.id \in born
  BY <1>1, <1>3 DEF ServerInv
<1>6. ASSUME NEW n \in DOMAIN outbox' PROVE outbox'[n].row.id \in born'
  <2>1. n \in 1..(Len(outbox) - 1) /\ n \in 1..Len(outbox) /\ n + 1 \in 1..Len(outbox)
        /\ (n < k \/ n >= k)
    BY <1>2, <1>3, <1>4
  <2> QED BY <2>1, <1>2, <1>4, <1>5
<1>7. MutationsInv' /\ Continued
  BY <1>1, <1>2, TypesStay
<1>8. CASE registered
  <2>1. pipe' = Append(pipe, outbox[k]) /\ UNCHANGED query
    BY <1>2, <1>8
  <2>2. /\ pipe' \in Seq(Event) /\ pipe' # <<>> /\ Len(pipe') = Len(pipe) + 1
        /\ \A n \in 1..Len(pipe) : pipe'[n] = pipe[n]
        /\ pipe'[Len(pipe) + 1] = outbox[k]
    BY <2>1, <1>3, <1>4, AppendProperties
  <2>3. ASSUME NEW n \in DOMAIN pipe' PROVE pipe'[n].row.id \in born'
    <3>1. n \in 1..Len(pipe) \/ n = Len(pipe) + 1
      BY <2>2, <1>3
    <3>2. \A i \in 1..Len(pipe) : pipe[i].row.id \in born
      BY <1>1, <1>3 DEF ServerInv
    <3> QED BY <3>1, <3>2, <2>2, <1>2, <1>4, <1>5
  <2>4. ServerInv'
    BY <1>1, <1>2, <1>4, <1>6, <2>2, <2>3 DEF ServerInv, Alive
  <2>5. SocketInv'
    BY <1>1, <1>2, <1>8 DEF SocketInv
  <2>6. WireInv' /\ Carried
    BY <1>1, <1>2, <2>1, PublishedWire
  <2>7. MyStays /\ ListStays /\ PageStays
    BY <1>2, <1>7, <2>2, <2>6, CarriedStays DEF Pending
  <2>8. QueryInv' /\ ListInv' /\ MyInv' /\ PageInv'
    BY <1>1, <1>2, <2>1, <2>7, SameQueries
  <2> QED BY <1>7, <2>4, <2>5, <2>6, <2>8, InvParts_
<1>9. CASE ~registered
  <2>1. query' = MissedByAll /\ pipe' = pipe /\ pipe = <<>>
    BY <1>1, <1>2, <1>9 DEF SocketInv
  <2>2. ServerInv'
    BY <1>1, <1>2, <1>4, <1>6, <2>1 DEF ServerInv, Alive
  <2>3. SocketInv'
    BY <1>1, <1>2, <2>1 DEF SocketInv
  <2>4. WireInv'
    BY <1>1, <1>2, <2>1, UnpublishedWire
  <2>5. QueryInv' /\ ListInv' /\ MyInv' /\ PageInv'
    BY <1>1, <1>2, <2>1, MissedQueries
  <2> QED BY <1>7, <2>2, <2>3, <2>4, <2>5, InvParts_
<1> QED BY <1>8, <1>9

\* The connection ends, whatever happens to the pages.
LEMMA LoseFramesStep ==
  ASSUME CacheInv, LoseFrames, UNCHANGED <<rows, born, outbox, mutation>>, events' = events + 1,
         mounted' = mounted \/ mounted' = {}
  PROVE  CacheInv'
<1>1. /\ ServerInv /\ SocketInv /\ QueryInv /\ MutationsInv
      /\ MyInv /\ WireInv /\ ListInv /\ PageInv
  BY InvParts
<1>2. /\ connected' = FALSE /\ registered' = FALSE /\ pipe' = <<>>
      /\ IF pipe = <<>> THEN UNCHANGED query ELSE query' = MissedByAll
  BY DEF LoseFrames
<1>3. <<>> \in Seq(Event) /\ DOMAIN <<>> = {}
  OBVIOUS
<1>4. ServerInv'
  BY <1>1, <1>2, <1>3 DEF ServerInv, Alive
<1>5. SocketInv'
  <2>1. mounted' = {} \/ \E c \in Queries : mounted' = {c}
    BY <1>1 DEF SocketInv
  <2>2. "detail" \in mounted' => Opened \in born'
    BY <1>1 DEF SocketInv
  <2>3. events' \in Nat
    BY <1>1 DEF SocketInv
  <2> QED BY <1>2, <2>1, <2>2, <2>3 DEF SocketInv
<1>6. MutationsInv' /\ Continued
  BY <1>1, TypesStay
<1>7. WireInv'
  BY <1>1, <1>2, LostWire
<1>8. CASE pipe = <<>>
  <2>1. UNCHANGED pipe /\ UNCHANGED query
    BY <1>2, <1>8
  <2>2. MyStays /\ ListStays /\ PageStays
    BY <1>6, <2>1, QuietStays
  <2>3. QueryInv' /\ ListInv' /\ MyInv' /\ PageInv'
    BY <1>1, <2>1, <2>2, SameQueries
  <2> QED BY <1>4, <1>5, <1>6, <1>7, <2>3, InvParts_
<1>9. CASE pipe # <<>>
  <2>1. QueryInv' /\ ListInv' /\ MyInv' /\ PageInv'
    BY <1>1, <1>2, <1>9, MissedQueries
  <2> QED BY <1>4, <1>5, <1>6, <1>7, <2>1, InvParts_
<1> QED BY <1>8, <1>9

\* The two ways in which it ends.
LEMMA ConnectionLostStep ==
  ASSUME CacheInv, ConnectionLost \/ LeaveWorkspace PROVE CacheInv'
<1>1. LoseFrames /\ UNCHANGED <<rows, born, outbox, mutation>> /\ events' = events + 1
      /\ (mounted' = mounted \/ mounted' = {})
  BY DEF ConnectionLost, LeaveWorkspace, Happens, serverVars
<1> QED BY <1>1, LoseFramesStep

\* The client connects.
LEMMA OnAuthenticatedStep ==
  ASSUME CacheInv, OnAuthenticated PROVE CacheInv'
<1>1. /\ ServerInv /\ SocketInv /\ QueryInv /\ MutationsInv
      /\ MyInv /\ WireInv /\ ListInv /\ PageInv
  BY InvParts
<1>2. /\ UNCHANGED <<rows, born, outbox, pipe, registered, mounted, mutation, events>>
      /\ connected' = TRUE
      /\ query' = InvalidateWorkspaceScopedQueries(mounted) \/ UNCHANGED query
  BY DEF OnAuthenticated, serverVars
<1>3. ServerInv' /\ MutationsInv' /\ Continued
  BY <1>1, <1>2, TypesStay
<1>4. SocketInv'
  BY <1>1, <1>2 DEF SocketInv
<1>5. MyStays /\ ListStays /\ PageStays /\ WireInv'
  BY <1>1, <1>2, <1>3, QuietStays
<1>6. CASE UNCHANGED query
  <2>1. QueryInv' /\ ListInv' /\ MyInv' /\ PageInv'
    BY <1>1, <1>2, <1>5, <1>6, SameQueries
  <2> QED BY <1>3, <1>4, <1>5, <2>1, InvParts_
<1>7. CASE query' = InvalidateWorkspaceScopedQueries(mounted)
  <2>1. QueryInv' /\ ListInv' /\ MyInv' /\ PageInv'
    BY <1>1, <1>2, <1>4, <1>7, InvalidatedQueries
  <2> QED BY <1>3, <1>4, <1>5, <2>1, InvParts_
<1> QED BY <1>2, <1>6, <1>7

\* The hub registers the connection.
LEMMA RegisterStep ==
  ASSUME CacheInv, Register PROVE CacheInv'
<1>1. /\ ServerInv /\ SocketInv /\ QueryInv /\ MutationsInv
      /\ MyInv /\ WireInv /\ ListInv /\ PageInv
  BY InvParts
<1>2. /\ UNCHANGED <<rows, born, outbox, pipe, connected, query, mounted, mutation, events>>
      /\ connected /\ registered' = TRUE
  BY DEF Register, serverVars
<1>3. ServerInv' /\ MutationsInv' /\ Continued
  BY <1>1, <1>2, TypesStay
<1>4. SocketInv'
  BY <1>1, <1>2 DEF SocketInv
<1>5. MyStays /\ ListStays /\ PageStays /\ WireInv'
  BY <1>1, <1>2, <1>3, QuietStays
<1>6. QueryInv' /\ ListInv' /\ MyInv' /\ PageInv'
  BY <1>1, <1>2, <1>5, SameQueries
<1> QED BY <1>3, <1>4, <1>5, <1>6, InvParts_

\* A step that does nothing to the caches.
LEMMA StutterStep ==
  ASSUME CacheInv, UNCHANGED vars PROVE CacheInv'
<1>1. /\ ServerInv /\ SocketInv /\ QueryInv /\ MutationsInv
      /\ MyInv /\ WireInv /\ ListInv /\ PageInv
  BY InvParts
<1>2. UNCHANGED <<rows, born, outbox, pipe, registered, connected, query, mounted, mutation, events>>
  BY DEF vars
<1>3. ServerInv' /\ SocketInv' /\ MutationsInv' /\ Continued
  BY <1>1, <1>2, TypesStay
<1>4. MyStays /\ ListStays /\ PageStays /\ WireInv'
  BY <1>1, <1>2, <1>3, QuietStays
<1>5. QueryInv' /\ ListInv' /\ MyInv' /\ PageInv'
  BY <1>1, <1>2, <1>4, SameQueries
<1> QED BY <1>3, <1>4, <1>5, InvParts_

-----------------------------------------------------------------------------
(* Pages and requests *)

\* A step of one query, on its page or opening its page.
LEMMA OneQuery ==
  ASSUME CacheInv, NEW c \in Queries, NEW x, query' = [query EXCEPT ![c] = x],
         UNCHANGED <<rows, born, outbox, pipe, registered, connected, mutation>>,
         events' \in Nat, mounted' = mounted \/ mounted' = {c},
         c = "detail" => Opened \in born,
         c # "detail" => x \in ListQuery, c = "detail" => x \in PageQuery,
         c = "list" => ListInv', c = "my" => MyInv', c = "detail" => PageInv'
  PROVE  CacheInv'
<1>1. /\ ServerInv /\ SocketInv /\ QueryInv /\ MutationsInv
      /\ MyInv /\ WireInv /\ ListInv /\ PageInv
  BY InvParts
<1>2. ServerInv' /\ MutationsInv' /\ Continued
  BY <1>1, TypesStay
<1>3. SocketInv'
  <2>1. mounted' = {} \/ \E e \in Queries : mounted' = {e}
    BY <1>1 DEF SocketInv
  <2>2. "detail" \in mounted' => Opened \in born'
    BY <1>1 DEF SocketInv
  <2> QED BY <1>1, <2>1, <2>2 DEF SocketInv
<1>4. MyStays /\ ListStays /\ PageStays /\ WireInv'
  BY <1>1, <1>2, QuietStays
<1>5. IsQueries(query') /\ \A e \in Queries : query'[e] = IF e = c THEN x ELSE query[e]
  <2>1. \A e \in Queries : query'[e] = IF e = c THEN x ELSE query[e]
    BY <1>1, ExceptQueries DEF QueryInv
  <2>2. IsQueries(query')
    BY <1>1 DEF QueryInv, IsQueries
  <2> QED BY <2>1, <2>2
<1>6. "list" \in Queries /\ "my" \in Queries /\ "detail" \in Queries
      /\ (c = "list" \/ c = "my" \/ c = "detail")
  BY DEF Queries
<1>7. QueryInv'
  <2>1. query'["list"] \in ListQuery
    BY <1>1, <1>5, <1>6 DEF QueryInv
  <2>2. query'["my"] \in ListQuery
    BY <1>1, <1>5, <1>6 DEF QueryInv
  <2>3. query'["detail"] \in PageQuery
    BY <1>1, <1>5, <1>6 DEF QueryInv
  <2>4. query'["detail"].data # Absent \/ InFlight(query'["detail"]) => Opened \in born'
    BY <1>1, <1>5, <1>6 DEF QueryInv
  <2> QED BY <1>5, <2>1, <2>2, <2>3, <2>4 DEF QueryInv
<1>8. \A e \in Queries : e # c /\ e \in mounted' => e \in mounted
  OBVIOUS
<1>9. ListInv'
  <2>1. CASE c # "list"
    BY <1>1, <1>4, <1>5, <1>6, <1>8, <2>1, SameHolds DEF ListInv, Unobserved
  <2> QED BY <2>1
<1>10. MyInv'
  <2>1. CASE c # "my"
    BY <1>1, <1>4, <1>5, <1>6, <1>8, <2>1, SameHolds DEF MyInv, Unobserved
  <2> QED BY <2>1
<1>11. PageInv'
  <2>1. CASE c # "detail"
    BY <1>1, <1>4, <1>5, <1>6, <1>8, <2>1, SameHolds DEF PageInv, Unobserved
  <2> QED BY <2>1
<1> QED BY <1>2, <1>3, <1>4, <1>7, <1>9, <1>10, <1>11, InvParts_

\* The page of a query is opened.
LEMMA OpenPageStep ==
  ASSUME CacheInv, NEW c \in Queries, OpenPage(c) PROVE CacheInv'
<1>1. /\ ServerInv /\ SocketInv /\ QueryInv /\ MutationsInv
      /\ MyInv /\ WireInv /\ ListInv /\ PageInv
  BY InvParts
<1> DEFINE x == Mount(query[c])
<1>2. /\ query' = [query EXCEPT ![c] = x]
      /\ UNCHANGED <<rows, born, outbox, pipe, registered, connected, mutation>>
      /\ mounted' = {c}
      /\ c = "detail" => Opened \in born
  BY DEF OpenPage, serverVars, socketVars
<1>3. events' \in Nat
  BY <1>1 DEF OpenPage, Happens, SocketInv
<1>4. query'[c] = x
  BY <1>1, <1>2, ExceptQueries DEF QueryInv
<1>5. MyStays /\ ListStays /\ PageStays
  BY <1>2, QuietStays, TypesStay
<1>6. CASE c = "list"
  <2>1. query["list"] \in Query(SUBSET Row, Row)
    BY <1>1 DEF QueryInv, ListQuery
  <2>2. /\ x \in ListQuery
        /\ \/ x = query["list"] /\ (Held(query["list"]) => ~query["list"].inv)
           \/ Stale(x, "list" \in mounted')
    BY <1>6, <2>1, MountFacts DEF ListQuery, Stale
  <2>3. ListInv'
    BY <1>1, <1>4, <1>5, <1>6, <2>2, StaleHolds, SameHolds
  <2> HIDE DEF x
  <2> QED BY <1>2, <1>3, <1>6, <2>2, <2>3, OneQuery
<1>7. CASE c = "my"
  <2>1. query["my"] \in Query(SUBSET Row, Row)
    BY <1>1 DEF QueryInv, ListQuery
  <2>2. /\ x \in ListQuery
        /\ \/ x = query["my"] /\ (Held(query["my"]) => ~query["my"].inv)
           \/ Stale(x, "my" \in mounted')
    BY <1>7, <2>1, MountFacts DEF ListQuery, Stale
  <2>3. MyInv'
    BY <1>1, <1>4, <1>5, <1>7, <2>2, StaleHolds, SameHolds
  <2> HIDE DEF x
  <2> QED BY <1>2, <1>3, <1>7, <2>2, <2>3, OneQuery
<1>8. CASE c = "detail"
  <2>1. query["detail"] \in Query(OpenedRows, OpenedRows)
    BY <1>1 DEF QueryInv, PageQuery
  <2>2. /\ x \in PageQuery
        /\ \/ x = query["detail"] /\ (Held(query["detail"]) => ~query["detail"].inv)
           \/ Stale(x, "detail" \in mounted')
    BY <1>8, <2>1, MountFacts DEF PageQuery, Stale
  <2>3. PageInv'
    BY <1>1, <1>4, <1>5, <1>8, <2>2, StaleHolds, SameHolds
  <2> HIDE DEF x
  <2> QED BY <1>2, <1>3, <1>8, <2>2, <2>3, OneQuery
<1> QED BY <1>6, <1>7, <1>8 DEF Queries

\* A request fails.
LEMMA FetchErrorHolds ==
  ASSUME CacheInv, NEW c \in Queries, query' = [query EXCEPT ![c] = FetchError(@)],
         UNCHANGED <<rows, born, outbox, pipe, registered, connected, mutation, mounted>>,
         events' \in Nat, InFlight(query[c])
  PROVE  CacheInv'
<1> DEFINE x == FetchError(query[c])
<1>1. QueryInv
  BY InvParts
<1>2. query' = [query EXCEPT ![c] = x]
  OBVIOUS
<1>3. query'[c] = x
  BY <1>1, <1>2, ExceptQueries DEF QueryInv
<1>4. c = "detail" => Opened \in born
  BY <1>1 DEF QueryInv
<1>5. CASE c # "detail"
  <2>1. query[c] \in Query(SUBSET Row, Row)
    BY <1>1, <1>5 DEF QueryInv, ListQuery, Queries
  <2>2. x \in ListQuery /\ Stale(x, c \in mounted')
    BY <2>1, FetchErrorFacts DEF ListQuery, Stale, Asked
  <2> HIDE DEF x
  <2>3. (c = "list" => ListInv') /\ (c = "my" => MyInv')
    BY <1>3, <2>2, StaleHolds
  <2> QED BY <1>2, <1>5, <2>2, <2>3, OneQuery
<1>6. CASE c = "detail"
  <2>1. query[c] \in Query(OpenedRows, OpenedRows)
    BY <1>1, <1>6 DEF QueryInv, PageQuery
  <2>2. x \in PageQuery /\ Stale(x, c \in mounted')
    BY <2>1, FetchErrorFacts DEF PageQuery, Stale, Asked
  <2> HIDE DEF x
  <2>3. PageInv'
    BY <1>3, <1>6, <2>2, StaleHolds
  <2> QED BY <1>2, <1>4, <1>6, <2>2, <2>3, OneQuery
<1> QED BY <1>5, <1>6

\* Its failure is one of the faults.
LEMMA FetchFailsStep ==
  ASSUME CacheInv, NEW c \in Queries, FetchFails(c) PROVE CacheInv'
<1>1. SocketInv
  BY InvParts
<1>2. /\ query' = [query EXCEPT ![c] = FetchError(@)] /\ InFlight(query[c])
      /\ UNCHANGED <<rows, born, outbox, pipe, registered, connected, mutation, mounted>>
      /\ events' \in Nat
  BY <1>1 DEF FetchFails, Happens, serverVars, socketVars, SocketInv
<1> QED BY <1>2, FetchErrorHolds

\* The workspace is entered again: the list is read, the others are flagged.
LEMMA ReturnStep ==
  ASSUME CacheInv, ReturnToWorkspace PROVE CacheInv'
<1>1. /\ ServerInv /\ SocketInv /\ QueryInv /\ MutationsInv
      /\ MyInv /\ WireInv /\ ListInv /\ PageInv
  BY InvParts
<1> DEFINE Q == InvalidateWorkspaceScopedQueries({"list"})
<1>2. /\ UNCHANGED <<rows, born, outbox, pipe, registered, connected, mutation, events>>
      /\ mounted' = {"list"}
      /\ query' = [Q EXCEPT !["list"] = Mount(Q["list"])]
  BY DEF ReturnToWorkspace, serverVars
<1>3. IsQueries(Q) /\ Q["list"] = Invalidate(query["list"], TRUE)
      /\ Q["my"] = Invalidate(query["my"], FALSE) /\ Q["detail"] = Invalidate(query["detail"], FALSE)
  <2>1. Q = [c \in Queries |-> Invalidate(query[c], c \in {"list"})]
    BY DEF InvalidateWorkspaceScopedQueries
  <2>2. ("list" \in {"list"}) = TRUE /\ ("my" \in {"list"}) = FALSE /\ ("detail" \in {"list"}) = FALSE
    OBVIOUS
  <2> HIDE DEF Q
  <2>3. IsQueries(Q)
    BY <2>1 DEF IsQueries
  <2>4. /\ Q["list"] = Invalidate(query["list"], "list" \in {"list"})
        /\ Q["my"] = Invalidate(query["my"], "my" \in {"list"})
        /\ Q["detail"] = Invalidate(query["detail"], "detail" \in {"list"})
    BY <2>1 DEF Queries
  <2> QED BY <2>2, <2>3, <2>4
<1> HIDE DEF Q
<1>4. /\ query["list"] \in Query(SUBSET Row, Row) /\ query["my"] \in Query(SUBSET Row, Row)
      /\ query["detail"] \in Query(OpenedRows, OpenedRows)
  BY <1>1 DEF QueryInv, ListQuery, PageQuery
<1>5. /\ IsQueries(query') /\ query'["list"] = Mount(Q["list"])
      /\ query'["my"] = Q["my"] /\ query'["detail"] = Q["detail"]
  <2>1. "list" \in Queries /\ "my" \in Queries /\ "detail" \in Queries
    BY DEF Queries
  <2>2. \A e \in Queries : query'[e] = IF e = "list" THEN Mount(Q["list"]) ELSE Q[e]
    BY <2>1, <1>2, <1>3 DEF IsQueries
  <2>3. IsQueries(query')
    BY <2>1, <1>2, <1>3 DEF IsQueries
  <2> QED BY <2>1, <2>2, <2>3
<1>6. Q["list"] \in Query(SUBSET Row, Row) /\ Stale(Q["list"], TRUE)
  <2>1. /\ Invalidate(query["list"], TRUE) \in Query(SUBSET Row, Row)
        /\ Stale(Invalidate(query["list"], TRUE), TRUE)
    BY <1>4, InvalidateOpen
  <2> QED BY <1>3, <2>1
<1>7. query'["list"] \in ListQuery /\ Stale(query'["list"], "list" \in mounted')
  <2>1. /\ Mount(Q["list"]) \in Query(SUBSET Row, Row)
        /\ \/ Mount(Q["list"]) = Q["list"]
           \/ ~Held(Mount(Q["list"])) /\ Blank(Mount(Q["list"]))
    BY <1>6, MountFacts
  <2> QED BY <1>5, <1>6, <2>1 DEF ListQuery, Stale
<1>8. "my" \notin mounted' /\ "detail" \notin mounted'
  BY <1>2
<1>9. query'["my"] \in ListQuery /\ Stale(query'["my"], "my" \in mounted')
  <2>1. Q["my"] \in Query(SUBSET Row, Row) /\ Stale(Q["my"], FALSE)
    <3>1. /\ Invalidate(query["my"], FALSE) \in Query(SUBSET Row, Row)
          /\ Stale(Invalidate(query["my"], FALSE), FALSE)
      BY <1>4, InvalidateClosed
    <3> QED BY <1>3, <3>1
  <2> QED BY <1>5, <1>8, <2>1 DEF ListQuery, Stale
<1>10. /\ query'["detail"] \in PageQuery /\ Stale(query'["detail"], "detail" \in mounted')
       /\ query'["detail"].data = query["detail"].data
       /\ InFlight(query'["detail"]) => InFlight(query["detail"])
  <2>1. /\ Q["detail"] \in Query(OpenedRows, OpenedRows) /\ Stale(Q["detail"], FALSE)
        /\ Q["detail"].data = query["detail"].data
        /\ InFlight(Q["detail"]) => InFlight(query["detail"])
    <3> DEFINE q == Invalidate(query["detail"], FALSE)
    <3>1. /\ q \in Query(OpenedRows, OpenedRows) /\ Stale(q, FALSE)
          /\ q.data = query["detail"].data
          /\ InFlight(q) => InFlight(query["detail"])
      BY <1>4, InvalidateClosed
    <3> HIDE DEF q
    <3>2. Q["detail"] = q
      BY <1>3 DEF q
    <3> QED BY <3>1, <3>2
  <2> QED BY <1>5, <1>8, <2>1 DEF PageQuery, Stale
<1>11. \A c \in Queries : Stale(query'[c], c \in mounted')
  BY <1>7, <1>9, <1>10 DEF Queries
<1>12. query'["detail"].data # Absent \/ InFlight(query'["detail"]) => Opened \in born'
  BY <1>1, <1>2, <1>10 DEF QueryInv
<1>13. QueryInv' /\ ListInv' /\ MyInv' /\ PageInv'
  BY <1>1, <1>2, <1>5, <1>7, <1>9, <1>10, <1>11, <1>12, StaleQueries
<1>14. ServerInv' /\ MutationsInv' /\ Continued
  BY <1>1, <1>2, TypesStay
<1>15. WireInv'
  BY <1>1, <1>2, <1>14, QuietStays
<1>16. SocketInv'
  BY <1>1, <1>2, <1>8 DEF SocketInv, Queries
<1> QED BY <1>13, <1>14, <1>15, <1>16, InvParts_

\* The server answers a request of the list, of My Issues or of the page.
LEMMA ReadPageStep ==
  ASSUME CacheInv, NEW c \in Queries, NEW st \in Status, ReadPage(c, st) PROVE CacheInv'
<1>1. /\ ServerInv /\ SocketInv /\ QueryInv /\ MutationsInv
      /\ MyInv /\ WireInv /\ ListInv /\ PageInv
  BY InvParts
<1> DEFINE q == query[c]
           P == IF c = "detail" THEN [s \in Status |-> {r \in rows : r.id = Opened /\ r.st = s}]
                                ELSE [q.fetch.page EXCEPT ![st] = {r \in rows : r.st = st}]
           f == [q.fetch EXCEPT !.page = P]
           x == [q EXCEPT !.fetch = f]
<1>2. /\ UNCHANGED <<rows, born, outbox, pipe, registered, connected, mutation, mounted, events>>
      /\ InFlight(q)
      /\ query' = [query EXCEPT ![c].fetch.page =
           IF c = "detail" THEN [s \in Status |-> {r \in rows : r.id = Opened /\ r.st = s}]
                           ELSE [@ EXCEPT ![st] = {r \in rows : r.st = st}]]
  BY DEF ReadPage, serverVars, socketVars
<1>3. query' = [query EXCEPT ![c] = x]
  BY <1>2
<1>4. rows \subseteq Row /\ (\A r, t \in rows : r.id = t.id => r = t) /\ events' \in Nat
  BY <1>1, <1>2 DEF ServerInv, SocketInv
<1> DEFINE V == IF c = "detail" THEN OpenedRows ELSE Row
           D == IF c = "detail" THEN OpenedRows ELSE SUBSET Row
<1>5. q \in Query(D, V)
  BY <1>1 DEF QueryInv, ListQuery, PageQuery, Queries
<1>6. q.fetch \in Requests(V) /\ q.fetch # Absent
  <2> HIDE DEF q, V, D
  <2> QED BY <1>2, <1>5 DEF InFlight, Query
<1>7. \A s \in Status : {r \in rows : r.st = s} \in SUBSET {r \in Row : r.st = s}
                     /\ {r \in rows : r.id = Opened /\ r.st = s} \in SUBSET {r \in OpenedRows : r.st = s}
  BY <1>4 DEF OpenedRows
<1>8. /\ P \in [Status -> Page]
      /\ \A s \in Status : P[s] = Absent \/ P[s] \subseteq {r \in V : r.st = s}
      /\ c = "detail" => \A s \in Status : P[s] = {r \in rows : r.id = Opened /\ r.st = s}
      /\ c # "detail" => \A s \in Status : P[s] = IF s = st THEN Column(s) ELSE q.fetch.page[s]
  <2>1. CASE c = "detail"
    <3>1. P = [s \in Status |-> {r \in rows : r.id = Opened /\ r.st = s}]
      BY <2>1
    <3>2. \A s \in Status : P[s] = {r \in rows : r.id = Opened /\ r.st = s}
      BY <3>1
    <3>3. P \in [Status -> Page]
      <4>1. \A s \in Status : {r \in rows : r.id = Opened /\ r.st = s} \in Page
        BY <1>4 DEF Page
      <4> QED BY <3>1, <4>1
    <3> HIDE DEF P
    <3> QED BY <2>1, <1>7, <3>2, <3>3
  <2>2. CASE c # "detail"
    <3>1. P = [q.fetch.page EXCEPT ![st] = {r \in rows : r.st = st}] /\ V = Row
      BY <2>2
    <3>2. q.fetch.page \in [Status -> Page]
          /\ \A s \in Status : q.fetch.page[s] = Absent \/ q.fetch.page[s] \subseteq {r \in V : r.st = s}
      <4> HIDE DEF q, V
      <4> QED BY <1>6 DEF Requests, Fetch
    <3> HIDE DEF P, q
    <3>3. \A s \in Status : P[s] = IF s = st THEN {r \in rows : r.st = s} ELSE q.fetch.page[s]
      BY <3>1, <3>2
    <3>4. \A s \in Status : {r \in rows : r.st = s} \in Page
      BY <1>4 DEF Page
    <3>5. P \in [Status -> Page]
      BY <3>1, <3>2, <3>4
    <3>6. \A s \in Status : P[s] = Absent \/ P[s] \subseteq {r \in V : r.st = s}
      BY <1>7, <3>1, <3>2, <3>3
    <3> QED BY <2>2, <3>3, <3>5, <3>6 DEF Column
  <2> QED BY <2>1, <2>2
<1> HIDE DEF P
<1>9. f \in Requests(V) /\ f.page = P /\ f.why = q.fetch.why
  <2> HIDE DEF q, V
  <2> QED BY <1>6, <1>8 DEF Requests, Fetch
<1>10. f # Absent
  BY <1>9, AbsentFacts
<1> HIDE DEF f
<1>11. x \in Query(D, V) /\ x.fetch = f
  <2> HIDE DEF q, V, D
  <2> QED BY <1>5, <1>9 DEF Query
<1> HIDE DEF x
<1>12. query'[c] = x
  BY <1>1, <1>3, ExceptQueries DEF QueryInv
<1>13. InFlight(x) /\ ~Held(x) /\ (Asked(x) => Asked(q))
  BY <1>2, <1>9, <1>10, <1>11 DEF InFlight, Held, Asked
<1>14. MyStays /\ ListStays /\ PageStays
  BY <1>2, QuietStays, TypesStay
<1>15. CASE c = "list"
  <2>1. ASSUME Asked(x), NEW s \in Status, NEW p, p = P[s], p # Absent PROVE ListReads(p, s)'
    <3>1. CASE s = st
      <4>1. P[s] = Column(s)
        BY <1>8, <1>15, <3>1
      <4>2. \A id : InBucket(Column(s), id, s) = InBucket(rows, id, s)
        BY DEF InBucket, Copies, Column
      <4>3. ListReads(Column(s), s)
        BY <4>2 DEF ListReads, Agrees, AgreesOn
      <4>4. Column(s) \in SUBSET Row
        BY <1>4 DEF Column
      <4>5. ListReads(p, s)
        BY <2>1, <4>1, <4>3
      <4>6. p \in SUBSET Row
        BY <2>1, <4>1, <4>4
      <4> QED BY <1>14, <4>5, <4>6 DEF ListStays
    <3>2. CASE s # st
      <4>1. P[s] = q.fetch.page[s]
        BY <1>8, <1>15, <3>2
      <4>2. ListReads(q.fetch.page[s], s)
        BY <1>1, <1>13, <1>15, <2>1, <4>1 DEF ListInv
      <4>3. p \in SUBSET Row
        BY <1>8, <1>15, <2>1
      <4>4. ListReads(p, s)
        BY <2>1, <4>1, <4>2
      <4> HIDE DEF q
      <4> QED BY <1>14, <4>3, <4>4 DEF ListStays
    <3> QED BY <3>1, <3>2
  <2>2. ListInv'
    BY <1>9, <1>11, <1>12, <1>13, <1>15, <2>1, ListBecomes DEF Settled
  <2>3. x \in ListQuery
    BY <1>11, <1>15 DEF ListQuery
  <2> QED BY <1>2, <1>3, <1>4, <1>15, <2>2, <2>3, OneQuery
<1>16. CASE c = "my"
  <2>1. ASSUME Asked(x), NEW s \in Status, NEW p, p = P[s], p # Absent PROVE MyReads(p, s)'
    <3>1. CASE s = st
      <4>1. P[s] = Column(s)
        BY <1>8, <1>16, <3>1
      <4>2. MyReads(p, s)
        BY <2>1, <4>1 DEF MyReads
      <4> QED BY <1>14, <4>2 DEF MyStays
    <3>2. CASE s # st
      <4>1. P[s] = q.fetch.page[s]
        BY <1>8, <1>16, <3>2
      <4>2. MyReads(q.fetch.page[s], s)
        BY <1>1, <1>13, <1>16, <2>1, <4>1 DEF MyInv
      <4>3. MyReads(p, s)
        BY <2>1, <4>1, <4>2
      <4> HIDE DEF q
      <4> QED BY <1>14, <4>3 DEF MyStays
    <3> QED BY <3>1, <3>2
  <2>2. MyInv'
    BY <1>9, <1>11, <1>12, <1>13, <1>16, <2>1, MyBecomes DEF Settled
  <2>3. x \in ListQuery
    BY <1>11, <1>16 DEF ListQuery
  <2> QED BY <1>2, <1>3, <1>4, <1>16, <2>2, <2>3, OneQuery
<1>17. CASE c = "detail"
  <2>1. Opened \in born
    BY <1>1, <1>2, <1>17 DEF QueryInv
  <2>2. ASSUME NEW s \in Status, NEW p, p = P[s] PROVE PageReads(p)'
    <3>1. P[s] = {r \in rows : r.id = Opened /\ r.st = s}
      BY <1>8, <1>17
    <3>2. \A d \in P[s] : AgreesPage(d)
      BY <1>4, <3>1 DEF AgreesPage
    <3>3. PageReads(p)
      BY <2>2, <3>2 DEF PageReads
    <3> QED BY <1>14, <2>1, <3>3 DEF PageStays
  <2>3. PageInv'
    BY <1>9, <1>11, <1>12, <1>13, <1>17, <2>2, PageBecomes DEF Settled
  <2>4. x \in PageQuery
    BY <1>11, <1>17 DEF PageQuery
  <2> QED BY <1>2, <1>3, <1>4, <1>17, <2>1, <2>3, <2>4, OneQuery
<1> QED BY <1>15, <1>16, <1>17 DEF Queries

\* The whole answer is in.
LEMMA FetchSuccessStep ==
  ASSUME CacheInv, NEW c \in Queries, FetchSuccess(c) PROVE CacheInv'
<1>1. /\ ServerInv /\ SocketInv /\ QueryInv /\ MutationsInv
      /\ MyInv /\ WireInv /\ ListInv /\ PageInv
  BY InvParts
<1> DEFINE q == query[c]
           got == UNION {q.fetch.page[s] : s \in Status}
           fresh(d) == [data |-> d, inv |-> FALSE, why |-> q.fetch.why, fetch |-> Absent]
<1>2. /\ UNCHANGED <<rows, born, outbox, pipe, registered, connected, mutation, mounted, events>>
      /\ InFlight(q) /\ \A s \in Status : q.fetch.page[s] # Absent
      /\ query' = [query EXCEPT ![c] = IF c # "detail" THEN fresh(got)
                                       ELSE IF got = {} THEN FetchError(q)
                                       ELSE fresh(CHOOSE r \in got : TRUE)]
  BY DEF FetchSuccess, serverVars, socketVars
<1>3. rows \subseteq Row /\ events' \in Nat
  BY <1>1, <1>2 DEF ServerInv, SocketInv
<1>4. MyStays /\ ListStays /\ PageStays
  BY <1>2, QuietStays, TypesStay
<1> DEFINE V == IF c = "detail" THEN OpenedRows ELSE Row
           D == IF c = "detail" THEN OpenedRows ELSE SUBSET Row
<1>5. q \in Query(D, V)
  BY <1>1 DEF QueryInv, ListQuery, PageQuery, Queries
<1> HIDE DEF q
<1>6. q.fetch \in Requests(V) /\ q.fetch.why \in SUBSET Causes
  <2> HIDE DEF V, D
  <2>1. q.fetch \in Requests(V)
    BY <1>2, <1>5 DEF InFlight, Query
  <2> QED BY <2>1 DEF Requests, Fetch
<1>7. \A s \in Status : q.fetch.page[s] \subseteq {r \in V : r.st = s}
  <2> HIDE DEF V, D
  <2> QED BY <1>2, <1>6 DEF Requests
<1>8. ASSUME NEW d \in D
      PROVE  /\ fresh(d) \in Query(D, V) /\ fresh(d).data = d /\ ~InFlight(fresh(d)) /\ ~fresh(d).inv
             /\ Held(fresh(d)) => Asked(q)
  <2> HIDE DEF V, D
  <2>1. fresh(d) \in Query(D, V)
    BY <1>6 DEF Query
  <2> QED BY <1>2, <2>1 DEF Held, Asked, InFlight
<1>9. CASE c = "list"
  <2> DEFINE x == fresh(got)
  <2>1. got \in SUBSET Row
    BY <1>7, <1>9
  <2>2. /\ x \in ListQuery /\ x.data = got /\ ~InFlight(x) /\ ~x.inv
        /\ Held(x) => Asked(q)
    BY <1>8, <1>9, <2>1 DEF ListQuery
  <2>3. query' = [query EXCEPT ![c] = x]
    BY <1>2, <1>9
  <2>4. query'[c] = x
    <3> HIDE DEF x
    <3> QED BY <1>1, <2>3, ExceptQueries DEF QueryInv
  <2>5. ASSUME Asked(q), NEW E, E = got PROVE ListHolds(E)
    <3>1. \A s \in Status : ListReads(q.fetch.page[s], s)
      BY <1>1, <1>2, <1>9, <2>5 DEF ListInv, q
    <3>2. \A s \in Status : \A id : InBucket(got, id, s) = InBucket(q.fetch.page[s], id, s)
      <4> SUFFICES ASSUME NEW s \in Status, NEW id
                   PROVE  InBucket(got, id, s) = InBucket(q.fetch.page[s], id, s)
        OBVIOUS
      <4>1. \A r : r \in got /\ r.st = s <=> r \in q.fetch.page[s]
        BY <1>7
      <4> HIDE DEF got
      <4> QED BY <4>1 DEF InBucket, Copies
    <3> HIDE DEF got
    <3>3. \A s \in Status : Agrees(q.fetch.page[s], s) => Agrees(got, s)
      BY <3>2 DEF Agrees, AgreesOn
    <3> QED BY <2>5, <3>1, <3>3 DEF ListHolds, ListReads
  <2> HIDE DEF x
  <2>6. ListInv'
    <3> HIDE DEF got
    <3>1. ASSUME Held(x), NEW E, E = got PROVE ListHolds(E)'
      BY <1>4, <2>1, <2>2, <2>5, <3>1 DEF ListStays
    <3> QED BY <1>9, <2>2, <2>4, <3>1, ListBecomes DEF Settled, Asked
  <2> QED BY <1>2, <1>3, <1>9, <2>2, <2>3, <2>6, OneQuery
<1>10. CASE c = "my"
  <2> DEFINE x == fresh(got)
  <2>1. got \in SUBSET Row
    BY <1>7, <1>10
  <2>2. /\ x \in ListQuery /\ x.data = got /\ ~InFlight(x) /\ ~x.inv
        /\ Held(x) => Asked(q)
    BY <1>8, <1>10, <2>1 DEF ListQuery
  <2>3. query' = [query EXCEPT ![c] = x]
    BY <1>2, <1>10
  <2>4. query'[c] = x
    <3> HIDE DEF x
    <3> QED BY <1>1, <2>3, ExceptQueries DEF QueryInv
  <2>5. ASSUME Asked(q), NEW E, E = got PROVE MyHolds(E)
    <3>1. Pending \/ \A s \in Status : q.fetch.page[s] = Column(s)
      BY <1>1, <1>2, <1>10, <2>5 DEF MyInv, MyReads, q
    <3>2. \A r \in rows : r.st \in Status
      BY <1>3 DEF Row
    <3>3. (\A s \in Status : q.fetch.page[s] = Column(s)) => got = rows
      BY <3>2 DEF Column
    <3> QED BY <2>5, <3>1, <3>3 DEF MyHolds
  <2> HIDE DEF x
  <2>6. MyInv'
    <3> HIDE DEF got
    <3>1. ASSUME Held(x), NEW E, E = got PROVE MyHolds(E)'
      BY <1>4, <2>2, <2>5, <3>1 DEF MyStays
    <3> QED BY <1>10, <2>2, <2>4, <3>1, MyBecomes DEF Settled, Asked
  <2> QED BY <1>2, <1>3, <1>10, <2>2, <2>3, <2>6, OneQuery
<1>11. CASE c = "detail" /\ got = {}
  <2>1. query' = [query EXCEPT ![c] = FetchError(@)]
    BY <1>2, <1>11 DEF q
  <2> QED BY <1>2, <1>3, <2>1, FetchErrorHolds DEF q
<1>12. CASE c = "detail" /\ got # {}
  <2> DEFINE d == CHOOSE r \in got : TRUE
             x == fresh(d)
  <2>1. d \in got
    BY <1>12
  <2> HIDE DEF d
  <2>2. PICK s \in Status : d \in q.fetch.page[s]
    BY <2>1
  <2>3. d \in OpenedRows
    BY <1>7, <1>12, <2>2
  <2>4. /\ x \in PageQuery /\ x.data = d /\ ~InFlight(x) /\ ~x.inv
        /\ Held(x) => Asked(q)
    BY <1>8, <1>12, <2>3 DEF PageQuery
  <2>5. query' = [query EXCEPT ![c] = x]
    BY <1>2, <1>12 DEF d
  <2>6. query'[c] = x
    <3> HIDE DEF x
    <3> QED BY <1>1, <2>5, ExceptQueries DEF QueryInv
  <2>7. Opened \in born
    BY <1>1, <1>2, <1>12 DEF QueryInv, q
  <2>8. ASSUME Asked(q), NEW E, E = d PROVE PageHolds(E)
    <3>1. PageReads(q.fetch.page[s])
      BY <1>1, <1>2, <1>12, <2>8 DEF PageInv, q
    <3> QED BY <2>2, <2>8, <3>1 DEF PageHolds, PageReads
  <2> HIDE DEF x
  <2>9. PageInv'
    <3>1. ASSUME Held(x), NEW E, E = d PROVE PageHolds(E)'
      BY <1>4, <2>4, <2>7, <2>8, <3>1 DEF PageStays
    <3> QED BY <1>12, <2>4, <2>6, <3>1, PageBecomes DEF Settled, Asked
  <2> QED BY <1>2, <1>3, <1>12, <2>4, <2>5, <2>7, <2>9, OneQuery
<1> QED BY <1>9, <1>10, <1>11, <1>12 DEF Queries

-----------------------------------------------------------------------------
(* Mutations *)

\* Two queries replaced.
LEMMA ExceptTwo ==
  ASSUME NEW Q, IsQueries(Q), NEW x, NEW y
  PROVE  /\ IsQueries([Q EXCEPT !.list = x, !.detail = y])
         /\ [Q EXCEPT !.list = x, !.detail = y]["list"] = x
         /\ [Q EXCEPT !.list = x, !.detail = y]["my"] = Q["my"]
         /\ [Q EXCEPT !.list = x, !.detail = y]["detail"] = y
         /\ IsQueries([Q EXCEPT !.list = x, !.my = y])
         /\ [Q EXCEPT !.list = x, !.my = y]["list"] = x
         /\ [Q EXCEPT !.list = x, !.my = y]["my"] = y
         /\ [Q EXCEPT !.list = x, !.my = y]["detail"] = Q["detail"]
  BY DEF IsQueries, Queries

\* A step that leaves the server and the socket alone, and closes pages at most.
LEMMA ClientStep ==
  ASSUME CacheInv, UNCHANGED <<rows, born, outbox, pipe, registered, connected>>,
         mounted' \subseteq mounted, events' \in Nat, MutationsInv', IsQueries(query'),
         query'["list"] \in ListQuery, query'["my"] \in ListQuery, query'["detail"] \in PageQuery,
         query'["detail"].data # Absent \/ InFlight(query'["detail"]) => Opened \in born,
         ListInv', MyInv', PageInv'
  PROVE  CacheInv'
<1>1. /\ ServerInv /\ SocketInv /\ QueryInv /\ MutationsInv
      /\ MyInv /\ WireInv /\ ListInv /\ PageInv
  BY InvParts
<1>2. ServerInv'
  BY <1>1, TypesStay
<1>3. SocketInv'
  <2>1. mounted' = {} \/ \E e \in Queries : mounted' = {e}
    BY <1>1 DEF SocketInv
  <2>2. "detail" \in mounted' => Opened \in born'
    BY <1>1 DEF SocketInv
  <2> QED BY <1>1, <2>1, <2>2 DEF SocketInv
<1>4. WireInv'
  <2>1. Wire' = Wire
    BY DEF Wire
  <2> QED BY <1>1, <2>1 DEF WireInv, NoneAfter, Alive
<1>5. QueryInv'
  BY DEF QueryInv
<1> QED BY <1>2, <1>3, <1>4, <1>5, InvParts_

\* What onMutate may keep of a query.
Kept(snap) ==
  /\ snap \in [Queries -> (SUBSET Row) \cup Row \cup {Absent}]
  /\ snap["list"] \in (SUBSET Row) \cup {Absent}
  /\ snap["my"] \in (SUBSET Row) \cup {Absent}
  /\ snap["detail"] \in OpenedRows \cup {Absent}

\* A mutation starts.
LEMMA MutateFacts ==
  ASSUME MutationsInv, SocketInv, NEW kind \in {"create", "update", "delete"}, NEW id \in Issues,
         NEW to \in Status, NEW snap, Kept(snap), Mutate(kind, id, to, snap), UNCHANGED born,
         kind # "delete" => snap["my"] = Absent,
         snap["detail"] # Absent => (kind # "create" /\ id = Opened /\ Opened \in born)
  PROVE  /\ MutationsInv' /\ Continued /\ events' \in Nat
         /\ \E m \in mutation' : m.kind = kind /\ m.id = id /\ m.snap = snap
<1>1. events \in Nat
  BY DEF SocketInv
<1>2. [n |-> events, kind |-> kind, id |-> id, to |-> to, phase |-> "sent",
       row |-> Absent, snap |-> snap] \in Mutations
  BY <1>1 DEF Mutations, Kept
<1>3. PICK t \in Mutations :
        t = [n |-> events, kind |-> kind, id |-> id, to |-> to, phase |-> "sent",
             row |-> Absent, snap |-> snap]
  BY <1>2
<1>4. /\ t.kind = kind /\ t.id = id /\ t.snap = snap /\ t.phase = "sent"
      /\ mutation' = mutation \cup {t} /\ events' = events + 1
  BY <1>3 DEF Mutate, Happens
<1>5. MutationOK(t)'
  BY <1>3, <1>4 DEF MutationOK, Kept
<1>6. \A u \in mutation : MutationOK(u)'
  BY DEF MutationsInv, MutationOK
<1>7. MutationsInv'
  BY <1>4, <1>5, <1>6 DEF MutationsInv
<1>8. Continued /\ events' \in Nat
  BY <1>1, <1>4 DEF Continued
<1> QED BY <1>4, <1>7, <1>8

\* The snapshots of the queries.
LEMMA SnapshotFacts ==
  ASSUME QueryInv, NEW id
  PROVE  /\ Kept(Snapshot(id)) /\ Kept([Snapshot(id) EXCEPT !.my = Absent]) /\ Kept(NoSnap)
         /\ Snapshot(id)["my"] = query["my"].data
         /\ [Snapshot(id) EXCEPT !.my = Absent]["my"] = Absent /\ NoSnap["my"] = Absent
         /\ Snapshot(id)["detail"] # Absent => id = Opened /\ Opened \in born
         /\ [Snapshot(id) EXCEPT !.my = Absent]["detail"] # Absent => id = Opened /\ Opened \in born
         /\ NoSnap["detail"] = Absent
<1>1. "list" \in Queries /\ "my" \in Queries /\ "detail" \in Queries
  BY DEF Queries
<1>2. /\ query["list"].data \in (SUBSET Row) \cup {Absent}
      /\ query["my"].data \in (SUBSET Row) \cup {Absent}
      /\ query["detail"].data \in OpenedRows \cup {Absent}
      /\ query["detail"].data # Absent => Opened \in born
  BY DEF QueryInv, ListQuery, PageQuery, Query
<1> DEFINE s == Snapshot(id)
           u == [s EXCEPT !.my = Absent]
<1>3. /\ s = [c \in Queries |-> s[c]]
      /\ s["list"] = query["list"].data /\ s["my"] = query["my"].data
      /\ s["detail"] = IF id # Opened THEN Absent ELSE query["detail"].data
  BY <1>1 DEF Snapshot
<1> HIDE DEF s
<1>4. /\ u = [c \in Queries |-> u[c]]
      /\ u["list"] = s["list"] /\ u["my"] = Absent /\ u["detail"] = s["detail"]
  BY <1>1, <1>3
<1>5. /\ NoSnap = [c \in Queries |-> NoSnap[c]]
      /\ NoSnap["list"] = Absent /\ NoSnap["my"] = Absent /\ NoSnap["detail"] = Absent
  BY <1>1 DEF NoSnap
<1> HIDE DEF u
<1>6. ASSUME NEW v, v = [c \in Queries |-> v[c]], v["list"] \in (SUBSET Row) \cup {Absent},
             v["my"] \in (SUBSET Row) \cup {Absent}, v["detail"] \in OpenedRows \cup {Absent}
      PROVE  Kept(v)
  <2>1. \A c \in Queries : v[c] \in (SUBSET Row) \cup Row \cup {Absent}
    BY <1>6, AbsentFacts DEF Queries
  <2> QED BY <1>6, <2>1 DEF Kept
<1>7. Kept(s) /\ Kept(u) /\ Kept(NoSnap)
  BY <1>2, <1>3, <1>4, <1>5, <1>6
<1> QED BY <1>2, <1>3, <1>4, <1>5, <1>7 DEF s, u

\* A mutation that changes no query: useCreateIssue starts.
LEMMA CreateIssueStep ==
  ASSUME CacheInv, CreateIssue PROVE CacheInv'
<1>1. /\ ServerInv /\ SocketInv /\ QueryInv /\ MutationsInv
      /\ MyInv /\ WireInv /\ ListInv /\ PageInv
  BY InvParts
<1>2. PICK id \in Issues : Mutate("create", id, First, NoSnap)
  BY DEF CreateIssue
<1>3. UNCHANGED <<rows, born, outbox, pipe, registered, connected, query, mounted>>
  BY DEF CreateIssue, serverVars, socketVars
<1>4. First \in Status
  BY CacheAssumption DEF First
<1>5. MutationsInv' /\ Continued /\ events' \in Nat
  BY <1>1, <1>2, <1>3, <1>4, MutateFacts, SnapshotFacts
<1>6. MyStays /\ ListStays /\ PageStays
  BY <1>3, <1>5, QuietStays
<1>7. QueryInv' /\ ListInv' /\ MyInv' /\ PageInv'
  BY <1>1, <1>3, <1>6, SameQueries
<1> QED BY <1>1, <1>3, <1>5, <1>7, ClientStep DEF QueryInv

\* useUpdateIssue starts: until it settles the list need not be right, nor the page
\* of its issue.
LEMMA UpdateIssueStep ==
  ASSUME CacheInv, NEW id \in Issues, NEW to \in Status, UpdateIssue(id, to) PROVE CacheInv'
<1>1. /\ ServerInv /\ SocketInv /\ QueryInv /\ MutationsInv
      /\ MyInv /\ WireInv /\ ListInv /\ PageInv
  BY InvParts
<1> DEFINE l == query["list"]
           d == query["detail"]
           x == Patch(Cancel(l), PatchIssueInBuckets(l.data, id, [st |-> to]))
           y == IF id = Opened THEN Patch(d, Spread(d.data, [st |-> to])) ELSE d
           snap == [Snapshot(id) EXCEPT !.my = Absent]
<1>2. /\ Mutate("update", id, to, snap)
      /\ query' = [query EXCEPT !.list = x, !.detail = y]
      /\ UNCHANGED <<rows, born, outbox, pipe, registered, connected, mounted>>
  BY DEF UpdateIssue, serverVars, socketVars
<1>3. /\ l \in Query(SUBSET Row, Row) /\ d \in Query(OpenedRows, OpenedRows)
      /\ d.data # Absent \/ InFlight(d) => Opened \in born
  BY <1>1 DEF QueryInv, ListQuery, PageQuery
<1>4. /\ IsQueries(query') /\ query'["list"] = x /\ query'["my"] = query["my"]
      /\ query'["detail"] = y
  <2> HIDE DEF x, y
  <2> QED BY <1>1, <1>2 DEF QueryInv, IsQueries, Queries
<1>5. /\ MutationsInv' /\ Continued /\ events' \in Nat
      /\ \E m \in mutation' : m.kind = "update" /\ m.id = id
  <2>1. Kept(snap) /\ snap["my"] = Absent /\ (snap["detail"] # Absent => id = Opened /\ Opened \in born)
    BY <1>1, SnapshotFacts
  <2> HIDE DEF snap
  <2> QED BY <1>1, <1>2, <2>1, MutateFacts
<1>6. MyStays /\ ListStays /\ PageStays
  BY <1>2, <1>5, QuietStays
<1> HIDE DEF l, d, snap
<1>7. x \in ListQuery /\ ~Asked(x) /\ (Held(x) => ~x.inv)
  <2> DEFINE new == PatchIssueInBuckets(l.data, id, [st |-> to])
  <2>1. Cancel(l) \in Query(SUBSET Row, Row) /\ Cancel(l).data = l.data
    BY <1>3, CancelFacts
  <2>2. l.data # Absent => l.data \in SUBSET Row
    BY <1>3 DEF Query
  <2>3. Cancel(l).data # Absent => new \in SUBSET Row
    BY <2>1, <2>2, BucketTypes
  <2> HIDE DEF new
  <2>4. /\ Patch(Cancel(l), new) \in Query(SUBSET Row, Row)
        /\ ~Asked(Patch(Cancel(l), new))
        /\ Held(Patch(Cancel(l), new)) => ~Patch(Cancel(l), new).inv
    BY <2>1, <2>3, PatchFacts
  <2> QED BY <2>4 DEF ListQuery, new
<1> HIDE DEF x
<1>8. ListInv'
  <2>1. Unsettled'
    BY <1>5 DEF Unsettled
  <2> QED BY <1>4, <1>7, <2>1 DEF ListInv, Unobserved, ListHolds
<1>9. MyInv'
  BY <1>1, <1>2, <1>4, <1>6, SameHolds DEF MyInv, Unobserved
<1>10. CASE id = Opened
  <2> DEFINE new == Spread(d.data, [st |-> to])
  <2>1. d.data # Absent => d.data \in Row /\ d.data.id = Opened
    BY <1>3 DEF Query, OpenedRows
  <2>2. d.data # Absent => new \in OpenedRows
    <3>1. \A r \in Row : Spread(r, [st |-> to]) \in Row /\ Spread(r, [st |-> to]).id = r.id
      <4> SUFFICES ASSUME NEW r \in Row
                   PROVE  Spread(r, [st |-> to]) \in Row /\ Spread(r, [st |-> to]).id = r.id
        OBVIOUS
      <4>1. /\ Spread(r, [st |-> to]) = [id |-> r.id, st |-> to, meta |-> r.meta]
            /\ Spread(r, [st |-> to]) \in Row
        BY OverColumn
      <4> QED BY <4>1
    <3> QED BY <2>1, <3>1 DEF OpenedRows
  <2> HIDE DEF new
  <2>3. /\ Patch(d, new) \in Query(OpenedRows, OpenedRows)
        /\ ~Asked(Patch(d, new)) /\ (Held(Patch(d, new)) => ~Patch(d, new).inv)
        /\ Patch(d, new).data # Absent <=> (d.data # Absent /\ new # Absent)
        /\ InFlight(Patch(d, new)) <=> InFlight(d)
    BY <1>3, <2>2, PatchFacts
  <2>4. y = Patch(d, new)
    BY <1>10 DEF new
  <2> HIDE DEF y
  <2>5. y \in PageQuery /\ (y.data # Absent \/ InFlight(y) => Opened \in born)
    BY <1>3, <2>3, <2>4 DEF PageQuery
  <2>6. PageUnsettled'
    BY <1>5, <1>10 DEF PageUnsettled
  <2>7. PageInv'
    BY <1>4, <2>3, <2>4, <2>6 DEF PageInv, Unobserved, PageHolds
  <2> QED BY <1>1, <1>2, <1>4, <1>5, <1>7, <1>8, <1>9, <2>5, <2>7, ClientStep DEF QueryInv
<1>11. CASE id # Opened
  <2>1. y = d
    BY <1>11
  <2>2. PageInv'
    BY <1>1, <1>2, <1>4, <1>6, <2>1, SameHolds DEF PageInv, Unobserved, d
  <2> QED BY <1>1, <1>2, <1>4, <1>5, <1>7, <1>8, <1>9, <2>1, <2>2, ClientStep DEF QueryInv, d
<1> QED BY <1>10, <1>11

\* An issue is taken out of a list.
LEMMA PruneFacts ==
  ASSUME NEW q \in Query(SUBSET Row, Row), NEW id \in Issues
  PROVE  /\ Prune(q, id) \in Query(SUBSET Row, Row)
         /\ ~Asked(Prune(q, id))
         /\ Held(Prune(q, id)) => ~Prune(q, id).inv /\ q.data # Absent
<1> DEFINE new == RemoveIssueFromBuckets(q.data, id)
<1>1. q.data # Absent => q.data \in SUBSET Row
  BY DEF Query
<1>2. q.data # Absent => new \in SUBSET Row
  BY <1>1, BucketTypes
<1> HIDE DEF new
<1>3. /\ Patch(q, new) \in Query(SUBSET Row, Row)
      /\ ~Asked(Patch(q, new))
      /\ Held(Patch(q, new)) => ~Patch(q, new).inv
      /\ Patch(q, new).data # Absent <=> (q.data # Absent /\ new # Absent)
  BY <1>2, PatchFacts
<1>4. Held(Patch(q, new)) => Patch(q, new).data # Absent
  BY DEF Held
<1>5. Prune(q, id) = Patch(q, new)
  BY DEF Prune, new
<1> QED BY <1>3, <1>4, <1>5

\* useDeleteIssue starts: My Issues may be put back, unless collecting threw; then it
\* is the list that is read anew.
LEMMA DeleteIssueStep ==
  ASSUME CacheInv, NEW id \in Issues, DeleteIssue(id) PROVE CacheInv'
<1>1. /\ ServerInv /\ SocketInv /\ QueryInv /\ MutationsInv
      /\ MyInv /\ WireInv /\ ListInv /\ PageInv
  BY InvParts
<1> DEFINE l == query["list"]
           m == query["my"]
           d == query["detail"]
           list == Cancel(l)
           my == IF InFlight(m) THEN Because(Cancel(m), "cancelled") ELSE m
<1>2. UNCHANGED <<rows, born, outbox, pipe, registered, connected>>
  BY DEF DeleteIssue, serverVars, socketVars
<1>3. /\ l \in Query(SUBSET Row, Row) /\ m \in Query(SUBSET Row, Row)
      /\ d \in Query(OpenedRows, OpenedRows)
      /\ d.data # Absent \/ InFlight(d) => Opened \in born
  BY <1>1 DEF QueryInv, ListQuery, PageQuery
<1> HIDE DEF l, m, d
<1>4. list \in Query(SUBSET Row, Row)
  BY <1>3, CancelFacts
<1>5. /\ my \in Query(SUBSET Row, Row) /\ my.data = m.data
      /\ my = m \/ (~Held(my) /\ ~Asked(my))
  <2>1. Cancel(m) \in Query(SUBSET Row, Row) /\ ~InFlight(Cancel(m)) /\ Cancel(m).data = m.data
    BY <1>3, CancelFacts
  <2>2. "cancelled" \in Causes
    BY DEF Causes
  <2>3. /\ Because(Cancel(m), "cancelled") \in Query(SUBSET Row, Row)
        /\ ~Held(Because(Cancel(m), "cancelled"))
        /\ Because(Cancel(m), "cancelled").data = m.data
        /\ ~Asked(Because(Cancel(m), "cancelled"))
    BY <2>1, <2>2, BecauseFacts DEF Asked
  <2> QED BY <1>3, <2>3
<1> HIDE DEF list, my
<1>6. CASE CollectThrows
  <2> DEFINE active == "list" \in mounted
             x == Invalidate(list, active)
  <2>1. /\ query' = [query EXCEPT !.list = x, !.my = my] /\ UNCHANGED <<mounted, mutation>>
        /\ events' = events + 1
    BY <1>6 DEF DeleteIssue, Active, Happens, list, my, l, m
  <2>2. x \in Query(SUBSET Row, Row) /\ Stale(x, active)
    <3> HIDE DEF active
    <3> QED BY <1>4, InvalidateFacts
  <2>3. IsQueries(query') /\ query'["list"] = x /\ query'["my"] = my /\ query'["detail"] = d
    <3> HIDE DEF x
    <3> QED BY <1>1, <2>1 DEF QueryInv, IsQueries, Queries, d
  <2> HIDE DEF x
  <2>4. MyStays /\ ListStays /\ PageStays /\ MutationsInv' /\ events' \in Nat
    BY <1>1, <1>2, <2>1, QuietStays, TypesStay DEF SocketInv
  <2>5. ListInv'
    BY <2>1, <2>2, <2>3, StaleHolds
  <2>6. MyInv'
    <3>1. CASE my = m
      BY <1>1, <2>1, <2>3, <2>4, <3>1, SameHolds DEF MyInv, Unobserved, m
    <3>2. CASE ~Held(my) /\ ~Asked(my)
      BY <2>3, <3>2, StaleHolds DEF Stale
    <3> QED BY <1>5, <3>1, <3>2
  <2>7. PageInv'
    BY <1>1, <2>1, <2>3, <2>4, SameHolds DEF PageInv, Unobserved, d
  <2>8. x \in ListQuery /\ my \in ListQuery /\ d \in PageQuery
    BY <1>3, <1>5, <2>2 DEF ListQuery, PageQuery
  <2> QED BY <1>2, <1>3, <2>1, <2>3, <2>4, <2>5, <2>6, <2>7, <2>8, ClientStep
<1>7. CASE ~CollectThrows
  <2> DEFINE x == Prune(list, id)
             y == Prune(my, id)
             z == IF id = Opened THEN NoQuery ELSE d
             snap == Snapshot(id)
  <2>1. /\ Mutate("delete", id, First, snap)
        /\ query' = [list |-> x, my |-> y, detail |-> z]
        /\ mounted' = IF id = Opened THEN mounted \ {"detail"} ELSE mounted
    BY <1>7 DEF DeleteIssue, list, my, l, m, d
  <2>2. x \in Query(SUBSET Row, Row) /\ ~Asked(x) /\ (Held(x) => ~x.inv)
    BY <1>4, PruneFacts
  <2>3. y \in Query(SUBSET Row, Row) /\ ~Asked(y) /\ (Held(y) => ~y.inv /\ my.data # Absent)
    BY <1>5, PruneFacts
  <2>4. z \in PageQuery /\ (z.data # Absent \/ InFlight(z) => Opened \in born)
    BY <1>3, NoQueryFacts DEF PageQuery
  <2>5. Kept(snap) /\ snap["my"] = m.data /\ (snap["detail"] # Absent => id = Opened /\ Opened \in born)
    BY <1>1, SnapshotFacts DEF m
  <2> HIDE DEF x, y, z, snap
  <2>6. IsQueries(query') /\ query'["list"] = x /\ query'["my"] = y /\ query'["detail"] = z
    BY <2>1, ThreeQueries
  <2>7. First \in Status
    BY CacheAssumption DEF First
  <2>8. /\ MutationsInv' /\ Continued /\ events' \in Nat
        /\ \E t \in mutation' : t.kind = "delete" /\ t.id = id /\ t.snap = snap
    BY <1>1, <1>2, <2>1, <2>5, <2>7, MutateFacts
  <2>9. MyStays /\ ListStays /\ PageStays
    BY <1>2, <2>8, QuietStays
  <2>10. mounted' \subseteq mounted
    BY <2>1
  <2>11. ListInv'
    <3>1. Unsettled'
      BY <2>8 DEF Unsettled
    <3> QED BY <2>2, <2>6, <3>1 DEF ListInv, Unobserved, ListHolds
  <2>12. MyInv'
    <3>1. Held(y) => AwaitsRollback'
      BY <1>5, <2>3, <2>5, <2>8 DEF AwaitsRollback
    <3> QED BY <2>3, <2>6, <3>1 DEF MyInv, Unobserved, MyHolds, Settled
  <2>13. PageInv'
    <3>1. CASE id = Opened
      <4>1. z = NoQuery
        BY <3>1 DEF z
      <4> QED BY <2>6, <4>1, NoQueryFacts, StaleHolds DEF Stale
    <3>2. CASE id # Opened
      <4>1. z = d
        BY <3>2 DEF z
      <4> QED BY <1>1, <2>6, <2>9, <2>10, <4>1, SameHolds DEF PageInv, Unobserved, d
    <3> QED BY <3>1, <3>2
  <2>14. x \in ListQuery /\ y \in ListQuery
    BY <2>2, <2>3 DEF ListQuery
  <2> QED BY <1>2, <2>4, <2>6, <2>8, <2>10, <2>11, <2>12, <2>13, <2>14, ClientStep
<1> QED BY <1>6, <1>7

\* The server executes a request.
LEMMA ExecuteStep ==
  ASSUME CacheInv, NEW m \in mutation, Execute(m) PROVE CacheInv'
<1>1. /\ ServerInv /\ SocketInv /\ QueryInv /\ MutationsInv
      /\ MyInv /\ WireInv /\ ListInv /\ PageInv
  BY InvParts
<1>2. UNCHANGED <<pipe, registered, connected, query, mounted, events>>
  BY DEF Execute, socketVars
<1>3. m \in Mutations
  BY <1>1 DEF MutationsInv, MutationOK
<1> DEFINE made == [id |-> m.id, st |-> First, meta |-> 0]
<1>4. \/ Writes /\ (Become(m, "ok", made) \/ (m.kind # "create" /\ Become(m, "ok", Absent)))
      \/ Become(m, "failed", Absent) /\ UNCHANGED <<rows, born, outbox>>
  <2>1. CASE m.kind = "create" /\ m.id \notin born /\ Create(m.id) /\ Become(m, "ok", made)
    <3>1. m.id \in Issues \ born
      BY <1>3, <2>1 DEF Mutations
    <3>2. Writes
      BY <2>1, <3>1, CreateWrites
    <3> QED BY <2>1, <3>2
  <2>2. CASE m.kind = "update" /\ m.id \in Alive /\ Move(RowOf(m.id), m.to) /\ Become(m, "ok", Absent)
    <3>1. RowOf(m.id) \in rows /\ m.to \in Status
      BY <1>3, <2>2, RowOfFacts DEF Mutations
    <3>2. Writes
      BY <1>1, <2>2, <3>1, ChangeWrites
    <3> QED BY <2>2, <3>2
  <2>3. CASE m.kind = "delete" /\ m.id \in Alive /\ Delete(RowOf(m.id)) /\ Become(m, "ok", Absent)
    <3>1. RowOf(m.id) \in rows
      BY <2>3, RowOfFacts
    <3>2. Writes
      BY <1>1, <2>3, <3>1, ChangeWrites
    <3> QED BY <2>3, <3>2
  <2>4. CASE Become(m, "failed", Absent) /\ UNCHANGED serverVars
    BY <2>4 DEF serverVars
  <2> QED BY <2>1, <2>2, <2>3, <2>4 DEF Execute
<1>5. made \in Row
  BY <1>3, CacheAssumption DEF Row, First, Mutations
<1> HIDE DEF made
<1>6. ServerInv' /\ born \subseteq born'
  <2>1. CASE Writes
    BY <1>1, <1>2, <2>1, WroteTypes
  <2>2. CASE UNCHANGED <<rows, born, outbox>>
    BY <1>1, <1>2, <2>2, TypesStay
  <2> QED BY <1>4, <2>1, <2>2
<1>7. MutationsInv' /\ Continued
  <2>1. CASE Become(m, "ok", made)
    BY <1>1, <1>5, <1>6, <2>1, BecomeFacts
  <2>2. CASE m.kind # "create" /\ Become(m, "ok", Absent)
    BY <1>1, <1>6, <2>2, BecomeFacts
  <2>3. CASE Become(m, "failed", Absent)
    BY <1>1, <1>6, <2>3, BecomeFacts
  <2> QED BY <1>4, <2>1, <2>2, <2>3
<1>8. WireInv' /\ MyStays /\ ListStays /\ PageStays
  <2>1. CASE Writes
    BY <1>1, <1>2, <1>7, <2>1, WroteWire, WroteStays
  <2>2. CASE UNCHANGED <<rows, born, outbox>>
    BY <1>1, <1>2, <1>7, <2>2, QuietStays
  <2> QED BY <1>4, <2>1, <2>2
<1>9. SocketInv'
  BY <1>1, <1>2, <1>6, TypesStay
<1>10. QueryInv' /\ ListInv' /\ MyInv' /\ PageInv'
  BY <1>1, <1>2, <1>6, <1>8, SameQueries
<1> QED BY <1>6, <1>7, <1>8, <1>9, <1>10, InvParts_

\* A request fails, or its answer.
LEMMA RequestFailsStep ==
  ASSUME CacheInv, NEW m \in mutation, RequestFails(m) PROVE CacheInv'
<1>1. /\ ServerInv /\ SocketInv /\ QueryInv /\ MutationsInv
      /\ MyInv /\ WireInv /\ ListInv /\ PageInv
  BY InvParts
<1>2. /\ UNCHANGED <<rows, born, outbox, pipe, registered, connected, query, mounted>>
      /\ Become(m, "failed", Absent) /\ events' \in Nat
  BY <1>1 DEF RequestFails, serverVars, socketVars, Happens, SocketInv
<1>3. MutationsInv' /\ Continued
  BY <1>1, <1>2, BecomeFacts
<1>4. MyStays /\ ListStays /\ PageStays
  BY <1>2, <1>3, QuietStays
<1>5. QueryInv' /\ ListInv' /\ MyInv' /\ PageInv'
  BY <1>1, <1>2, <1>4, SameQueries
<1> QED BY <1>1, <1>2, <1>3, <1>5, ClientStep DEF QueryInv

\* What onSuccess or onError leaves of the queries.
Resolved(Q, m) ==
  /\ IsQueries(Q)
  /\ Q["list"] \in ListQuery /\ Q["my"] \in ListQuery /\ Q["detail"] \in PageQuery
  /\ Q["detail"].data # Absent \/ InFlight(Q["detail"]) => Opened \in born
  /\ \/ Stale(Q["my"], "my" \in mounted)
     \/ Q["my"] = query["my"] /\ m.snap["my"] = Absent
  /\ \/ Stale(Q["detail"], "detail" \in mounted)
     \/ Q["detail"] = query["detail"]
     \/ m.kind = "update" /\ m.id = Opened

\* The clean-up of a delete.
LEMMA CleanupFacts ==
  ASSUME QueryInv, NEW id \in Issues, NEW Q, Q = CleanupDeletedIssueCaches(id)
  PROVE  /\ IsQueries(Q)
         /\ Q["list"] \in ListQuery /\ Stale(Q["list"], "list" \in mounted)
         /\ Q["my"] \in ListQuery /\ Stale(Q["my"], "my" \in mounted)
         /\ Q["detail"] = IF id = Opened THEN NoQuery ELSE query["detail"]
<1> DEFINE x == Prune(query["list"], id)
           y == Prune(query["my"], id)
           a == "list" \in mounted
           b == "my" \in mounted
<1>1. query["list"] \in Query(SUBSET Row, Row) /\ query["my"] \in Query(SUBSET Row, Row)
  BY DEF QueryInv, ListQuery
<1>2. x \in Query(SUBSET Row, Row) /\ y \in Query(SUBSET Row, Row)
  BY <1>1, PruneFacts
<1>3. Q = [list |-> Invalidate(x, a), my |-> Invalidate(y, b),
           detail |-> IF id = Opened THEN NoQuery ELSE query["detail"]]
  BY DEF CleanupDeletedIssueCaches, Active
<1> HIDE DEF x, y, a, b
<1>4. /\ Invalidate(x, a) \in Query(SUBSET Row, Row) /\ Stale(Invalidate(x, a), a)
      /\ Invalidate(y, b) \in Query(SUBSET Row, Row) /\ Stale(Invalidate(y, b), b)
  BY <1>2, InvalidateFacts
<1> DEFINE u == Invalidate(x, a)
           v == Invalidate(y, b)
           w == IF id = Opened THEN NoQuery ELSE query["detail"]
<1> HIDE DEF u, v, w
<1>5. Q = [list |-> u, my |-> v, detail |-> w]
  BY <1>3 DEF u, v, w
<1>6. IsQueries(Q) /\ Q["list"] = u /\ Q["my"] = v /\ Q["detail"] = w
  BY <1>5, ThreeQueries
<1>7. /\ u \in Query(SUBSET Row, Row) /\ Stale(u, a)
      /\ v \in Query(SUBSET Row, Row) /\ Stale(v, b)
  BY <1>4 DEF u, v
<1>8. u \in ListQuery /\ v \in ListQuery
  BY <1>7 DEF ListQuery
<1> QED BY <1>6, <1>7, <1>8 DEF w, a, b

\* onSuccess.
LEMMA SucceededFacts ==
  ASSUME QueryInv, NEW m, MutationOK(m), m.phase = "ok", NEW Q, Q = Succeeded(m)
  PROVE  Resolved(Q, m)
<1>1. /\ m.kind \in {"create", "update", "delete"} /\ m.id \in Issues
      /\ m.kind = "create" => m.row \in Row
      /\ m.kind # "delete" => m.snap["my"] = Absent
  BY DEF MutationOK, Mutations
<1>2. /\ IsQueries(query)
      /\ query["list"] \in ListQuery /\ query["my"] \in ListQuery /\ query["detail"] \in PageQuery
      /\ query["detail"].data # Absent \/ InFlight(query["detail"]) => Opened \in born
  BY DEF QueryInv
<1>3. CASE m.kind = "create"
  <2> DEFINE l == query["list"]
             new == AddIssueToBuckets(l.data, m.row)
             x == Patch(l, new)
  <2>1. Q = [query EXCEPT !.list = x]
    BY <1>3 DEF Succeeded
  <2>2. l \in Query(SUBSET Row, Row)
    BY <1>2 DEF ListQuery
  <2> HIDE DEF l
  <2>3. l.data # Absent => new \in SUBSET Row
    BY <1>1, <1>3, <2>2 DEF Query, AddIssueToBuckets
  <2> HIDE DEF new
  <2>4. x \in ListQuery
    BY <2>2, <2>3, PatchFacts DEF ListQuery
  <2> HIDE DEF x
  <2>5. IsQueries(Q) /\ Q["list"] = x /\ Q["my"] = query["my"] /\ Q["detail"] = query["detail"]
    BY <1>2, <2>1 DEF IsQueries, Queries
  <2> QED BY <1>1, <1>2, <1>3, <2>4, <2>5 DEF Resolved
<1>4. CASE m.kind = "update"
  <2>1. Q = query
    BY <1>4 DEF Succeeded
  <2> QED BY <1>1, <1>2, <1>4, <2>1 DEF Resolved
<1>5. CASE m.kind = "delete"
  <2>1. Q = CleanupDeletedIssueCaches(m.id)
    BY <1>5 DEF Succeeded
  <2>2. /\ IsQueries(Q)
        /\ Q["list"] \in ListQuery /\ Q["my"] \in ListQuery
        /\ Stale(Q["my"], "my" \in mounted)
        /\ Q["detail"] = IF m.id = Opened THEN NoQuery ELSE query["detail"]
    BY <1>1, <2>1, CleanupFacts
  <2>3. NoQuery \in PageQuery /\ Stale(NoQuery, "detail" \in mounted)
        /\ NoQuery.data = Absent /\ ~InFlight(NoQuery)
    BY NoQueryFacts DEF PageQuery, Stale
  <2> QED BY <1>2, <2>2, <2>3 DEF Resolved
<1> QED BY <1>1, <1>3, <1>4, <1>5

\* onError.
LEMMA RolledBackFacts ==
  ASSUME QueryInv, NEW m, MutationOK(m), NEW Q, Q = RolledBack(query, m)
  PROVE  Resolved(Q, m)
<1> DEFINE l == query["list"]
           y == query["my"]
           d == query["detail"]
           sl == m.snap["list"]
           sy == m.snap["my"]
           sd == m.snap["detail"]
<1>1. /\ m.kind \in {"create", "update", "delete"} /\ m.id \in Issues
      /\ sl \in (SUBSET Row) \cup {Absent} /\ sy \in (SUBSET Row) \cup {Absent}
      /\ sd \in OpenedRows \cup {Absent}
      /\ sd # Absent => (m.kind # "create" /\ m.id = Opened /\ Opened \in born)
  BY DEF MutationOK, Mutations
<1>2. /\ l \in Query(SUBSET Row, Row) /\ y \in Query(SUBSET Row, Row)
      /\ d \in Query(OpenedRows, OpenedRows)
      /\ d.data # Absent \/ InFlight(d) => Opened \in born
  BY DEF QueryInv, ListQuery, PageQuery
<1> DEFINE u == Restore(l, sl)
           v == RestoreUnflagged(y, sy)
           w == IF m.kind = "delete" THEN RestoreUnflagged(d, sd) ELSE Restore(d, sd)
<1>3. Q = [list |-> u, my |-> v, detail |-> w]
  BY DEF RolledBack
<1> HIDE DEF l, y, d, sl, sy, sd
<1>4. u \in ListQuery
  BY <1>1, <1>2, RestoreFacts DEF ListQuery
<1>5. v \in ListQuery /\ (Stale(v, "my" \in mounted) \/ (v = y /\ sy = Absent))
  BY <1>1, <1>2, RestoreUnflaggedFacts DEF ListQuery, Stale
<1>6. /\ w \in PageQuery
      /\ Stale(w, "detail" \in mounted) \/ w = d \/ (m.kind = "update" /\ m.id = Opened)
      /\ w.data # Absent \/ InFlight(w) => Opened \in born
  <2>1. CASE sd = Absent
    <3>1. w = d
      BY <1>1, <1>2, <2>1, RestoreFacts, RestoreUnflaggedFacts
    <3> HIDE DEF w
    <3> QED BY <1>2, <3>1 DEF PageQuery
  <2>2. CASE sd # Absent
    <3>1. Opened \in born /\ (m.kind = "delete" \/ (m.kind = "update" /\ m.id = Opened))
      BY <1>1, <2>2
    <3>2. /\ RestoreUnflagged(d, sd) \in Query(OpenedRows, OpenedRows)
          /\ ~Held(RestoreUnflagged(d, sd)) /\ ~Asked(RestoreUnflagged(d, sd))
          /\ Restore(d, sd) \in Query(OpenedRows, OpenedRows)
      BY <1>1, <1>2, <2>2, RestoreFacts, RestoreUnflaggedFacts
    <3> QED BY <3>1, <3>2 DEF PageQuery, Stale
  <2> QED BY <2>1, <2>2
<1> HIDE DEF u, v, w
<1>7. IsQueries(Q) /\ Q["list"] = u /\ Q["my"] = v /\ Q["detail"] = w
  BY <1>3, ThreeQueries
<1> QED BY <1>4, <1>5, <1>6, <1>7 DEF Resolved, y, d, sy

\* A mutation is over: who relied on it?
LEMMA SettledStays ==
  ASSUME UNCHANGED <<rows, outbox, pipe>>, NEW m \in mutation, mutation' = mutation \ {m}
  PROVE  /\ m.snap["my"] = Absent => MyStays
         /\ ~(m.kind = "update" /\ m.id = Opened) => PageStays
<1>1. ASSUME m.snap["my"] = Absent PROVE MyStays
  <2>1. AwaitsRollback => AwaitsRollback'
    BY <1>1 DEF AwaitsRollback
  <2>2. Pending => Pending'
    BY DEF Pending
  <2> QED BY <2>1, <2>2 DEF MyStays, MyHolds, MyReads, Column
<1>2. ASSUME ~(m.kind = "update" /\ m.id = Opened) PROVE PageStays
  <2>1. Wire' = Wire
    BY DEF Wire
  <2>2. PageUnsettled => PageUnsettled'
    BY <1>2, <2>1 DEF PageUnsettled
  <2>3. \A d : AgreesPage(d) => AgreesPage(d)'
    BY <2>1 DEF AgreesPage, Due
  <2> QED BY <2>2, <2>3 DEF PageStays, PageHolds, PageReads
<1> QED BY <1>1, <1>2

\* The callbacks of a mutation run.
LEMMA SettleStep ==
  ASSUME CacheInv, NEW m \in mutation, Settle(m) PROVE CacheInv'
<1>1. /\ ServerInv /\ SocketInv /\ QueryInv /\ MutationsInv
      /\ MyInv /\ WireInv /\ ListInv /\ PageInv
  BY InvParts
<1>2. MutationOK(m)
  BY <1>1 DEF MutationsInv
<1>3. PICK Q : Q = IF m.phase = "ok" THEN Succeeded(m) ELSE RolledBack(query, m)
  OBVIOUS
<1>4. Resolved(Q, m)
  BY <1>1, <1>2, <1>3, SucceededFacts, RolledBackFacts
<1> DEFINE a == "list" \in mounted
           b == "detail" \in mounted
           x == Invalidate(Q["list"], a)
           z == IF m.kind = "update" /\ m.id = Opened THEN Invalidate(Q["detail"], b) ELSE Q["detail"]
<1>5. /\ UNCHANGED <<rows, born, outbox, pipe, registered, connected, events>>
      /\ mutation' = mutation \ {m}
      /\ mounted' \subseteq mounted
      /\ query' = OnSettled(Q, m)
  BY <1>3 DEF Settle, serverVars, socketVars
<1>6. IsQueries(query') /\ query'["list"] = x /\ query'["my"] = Q["my"] /\ query'["detail"] = z
  <2>1. query' = [Q EXCEPT !.list = x, !.detail = z]
    BY <1>5 DEF OnSettled, Active
  <2>2. IsQueries(Q)
    BY <1>4 DEF Resolved
  <2> HIDE DEF x, z
  <2> QED BY <2>1, <2>2 DEF IsQueries, Queries
<1>7. /\ Q["list"] \in Query(SUBSET Row, Row) /\ Q["detail"] \in Query(OpenedRows, OpenedRows)
      /\ Q["my"] \in ListQuery
      /\ Q["detail"].data # Absent \/ InFlight(Q["detail"]) => Opened \in born
  BY <1>4 DEF Resolved, ListQuery, PageQuery
<1>8. x \in ListQuery /\ Stale(x, a)
  <2> HIDE DEF a
  <2> QED BY <1>7, InvalidateFacts DEF ListQuery
<1>9. /\ z \in PageQuery
      /\ Stale(z, b) \/ (z = query["detail"] /\ ~(m.kind = "update" /\ m.id = Opened))
      /\ z.data # Absent \/ InFlight(z) => Opened \in born
  <2>1. b => Opened \in born
    BY <1>1 DEF SocketInv
  <2>2. Stale(Q["detail"], b) \/ Q["detail"] = query["detail"] \/ (m.kind = "update" /\ m.id = Opened)
    BY <1>4 DEF Resolved
  <2> HIDE DEF b
  <2>3. CASE m.kind = "update" /\ m.id = Opened
    <3> DEFINE q == Q["detail"]
               t == Invalidate(q, b)
    <3>0. q \in Query(OpenedRows, OpenedRows) /\ (q.data # Absent \/ InFlight(q) => Opened \in born)
      BY <1>7
    <3> HIDE DEF q
    <3>1. /\ t \in Query(OpenedRows, OpenedRows) /\ Stale(t, b)
          /\ t.data = q.data /\ (InFlight(t) => InFlight(q) \/ b)
      BY <3>0, InvalidateFacts
    <3>2. z = t
      BY <2>3 DEF q
    <3> HIDE DEF t, z
    <3> QED BY <3>0, <2>1, <3>1, <3>2 DEF PageQuery
  <2>4. CASE ~(m.kind = "update" /\ m.id = Opened)
    <3>1. z = Q["detail"]
      BY <2>4
    <3> HIDE DEF z
    <3> QED BY <1>7, <2>2, <2>4, <3>1 DEF PageQuery
  <2> QED BY <2>3, <2>4
<1> HIDE DEF x, z
<1>10. MutationsInv' /\ events' \in Nat
  BY <1>1, <1>5, TypesStay DEF SocketInv
<1>11. ListInv'
  <2>1. Stale(query'["list"], "list" \in mounted')
    BY <1>5, <1>6, <1>8 DEF Stale
  <2> QED BY <2>1, StaleHolds
<1>12. MyInv'
  <2>1. CASE Stale(Q["my"], "my" \in mounted)
    <3>1. Stale(query'["my"], "my" \in mounted')
      BY <1>5, <1>6, <2>1 DEF Stale
    <3> QED BY <3>1, StaleHolds
  <2>2. CASE Q["my"] = query["my"] /\ m.snap["my"] = Absent
    <3>1. MyStays
      BY <1>5, <2>2, SettledStays
    <3> QED BY <1>1, <1>5, <1>6, <2>2, <3>1, SameHolds DEF MyInv, Unobserved
  <2> QED BY <1>4, <2>1, <2>2 DEF Resolved
<1>13. PageInv'
  <2>1. CASE Stale(z, b)
    <3>1. Stale(query'["detail"], "detail" \in mounted')
      BY <1>5, <1>6, <2>1 DEF Stale
    <3> QED BY <3>1, StaleHolds
  <2>2. CASE z = query["detail"] /\ ~(m.kind = "update" /\ m.id = Opened)
    <3>1. PageStays
      BY <1>5, <2>2, SettledStays
    <3> QED BY <1>1, <1>5, <1>6, <2>2, <3>1, SameHolds DEF PageInv, Unobserved
  <2> QED BY <1>9, <2>1, <2>2
<1> QED BY <1>5, <1>6, <1>7, <1>8, <1>9, <1>10, <1>11, <1>12, <1>13, ClientStep

-----------------------------------------------------------------------------
(* A frame is handled *)

\* e was the first of the frames to come; the others are still to come.
Handling(e) ==
  /\ e \in Event /\ 1 \in DOMAIN Wire /\ Wire[1] = e
  /\ \A n \in DOMAIN Wire : n = 1 \/ (n > 1 /\ \E j \in DOMAIN Wire' : Wire'[j] = Wire[n])

\* What the frames after e still promise.
LEMMA LaterFrames ==
  ASSUME UNCHANGED <<rows, mutation>>, NEW e, Handling(e)
  PROVE  /\ \A id, T : Due(id, T) /\ ~(e.row.id = id /\ e.type \in T) => Due(id, T)'
         /\ \A T : ~NoneAfter(1, T) => \E k \in DOMAIN Wire :
                k > 1 /\ Wire[k].row.id = e.row.id /\ Wire[k].type \in T
                /\ \E j \in DOMAIN Wire' : Wire'[j] = Wire[k]
         /\ Unsettled /\ ~e.late /\ e.type \notin {"updated", "deleted"} => Unsettled'
         /\ PageUnsettled /\ ~(e.late /\ e.row.id = Opened /\ e.type \in {"updated", "metadata"})
              => PageUnsettled'
         /\ e.type \in {"created", "deleted"} \/ e.row.id # Opened => PageStays
<1>1. /\ 1 \in DOMAIN Wire /\ Wire[1] = e
      /\ \A n \in DOMAIN Wire : n = 1 \/ (n > 1 /\ \E j \in DOMAIN Wire' : Wire'[j] = Wire[n])
  BY DEF Handling
<1>2. ASSUME NEW id, NEW T, Due(id, T), ~(e.row.id = id /\ e.type \in T) PROVE Due(id, T)'
  <2>1. PICK n \in DOMAIN Wire : Wire[n].row.id = id /\ Wire[n].type \in T
    BY <1>2 DEF Due
  <2>2. n # 1
    BY <1>1, <1>2, <2>1
  <2>3. PICK j \in DOMAIN Wire' : Wire'[j] = Wire[n]
    BY <1>1, <2>2
  <2>4. \E i \in DOMAIN Wire' : Wire'[i].row.id = id /\ Wire'[i].type \in T
    BY <2>1, <2>3
  <2> QED BY <2>4 DEF Due
<1>3. ASSUME NEW T, ~NoneAfter(1, T)
      PROVE  \E k \in DOMAIN Wire :
                k > 1 /\ Wire[k].row.id = e.row.id /\ Wire[k].type \in T
                /\ \E j \in DOMAIN Wire' : Wire'[j] = Wire[k]
  <2>1. PICK k \in DOMAIN Wire : k > 1 /\ Wire[k].row.id = Wire[1].row.id /\ Wire[k].type \in T
    BY <1>3 DEF NoneAfter
  <2>2. k # 1
    BY <2>1
  <2>3. \E j \in DOMAIN Wire' : Wire'[j] = Wire[k]
    BY <1>1, <2>2
  <2> QED BY <1>1, <2>1, <2>3
<1>4. ASSUME Unsettled, ~e.late, e.type \notin {"updated", "deleted"} PROVE Unsettled'
  <2>1. CASE mutation # {}
    BY <2>1 DEF Unsettled
  <2>2. CASE \E n \in DOMAIN Wire : Wire[n].late \/ Wire[n].type \in {"updated", "deleted"}
    <3>1. PICK n \in DOMAIN Wire : Wire[n].late \/ Wire[n].type \in {"updated", "deleted"}
      BY <2>2
    <3>2. PICK j \in DOMAIN Wire' : Wire'[j] = Wire[n]
      BY <1>1, <1>4, <3>1
    <3> QED BY <3>1, <3>2 DEF Unsettled
  <2> QED BY <1>4, <2>1, <2>2 DEF Unsettled
<1>5. ASSUME PageUnsettled, ~(e.late /\ e.row.id = Opened /\ e.type \in {"updated", "metadata"})
      PROVE  PageUnsettled'
  <2>1. CASE \E m \in mutation : m.kind = "update" /\ m.id = Opened
    BY <2>1 DEF PageUnsettled
  <2>2. CASE \E n \in DOMAIN Wire :
               Wire[n].late /\ Wire[n].row.id = Opened /\ Wire[n].type \in {"updated", "metadata"}
    <3>1. PICK n \in DOMAIN Wire :
               Wire[n].late /\ Wire[n].row.id = Opened /\ Wire[n].type \in {"updated", "metadata"}
      BY <2>2
    <3>2. PICK j \in DOMAIN Wire' : Wire'[j] = Wire[n]
      BY <1>1, <1>5, <3>1
    <3> QED BY <3>1, <3>2 DEF PageUnsettled
  <2> QED BY <1>5, <2>1, <2>2 DEF PageUnsettled
<1>6. ASSUME e.type \in {"created", "deleted"} \/ e.row.id # Opened PROVE PageStays
  <2>1. /\ Due(Opened, {"updated"}) => Due(Opened, {"updated"})'
        /\ Due(Opened, {"updated", "metadata"}) => Due(Opened, {"updated", "metadata"})'
    BY <1>2, <1>6
  <2>2. \A d : AgreesPage(d) => AgreesPage(d)'
    BY <2>1 DEF AgreesPage
  <2>3. PageUnsettled => PageUnsettled'
    BY <1>5, <1>6
  <2> QED BY <2>2, <2>3 DEF PageStays, PageHolds, PageReads
<1> QED BY <1>2, <1>3, <1>4, <1>5, <1>6

\* A frame in time says what the server has, or a later frame does.
LEMMA SaysRow ==
  ASSUME WireInv, UNCHANGED <<rows, mutation>>, NEW e, Handling(e), ~e.late, e.type # "deleted",
         \A r, t \in rows : r.id = t.id => r = t, NEW r \in rows, r.id = e.row.id
  PROVE  /\ r.st = e.row.st \/ Due(e.row.id, {"updated"})'
         /\ r = e.row \/ Due(e.row.id, {"updated", "metadata"})'
<1>1. 1 \in DOMAIN Wire /\ Wire[1] = e
  BY DEF Handling
<1>2. /\ NoneAfter(1, {"updated", "deleted"}) =>
           \E t \in rows : t.id = Wire[1].row.id /\ t.st = Wire[1].row.st
      /\ NoneAfter(1, {"updated", "deleted", "metadata"}) => Wire[1].row \in rows
  BY <1>1 DEF WireInv
<1>3. \A k \in DOMAIN Wire : Wire[k].row.id = e.row.id => Wire[k].type # "deleted"
  BY DEF WireInv, Alive
<1>4. ASSUME ~NoneAfter(1, {"updated", "deleted"}) PROVE Due(e.row.id, {"updated"})'
  <2>1. PICK k \in DOMAIN Wire : /\ Wire[k].row.id = e.row.id /\ Wire[k].type \in {"updated", "deleted"}
                                 /\ \E j \in DOMAIN Wire' : Wire'[j] = Wire[k]
    BY <1>4, LaterFrames
  <2>2. PICK j \in DOMAIN Wire' : Wire'[j] = Wire[k]
    BY <2>1
  <2>3. Wire'[j].row.id = e.row.id /\ Wire'[j].type \in {"updated"}
    BY <1>3, <2>1, <2>2
  <2> QED BY <2>3 DEF Due
<1>5. ASSUME ~NoneAfter(1, {"updated", "deleted", "metadata"})
      PROVE  Due(e.row.id, {"updated", "metadata"})'
  <2>1. PICK k \in DOMAIN Wire :
          /\ Wire[k].row.id = e.row.id /\ Wire[k].type \in {"updated", "deleted", "metadata"}
          /\ \E j \in DOMAIN Wire' : Wire'[j] = Wire[k]
    BY <1>5, LaterFrames
  <2>2. PICK j \in DOMAIN Wire' : Wire'[j] = Wire[k]
    BY <2>1
  <2>3. Wire'[j].row.id = e.row.id /\ Wire'[j].type \in {"updated", "metadata"}
    BY <1>3, <2>1, <2>2
  <2> QED BY <2>3 DEF Due
<1> QED BY <1>1, <1>2, <1>4, <1>5

\* While only frames in time of creations and of metadata are to come, the server
\* has the issue of the first in the column that it names, and there as it names it,
\* or with metadata that a later frame brings.
LEMMA SaysBucket ==
  ASSUME ServerInv, WireInv, UNCHANGED <<rows, mutation>>, NEW e, Handling(e), ~Unsettled,
         NEW s \in Status
  PROVE  /\ s # e.row.st => InBucket(rows, e.row.id, s) = {}
         /\ s = e.row.st => /\ InBucket(rows, e.row.id, s) # {}
                            /\ \/ InBucket(rows, e.row.id, s) = {e.row}
                               \/ Due(e.row.id, {"metadata"})'
<1>1. 1 \in DOMAIN Wire /\ Wire[1] = e
  BY DEF Handling
<1>2. \A n \in DOMAIN Wire : ~Wire[n].late /\ Wire[n].type \notin {"updated", "deleted"}
  BY DEF Unsettled
<1>3. ~e.late /\ e.type # "deleted" /\ NoneAfter(1, {"updated", "deleted"})
  BY <1>1, <1>2 DEF NoneAfter
<1>4. PICK r \in rows : r.id = e.row.id /\ r.st = e.row.st
  BY <1>1, <1>3 DEF WireInv
<1>5. \A t \in rows : t.id = e.row.id => t = r
  BY <1>4 DEF ServerInv
<1>6. \A t : t \in InBucket(rows, e.row.id, s) <=> t \in rows /\ t.id = e.row.id /\ t.st = s
  BY DEF InBucket, Copies
<1>7. s # e.row.st => InBucket(rows, e.row.id, s) = {}
  BY <1>4, <1>5, <1>6
<1>8. s = e.row.st => InBucket(rows, e.row.id, s) = {r}
  <2>1. s = e.row.st => \A t : t \in InBucket(rows, e.row.id, s) <=> t = r
    BY <1>4, <1>5, <1>6
  <2> QED BY <2>1 DEF InBucket
<1>9. ASSUME r # e.row PROVE Due(e.row.id, {"metadata"})'
  <2>1. e.row \notin rows
    BY <1>5, <1>9
  <2>2. ~NoneAfter(1, {"updated", "deleted", "metadata"})
    BY <1>1, <1>3, <2>1 DEF WireInv
  <2>3. PICK k \in DOMAIN Wire :
          /\ Wire[k].row.id = e.row.id /\ Wire[k].type \in {"updated", "deleted", "metadata"}
          /\ \E j \in DOMAIN Wire' : Wire'[j] = Wire[k]
    BY <2>2, LaterFrames
  <2>4. PICK j \in DOMAIN Wire' : Wire'[j] = Wire[k]
    BY <2>3
  <2>5. Wire'[j].row.id = e.row.id /\ Wire'[j].type \in {"metadata"}
    BY <1>2, <2>3, <2>4
  <2> QED BY <2>5 DEF Due
<1> QED BY <1>7, <1>8, <1>9

\* The new issue joins the list.
LEMMA CreationHandled ==
  ASSUME ServerInv, WireInv, UNCHANGED <<rows, mutation>>, NEW e, Handling(e),
         e.type = "created", ~e.late, NEW D \in SUBSET Row, ListHolds(D),
         NEW N, N = AddIssueToBuckets(D, e.row)
  PROVE  ListHolds(N)'
<1>1. Unsettled => Unsettled'
  BY LaterFrames
<1>2. e.row \in Row /\ e.row.id \in Issues
  BY DEF Handling, Event, Row
<1>3. ASSUME ~Unsettled, NEW id \in Issues, NEW s \in Status PROVE AgreesOn(N, id, s)'
  <2> DEFINE was == InBucket(D, id, s)
             shown == InBucket(N, id, s)
             has == InBucket(rows, id, s)
  <2>1. \/ was = has
        \/ has # {} /\ ((was = {} /\ Due(id, {"created"}))
                        \/ ((\E t \in Row : was = {t}) /\ Due(id, {"metadata"})))
    <3>1. AgreesOn(D, id, s)
      BY <1>3 DEF ListHolds, Agrees
    <3> QED BY <3>1 DEF AgreesOn
  <2>2. shown = IF id = e.row.id /\ s = e.row.st /\ was = {} THEN {e.row} ELSE was
    BY <1>2, AddedIssue
  <2>3. Due(id, {"metadata"}) => Due(id, {"metadata"})'
    BY LaterFrames
  <2>4. id # e.row.id /\ Due(id, {"created"}) => Due(id, {"created"})'
    BY LaterFrames
  <2>5. SUFFICES \/ shown = has
                 \/ has # {} /\ ((shown = {} /\ Due(id, {"created"})')
                                 \/ ((\E t \in Row : shown = {t}) /\ Due(id, {"metadata"})'))
    BY DEF AgreesOn, InBucket, Copies
  <2>6. /\ id = e.row.id /\ s # e.row.st => has = {}
        /\ id = e.row.id /\ s = e.row.st =>
             has # {} /\ (has = {e.row} \/ Due(id, {"metadata"})')
    BY <1>3, SaysBucket
  <2> HIDE DEF was, shown, has
  <2>7. CASE id # e.row.id
    BY <2>1, <2>2, <2>3, <2>4, <2>7
  <2>8. CASE id = e.row.id /\ s # e.row.st
    BY <2>1, <2>2, <2>6, <2>8
  <2>9. CASE id = e.row.id /\ s = e.row.st
    BY <1>2, <2>1, <2>2, <2>3, <2>6, <2>9
  <2> QED BY <2>7, <2>8, <2>9
<1>4. ~Unsettled => \A s \in Status : Agrees(N, s)'
  BY <1>3 DEF Agrees
<1> QED BY <1>1, <1>4 DEF ListHolds

\* The new metadata reaches the list.
LEMMA MetadataHandled ==
  ASSUME ServerInv, WireInv, UNCHANGED <<rows, mutation>>, NEW e, Handling(e),
         e.type = "metadata", ~e.late, NEW D \in SUBSET Row, ListHolds(D),
         NEW N, N = PatchIssueInBuckets(D, e.row.id, [meta |-> e.row.meta])
  PROVE  ListHolds(N)'
<1>1. Unsettled => Unsettled'
  BY LaterFrames
<1>2. /\ e.row \in Row /\ e.row.id \in Issues /\ e.row.st \in Status /\ e.row.meta \in {0, 1}
      /\ e.row = [id |-> e.row.id, st |-> e.row.st, meta |-> e.row.meta]
  BY DEF Handling, Event, Row
<1>3. ASSUME ~Unsettled PROVE \A r \in Copies(D, e.row.id) : r.st = e.row.st
  <2> SUFFICES ASSUME NEW r \in Copies(D, e.row.id), r.st # e.row.st PROVE FALSE
    OBVIOUS
  <2>1. r \in Row /\ r.st \in Status /\ r \in InBucket(D, e.row.id, r.st)
    BY DEF Copies, InBucket, Row
  <2>2. InBucket(rows, e.row.id, r.st) = {}
    BY <1>3, <2>1, SaysBucket
  <2>3. AgreesOn(D, e.row.id, r.st)
    BY <1>2, <1>3, <2>1 DEF ListHolds, Agrees
  <2> QED BY <2>1, <2>2, <2>3 DEF AgreesOn
<1>4. ASSUME ~Unsettled, NEW id \in Issues, NEW s \in Status PROVE AgreesOn(N, id, s)'
  <2> DEFINE was == InBucket(D, id, s)
             shown == InBucket(N, id, s)
             has == InBucket(rows, id, s)
  <2>1. \/ was = has
        \/ has # {} /\ ((was = {} /\ Due(id, {"created"}))
                        \/ ((\E t \in Row : was = {t}) /\ Due(id, {"metadata"})))
    <3>1. AgreesOn(D, id, s)
      BY <1>4 DEF ListHolds, Agrees
    <3> QED BY <3>1 DEF AgreesOn
  <2>2. /\ ~(id = e.row.id /\ s = e.row.st) => shown = was
        /\ id = e.row.id /\ s = e.row.st /\ was # {} => shown = {e.row}
    <3>1. N = Annotated(D, e.row.id, e.row.meta) /\ e.row = Noted(e.row.id, e.row.st, e.row.meta)
      BY <1>2 DEF Annotated, Noted
    <3>2. OnlyIn(D, e.row.id, e.row.st)
      BY <1>3, <1>4 DEF OnlyIn
    <3>3. AnnotatedThere(D, e.row.id, e.row.meta, e.row.st)
      <4>1. e.row.meta \in Notes
        BY <1>2 DEF Notes
      <4>2. e.row.id \in Issues /\ e.row.st \in Status
        BY <1>2
      <4> QED BY <3>2, <4>1, <4>2, AnnotatedRow
    <3> QED BY <3>1, <3>3 DEF AnnotatedThere
  <2>3. id # e.row.id /\ Due(id, {"metadata"}) => Due(id, {"metadata"})'
    BY LaterFrames
  <2>4. Due(id, {"created"}) => Due(id, {"created"})'
    BY LaterFrames
  <2>5. SUFFICES \/ shown = has
                 \/ has # {} /\ ((shown = {} /\ Due(id, {"created"})')
                                 \/ ((\E t \in Row : shown = {t}) /\ Due(id, {"metadata"})'))
    BY DEF AgreesOn, InBucket, Copies
  <2>6. /\ id = e.row.id /\ s # e.row.st => has = {}
        /\ id = e.row.id /\ s = e.row.st =>
             has # {} /\ (has = {e.row} \/ Due(id, {"metadata"})')
    BY <1>4, SaysBucket
  <2>7. ~(id = e.row.id /\ Due(id, {"created"}))
    <3> SUFFICES ASSUME NEW n \in DOMAIN Wire, Wire[n].row.id = e.row.id, Wire[n].type = "created"
                 PROVE  FALSE
      BY DEF Due
    <3>1. ~Wire[n].late
      BY <1>4 DEF Unsettled
    <3>2. 1 \in DOMAIN Wire /\ Wire[1] = e /\ n > 1
      BY DEF Handling
    <3>3. 1 < n
      BY <3>2
    <3> QED BY <3>1, <3>2, <3>3 DEF WireInv
  <2> HIDE DEF was, shown, has
  <2>8. CASE id # e.row.id
    BY <2>1, <2>2, <2>3, <2>4, <2>8
  <2>9. CASE id = e.row.id /\ s # e.row.st
    BY <2>1, <2>2, <2>6, <2>9
  <2>10. CASE id = e.row.id /\ s = e.row.st
    <3>1. was # {}
      BY <2>1, <2>6, <2>7, <2>10
    <3>2. shown = {e.row}
      BY <2>2, <2>10, <3>1
    <3> QED BY <1>2, <2>6, <2>10, <3>2
  <2> QED BY <2>8, <2>9, <2>10
<1>5. ~Unsettled => \A s \in Status : Agrees(N, s)'
  BY <1>4 DEF Agrees
<1> QED BY <1>1, <1>5 DEF ListHolds

\* The queries after the handler of e, before a late frame excuses them.
Received(H, e) ==
  /\ IsQueries(H)
  /\ H["list"] \in ListQuery /\ H["my"] \in ListQuery /\ H["detail"] \in PageQuery
  /\ H["detail"].data # Absent \/ InFlight(H["detail"]) => Opened \in born
  /\ Stale(H["my"], "my" \in mounted)
  /\ Asked(H["list"]) => Blank(H["list"])
  /\ \/ e.late \/ Stale(H["list"], "list" \in mounted)
     \/ Held(H["list"]) => ~H["list"].inv /\ \A N : N = H["list"].data => (ListHolds(N))'
  /\ \/ Stale(H["detail"], "detail" \in mounted)
     \/ H["detail"] = query["detail"] /\ (e.type \in {"created", "deleted"} \/ e.row.id # Opened)
     \/ /\ ~Asked(H["detail"])
        /\ e.late \/ (Held(H["detail"]) =>
                        ~H["detail"].inv /\ \A N : N = H["detail"].data => (PageHolds(N))')

\* What the handlers meet.
Receiving(e) ==
  /\ ServerInv /\ SocketInv /\ QueryInv /\ WireInv /\ ListInv /\ PageInv
  /\ Handling(e) /\ UNCHANGED <<rows, mutation>> /\ e.row.id \in born

\* What they all use.
LEMMA ReceivingFacts ==
  ASSUME NEW e, Receiving(e)
  PROVE  /\ e.row \in Row /\ e.row.id \in Issues /\ e.row.st \in Status /\ e.row.meta \in {0, 1}
         /\ e.type \in {"created", "updated", "metadata", "deleted"}
         /\ IsQueries(query)
         /\ query["list"] \in Query(SUBSET Row, Row) /\ query["my"] \in Query(SUBSET Row, Row)
         /\ query["detail"] \in Query(OpenedRows, OpenedRows)
         /\ query["detail"] \in PageQuery
         /\ query["detail"].data # Absent \/ InFlight(query["detail"]) => Opened \in born
         /\ query["list"].data # Absent => query["list"].data \in SUBSET Row
         /\ query["detail"].data # Absent => query["detail"].data \in OpenedRows
         /\ Settled(query["list"]) => ListHolds(query["list"].data)
         /\ Settled(query["detail"]) => PageHolds(query["detail"].data)
<1>1. e.row \in Row /\ e.type \in {"created", "updated", "metadata", "deleted"}
  BY DEF Receiving, Handling, Event
<1>2. e.row.id \in Issues /\ e.row.st \in Status /\ e.row.meta \in {0, 1}
  BY <1>1 DEF Row
<1>3. /\ IsQueries(query)
      /\ query["list"] \in Query(SUBSET Row, Row) /\ query["my"] \in Query(SUBSET Row, Row)
      /\ query["detail"] \in Query(OpenedRows, OpenedRows)
      /\ query["detail"] \in PageQuery
      /\ query["detail"].data # Absent \/ InFlight(query["detail"]) => Opened \in born
  BY DEF Receiving, QueryInv, ListQuery, PageQuery
<1>4. /\ query["list"].data # Absent => query["list"].data \in SUBSET Row
      /\ query["detail"].data # Absent => query["detail"].data \in OpenedRows
  BY <1>3 DEF Query
<1>5. /\ Settled(query["list"]) => ListHolds(query["list"].data)
      /\ Settled(query["detail"]) => PageHolds(query["detail"].data)
  BY DEF Receiving, ListInv, PageInv
<1> QED BY <1>1, <1>2, <1>3, <1>4, <1>5

\* issue:created.
LEMMA CreationReceived ==
  ASSUME NEW e, Receiving(e), e.type = "created", NEW H, H = OnIssueCreated(e.row)
  PROVE  Received(H, e)
<1> DEFINE l == query["list"]
           new == AddIssueToBuckets(l.data, e.row)
           u == Patch(l, new)
           b == "my" \in mounted
           v == Invalidate(query["my"], b)
<1>1. H = [list |-> u, my |-> v, detail |-> query["detail"]]
  BY DEF OnIssueCreated, Active
<1>2. v \in ListQuery /\ Stale(v, b)
  <2> HIDE DEF b
  <2> QED BY ReceivingFacts, InvalidateFacts DEF ListQuery
<1>3. l.data # Absent => l.data \in SUBSET Row /\ new \in SUBSET Row
  BY ReceivingFacts, BucketTypes
<1>4. Settled(l) => l.data # Absent /\ ListHolds(l.data)
  BY ReceivingFacts DEF Settled, Held
<1>5. ASSUME Settled(l), ~e.late, NEW N, N = new PROVE ListHolds(N)'
  <2>1. PICK D \in SUBSET Row : D = l.data
    BY <1>3, <1>4, <1>5
  <2>2. ListHolds(D)
    BY <1>4, <1>5, <2>1
  <2>3. N = AddIssueToBuckets(D, e.row)
    BY <1>5, <2>1
  <2> QED BY <1>5, <2>2, <2>3, CreationHandled DEF Receiving
<1>6. l \in Query(SUBSET Row, Row)
  BY ReceivingFacts
<1> HIDE DEF l, new, v, b
<1>7. /\ u \in Query(SUBSET Row, Row) /\ ~Asked(u)
      /\ Held(u) => Settled(l) /\ ~u.inv /\ u.data = new
  BY <1>3, <1>6, PatchFacts
<1>8. u \in ListQuery
  BY <1>7 DEF ListQuery
<1> HIDE DEF u
<1>9. IsQueries(H) /\ H["list"] = u /\ H["my"] = v /\ H["detail"] = query["detail"]
  BY <1>1, ThreeQueries
<1>10. Held(u) /\ ~e.late => ~u.inv /\ \A N : N = u.data => (ListHolds(N))'
  BY <1>5, <1>7
<1> QED BY <1>2, <1>7, <1>8, <1>9, <1>10, ReceivingFacts DEF Received, b

\* issue:updated.
LEMMA UpdateReceived ==
  ASSUME NEW e, Receiving(e), e.type = "updated", NEW H, H = OnIssueUpdated(e.row)
  PROVE  Received(H, e)
<1> DEFINE l == query["list"]
           d == query["detail"]
           new == PatchIssueInBuckets(l.data, e.row.id, e.row)
           x == Patch(l, new)
           a == "list" \in mounted
           u == Invalidate(x, a)
           b == "my" \in mounted
           v == Invalidate(query["my"], b)
           w == IF e.row.id = Opened THEN Patch(d, e.row) ELSE d
<1>1. H = [list |-> u, my |-> v, detail |-> w]
  BY DEF OnIssueUpdated, Active
<1>2. v \in ListQuery /\ Stale(v, b)
  <2> HIDE DEF b
  <2> QED BY ReceivingFacts, InvalidateFacts DEF ListQuery
<1>3. l.data # Absent => new \in SUBSET Row
  BY ReceivingFacts, BucketTypes
<1>4. l \in Query(SUBSET Row, Row)
  BY ReceivingFacts
<1> HIDE DEF l, new, v, b
<1>5. x \in Query(SUBSET Row, Row)
  BY <1>3, <1>4, PatchFacts
<1> HIDE DEF x
<1>6. u \in ListQuery /\ Stale(u, a)
  <2> HIDE DEF a
  <2> QED BY <1>5, InvalidateFacts DEF ListQuery
<1> HIDE DEF u
<1>7. w \in PageQuery /\ (w.data # Absent \/ InFlight(w) => Opened \in born)
      /\ \/ w = query["detail"] /\ e.row.id # Opened
         \/ ~Asked(w) /\ (e.late \/ (Held(w) => ~w.inv /\ \A N : N = w.data => (PageHolds(N))'))
  <2>1. CASE e.row.id # Opened
    <3>1. w = query["detail"]
      BY <2>1
    <3> QED BY <2>1, <3>1, ReceivingFacts
  <2>2. CASE e.row.id = Opened
    <3>1. w = Patch(d, e.row) /\ Opened \in born
      BY <2>2 DEF Receiving
    <3>2. d \in Query(OpenedRows, OpenedRows) /\ e.row \in OpenedRows
      BY <2>2, ReceivingFacts DEF OpenedRows
    <3> HIDE DEF w, d
    <3>3. /\ w \in Query(OpenedRows, OpenedRows) /\ ~Asked(w)
          /\ Held(w) => ~w.inv /\ w.data = e.row
      BY <3>1, <3>2, PatchFacts
    <3>4. ASSUME ~e.late, NEW N, N = e.row PROVE (PageHolds(N))'
      <4>1. \A r \in rows : r.id = Opened =>
              /\ N.st = r.st \/ Due(Opened, {"updated"})'
              /\ N.meta = r.meta \/ Due(Opened, {"updated", "metadata"})'
        BY <2>2, <3>4, SaysRow DEF Receiving, ServerInv
      <4>2. AgreesPage(N)'
        BY <4>1 DEF AgreesPage, Receiving
      <4> QED BY <4>2 DEF PageHolds
    <3> QED BY <3>1, <3>3, <3>4 DEF PageQuery
  <2> QED BY <2>1, <2>2
<1> HIDE DEF w
<1>8. IsQueries(H) /\ H["list"] = u /\ H["my"] = v /\ H["detail"] = w
  BY <1>1, ThreeQueries
<1>9. Asked(u) => Blank(u)
  BY <1>6 DEF Stale
<1> QED BY <1>2, <1>6, <1>7, <1>8, <1>9 DEF Received, a, b

\* issue_metadata:changed.
LEMMA MetadataReceived ==
  ASSUME NEW e, Receiving(e), e.type = "metadata", NEW H, H = OnIssueMetadataChanged(e.row)
  PROVE  Received(H, e)
<1> DEFINE l == query["list"]
           d == query["detail"]
           new == PatchIssueInBuckets(l.data, e.row.id, [meta |-> e.row.meta])
           noted == Spread(d.data, [meta |-> e.row.meta])
           u == Patch(l, new)
           b == "my" \in mounted
           v == Invalidate(query["my"], b)
           w == IF e.row.id # Opened THEN d ELSE Patch(d, noted)
<1>1. H = [list |-> u, my |-> v, detail |-> w]
  BY DEF OnIssueMetadataChanged, Active
<1>2. v \in ListQuery /\ Stale(v, b)
  <2> HIDE DEF b
  <2> QED BY ReceivingFacts, InvalidateFacts DEF ListQuery
<1>3. l.data # Absent => l.data \in SUBSET Row /\ new \in SUBSET Row
  BY ReceivingFacts, BucketTypes
<1>4. Settled(l) => l.data # Absent /\ ListHolds(l.data)
  BY ReceivingFacts DEF Settled, Held
<1>5. ASSUME Settled(l), ~e.late, NEW N, N = new PROVE ListHolds(N)'
  <2>1. PICK D \in SUBSET Row : D = l.data
    BY <1>3, <1>4, <1>5
  <2>2. ListHolds(D)
    BY <1>4, <1>5, <2>1
  <2>3. N = PatchIssueInBuckets(D, e.row.id, [meta |-> e.row.meta])
    BY <1>5, <2>1
  <2> QED BY <1>5, <2>2, <2>3, MetadataHandled DEF Receiving
<1>6. l \in Query(SUBSET Row, Row)
  BY ReceivingFacts
<1>7. w \in PageQuery /\ (w.data # Absent \/ InFlight(w) => Opened \in born)
      /\ \/ w = query["detail"] /\ e.row.id # Opened
         \/ ~Asked(w) /\ (e.late \/ (Held(w) => ~w.inv /\ \A N : N = w.data => (PageHolds(N))'))
  <2>1. CASE e.row.id # Opened
    <3>1. w = query["detail"]
      BY <2>1
    <3> QED BY <2>1, <3>1, ReceivingFacts
  <2>2. CASE e.row.id = Opened
    <3>1. w = Patch(d, noted) /\ Opened \in born
      BY <2>2 DEF Receiving
    <3>2. d \in Query(OpenedRows, OpenedRows) /\ (d.data # Absent => d.data \in OpenedRows)
          /\ (Settled(d) => PageHolds(d.data) /\ d.data # Absent)
      BY ReceivingFacts DEF Settled, Held
    <3>3. d.data # Absent =>
            noted \in OpenedRows /\ noted.st = d.data.st /\ noted.meta = e.row.meta
      <4> HIDE DEF d
      <4> SUFFICES ASSUME d.data \in OpenedRows
                   PROVE  noted \in OpenedRows /\ noted.st = d.data.st /\ noted.meta = e.row.meta
        BY <3>2
      <4>1. d.data \in Row /\ d.data.id = Opened
        BY DEF OpenedRows
      <4>2. e.row.meta \in {0, 1}
        BY ReceivingFacts
      <4>3. /\ noted = [id |-> d.data.id, st |-> d.data.st, meta |-> e.row.meta]
            /\ noted \in Row
        BY <4>1, <4>2, OverMeta
      <4> HIDE DEF noted
      <4> QED BY <4>1, <4>3 DEF OpenedRows
    <3> HIDE DEF w, d, noted
    <3>4. /\ w \in Query(OpenedRows, OpenedRows) /\ ~Asked(w)
          /\ Held(w) => Settled(d) /\ ~w.inv /\ w.data = noted
      BY <3>1, <3>2, <3>3, PatchFacts
    <3>5. ASSUME Settled(d), ~e.late, NEW N, N = noted PROVE (PageHolds(N))'
      <4>1. CASE PageUnsettled
        <5>1. PageUnsettled'
          BY <3>5, <4>1, LaterFrames DEF Receiving
        <5> QED BY <5>1 DEF PageHolds
      <4>2. CASE AgreesPage(d.data)
        <5>1. Due(Opened, {"updated"}) => Due(Opened, {"updated"})'
          BY LaterFrames DEF Receiving
        <5>2. \A r \in rows : r.id = Opened => r = e.row \/ Due(Opened, {"updated", "metadata"})'
          BY <2>2, <3>5, SaysRow DEF Receiving, ServerInv
        <5>3. \A r \in rows : r.id = Opened =>
                /\ N.st = r.st \/ Due(Opened, {"updated"})'
                /\ N.meta = r.meta \/ Due(Opened, {"updated", "metadata"})'
          BY <3>2, <3>3, <3>5, <4>2, <5>1, <5>2 DEF AgreesPage
        <5>4. AgreesPage(N)'
          BY <5>3 DEF AgreesPage, Receiving
        <5> QED BY <5>4 DEF PageHolds
      <4> QED BY <3>2, <3>5, <4>1, <4>2 DEF PageHolds
    <3> QED BY <3>1, <3>4, <3>5 DEF PageQuery
  <2> QED BY <2>1, <2>2
<1> HIDE DEF l, new, v, b, w
<1>8. /\ u \in Query(SUBSET Row, Row) /\ ~Asked(u)
      /\ Held(u) => Settled(l) /\ ~u.inv /\ u.data = new
  BY <1>3, <1>6, PatchFacts
<1>9. u \in ListQuery
  BY <1>8 DEF ListQuery
<1> HIDE DEF u
<1>10. IsQueries(H) /\ H["list"] = u /\ H["my"] = v /\ H["detail"] = w
  BY <1>1, ThreeQueries
<1>11. Held(u) /\ ~e.late => ~u.inv /\ \A N : N = u.data => (ListHolds(N))'
  BY <1>5, <1>8
<1> QED BY <1>2, <1>7, <1>8, <1>9, <1>10, <1>11 DEF Received, b

\* issue:deleted.
LEMMA DeletionReceived ==
  ASSUME NEW e, Receiving(e), e.type = "deleted", NEW H, H = OnIssueDeleted(e.row)
  PROVE  Received(H, e)
<1>1. CASE CollectThrows
  <2> DEFINE u == Blame(query["list"], "threw")
             v == Blame(query["my"], "threw")
  <2>1. H = [query EXCEPT !.list = u, !.my = v]
    BY <1>1 DEF OnIssueDeleted
  <2>2. "threw" \in Causes
    BY DEF Causes
  <2>3. /\ u \in ListQuery /\ ~Held(u) /\ ~Asked(u)
        /\ v \in ListQuery /\ ~Held(v) /\ ~Asked(v)
    BY <2>2, ReceivingFacts, BlameFacts DEF ListQuery
  <2> HIDE DEF u, v
  <2>4. IsQueries(H) /\ H["list"] = u /\ H["my"] = v /\ H["detail"] = query["detail"]
    BY <2>1, ReceivingFacts DEF IsQueries, Queries
  <2> QED BY <2>3, <2>4, ReceivingFacts DEF Received, Stale
<1>2. CASE ~CollectThrows
  <2>1. H = CleanupDeletedIssueCaches(e.row.id)
    BY <1>2 DEF OnIssueDeleted
  <2>2. /\ IsQueries(H)
        /\ H["list"] \in ListQuery /\ Stale(H["list"], "list" \in mounted)
        /\ H["my"] \in ListQuery /\ Stale(H["my"], "my" \in mounted)
        /\ H["detail"] = IF e.row.id = Opened THEN NoQuery ELSE query["detail"]
    BY <2>1, ReceivingFacts, CleanupFacts DEF Receiving
  <2>3. /\ NoQuery \in PageQuery /\ Stale(NoQuery, "detail" \in mounted)
        /\ NoQuery.data = Absent /\ ~InFlight(NoQuery)
    BY NoQueryFacts DEF PageQuery, Stale
  <2>4. Asked(H["list"]) => Blank(H["list"])
    BY <2>2 DEF Stale
  <2> QED BY <2>2, <2>3, <2>4, ReceivingFacts DEF Received
<1> QED BY <1>1, <1>2

\* A late frame excuses the list and the page.
LEMMA ReceivedQueries ==
  ASSUME NEW e, Receiving(e), NEW H, Received(H, e), mounted' \subseteq mounted, UNCHANGED born,
         query' = IF ~e.late THEN H
                  ELSE [H EXCEPT !.list = Because(@, "reordered"), !.detail = Because(@, "reordered")]
  PROVE  QueryInv' /\ ListInv' /\ MyInv' /\ PageInv'
<1> DEFINE u == IF e.late THEN Because(H["list"], "reordered") ELSE H["list"]
           w == IF e.late THEN Because(H["detail"], "reordered") ELSE H["detail"]
           h == H["list"]
           k == H["detail"]
<1>1. /\ IsQueries(H)
      /\ h \in Query(SUBSET Row, Row) /\ H["my"] \in ListQuery /\ k \in Query(OpenedRows, OpenedRows)
      /\ k.data # Absent \/ InFlight(k) => Opened \in born
  BY DEF Received, ListQuery, PageQuery
<1>2. "reordered" \in Causes
  BY DEF Causes
<1> HIDE DEF h, k
<1>3. /\ Because(h, "reordered") \in Query(SUBSET Row, Row)
      /\ ~Held(Because(h, "reordered"))
      /\ Asked(Because(h, "reordered")) <=> Asked(h)
      /\ Because(h, "reordered").fetch = h.fetch
  BY <1>1, <1>2, BecauseFacts
<1>4. /\ Because(k, "reordered") \in Query(OpenedRows, OpenedRows)
      /\ ~Held(Because(k, "reordered"))
      /\ Asked(Because(k, "reordered")) <=> Asked(k)
      /\ Because(k, "reordered").fetch = k.fetch
      /\ Because(k, "reordered").data = k.data
  BY <1>1, <1>2, BecauseFacts
<1>5. u = (IF e.late THEN Because(h, "reordered") ELSE h) /\ w = (IF e.late THEN Because(k, "reordered") ELSE k)
  BY DEF h, k
<1>6. IsQueries(query') /\ query'["list"] = u /\ query'["my"] = H["my"] /\ query'["detail"] = w
  BY <1>1 DEF IsQueries, Queries
<1> HIDE DEF u, w
<1>7. u \in ListQuery /\ (Asked(u) <=> Asked(h)) /\ u.fetch = h.fetch
      /\ (e.late => ~Held(u)) /\ (~e.late => u = h)
  BY <1>1, <1>3, <1>5 DEF ListQuery
<1>8. w \in PageQuery /\ (Asked(w) <=> Asked(k)) /\ w.fetch = k.fetch
      /\ (e.late => ~Held(w)) /\ (~e.late => w = k) /\ (w.data # Absent \/ InFlight(w) => Opened \in born)
  BY <1>1, <1>4, <1>5 DEF PageQuery, InFlight
<1>9. QueryInv'
  BY <1>1, <1>6, <1>7, <1>8 DEF QueryInv
<1>10. MyInv'
  <2>1. Stale(H["my"], "my" \in mounted)
    BY DEF Received
  <2>2. Stale(query'["my"], "my" \in mounted')
    BY <1>6, <2>1 DEF Stale
  <2> QED BY <2>2, StaleHolds
<1>11. ListInv'
  <2>0. Asked(u) => Blank(u)
    BY <1>7 DEF Received, Blank, h
  <2>1. CASE e.late \/ Stale(h, "list" \in mounted)
    <3>1. Stale(query'["list"], "list" \in mounted')
      BY <1>6, <1>7, <2>0, <2>1 DEF Stale
    <3> QED BY <3>1, StaleHolds
  <2>2. CASE ~e.late /\ (Held(h) => ~h.inv /\ \A N : N = h.data => (ListHolds(N))')
    <3>1. u = h
      BY <1>7, <2>2
    <3>2. \A p : \A s \in Status : ~(Asked(u) /\ p = u.fetch.page[s] /\ p # Absent)
      BY <2>0 DEF Blank
    <3> QED BY <1>6, <2>2, <3>1, <3>2, ListBecomes DEF Settled
  <2> QED BY <2>1, <2>2 DEF Received, h
<1>12. PageInv'
  <2>1. CASE Stale(k, "detail" \in mounted)
    <3>1. Stale(query'["detail"], "detail" \in mounted')
      BY <1>6, <1>8, <2>1 DEF Stale, Blank
    <3> QED BY <3>1, StaleHolds
  <2>2. CASE k = query["detail"] /\ (e.type \in {"created", "deleted"} \/ e.row.id # Opened)
    <3>1. PageStays
      BY <2>2, LaterFrames DEF Receiving
    <3>2. CASE ~e.late
      BY <1>6, <1>8, <2>2, <3>1, <3>2, SameHolds DEF Receiving, PageInv, Unobserved
    <3>3. CASE e.late
      <4>1. \A p : \A s \in Status :
              Asked(w) /\ p = w.fetch.page[s] /\ p # Absent => (PageReads(p))'
        <5> SUFFICES ASSUME NEW p, NEW s \in Status, Asked(w), p = w.fetch.page[s], p # Absent
                     PROVE  (PageReads(p))'
          OBVIOUS
        <5>1. Asked(k) /\ p = k.fetch.page[s]
          BY <1>8
        <5>2. PageReads(p)
          BY <2>2, <5>1 DEF Receiving, PageInv
        <5>3. Opened \in born
          BY <1>1, <5>1 DEF Asked
        <5> QED BY <3>1, <5>2, <5>3 DEF PageStays
      <4> QED BY <1>6, <1>8, <3>3, <4>1, PageBecomes DEF Settled
    <3> QED BY <3>2, <3>3
  <2>3. CASE /\ ~Asked(k)
             /\ e.late \/ (Held(k) => ~k.inv /\ \A N : N = k.data => (PageHolds(N))')
    BY <1>6, <1>8, <2>3, PageBecomes DEF Settled
  <2> QED BY <2>1, <2>2, <2>3 DEF Received, k
<1> QED BY <1>9, <1>10, <1>11, <1>12

\* The client handles a frame.
LEMMA DeliverStep ==
  ASSUME CacheInv, Deliver PROVE CacheInv'
<1>1. /\ ServerInv /\ SocketInv /\ QueryInv /\ MutationsInv
      /\ MyInv /\ WireInv /\ ListInv /\ PageInv
  BY InvParts
<1>2. PICK e : e = Head(pipe)
  OBVIOUS
<1>3. PICK H : H = CASE e.type = "created" -> OnIssueCreated(e.row)
                     [] e.type = "updated" -> OnIssueUpdated(e.row)
                     [] e.type = "metadata" -> OnIssueMetadataChanged(e.row)
                     [] e.type = "deleted" -> OnIssueDeleted(e.row)
  OBVIOUS
<1>4. /\ connected /\ pipe # <<>> /\ pipe' = Tail(pipe)
      /\ UNCHANGED <<rows, born, outbox, registered, connected, mutation, events>>
      /\ mounted' \subseteq mounted
      /\ query' = IF ~e.late THEN H
                  ELSE [H EXCEPT !.list = Because(@, "reordered"), !.detail = Because(@, "reordered")]
  BY <1>2, <1>3 DEF Deliver, serverVars
<1>5. pipe \in Seq(Event) /\ outbox \in Seq(Event)
  BY <1>1 DEF ServerInv
<1>6. /\ Tail(pipe) \in Seq(Event) /\ Len(Tail(pipe)) = Len(pipe) - 1 /\ Len(pipe) \in Nat
      /\ Head(pipe) = pipe[1] /\ 1 \in DOMAIN pipe
      /\ \A n \in 1..Len(Tail(pipe)) : Tail(pipe)[n] = pipe[n + 1]
  BY <1>4, <1>5, HeadTailProperties
<1>7. ServerInv'
  <2>1. ASSUME NEW n \in DOMAIN pipe' PROVE pipe'[n].row.id \in born'
    <3>1. n \in 1..(Len(pipe) - 1) /\ pipe'[n] = pipe[n + 1] /\ n + 1 \in DOMAIN pipe
      BY <1>4, <1>5, <1>6
    <3> QED BY <1>1, <1>4, <3>1 DEF ServerInv
  <2> QED BY <1>1, <1>4, <1>6, <2>1 DEF ServerInv, Alive
<1>8. SocketInv'
  <2>1. registered
    BY <1>1, <1>4 DEF SocketInv
  <2>2. mounted' = {} \/ \E c \in Queries : mounted' = {c}
    BY <1>1, <1>4 DEF SocketInv
  <2>3. "detail" \in mounted' => Opened \in born'
    BY <1>1, <1>4 DEF SocketInv
  <2> QED BY <1>1, <1>4, <2>1, <2>2, <2>3 DEF SocketInv
<1>9. MutationsInv'
  BY <1>1, <1>4, TypesStay
<1>10. /\ WireInv' /\ 1 \in DOMAIN Wire /\ Wire[1] = Head(pipe) /\ Head(pipe) \in Event
       /\ \A n \in DOMAIN Wire : n = 1 \/ \E j \in DOMAIN Wire' : Wire'[j] = Wire[n]
  BY <1>1, <1>4, DeliveredWire
<1>11. Handling(e)
  <2>1. DOMAIN Wire = 1..(Len(pipe) + Len(outbox)) /\ Len(pipe) + Len(outbox) \in Nat
    BY <1>5, JoinedFacts DEF Wire
  <2>2. \A n \in DOMAIN Wire : n = 1 \/ n > 1
    BY <2>1
  <2> QED BY <1>2, <1>10, <2>2 DEF Handling
<1>12. e.row.id \in born
  BY <1>1, <1>2, <1>6 DEF ServerInv
<1>13. Receiving(e)
  BY <1>1, <1>4, <1>11, <1>12 DEF Receiving
<1>14. Received(H, e)
  <2>1. e.type \in {"created", "updated", "metadata", "deleted"}
    BY <1>13, ReceivingFacts
  <2>2. CASE e.type = "created"
    <3>1. H = OnIssueCreated(e.row)
      BY <1>3, <2>2
    <3> QED BY <1>13, <2>2, <3>1, CreationReceived
  <2>3. CASE e.type = "updated"
    <3>1. H = OnIssueUpdated(e.row)
      BY <1>3, <2>3
    <3> QED BY <1>13, <2>3, <3>1, UpdateReceived
  <2>4. CASE e.type = "metadata"
    <3>1. H = OnIssueMetadataChanged(e.row)
      BY <1>3, <2>4
    <3> QED BY <1>13, <2>4, <3>1, MetadataReceived
  <2>5. CASE e.type = "deleted"
    <3>1. H = OnIssueDeleted(e.row)
      BY <1>3, <2>5
    <3> QED BY <1>13, <2>5, <3>1, DeletionReceived
  <2> QED BY <2>1, <2>2, <2>3, <2>4, <2>5
<1>15. QueryInv' /\ ListInv' /\ MyInv' /\ PageInv'
  BY <1>4, <1>13, <1>14, ReceivedQueries
<1> QED BY <1>7, <1>8, <1>9, <1>10, <1>15, InvParts_

-----------------------------------------------------------------------------
(* The invariant *)

\* It holds at first: the board is being read, nothing else is cached.
LEMMA InitHolds == Init => CacheInv
<1> SUFFICES ASSUME Init PROVE CacheInv
  OBVIOUS
<1>1. /\ born \in SUBSET Issues
      /\ rows = {[id |-> i, st |-> First, meta |-> 0] : i \in born}
      /\ outbox = <<>> /\ pipe = <<>>
      /\ registered = FALSE /\ connected = FALSE
      /\ query = [c \in Queries |-> IF c = "list" THEN Mount(NoQuery) ELSE NoQuery]
      /\ mounted = {"list"} /\ mutation = {} /\ events = 0
  BY DEF Init
<1>2. First \in Status
  BY CacheAssumption DEF First
<1>3. ServerInv
  <2>1. rows \subseteq Row /\ (\A r, t \in rows : r.id = t.id => r = t) /\ Alive \subseteq born
    BY <1>1, <1>2 DEF Row, Alive
  <2>2. <<>> \in Seq(Event) /\ DOMAIN <<>> = {}
    OBVIOUS
  <2> QED BY <1>1, <2>1, <2>2 DEF ServerInv
<1>4. SocketInv
  BY <1>1 DEF SocketInv, Queries
<1>5. /\ IsQueries(query) /\ query["list"] = Mount(NoQuery)
      /\ query["my"] = NoQuery /\ query["detail"] = NoQuery
  BY <1>1 DEF IsQueries, Queries
<1>6. /\ NoQuery \in Query(SUBSET Row, Row) /\ NoQuery \in Query(OpenedRows, OpenedRows)
      /\ ~Held(NoQuery) /\ ~InFlight(NoQuery) /\ ~Asked(NoQuery) /\ NoQuery.data = Absent
  BY NoQueryFacts
<1>7. /\ Mount(NoQuery) \in Query(SUBSET Row, Row)
      /\ \/ Mount(NoQuery) = NoQuery
         \/ ~Held(Mount(NoQuery)) /\ Blank(Mount(NoQuery))
  BY <1>6, MountFacts
<1>8. QueryInv
  BY <1>5, <1>6, <1>7 DEF QueryInv, ListQuery, PageQuery
<1>9. MyInv /\ PageInv
  BY <1>5, <1>6 DEF MyInv, PageInv, Unobserved, Settled
<1>10. ListInv
  BY <1>5, <1>6, <1>7 DEF ListInv, Unobserved, Settled, Blank
<1>11. WireInv
  <2>1. <<>> \in Seq(Event) /\ Len(<<>>) = 0
    OBVIOUS
  <2>2. DOMAIN Wire = {}
    BY <1>1 DEF Wire, Joined
  <2> QED BY <2>2 DEF WireInv
<1>12. MutationsInv
  BY <1>1 DEF MutationsInv
<1> QED BY <1>3, <1>4, <1>8, <1>9, <1>10, <1>11, <1>12, InvParts

\* Every step keeps it.
LEMMA NextStep == CacheInv /\ [Next]_vars => CacheInv'
<1> SUFFICES ASSUME CacheInv, [Next]_vars PROVE CacheInv'
  OBVIOUS
<1>1. CASE OtherWrite
  BY <1>1, OtherWriteStep
<1>2. CASE \E k \in DOMAIN outbox : Publish(k)
  BY <1>2, PublishStep
<1>3. CASE Register
  BY <1>3, RegisterStep
<1>4. CASE OnAuthenticated
  BY <1>4, OnAuthenticatedStep
<1>5. CASE Deliver
  BY <1>5, DeliverStep
<1>6. CASE ConnectionLost \/ LeaveWorkspace
  BY <1>6, ConnectionLostStep
<1>7. CASE ReturnToWorkspace
  BY <1>7, ReturnStep
<1>8. CASE \E c \in Queries : OpenPage(c)
  BY <1>8, OpenPageStep
<1>9. CASE CreateIssue
  BY <1>9, CreateIssueStep
<1>10. CASE \E id \in Issues : DeleteIssue(id)
  BY <1>10, DeleteIssueStep
<1>11. CASE \E id \in Issues : \E to \in Status : UpdateIssue(id, to)
  BY <1>11, UpdateIssueStep
<1>12. CASE \E c \in Queries : FetchSuccess(c)
  BY <1>12, FetchSuccessStep
<1>13. CASE \E c \in Queries : FetchFails(c)
  BY <1>13, FetchFailsStep
<1>14. CASE \E c \in Queries : \E st \in Status : ReadPage(c, st)
  BY <1>14, ReadPageStep
<1>15. CASE \E m \in mutation : Execute(m)
  BY <1>15, ExecuteStep
<1>16. CASE \E m \in mutation : RequestFails(m)
  BY <1>16, RequestFailsStep
<1>17. CASE \E m \in mutation : Settle(m)
  BY <1>17, SettleStep
<1>18. CASE UNCHANGED vars
  BY <1>18, StutterStep
<1> QED
  BY <1>1, <1>2, <1>3, <1>4, <1>5, <1>6, <1>7, <1>8, <1>9, <1>10, <1>11, <1>12, <1>13, <1>14,
     <1>15, <1>16, <1>17, <1>18 DEF Next, Socket, User

\* The inductive invariant: whatever the order of handlers, answers, commits,
\* publications and faults, each cache differs from the server only as far as
\* something still to come, or an excuse, accounts for it.
THEOREM CacheInvariant == Spec => []CacheInv
<1>1. Init => CacheInv
  BY InitHolds
<1>2. CacheInv /\ [Next]_vars => CacheInv'
  BY NextStep
<1> QED BY <1>1, <1>2, PTL DEF Spec

\* The types of the model: what the caches hold are rows, each issue alive was once
\* born, at most one page is open.
THEOREM CacheTypes == Spec => []TypeOK
<1>1. CacheInv => TypeOK
  <2> SUFFICES ASSUME CacheInv PROVE TypeOK
    OBVIOUS
  <2>1. ServerInv /\ SocketInv /\ QueryInv
    BY InvParts
  <2>2. rows \subseteq Row /\ born \subseteq Issues /\ Alive \subseteq born
    BY <2>1 DEF ServerInv
  <2>3. \A n \in DOMAIN outbox : outbox[n].row \in Row
    <3>1. outbox \in Seq(Event)
      BY <2>1 DEF ServerInv
    <3>2. \A n \in DOMAIN outbox : outbox[n] \in Event
      BY <3>1
    <3> QED BY <3>2 DEF Event
  <2>4. mounted \subseteq Queries /\ Cardinality(mounted) <= 1
    <3>1. mounted = {} \/ \E c \in Queries : mounted = {c}
      BY <2>1 DEF SocketInv
    <3>2. Cardinality({}) = 0 /\ \A c \in Queries : Cardinality({c}) = 1
      BY FS_EmptySet, FS_Singleton
    <3> QED BY <3>1, <3>2
  <2>5. \A c \in {"list", "my"} : query[c].data = Absent \/ query[c].data \subseteq Row
    BY <2>1 DEF QueryInv, ListQuery, Query
  <2>6. query["detail"].data = Absent \/ query["detail"].data \in Row
    BY <2>1 DEF QueryInv, PageQuery, Query, OpenedRows
  <2>7. \A c \in Queries : query[c].why \subseteq Causes
    BY <2>1 DEF QueryInv, ListQuery, PageQuery, Query, Queries
  <2>8. registered => connected
    BY <2>1 DEF SocketInv
  <2> QED BY <2>2, <2>3, <2>4, <2>5, <2>6, <2>7, <2>8 DEF TypeOK
<1> QED BY <1>1, CacheInvariant, PTL

\* Nothing on its way: no frame is to come, no mutation to settle.
LEMMA QuietFacts ==
  ASSUME CacheInv, Quiet
  PROVE  /\ DOMAIN Wire = {} /\ ~Pending /\ ~AwaitsRollback /\ ~Unsettled /\ ~PageUnsettled
         /\ \A id, T : ~Due(id, T)
<1>1. outbox = <<>> /\ pipe = <<>> /\ mutation = {}
  BY DEF Quiet
<1>2. DOMAIN Wire = {}
  BY <1>1 DEF Wire, Joined
<1> QED BY <1>1, <1>2 DEF Pending, AwaitsRollback, Unsettled, PageUnsettled, Due

\* A query at rest without an excuse is settled.
LEMMA RestFacts ==
  ASSUME NEW c \in Queries, CacheInv, AtRest(c), query[c].why \cap Causes = {}
  PROVE  Settled(query[c]) /\ query[c].data # Absent
<1>1. QueryInv /\ Unobserved("list") /\ Unobserved("my") /\ Unobserved("detail")
  BY InvParts DEF ListInv, MyInv, PageInv
<1>2. Unobserved(c)
  BY <1>1 DEF Queries
<1>3. query[c].why \subseteq Causes
  BY <1>1 DEF QueryInv, ListQuery, PageQuery, Query, Queries
<1>4. Held(query[c])
  BY <1>3 DEF AtRest, Held
<1> QED BY <1>2, <1>4 DEF AtRest, Unobserved, Settled, Held

\* My Issues: once nothing is on its way it shows the server's issues, unless a frame
\* was missed, a read failed or was overtaken, or a delete failed.
THEOREM MyIsCurrent == Spec => []MyCurrent
<1>1. CacheInv => MyCurrent
  <2> SUFFICES ASSUME CacheInv, Quiet, AtRest("my"), query["my"].why \cap Causes = {}
               PROVE  Current("my")
    BY DEF MyCurrent, CurrentUnless
  <2>1. Settled(query["my"])
    BY RestFacts DEF Queries
  <2>2. MyHolds(query["my"].data)
    BY <2>1, InvParts DEF MyInv
  <2> QED BY <2>2, QuietFacts DEF MyHolds, Current
<1> QED BY <1>1, CacheInvariant, PTL

\* The board: patched by creations, metadata and optimistic mutations, invalidated by
\* updates, deletions and settled mutations, it ends as the server's issues, each once.
THEOREM ListIsCurrent == Spec => []ListCurrent
<1>1. CacheInv => ListCurrent
  <2> SUFFICES ASSUME CacheInv, Quiet, AtRest("list"), query["list"].why \cap Causes = {}
               PROVE  Current("list")
    BY DEF ListCurrent, CurrentUnless
  <2>1. Settled(query["list"]) /\ query["list"].data # Absent
    BY RestFacts DEF Queries
  <2> DEFINE D == query["list"].data
  <2>2. D \subseteq Row /\ rows \subseteq Row
    BY <2>1, InvParts DEF QueryInv, ListQuery, Query, ServerInv
  <2>3. ListHolds(D)
    BY <2>1, InvParts DEF ListInv
  <2> HIDE DEF D
  <2>4. \A id \in Issues : \A s \in Status : InBucket(D, id, s) = InBucket(rows, id, s)
    BY <2>3, QuietFacts DEF ListHolds, Agrees, AgreesOn
  <2>5. ASSUME NEW r \in Row PROVE r \in D <=> r \in rows
    <3>1. r.id \in Issues /\ r.st \in Status
      BY DEF Row
    <3>2. InBucket(D, r.id, r.st) = InBucket(rows, r.id, r.st)
      BY <2>4, <3>1
    <3> QED BY <3>2 DEF InBucket, Copies
  <2>6. D = rows
    BY <2>2, <2>5
  <2> QED BY <2>6 DEF Current, D
<1> QED BY <1>1, CacheInvariant, PTL

\* The page of an issue that exists shows it as the server has it.
THEOREM PageIsCurrent == Spec => []DetailCurrent
<1>1. CacheInv => DetailCurrent
  <2> SUFFICES ASSUME CacheInv, Quiet, AtRest("detail"), query["detail"].why \cap Causes = {},
                      Opened \in Alive
               PROVE  query["detail"].data = RowOf(Opened)
    BY DEF DetailCurrent, CurrentUnless, Current
  <2>1. Settled(query["detail"]) /\ query["detail"].data # Absent
    BY RestFacts DEF Queries
  <2> DEFINE d == query["detail"].data
  <2>2. d \in OpenedRows /\ rows \subseteq Row
    BY <2>1, InvParts DEF QueryInv, PageQuery, Query, ServerInv
  <2>3. PageHolds(d)
    BY <2>1, InvParts DEF PageInv
  <2>4. RowOf(Opened) \in rows /\ RowOf(Opened).id = Opened
    BY RowOfFacts
  <2> DEFINE r == RowOf(Opened)
  <2>5. r \in rows /\ r.id = Opened /\ r \in Row
    BY <2>2, <2>4
  <2> HIDE DEF d, r
  <2>6. d.st = r.st /\ d.meta = r.meta
    BY <2>3, <2>5, QuietFacts DEF PageHolds, AgreesPage
  <2>7. d.id = r.id /\ d \in Row
    BY <2>2, <2>5 DEF OpenedRows
  <2>8. d = r
    BY <2>5, <2>6, <2>7 DEF Row
  <2> QED BY <2>8 DEF d, r
<1> QED BY <1>1, CacheInvariant, PTL
=============================================================================
