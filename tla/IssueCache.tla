----------------------------- MODULE IssueCache -----------------------------
(***************************************************************************)
(* The issue caches of a web or desktop client: three TanStack queries     *)
(* (the workspace list, the My Issues list, the open issue's detail), the  *)
(* optimistic mutations that patch them (core/issues/mutations.ts), the    *)
(* realtime events that patch or invalidate them (core/issues/             *)
(* ws-updaters.ts, core/realtime/use-realtime-sync.ts) and the websocket   *)
(* client that delivers those events (core/api/ws-client.ts).              *)
(*                                                                         *)
(* With staleTime Infinity (core/query-client.ts) a query is read from the *)
(* server only when it is mounted without data, or marked invalid.  What   *)
(* the client shows is therefore right only if every change reaches each   *)
(* cache, as a patch or as an invalidation that a later read follows.      *)
(*                                                                         *)
(* A JavaScript handler runs to its end: one action.  Requests, responses, *)
(* server commits, their publication and the frames of the socket          *)
(* interleave freely.  The query library is external code: its operators   *)
(* say what the calls used here do to a query.                             *)
(***************************************************************************)
EXTENDS Naturals, Sequences, FiniteSets, SequencesExt

CONSTANTS
  Issues,        \* issue ids
  Opened,        \* the issue whose page may be opened
  Statuses,      \* the board's columns, in order (PAGINATED_STATUSES)
  Absent,        \* no data, no request in flight, a page not read yet
  MaxEvents,     \* bound: writes of others, mutations, faults, pages opened anew
  GroupsCached   \* whether an assignee board of My Issues is cached, too

Status == ToSet(Statuses)

Queries == {"list", "my", "detail"}

\* What the board and the page show of an issue: its column and its metadata.
Row == [id: Issues, st: Status, meta: {0, 1}]

First == Statuses[1]

\* Why a query at rest may be out of date: bookkeeping of the model.
Causes == {"missed", "reordered", "swallowed", "overtaken", "cleared",
           "cancelled", "restored", "failed", "threw"}

\* A request in flight: the pages read so far, the flag a cancel restores, and
\* what will excuse the data it brings.
Page == (SUBSET Row) \cup {Absent}

Fetch == [page: [Status -> Page], inv0: BOOLEAN, why: SUBSET Causes]

\* The columns differ, and Absent is no row, no set of rows and no request.
ASSUME CacheAssumption ==
  /\ Opened \in Issues
  /\ Statuses \in Seq(Status) /\ Statuses # <<>> /\ IsInjective(Statuses)
  /\ Absent \notin Row /\ Absent \notin Fetch /\ \A S \in SUBSET Row : S # Absent
  /\ MaxEvents \in Nat
  /\ GroupsCached \in BOOLEAN

VARIABLES
  rows,        \* the server's issues, one row each
  born,        \* ids ever used
  outbox,      \* committed changes whose handler has not published yet, in the
               \* order of the commits
  pipe,        \* frames sent on the websocket and not handled yet
  registered,  \* the hub knows this connection
  connected,   \* the client has seen auth_ack on the present connection
  before,      \* hasConnectedBefore of the WSClient
  away,        \* the user is in another workspace
  query,       \* the three queries
  mounted,     \* the queries the current page observes
  mutation,    \* mutations between onMutate and onSettled
  unrecovered, \* frames were missed and nothing was invalidated since
  events       \* what MaxEvents bounds

vars == <<rows, born, outbox, pipe, registered, connected, before, away, query,
          mounted, mutation, unrecovered, events>>

\* One more write, mutation, fault or page.
Happens == events < MaxEvents /\ events' = events + 1

serverVars == <<rows, born, outbox>>
socketVars == <<pipe, registered, connected, before, away>>

-----------------------------------------------------------------------------
(* The query library *)

\* A request that has read nothing yet.
NewFetch(q) == [page |-> [s \in Status |-> Absent], inv0 |-> q.inv, why |-> {}]

InFlight(q) == q.fetch # Absent

\* An excuse for the data now held.
Because(q, w) == IF q.data = Absent THEN q ELSE [q EXCEPT !.why = @ \cup {w}]

BlameFetch(q, w) ==
  IF InFlight(q) THEN [q EXCEPT !.fetch.why = @ \cup {w}] ELSE q

\* An excuse for the data now held, and for what the request in flight has read.
Blame(q, w) == BlameFetch(Because(q, w), w)

\* setQueryData: the data is fresh from now on, whatever was flagged before;
\* a request in flight will overwrite it.
SetQueryData(q, d) ==
  LET marked == BlameFetch(q, "overtaken")
  IN  [marked EXCEPT
        !.data = d, !.inv = FALSE,
        !.why = IF q.inv THEN @ \cup {"cleared"} ELSE @,
        !.fetch = IF @ = Absent THEN @ ELSE [@ EXCEPT !.inv0 = FALSE]]

\* setQueryData with an updater, which makes d of the data if there is any.
Patch(q, d) ==
  IF q.data = Absent THEN BlameFetch(q, "overtaken") ELSE SetQueryData(q, d)

\* invalidateQueries: flag the query; one that is observed is read anew, except
\* that its first request is left alone.
Invalidate(q, active) ==
  LET flagged == [q EXCEPT !.inv = TRUE]
  IN  IF InFlight(q) /\ (q.data = Absent \/ ~active) THEN BlameFetch(flagged, "swallowed")
      ELSE IF active THEN [flagged EXCEPT !.fetch = NewFetch(flagged)]
      ELSE IF q.data = Absent THEN q
      ELSE flagged

\* cancelQueries: the request is dropped, its state before the request restored.
Cancel(q) ==
  IF ~InFlight(q) THEN q
  ELSE [q EXCEPT !.inv = q.fetch.inv0, !.fetch = Absent]

NoQuery == [data |-> Absent, inv |-> FALSE, why |-> {}, fetch |-> Absent]

\* Put back a snapshot taken by onMutate.
Restore(q, snapshot) == IF snapshot = Absent THEN q ELSE SetQueryData(q, snapshot)

-----------------------------------------------------------------------------
(* Bucketed lists: core/issues/cache-helpers.ts.  A list is the set of its  *)
(* rows, each in the bucket of its status.                                  *)

\* The copies of an issue, and the column of the one findIssueLocation meets.
Copies(data, id) == {r \in data : r.id = id}

FindIssueLocation(data, id) ==
  LET columns == {n \in 1..Len(Statuses) : \E r \in Copies(data, id) : r.st = Statuses[n]}
  IN  Statuses[CHOOSE n \in columns : \A m \in columns : n <= m]

\* "No-op if already present": in the bucket of its status, that is.
AddIssueToBuckets(data, row) ==
  IF \E r \in data : r.id = row.id /\ r.st = row.st THEN data ELSE data \cup {row}

InBucket(data, id, st) == {r \in Copies(data, id) : r.st = st}

RemoveIssueFromBuckets(data, id) ==
  IF Copies(data, id) = {} THEN data
  ELSE data \ InBucket(data, id, FindIssueLocation(data, id))

\* { ...row, ...change }
Spread(row, change) ==
  [f \in DOMAIN row |-> IF f \in DOMAIN change THEN change[f] ELSE row[f]]

\* change is the patch, a row or some of its fields; a row that it applies to
\* lands in the bucket of its status.
PatchIssueInBuckets(data, id, change) ==
  IF Copies(data, id) = {} THEN data
  ELSE LET found == InBucket(data, id, FindIssueLocation(data, id))
       IN  (data \ found) \cup {Spread(r, change) : r \in found}

-----------------------------------------------------------------------------
(* Realtime events: core/issues/ws-updaters.ts                              *)

Active(c) == c \in mounted

OnIssueCreated(row) ==
  [list |-> Patch(query.list, AddIssueToBuckets(query.list.data, row)),
   my |-> Invalidate(query.my, Active("my")),
   detail |-> query.detail]

\* Mutant of OnIssueUpdated: only lists are refreshed.
OnIssueUpdatedListsOnly(row) ==
  [list |-> Invalidate(
     Patch(query.list, PatchIssueInBuckets(query.list.data, row.id, row)),
     Active("list")),
   my |-> Invalidate(query.my, Active("my")),
   detail |-> query.detail]

\* The payload is the whole row, its position included.
OnIssueUpdated(row) ==
  [list |-> Invalidate(
     Patch(query.list, PatchIssueInBuckets(query.list.data, row.id, row)),
     Active("list")),
   my |-> Invalidate(query.my, Active("my")),
   detail |-> IF row.id = Opened THEN Patch(query.detail, row) ELSE query.detail]

\* Mutant of OnIssueMetadataChanged: My Issues is forgotten.
OnIssueMetadataChangedNotMine(row) ==
  LET change == [meta |-> row.meta]
  IN  [list |-> Patch(query.list, PatchIssueInBuckets(query.list.data, row.id, change)),
       my |-> query.my,
       detail |-> IF row.id # Opened THEN query.detail
                  ELSE Patch(query.detail, Spread(query.detail.data, change))]

\* The payload is the metadata alone.
OnIssueMetadataChanged(row) ==
  LET change == [meta |-> row.meta]
  IN  [list |-> Patch(query.list, PatchIssueInBuckets(query.list.data, row.id, change)),
       my |-> Invalidate(query.my, Active("my")),
       detail |-> IF row.id # Opened THEN query.detail
                  ELSE Patch(query.detail, Spread(query.detail.data, change))]

Prune(q, id) == Patch(q, RemoveIssueFromBuckets(q.data, id))

CleanupDeletedIssueCaches(id) ==
  [list |-> Invalidate(Prune(query.list, id), Active("list")),
   my |-> Invalidate(Prune(query.my, id), Active("my")),
   detail |-> IF id = Opened THEN NoQuery ELSE query.detail]

\* collectDeletedIssueCacheMetadata reads every query under the "my" prefix as
\* buckets; an assignee board under it has none and the read throws.
CollectThrows == GroupsCached

OnIssueDeleted(row) ==
  IF CollectThrows THEN [query EXCEPT !.list = Blame(@, "threw"), !.my = Blame(@, "threw")]
  ELSE CleanupDeletedIssueCaches(row.id)

-----------------------------------------------------------------------------
(* The server, as this client meets it                                      *)

RowOf(id) == CHOOSE r \in rows : r.id = id

Alive == {r.id : r \in rows}

\* A handler commits a change and publishes it afterwards.
Commit(type, old, new, row) ==
  /\ rows' = (rows \ old) \cup new
  /\ born' = born \cup {row.id}
  /\ outbox' = Append(outbox, [type |-> type, row |-> row, late |-> FALSE])

Create(id) ==
  LET r == [id |-> id, st |-> First, meta |-> 0] IN Commit("created", {}, {r}, r)

Move(r, st) ==
  LET moved == [r EXCEPT !.st = st] IN Commit("updated", {r}, {moved}, moved)

Annotate(r) ==
  LET noted == [r EXCEPT !.meta = 1 - @] IN Commit("metadata", {r}, {noted}, noted)

Delete(r) == Commit("deleted", {r}, {}, r)

\* Another member or an agent writes.
OtherWrite ==
  /\ Happens
  /\ \/ \E id \in Issues \ born : Create(id)
     \/ \E r \in rows :
          \/ \E st \in Status \ {r.st} : Move(r, st)
          \/ Annotate(r)
          \/ Delete(r)
  /\ UNCHANGED <<socketVars, query, mounted, mutation, unrecovered>>

\* A frame was not sent, or was lost on the way: no cache hears of the change,
\* unless a request in flight has yet to read all of its answer.
Missed(q) ==
  IF InFlight(q) /\ \A s \in Status : q.fetch.page[s] = Absent
  THEN Because(q, "missed")
  ELSE Blame(q, "missed")

MissedByAll == [c \in Queries |-> Missed(query[c])]

\* What is still to be published after the k-th commit, which overtakes earlier ones.
Overtaken(k) ==
  RemoveAt([n \in DOMAIN outbox |->
              IF n < k /\ outbox[n].row.id = outbox[k].row.id
              THEN [outbox[n] EXCEPT !.late = TRUE] ELSE outbox[n]], k)

\* A handler publishes.  Handlers of different requests do so in any order: what an
\* earlier commit publishes later is late.
Publish(k) ==
  /\ outbox' = Overtaken(k)
  /\ IF registered
     THEN /\ pipe' = Append(pipe, outbox[k])
          /\ UNCHANGED <<query, unrecovered>>
     ELSE query' = MissedByAll /\ unrecovered' = TRUE /\ UNCHANGED pipe
  /\ UNCHANGED <<rows, born, registered, connected, before, away, mounted, mutation, events>>

-----------------------------------------------------------------------------
(* The websocket client: core/api/ws-client.ts, and the hub's end of it     *)

InvalidateWorkspaceScopedQueries(observed) ==
  [c \in Queries |-> Invalidate(query[c], c \in observed)]

\* connect, and onAuthenticated when auth_ack arrives: from the second time on
\* the reconnect callbacks run.
OnAuthenticated ==
  /\ ~connected /\ ~away
  /\ connected' = TRUE
  /\ before' = TRUE
  /\ IF before THEN query' = InvalidateWorkspaceScopedQueries(mounted) /\ unrecovered' = FALSE
               ELSE UNCHANGED <<query, unrecovered>>
  /\ UNCHANGED <<serverVars, pipe, registered, away, mounted, mutation, events>>

\* hub.register runs after auth_ack was written.  Frames sent before the client
\* handles auth_ack wait behind it: to the client they come after.
Register ==
  /\ connected /\ ~registered
  /\ registered' = TRUE
  /\ UNCHANGED <<serverVars, pipe, connected, before, away, query, mounted, mutation, unrecovered, events>>

\* Mutant of LoseFrames: the hub is left to find out.
LoseFramesLater ==
  /\ connected' = FALSE /\ pipe' = <<>>
  /\ UNCHANGED registered
  /\ IF pipe = <<>> THEN UNCHANGED <<query, unrecovered>>
                    ELSE query' = MissedByAll /\ unrecovered' = TRUE

\* The connection ends with frames still on the way.
LoseFrames ==
  /\ connected' = FALSE /\ registered' = FALSE /\ pipe' = <<>>
  /\ IF pipe = <<>> THEN UNCHANGED <<query, unrecovered>>
                    ELSE query' = MissedByAll /\ unrecovered' = TRUE

\* onclose; the timer it sets leads to Connect.
ConnectionLost ==
  /\ Happens /\ connected
  /\ LoseFrames
  /\ UNCHANGED <<serverVars, before, away, mounted, mutation>>

\* The user switches to another workspace: the provider disconnects its WSClient.
LeaveWorkspace ==
  /\ Happens /\ ~away
  /\ LoseFrames
  /\ before' = FALSE /\ away' = TRUE /\ mounted' = {}
  /\ UNCHANGED <<serverVars, mutation>>

\* onmessage: the subscriber of the frame's type.
Deliver ==
  /\ connected /\ pipe # <<>>
  /\ pipe' = Tail(pipe)
  /\ LET e == Head(pipe)
         handled == CASE e.type = "created" -> OnIssueCreated(e.row)
                      [] e.type = "updated" -> OnIssueUpdated(e.row)
                      [] e.type = "metadata" -> OnIssueMetadataChanged(e.row)
                      [] e.type = "deleted" -> OnIssueDeleted(e.row)
     IN  /\ query' = IF ~e.late THEN handled
                     ELSE [handled EXCEPT !.list = Because(@, "reordered"),
                                          !.detail = Because(@, "reordered")]
         /\ mounted' = IF handled.detail = NoQuery THEN mounted \ {"detail"} ELSE mounted
  /\ UNCHANGED <<serverVars, registered, connected, before, away, mutation, unrecovered, events>>

-----------------------------------------------------------------------------
(* Pages and requests                                                       *)

\* An observer that mounts reads a query without data or with the flag set.
Mount(q) ==
  IF ~InFlight(q) /\ (q.data = Absent \/ q.inv) THEN [q EXCEPT !.fetch = NewFetch(q)] ELSE q

OpenPage(c) ==
  /\ ~away /\ c \notin mounted
  /\ IF query[c] = NoQuery THEN Happens ELSE UNCHANGED events
  /\ c = "detail" => Opened \in born
  /\ mounted' = {c}
  /\ query' = [query EXCEPT ![c] = Mount(@)]
  /\ UNCHANGED <<serverVars, socketVars, mutation, unrecovered>>

\* Back in the workspace: the board mounts, and the new WSClient instance
\* invalidates at once, before it has connected.
ReturnToWorkspace ==
  /\ away /\ away' = FALSE
  /\ mounted' = {"list"}
  /\ query' = [InvalidateWorkspaceScopedQueries({"list"}) EXCEPT !.list = Mount(@)]
  /\ unrecovered' = FALSE
  /\ UNCHANGED <<serverVars, pipe, registered, connected, before, mutation, events>>

\* The server answers one request of a query: fetchFirstPages sends one per
\* column, an issue's page a single one.  They are answered in the order of the
\* columns here: another order is this one with the columns renamed.
ReadPage(c, st) ==
  /\ InFlight(query[c]) /\ query[c].fetch.page[st] = Absent
  /\ \A n \in 1..Len(Statuses) :
       query[c].fetch.page[Statuses[n]] = Absent => \E m \in 1..n : Statuses[m] = st
  /\ query' = [query EXCEPT ![c].fetch.page =
       IF c = "detail" THEN [s \in Status |-> {r \in rows : r.id = Opened /\ r.st = s}]
                       ELSE [@ EXCEPT ![st] = {r \in rows : r.st = st}]]
  /\ UNCHANGED <<serverVars, socketVars, mounted, mutation, unrecovered, events>>

\* A request that failed, after its retry: what is cached stays, flagged.
FetchError(q) ==
  Because([q EXCEPT !.fetch = Absent, !.inv = TRUE], "failed")

\* The whole answer arrived.
FetchSuccess(c) ==
  /\ InFlight(query[c]) /\ \A s \in Status : query[c].fetch.page[s] # Absent
  /\ LET q == query[c]
         got == UNION {q.fetch.page[s] : s \in Status}
         fresh(d) == [data |-> d, inv |-> FALSE, why |-> q.fetch.why, fetch |-> Absent]
     IN  query' = [query EXCEPT ![c] =
           IF c # "detail" THEN fresh(got)
           ELSE IF got = {} THEN FetchError(q)
           ELSE fresh(CHOOSE r \in got : TRUE)]
  /\ UNCHANGED <<serverVars, socketVars, mounted, mutation, unrecovered, events>>

FetchFails(c) ==
  /\ Happens /\ InFlight(query[c])
  /\ query' = [query EXCEPT ![c] = FetchError(@)]
  /\ UNCHANGED <<serverVars, socketVars, mounted, mutation, unrecovered>>

-----------------------------------------------------------------------------
(* Mutations: core/issues/mutations.ts.  A mutation is "sent", then "ok" or  *)
(* "failed" until its callbacks run; snap is what onMutate returned.         *)

NoSnap == [c \in Queries |-> Absent]

Snapshot(id) ==
  [c \in Queries |-> IF c = "detail" /\ id # Opened THEN Absent ELSE query[c].data]

Visible(id) ==
  \E c \in mounted : IF c = "detail" THEN query.detail.data # Absent /\ Opened = id
                     ELSE query[c].data # Absent /\ Copies(query[c].data, id) # {}

Mutate(kind, id, to, snap) ==
  /\ Happens
  /\ mutation' = mutation \cup
       {[n |-> events, kind |-> kind, id |-> id, to |-> to, phase |-> "sent",
         row |-> Absent, snap |-> snap]}

\* useCreateIssue: nothing is shown before the answer.
CreateIssue ==
  \E id \in Issues \ born :
    /\ ~away
    /\ Mutate("create", id, First, NoSnap)
    /\ UNCHANGED <<serverVars, socketVars, query, mounted, unrecovered>>

\* useUpdateIssue, onMutate: the list's requests are cancelled, the detail's are not.
UpdateIssue(id, to) ==
  LET change == [st |-> to]
  IN  /\ Visible(id)
      /\ Mutate("update", id, to, [Snapshot(id) EXCEPT !.my = Absent])
      /\ query' = [query EXCEPT
           !.list = Patch(Cancel(@), PatchIssueInBuckets(@.data, id, change)),
           !.detail = IF id = Opened THEN Patch(@, Spread(@.data, change)) ELSE @]
      /\ UNCHANGED <<serverVars, socketVars, mounted, unrecovered>>

\* useDeleteIssue, onMutate.  When collecting throws, the request is never
\* sent: onError finds no context, onSettled runs.
DeleteIssue(id) ==
  LET list == Cancel(query.list)
      my == IF InFlight(query.my) THEN Because(Cancel(query.my), "cancelled") ELSE query.my
  IN  /\ Visible(id)
      /\ IF CollectThrows
         THEN /\ Happens
              /\ query' = [query EXCEPT !.list = Invalidate(list, Active("list")), !.my = my]
              /\ UNCHANGED <<mounted, mutation>>
         ELSE /\ Mutate("delete", id, First, Snapshot(id))
              /\ query' = [list |-> Prune(list, id), my |-> Prune(my, id),
                           detail |-> IF id = Opened THEN NoQuery ELSE query.detail]
              /\ mounted' = IF id = Opened THEN mounted \ {"detail"} ELSE mounted
      /\ UNCHANGED <<serverVars, socketVars, unrecovered>>

Become(m, phase, row) ==
  mutation' = (mutation \ {m}) \cup {[m EXCEPT !.phase = phase, !.row = row]}

\* The server executes a request, or finds no such issue.
Execute(m) ==
  /\ m.phase = "sent"
  /\ \/ /\ m.kind = "create" /\ m.id \notin born
        /\ Create(m.id)
        /\ Become(m, "ok", [id |-> m.id, st |-> First, meta |-> 0])
     \/ /\ m.kind = "update" /\ m.id \in Alive
        /\ Move(RowOf(m.id), m.to)
        /\ Become(m, "ok", Absent)
     \/ /\ m.kind = "delete" /\ m.id \in Alive
        /\ Delete(RowOf(m.id))
        /\ Become(m, "ok", Absent)
     \/ /\ m.id \notin Alive /\ (m.kind = "create" => m.id \in born)
        /\ Become(m, "failed", Absent)
        /\ UNCHANGED serverVars
  /\ UNCHANGED <<socketVars, query, mounted, unrecovered, events>>

\* The request or its answer is lost, or the server refuses it.
RequestFails(m) ==
  /\ Happens /\ m.phase # "failed"
  /\ Become(m, "failed", Absent)
  /\ UNCHANGED <<serverVars, socketVars, query, mounted, unrecovered>>

\* A snapshot that nothing refreshes afterwards.
RestoreUnflagged(q, snapshot) ==
  IF snapshot = Absent THEN q ELSE Because(SetQueryData(q, snapshot), "restored")

\* onError: every query gets its snapshot back.
RolledBack(Q, m) ==
  [list |-> Restore(Q.list, m.snap.list),
   my |-> RestoreUnflagged(Q.my, m.snap.my),
   detail |-> IF m.kind = "delete" THEN RestoreUnflagged(Q.detail, m.snap.detail)
                                   ELSE Restore(Q.detail, m.snap.detail)]

\* onSuccess.
Succeeded(m) ==
  CASE m.kind = "create" ->
         [query EXCEPT !.list = Patch(@, AddIssueToBuckets(@.data, m.row))]
    [] m.kind = "update" -> query
    [] m.kind = "delete" -> CleanupDeletedIssueCaches(m.id)

\* Mutant of OnSettled: only the issue is invalidated.
OnSettledDetailOnly(Q, m) ==
  [Q EXCEPT !.detail = IF m.kind = "update" /\ m.id = Opened
                       THEN Invalidate(@, Active("detail")) ELSE @]

\* onSettled.
OnSettled(Q, m) ==
  [Q EXCEPT
    !.list = Invalidate(@, Active("list")),
    !.detail = IF m.kind = "update" /\ m.id = Opened
               THEN Invalidate(@, Active("detail")) ELSE @]

Settle(m) ==
  /\ m.phase # "sent"
  /\ mutation' = mutation \ {m}
  /\ query' = OnSettled(IF m.phase = "ok" THEN Succeeded(m) ELSE RolledBack(query, m), m)
  /\ mounted' = IF query'.detail = NoQuery THEN mounted \ {"detail"} ELSE mounted
  /\ UNCHANGED <<serverVars, socketVars, unrecovered, events>>

-----------------------------------------------------------------------------

Init ==
  /\ born \in SUBSET Issues
  /\ rows = {[id |-> i, st |-> First, meta |-> 0] : i \in born}
  /\ outbox = <<>> /\ pipe = <<>>
  /\ registered = FALSE /\ connected = FALSE /\ before = FALSE /\ away = FALSE
  /\ query = [c \in Queries |-> IF c = "list" THEN Mount(NoQuery) ELSE NoQuery]
  /\ mounted = {"list"}
  /\ mutation = {}
  /\ unrecovered = FALSE
  /\ events = 0

Socket == Register \/ OnAuthenticated \/ Deliver

User ==
  \/ \E c \in Queries : OpenPage(c)
  \/ CreateIssue
  \/ \E id \in Issues : DeleteIssue(id) \/ \E to \in Status : UpdateIssue(id, to)

Next ==
  \/ OtherWrite
  \/ \E k \in DOMAIN outbox : Publish(k)
  \/ Socket
  \/ ConnectionLost \/ LeaveWorkspace \/ ReturnToWorkspace
  \/ User
  \/ \E c \in Queries : FetchSuccess(c) \/ FetchFails(c) \/ \E st \in Status : ReadPage(c, st)
  \/ \E m \in mutation : Execute(m) \/ RequestFails(m) \/ Settle(m)

Spec == Init /\ [][Next]_vars

-----------------------------------------------------------------------------

\* The types; a row alive was born, and only a connected socket is registered.
TypeOK ==
  /\ rows \subseteq Row /\ born \subseteq Issues /\ Alive \subseteq born
  /\ \A n \in DOMAIN outbox : outbox[n].row \in Row
  /\ registered => connected
  /\ mounted \subseteq Queries /\ Cardinality(mounted) <= 1
  /\ \A c \in {"list", "my"} : query[c].data = Absent \/ query[c].data \subseteq Row
  /\ query.detail.data = Absent \/ query.detail.data \in Row
  /\ \A c \in Queries : query[c].why \subseteq Causes

\* Nothing is on its way: what is cached now stays until something happens.
Quiet ==
  /\ outbox = <<>> /\ pipe = <<>> /\ mutation = {}
  /\ connected /\ registered /\ ~away

\* A query that no event is about to change: not flagged, or flagged while its
\* page is already open, which starts no request.
AtRest(c) ==
  /\ query[c].data # Absent /\ ~InFlight(query[c])
  /\ query[c].inv => c \in mounted

Current(c) ==
  IF c = "detail" THEN Opened \in Alive => query.detail.data = RowOf(Opened)
                  ELSE query[c].data = rows

\* c shows what the server has, or one of the excuses explains why not.
CurrentUnless(c, excuses) ==
  Quiet /\ AtRest(c) /\ query[c].why \cap excuses = {} => Current(c)

\* Once nothing is on its way, the board shows every issue once, where and as
\* the server has it.  In particular a failed mutation, whose snapshot undoes
\* the events handled meanwhile and whose onMutate cancelled a refetch, leaves
\* nothing behind.  Excused: a lost or late frame, a request whose answer was
\* older than an event handled while it ran, a flag cleared by a patch.
ListCurrent == CurrentUnless("list", Causes)

\* The same for My Issues, which events only invalidate: late frames and patches
\* need no excuse.  A delete that fails does: it cancels and restores this query
\* and, unlike the list, does not invalidate it.
MyCurrent == CurrentUnless("my", Causes)

\* The same for the page of an issue that still exists.  A delete that fails puts
\* back the issue as it was before the events handled meanwhile, and invalidates
\* the lists alone.
DetailCurrent == CurrentUnless("detail", Causes)

\* "Recover events missed while disconnected": once the reconnect callbacks ran
\* and nothing was missed since, no cache at rest lacks a missed event
\* ("Inactive caches only get marked stale here and refetch on next mount").
RecoveryReachesEveryCache ==
  Quiet /\ ~unrecovered => \A c \in Queries : AtRest(c) => "missed" \notin query[c].why

\* The cache helpers do not "have to special-case a non-bucketed shape under the
\* my prefix": ListCurrent without the excuse that one made a helper throw.
NoHelperThrows == CurrentUnless("list", Causes \ {"threw"})
=============================================================================
