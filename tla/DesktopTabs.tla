---------------------------- MODULE DesktopTabs ----------------------------
(***************************************************************************)
(* The tabs of the desktop application at work: the store of TabStore, the *)
(* memory router of every tab, the component that copies the router of the *)
(* visible tab into the store (hooks/use-tab-router-sync.ts), the          *)
(* navigation adapters (platform/navigation.tsx), and the requests after   *)
(* whose answer a page still navigates.                                    *)
(*                                                                         *)
(* Only the tabs of the shown workspace are rendered; of these, all but    *)
(* the active one are hidden, and a hidden component has no effects: its   *)
(* subscription to the router ends, its refs stay.  React runs the effects *)
(* of a commit before the next event of the user: one action does both.    *)
(***************************************************************************)
EXTENDS TabStore

CONSTANTS
  LinksElsewhere, \* documents hold links to pages of other workspaces
  MaxHistory,     \* bound: entries of a router, and what a hook counts
  MaxLate         \* bound: requests under way after whose answer a page navigates

ASSUME BoundAssumption ==
  LinksElsewhere \in BOOLEAN /\ MaxHistory \in Nat \ {0} /\ MaxLate \in Nat

VARIABLES
  store,      \* the tab store
  router,     \* of each tab: the entries of its memory history, and the current one
  hook,       \* of each rendered tab: indexRef and lengthRef of useTabRouterSync
  late,       \* navigations that wait for an answer: of which tab, to which path
  strayed     \* tabs whose hook no longer counts what their router does

vars == <<store, router, hook, late, strayed>>

NoHook == [at |-> 0, len |-> 1]

Router == [entries : Seq(Path), at : Nat \ {0}]

ASSUME RouterAssumption == None \notin Router

\* createTabRouter
NewRouter(path) == [entries |-> <<path>>, at |-> 1]

Location(r) == r.entries[r.at]

\* The tab the user looks at.
Visible(S) == IF S.active = None THEN None ELSE S.groups[S.active].active

Rendered(S) == IF S.active = None THEN {} ELSE TabIds(S.groups[S.active].tabs)

\* The id of a tab if one is made: None when all are used.
NewIds ==
  LET unused == Ids \ (AllIds(store) \cup {n.tab : n \in late})
  IN  IF unused = {} THEN {None} ELSE unused

-----------------------------------------------------------------------------
(* React commits *)

\* Mutant of Commit: a tab that becomes visible keeps the path it had.
CommitUnsynced(S, R) ==
  /\ store' = S /\ router' = R
  /\ hook' = [id \in Ids |-> IF id \in Rendered(S) THEN hook[id] ELSE NoHook]

\* The store became S and the routers R.  Tabs that are not rendered any more lose
\* their refs; the visible one runs its effect, which copies the path only.
Commit(S, R) ==
  LET v == Visible(S)
  IN  /\ store' = IF v = None THEN S ELSE UpdateTab(S, v, Location(R[v]))
      /\ router' = R
      /\ hook' = [id \in Ids |-> IF id \in Rendered(S) THEN hook[id] ELSE NoHook]

\* Mutant of RoutersOf: the router of a closed tab is not disposed.
RoutersOfLeaking(S) ==
  [id \in Ids |-> IF router[id] = None /\ id \in AllIds(S)
                  THEN NewRouter(TabOf(S, id).path) ELSE router[id]]

\* The routers that go with S: new tabs get one, those of closed tabs are disposed.
RoutersOf(S) ==
  LET open == AllIds(S)
  IN  [id \in Ids |-> IF id \notin open THEN None
                      ELSE IF router[id] # None THEN router[id] ELSE NewRouter(TabOf(S, id).path)]

\* The tabs whose refs are lost although they differ from a new tab's.
Forgotten(S) == {id \in Rendered(store) \ Rendered(S) : hook[id] # NoHook}

\* The navigations L under way in S: those whose tab is gone reach no router.
Orphaned(S, L) == {[n EXCEPT !.tab = IF n.tab \in AllIds(S) THEN n.tab ELSE None] : n \in L}

\* No tab may be without an id: the bound on the tabs there are.
StoreBecomes(S, L) ==
  /\ None \notin AllIds(S)
  /\ Commit(S, RoutersOf(S))
  /\ late' = Orphaned(S, L)
  /\ strayed' = (strayed \cup Forgotten(S)) \cap AllIds(S)

-----------------------------------------------------------------------------
(* Navigation within a tab *)

\* A memory history: a push drops the entries ahead, a step stays within bounds.
Pushed(r, path) == [entries |-> Append(SubSeq(r.entries, 1, r.at), path), at |-> r.at + 1]

\* The subscription of the visible tab: the hook counts, and tells the store.
Counted(id, r, h) ==
  /\ router' = [router EXCEPT ![id] = r]
  /\ hook' = [hook EXCEPT ![id] = h]
  /\ store' = UpdateTabHistory(UpdateTab(store, id, Location(r)), id, h.at, h.len)
  /\ UNCHANGED strayed

\* A push into the visible tab.
PushVisible(id, path) ==
  /\ router[id].at < MaxHistory /\ hook[id].at + 1 < MaxHistory
  /\ Counted(id, Pushed(router[id], path), [at |-> hook[id].at + 1, len |-> hook[id].at + 2])

\* A push into a hidden tab, or into one of a workspace that is not shown.
PushHidden(id, path) ==
  /\ router[id].at < MaxHistory
  /\ router' = [router EXCEPT ![id] = Pushed(@, path)]
  /\ strayed' = strayed \cup {id}
  /\ UNCHANGED <<store, hook>>

\* back of the title bar and of a page; a step that is not hinted counts as back.
Back ==
  LET v == Visible(store)
      r == router[v]
      h == hook[v]
  IN  /\ v # None
      /\ Counted(v, [r EXCEPT !.at = IF @ = 1 THEN 1 ELSE @ - 1],
                    [h EXCEPT !.at = IF @ = 0 THEN 0 ELSE @ - 1])
      /\ UNCHANGED late

\* goForward of the title bar, which trusts the store.
GoForward ==
  LET v == Visible(store)
      r == router[v]
      h == hook[v]
  IN  /\ v # None
      /\ TabOf(store, v).at + 1 < TabOf(store, v).len
      /\ Counted(v, [r EXCEPT !.at = IF @ = Len(r.entries) THEN @ ELSE @ + 1],
                    [h EXCEPT !.at = IF @ + 1 < h.len THEN @ + 1 ELSE h.len - 1])
      /\ UNCHANGED late

\* The user leaves or deletes the only workspace: before the request is sent,
\* and whether or not it succeeds, the tab is parked on "/" under an overlay.
Park ==
  LET v == Visible(store)
  IN  /\ v # None /\ DOMAIN store.groups = {store.active}
      /\ Location(router[v]) # Root
      /\ Counted(v, [router[v] EXCEPT !.entries[router[v].at] = Root], hook[v])
      /\ UNCHANGED late

-----------------------------------------------------------------------------
(* The navigation adapters.  A push comes from the tab origin, None when its   *)
(* router was disposed; whether it goes to another workspace, or comes from a  *)
(* pinned tab, is decided by the tab that is visible by now.                   *)

Switched(path, L) ==
  \E id \in NewIds : StoreBecomes(SwitchWorkspace(store, path.slug, path, id), L)

\* tryRouteToPinnedNewTab: the visible tab is pinned and shows another page.
PinnedNewTab(path) ==
  LET v == Visible(store)
  IN  v # None /\ TabOf(store, v).pinned /\ Location(router[v]) # path

\* Mutant of PushFrom: the check for another workspace is missing.
PushFromWithin(origin, path, L) ==
  /\ origin # None /\ Location(router[origin]) # path
  /\ \/ PinnedNewTab(path) /\ \E id \in NewIds : StoreBecomes(OpenTabInFront(store, path, id), L)
     \/ /\ ~PinnedNewTab(path)
        /\ late' = L
        /\ IF origin = Visible(store) THEN PushVisible(origin, path) ELSE PushHidden(origin, path)

PushFrom(origin, path, L) ==
  /\ origin # None => Location(router[origin]) # path
  /\ \/ path.slug # store.active /\ Switched(path, L)
     \/ /\ path.slug = store.active /\ PinnedNewTab(path)
        /\ \E id \in NewIds : StoreBecomes(OpenTabInFront(store, path, id), L)
     \/ /\ path.slug = store.active /\ ~PinnedNewTab(path) /\ origin # None
        /\ late' = L
        /\ IF origin = Visible(store) THEN PushVisible(origin, path) ELSE PushHidden(origin, path)

\* A page of the visible tab, the sidebar, the search, a notification.
Push(path) ==
  /\ Visible(store) # None \/ path.slug # store.active
  /\ PushFrom(Visible(store), path, late)

\* A page (there is none on "/") that goes back to a list of its own workspace, the
\* one its path names, when a request was answered,
\* whatever happened to its tab since.
StartRequest ==
  LET v == Visible(store)
      page == Location(router[v])
  IN  /\ Cardinality(late) < MaxLate
      /\ v # None /\ page # Root
      /\ late' = late \cup {[tab |-> v, path |-> DefaultPath(page.slug)]}
      /\ UNCHANGED <<store, router, hook, strayed>>

PushLate(n) ==
  /\ n \in late
  /\ PushFrom(n.tab, n.path, late \ {n})

\* The page it is on, or no page that can move.
DropLate(n) ==
  /\ n \in late
  /\ \/ n.tab = None
     \/ n.tab # None /\ Location(router[n.tab]) = n.path
  /\ late' = late \ {n}
  /\ UNCHANGED <<store, router, hook, strayed>>

\* replace of the adapters, for which a pinned tab is like any other.
Replace(path) ==
  LET v == Visible(store)
  IN  /\ \/ path.slug # store.active /\ Switched(path, late)
         \/ /\ path.slug = store.active /\ v # None
            /\ Counted(v, [router[v] EXCEPT !.entries[router[v].at] = path], hook[v])
            /\ UNCHANGED late
    
\* openInNewTab, in the background or in front.
OpenInNewTab(path) ==
  /\ \/ path.slug # store.active /\ Switched(path, late)
     \/ /\ path.slug = store.active
        /\ \E id \in NewIds : \/ StoreBecomes(OpenTab(store, path, id), late)
                              \/ StoreBecomes(OpenTabInFront(store, path, id), late)

\* A link in a document, opened with the multica:navigate event.
OpenLink(path) ==
  /\ store.active # None
  /\ path.slug = store.active \/ LinksElsewhere
  /\ \E id \in NewIds : StoreBecomes(OpenTabInFront(store, path, id), late)

-----------------------------------------------------------------------------
(* The tab bar and the window *)

NewTab ==
  /\ store.active # None
  /\ \E id \in NewIds :
       StoreBecomes(AddTabInFront(store, DefaultPath(store.active), id), late)

\* The X is hidden on a pinned tab and on the only one; the menu, the error page
\* and Cmd+W close them all but the only one, which the error page does.
Close(id) ==
  /\ id \in Rendered(store)
  /\ \E fresh \in NewIds : StoreBecomes(CloseTab(store, id, fresh), late)

SetActive(id) ==
  /\ id \in Rendered(store) \ {Visible(store)}
  /\ StoreBecomes(SetActiveTab(store, id), late)

Reordered(tabs) ==
  [store EXCEPT !.groups = With(@, store.active, [@[store.active] EXCEPT !.tabs = tabs])]

TogglePin(id) ==
  /\ id \in Rendered(store)
  /\ LET tabs == store.groups[store.active].tabs
         i == IndexOf(tabs, id)
     IN  \E b \in 0..(Len(tabs) - 1) :
           /\ IsPinnedBoundary(RemoveAt(tabs, i), b)
           /\ StoreBecomes(Reordered(Toggled(tabs, i, b)), late)

Move(from, to) ==
  /\ store.active # None
  /\ LET tabs == store.groups[store.active].tabs
     IN  /\ {from, to} \subseteq DOMAIN tabs /\ from # to
         /\ \E b \in 0..Len(tabs) :
              /\ IsPinnedBoundary(tabs, b)
              /\ StoreBecomes(Reordered(MoveTo(tabs, from, to, b)), late)

\* reloadActiveTab: a new router on the page the tab shows.  The refs stay.
Reload ==
  LET v == Visible(store)
  IN  /\ v # None
      /\ Commit(UpdateTabHistory(store, v, 0, 1),
                [router EXCEPT ![v] = NewRouter(TabOf(store, v).path)])
      /\ late' = {[n EXCEPT !.tab = IF n.tab = v THEN None ELSE n.tab] : n \in late}
      /\ strayed' = IF hook[v] = NoHook THEN strayed \ {v} ELSE strayed \cup {v}
    
-----------------------------------------------------------------------------
(* The session *)

\* The list of workspaces arrives, changes (App), or lacks the one whose page is
\* shown (WorkspaceRouteLayout): the store is validated against the list W.
Validate(W) ==
  \E id \in NewIds, shown \in ShownNext(store, W) :
    StoreBecomes(Validated(store, W, shown, id), late)

Logout == store # NoTabs /\ StoreBecomes(NoTabs, late)

\* The application quits and starts: the saved store is merged.
Restart ==
  /\ late' = {} /\ strayed' = {} /\ hook' = [id \in Ids |-> NoHook]
  /\ \E order \in [KeptSlugs(store) -> UNION {Rehydrations(store.groups[s].tabs, s) : s \in KeptSlugs(store)}],
        shown \in ShownAfterMerge(store) :
       /\ IsOrder(store, order)
       /\ store' = Merged(store, order, shown)
  /\ router' = [id \in Ids |-> IF id \in AllIds(store')
                               THEN NewRouter(TabOf(store', id).path) ELSE None]

-----------------------------------------------------------------------------
\* A first start.
Init ==
  /\ store = NoTabs
  /\ router = [id \in Ids |-> None]
  /\ hook = [id \in Ids |-> NoHook]
  /\ late = {} /\ strayed = {}

Next ==
  \/ Back \/ GoForward \/ Park \/ NewTab \/ Reload \/ StartRequest \/ Logout \/ Restart
  \/ \E path \in Scopes : \/ Push(path) \/ Replace(path)
                          \/ OpenInNewTab(path) \/ OpenLink(path)
  \/ \E n \in late : PushLate(n) \/ DropLate(n)
  \/ \E id \in Ids : Close(id) \/ SetActive(id) \/ TogglePin(id)
  \/ \E from, to \in 1..Cardinality(Ids) : Move(from, to)
  \/ \E W \in SUBSET Slugs : Validate(W)

Spec == Init /\ [][Next]_vars
-----------------------------------------------------------------------------
(* Properties *)

\* Every variable keeps its type; a tab has a router exactly while it is open, and
\* a late navigation goes to an open tab or to none.
TypeOK ==
  /\ store.active \in Slugs \cup {None}
  /\ DOMAIN store.groups \subseteq Slugs
  /\ \A s \in DOMAIN store.groups : store.groups[s] \in Group
  /\ \A id \in AllIds(store) :
       router[id] \in Router /\ router[id].at \in 1..Len(router[id].entries)
  /\ \A id \in Ids \ AllIds(store) : router[id] = None
  /\ hook \in [Ids -> [at : Nat, len : Nat \ {0}]]
  /\ late \subseteq [tab : AllIds(store) \cup {None}, path : Scopes]
  /\ strayed \subseteq AllIds(store)

\* Whatever the user, late answers, the list of workspaces and restarts do, the
\* active tab of a group is one of its tabs, a tab is in one group only, and the
\* shown workspace has a group: no page is lost and none is shown twice.
ActiveTabExists == GroupsWellFormed(store)

\* The invariant togglePin and moveTab enforce, and merge restores: pinned tabs
\* come before the others.
PinnedTabsFirst == AllPinnedFirst(store)

\* A tab shows pages of the workspace in whose group it is; it is on "/" only when
\* it was parked there.
TabsStayInWorkspace ==
  \A s \in DOMAIN store.groups : \A i \in DOMAIN store.groups[s].tabs :
    store.groups[s].tabs[i].path.slug \in {s, None}

\* A link in a document to a page of another workspace than the shown one.
LinkElsewhere == \E path \in Scopes : path.slug # store.active /\ OpenLink(path)

\* A tab of the group of slug that shows a page of another workspace, or may come to
\* by going back or forward or by a late answer.
LeadsElsewhere(slug, tab) ==
  \/ tab.path.slug \notin {slug, None}
  \/ \E k \in DOMAIN router[tab.id].entries : router[tab.id].entries[k].slug \notin {slug, None}
  \/ \E n \in late : n.tab = tab.id /\ n.path.slug # slug

Strangers ==
  {id \in Ids : \E slug \in DOMAIN store.groups : \E i \in DOMAIN store.groups[slug].tabs :
     LET tab == store.groups[slug].tabs[i]
     IN  tab.id = id /\ LeadsElsewhere(slug, tab)}

\* Also in an application whose documents link to other workspaces, which breaks
\* TabsStayInWorkspace: such a link is the only way a page of another workspace gets
\* into a tab, its history or an answer under way.  No push, no switch, no going
\* back, no late answer and no restart takes a further tab there.
StrangersComeByLink == [][Strangers' \subseteq Strangers \/ LinkElsewhere]_vars

\* What the tab bar and the title bar show is what the visible tab's router has:
\* its page, and whether it can go back and forward.  The counts are right until
\* the hook misses something, which it does when the tab's workspace is left, when
\* the tab is reloaded and when a late answer moves the tab while it is hidden.
BarsShowTheRouter ==
  LET v == Visible(store)
      tab == TabOf(store, v)
  IN  v # None =>
        /\ tab.path = Location(router[v])
        /\ v \notin strayed =>
             /\ tab.at = router[v].at - 1
             /\ tab.len = Len(router[v].entries)

\* A restart brings back every tab that shows a page of its workspace and no
\* other, in the order the tabs had, and the active one if it is among them.
RestartKeepsTabs ==
  [][Restart =>
       \A s \in DOMAIN store.groups :
         LET tabs  == store.groups[s].tabs
             own   == {i \in DOMAIN tabs : tabs[i].path.slug = s}
             after == store'.groups[s].tabs
         IN  own # {} =>
               /\ s \in DOMAIN store'.groups
               /\ TabIds(after) = {tabs[i].id : i \in own}
               /\ \A m, n \in DOMAIN after, i, j \in own :
                    after[m].id = tabs[i].id /\ after[n].id = tabs[j].id => (m < n <=> i < j)
               /\ (\E i \in own : tabs[i].id = store.groups[s].active)
                    => store'.groups[s].active = store.groups[s].active]_vars
=============================================================================
