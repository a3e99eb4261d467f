------------------------------ MODULE TabStore ------------------------------
(***************************************************************************)
(* The tab store of the desktop application (stores/tab-store.ts): per     *)
(* workspace a group of tabs and the group's active tab, and the workspace *)
(* whose group is shown.  Every operation of the store is an operator from *)
(* the store before it, to the store after it; DesktopTabs runs them.      *)
(*                                                                         *)
(* Titles and icons are left out.  A path is its workspace and its page; a *)
(* path of no workspace ("/", "/login") is one sanitizeTabPath rejects.    *)
(***************************************************************************)
EXTENDS Naturals, Sequences, FiniteSets, SequencesExt

CONSTANTS
  Slugs,      \* workspace slugs
  Scopes,     \* paths of pages of a workspace: the workspace and the page
  Issues,     \* the page a workspace opens on
  Ids,        \* tab ids
  None

ASSUME TabAssumption ==
  /\ None \notin Slugs \cup Ids
  /\ \A path \in Scopes : path.slug \in Slugs
  /\ \A slug \in Slugs : [slug |-> slug, page |-> Issues] \in Scopes

\* Where a tab is parked when its workspace is left for good.
Root == [slug |-> None, page |-> Issues]

Path == Scopes \cup {Root}

\* A tab, with the position and the length of its history as the store has them.
Tab == [id : Ids, path : Path, pinned : BOOLEAN, at : Nat, len : Nat]

Group == [tabs : Seq(Tab), active : Ids]

-----------------------------------------------------------------------------
(* Helpers *)

\* sanitizeTabPath keeps the path.
Scoped(path) == path.slug # None

DefaultPath(slug) == [slug |-> slug, page |-> Issues]

MakeTab(id, path) == [id |-> id, path |-> path, pinned |-> FALSE, at |-> 0, len |-> 1]

Single(tab) == [tabs |-> <<tab>>, active |-> tab.id]

\* The groups with that of slug set to g.
With(groups, slug, g) ==
  [s \in DOMAIN groups \cup {slug} |-> IF s = slug THEN g ELSE groups[s]]

TabIds(tabs) == {tabs[i].id : i \in DOMAIN tabs}

AllIds(S) == UNION {TabIds(S.groups[s].tabs) : s \in DOMAIN S.groups}

\* findTabLocation: the group and the index of a tab.
SlugOf(S, id) == 
  CHOOSE s \in DOMAIN S.groups : \E i \in DOMAIN S.groups[s].tabs : S.groups[s].tabs[i].id = id

IndexOf(tabs, id) == CHOOSE i \in DOMAIN tabs : tabs[i].id = id

TabOf(S, id) ==
  LET tabs == S.groups[SlugOf(S, id)].tabs IN tabs[IndexOf(tabs, id)]

\* The store with the tab id replaced by tab.
Replaced(S, id, tab) ==
  LET slug == SlugOf(S, id)
      g == S.groups[slug]
  IN  [S EXCEPT !.groups = With(@, slug,
         [g EXCEPT !.tabs = [@ EXCEPT ![IndexOf(g.tabs, id)] = tab]])]

\* tabs.find((t) => t.path === path)
FirstAt(tabs, path, i) ==
  /\ i \in DOMAIN tabs /\ tabs[i].path = path
  /\ \A j \in DOMAIN tabs : j < i => tabs[j].path # path

\* b is pinnedBoundary(tabs), the number of tabs before the first unpinned one.
IsPinnedBoundary(tabs, b) ==
  /\ b \in 0..Len(tabs)
  /\ \A i \in 1..b : tabs[i].pinned
  /\ b < Len(tabs) => ~tabs[b + 1].pinned

-----------------------------------------------------------------------------
(* Operations.  id is what createId returns when a tab is made. *)

\* The tab of group g that shows path: the first that does, or a new one.
Dedupe(g, path, id) ==
  IF \E i \in DOMAIN g.tabs : FirstAt(g.tabs, path, i)
  THEN [tabs |-> g.tabs, shows |-> g.tabs[CHOOSE i \in DOMAIN g.tabs : FirstAt(g.tabs, path, i)].id]
  ELSE [tabs |-> Append(g.tabs, MakeTab(id, path)), shows |-> id]

\* path is a page of slug.
SwitchWorkspace(S, slug, path, id) ==
  LET to == Dedupe(S.groups[slug], path, id)
  IN  [active |-> slug,
       groups |-> With(S.groups, slug,
         IF slug \in DOMAIN S.groups THEN [tabs |-> to.tabs, active |-> to.shows]
         ELSE Single(MakeTab(id, path)))]

\* A tab that already shows the path is activated, a new one is not.
OpenTab(S, path, id) ==
  LET g == S.groups[S.active]
      to == Dedupe(g, path, id)
  IN  [S EXCEPT !.groups = With(@, S.active,
         [tabs |-> to.tabs, active |-> IF to.tabs = g.tabs THEN to.shows ELSE g.active])]

\* openTab, and setActiveTab on what it returned.
OpenTabInFront(S, path, id) ==
  LET to == Dedupe(S.groups[S.active], path, id)
  IN  [S EXCEPT !.groups = With(@, S.active, [tabs |-> to.tabs, active |-> to.shows])]

\* addTab, and setActiveTab on what it returned.
AddTabInFront(S, path, id) ==
  LET g == S.groups[S.active]
  IN  [S EXCEPT !.groups = With(@, S.active,
         [tabs |-> Append(g.tabs, MakeTab(id, path)), active |-> id])]

\* The last tab of a group is replaced by a default one; another tab that was
\* active hands over to its right neighbour, or to the last one.
CloseTab(S, id, fresh) ==
  LET slug == SlugOf(S, id)
      g == S.groups[slug]
      i == IndexOf(g.tabs, id)
      left == RemoveAt(g.tabs, i)
  IN  [S EXCEPT !.groups = With(@, slug,
         IF Len(g.tabs) = 1 THEN Single(MakeTab(fresh, DefaultPath(slug)))
         ELSE [tabs |-> left,
               active |-> IF g.active # id THEN g.active
                          ELSE IF i <= Len(left) THEN left[i].id ELSE left[Len(left)].id])]

\* Finds the tab in any group, and shows that group.
SetActiveTab(S, id) ==
  [active |-> SlugOf(S, id),
   groups |-> With(S.groups, SlugOf(S, id), [S.groups[SlugOf(S, id)] EXCEPT !.active = id])]

UpdateTab(S, id, path) == Replaced(S, id, [TabOf(S, id) EXCEPT !.path = path])

UpdateTabHistory(S, id, at, len) ==
  Replaced(S, id, [TabOf(S, id) EXCEPT !.at = at, !.len = len])

\* Clamp to the tab's own zone: [1, b] when pinned, [b + 1, Len(tabs)] when not.
Clamped(tabs, from, to, b) ==
  IF tabs[from].pinned THEN IF to > b THEN b ELSE to
  ELSE IF to <= b THEN b + 1 ELSE to

\* Mutant of MoveTo: a tab is dropped where the pointer is.
MoveToPointer(tabs, from, to, b) == InsertAt(RemoveAt(tabs, from), to, tabs[from])

\* moveTab within a group whose boundary is b.
MoveTo(tabs, from, to, b) ==
  InsertAt(RemoveAt(tabs, from), Clamped(tabs, from, to, b), tabs[from])

\* togglePin of the tab at i; b is the boundary of the others.
Toggled(tabs, i, b) ==
  InsertAt(RemoveAt(tabs, i), b + 1, [tabs[i] EXCEPT !.pinned = ~@])

\* validateWorkspaceSlugs drops the groups of other workspaces.  A shown group
\* that is dropped is followed by another, or by a new one of a valid workspace;
\* which comes first is left open.
ShownNext(S, valid) ==
  LET left == DOMAIN S.groups \cap valid
  IN  IF S.active \in valid THEN {S.active}
      ELSE IF left # {} THEN left
      ELSE IF valid # {} THEN valid ELSE {None}

Validated(S, valid, shown, id) ==
  LET left == [s \in DOMAIN S.groups \cap valid |-> S.groups[s]]
  IN  [active |-> shown,
       groups |-> IF shown = None \/ shown \in DOMAIN left THEN left
                  ELSE With(left, shown, Single(MakeTab(id, DefaultPath(shown))))]

\* reset
NoTabs == [active |-> None, groups |-> [s \in {} |-> None]]

\* merge, on what partialize saved: tabs of another workspace, or of none, are
\* dropped; the others are sorted, stably, pinned ones first.
KeptAt(tabs, slug) == {i \in DOMAIN tabs : Scoped(tabs[i].path) /\ tabs[i].path.slug = slug}

Precedes(tabs, i, j) ==
  IF tabs[i].pinned = tabs[j].pinned THEN i < j ELSE tabs[i].pinned

Sortings(tabs, K) ==
  {f \in [1..Cardinality(K) -> K] : \A m, n \in DOMAIN f : m < n => Precedes(tabs, f[m], f[n])}

Loaded(tab) == [tab EXCEPT !.at = 0, !.len = 1]

Rehydrations(tabs, slug) ==
  {[k \in DOMAIN f |-> Loaded(tabs[f[k]])] : f \in Sortings(tabs, KeptAt(tabs, slug))}

\* The groups that keep a tab.
KeptSlugs(S) == {s \in DOMAIN S.groups : KeptAt(S.groups[s].tabs, s) # {}}

\* order gives the tabs of every group that is kept.
IsOrder(S, order) ==
  /\ DOMAIN order = KeptSlugs(S)
  /\ \A s \in DOMAIN order : order[s] \in Rehydrations(S.groups[s].tabs, s)

\* Mutant of Merged: the active tab is taken as saved.
MergedAsSaved(S, order, shown) ==
  [active |-> shown,
   groups |-> [s \in DOMAIN order |-> [tabs |-> order[s], active |-> S.groups[s].active]]]

\* Mutant of Merged: the active tab is not restored.
MergedAtFirst(S, order, shown) ==
  [active |-> shown,
   groups |-> [s \in DOMAIN order |-> [tabs |-> order[s], active |-> order[s][1].id]]]

Merged(S, order, shown) ==
  [active |-> shown,
   groups |-> [s \in DOMAIN order |->
     [tabs |-> order[s],
      active |-> IF S.groups[s].active \in TabIds(order[s])
                 THEN S.groups[s].active ELSE order[s][1].id]]]

ShownAfterMerge(S) ==
  IF S.active \in KeptSlugs(S) THEN {S.active}
  ELSE IF KeptSlugs(S) # {} THEN KeptSlugs(S) ELSE {None}

-----------------------------------------------------------------------------
(* What every operation keeps *)

\* Every group has a tab, and its active tab; no two tabs, in whichever groups,
\* share an id; the shown workspace has a group.
GroupsWellFormed(S) ==
  /\ S.active # None => S.active \in DOMAIN S.groups
  /\ \A s \in DOMAIN S.groups : S.groups[s].active \in TabIds(S.groups[s].tabs)
  /\ \A s, t \in DOMAIN S.groups :
       \A i \in DOMAIN S.groups[s].tabs, j \in DOMAIN S.groups[t].tabs :
         S.groups[s].tabs[i].id = S.groups[t].tabs[j].id => s = t /\ i = j

PinnedFirst(tabs) ==
  \A i, j \in DOMAIN tabs : i < j /\ tabs[j].pinned => tabs[i].pinned

\* "Pinned tabs always come before unpinned tabs".
AllPinnedFirst(S) == \A s \in DOMAIN S.groups : PinnedFirst(S.groups[s].tabs)
=============================================================================
