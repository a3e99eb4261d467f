------------------------- MODULE DesktopTabsProofs -------------------------
(***************************************************************************)
(* The invariants of DesktopTabs for any number of tabs, workspaces and    *)
(* pages, and without the bounds that TLC needs, and what a restart keeps. *)
(*                                                                         *)
(* First the store: every operation of TabStore keeps its groups well      *)
(* formed, one lemma per operation.  Good says of a group what             *)
(* GroupsWellFormed and AllPinnedFirst say of a store, and that two groups *)
(* share no tab.  An operation then changes one group: GoodWith.  The id   *)
(* of a new tab may be None here, as it is in the steps DesktopTabs        *)
(* excludes.  Comes says where the tabs come from that the store has after *)
(* an operation, and what they show.                                       *)
(*                                                                         *)
(* What is left is that every step calls them as they ask: with the id of  *)
(* an open tab, with a new id that no tab has, with a path of a router     *)
(* that the tab really has.  That is why IInv follows the routers and the  *)
(* late navigations too.  StepKinds sorts the steps by what they do to     *)
(* tabs; IInv and BarsInv are each kept by every kind, and Within by all   *)
(* but a link to another workspace.                                        *)
(***************************************************************************)
EXTENDS DesktopTabs, SequenceTheorems, FiniteSetTheorems, TLAPS

AnyId == Ids \cup {None}

AnyTab == [id : AnyId, path : Path, pinned : BOOLEAN, at : Nat, len : Nat]

Distinct(tabs) == \A i, j \in DOMAIN tabs : tabs[i].id = tabs[j].id => i = j

GoodTabs(tabs) == tabs \in Seq(AnyTab) /\ Distinct(tabs) /\ PinnedFirst(tabs)

GoodGroup(g) ==
  /\ g = [tabs |-> g.tabs, active |-> g.active]
  /\ GoodTabs(g.tabs)
  /\ g.active \in TabIds(g.tabs)

Apart(S) ==
  \A s, t \in DOMAIN S.groups :
    s # t => TabIds(S.groups[s].tabs) \cap TabIds(S.groups[t].tabs) = {}

Good(S) ==
  /\ S = [active |-> S.active, groups |-> S.groups]
  /\ S.groups = [s \in DOMAIN S.groups |-> S.groups[s]]
  /\ DOMAIN S.groups \subseteq Slugs
  /\ S.active = None \/ S.active \in DOMAIN S.groups
  /\ \A s \in DOMAIN S.groups : GoodGroup(S.groups[s])
  /\ Apart(S)

-----------------------------------------------------------------------------
(* Sequences *)

\* ConcatProperties, with the lengths named.
LEMMA ConcatAt ==
  ASSUME NEW T, NEW a \in Seq(T), NEW b \in Seq(T), NEW n \in Int, n = Len(a) + Len(b)
  PROVE  /\ a \o b \in Seq(T) /\ Len(a \o b) = n
         /\ \A j \in 1..n : (a \o b)[j] = IF j <= Len(a) THEN a[j] ELSE b[j - Len(a)]
  BY ConcatProperties

\* RemoveAt shifts what follows.
LEMMA RemoveAtProperties ==
  ASSUME NEW T, NEW s \in Seq(T), NEW i \in 1..Len(s)
  PROVE  /\ RemoveAt(s, i) \in Seq(T)
         /\ Len(RemoveAt(s, i)) = Len(s) - 1
         /\ \A j \in 1..(Len(s) - 1) : RemoveAt(s, i)[j] = IF j < i THEN s[j] ELSE s[j + 1]
<1> DEFINE a == SubSeq(s, 1, i - 1)
           b == SubSeq(s, i + 1, Len(s))
<1>1. /\ a \in Seq(T) /\ Len(a) = i - 1
      /\ \A j \in 1..(i - 1) : a[j] = s[j]
      BY DEF a, b
<1>2. /\ b \in Seq(T) /\ Len(b) = Len(s) - i
      /\ \A j \in 1..(Len(s) - i) : b[j] = s[i + j]
      BY DEF a, b
<1> HIDE DEF a, b
<1>3. /\ a \o b \in Seq(T)
      /\ Len(a \o b) = Len(s) - 1
      /\ \A j \in 1..(Len(s) - 1) : (a \o b)[j] = IF j <= i - 1 THEN a[j] ELSE b[j - (i - 1)]
      <2>1. PICK n \in Int : n = Len(s) - 1
            OBVIOUS
      <2>2. a \in Seq(T) /\ b \in Seq(T)
            BY <1>1, <1>2
      <2>3. n = Len(a) + Len(b) /\ Len(a) = i - 1
            BY <1>1, <1>2, <2>1
      <2>4. /\ a \o b \in Seq(T) /\ Len(a \o b) = n
            /\ \A j \in 1..n : (a \o b)[j] = IF j <= i - 1 THEN a[j] ELSE b[j - (i - 1)]
            BY <2>2, <2>3, ConcatAt
      <2> QED BY <2>1, <2>4
<1>4. \A j \in 1..(Len(s) - 1) : (a \o b)[j] = IF j < i THEN s[j] ELSE s[j + 1]
      <2> SUFFICES ASSUME NEW j \in 1..(Len(s) - 1)
                   PROVE  (a \o b)[j] = IF j < i THEN s[j] ELSE s[j + 1]
          OBVIOUS
      <2>1. CASE j < i
            BY <1>1, <1>3, <2>1
      <2>2. CASE ~(j < i)
            <3>1. j - (i - 1) \in 1..(Len(s) - i) /\ i + (j - (i - 1)) = j + 1
                  BY <2>2
            <3>2. (a \o b)[j] = b[j - (i - 1)]
                  BY <1>3, <2>2
            <3> QED BY <1>2, <2>2, <3>1, <3>2
      <2> QED BY <2>1, <2>2
<1> QED BY <1>3, <1>4 DEF RemoveAt, a, b

\* InsertAt puts e at i, and shifts what was there.
LEMMA InsertAtProperties ==
  ASSUME NEW T, NEW s \in Seq(T), NEW e \in T, NEW i \in 1..(Len(s) + 1)
  PROVE  /\ InsertAt(s, i, e) \in Seq(T)
         /\ Len(InsertAt(s, i, e)) = Len(s) + 1
         /\ \A j \in 1..(Len(s) + 1) :
              InsertAt(s, i, e)[j] = IF j < i THEN s[j] ELSE IF j = i THEN e ELSE s[j - 1]
<1> DEFINE a == SubSeq(s, 1, i - 1)
           b == SubSeq(s, i, Len(s))
           m == <<e>>
           c == a \o m
<1>1. /\ a \in Seq(T) /\ Len(a) = i - 1
      /\ \A j \in 1..(i - 1) : a[j] = s[j]
      BY DEF a, b
<1>2. /\ b \in Seq(T) /\ Len(b) = Len(s) - i + 1
      /\ \A j \in 1..(Len(s) - i + 1) : b[j] = s[i + j - 1]
      BY DEF a, b
<1>3. m \in Seq(T) /\ Len(m) = 1 /\ m[1] = e
      OBVIOUS
<1> HIDE DEF a, b, c, m
<1>4. /\ c \in Seq(T) /\ Len(c) = i
      /\ \A j \in 1..i : c[j] = IF j <= i - 1 THEN a[j] ELSE m[j - (i - 1)]
      <2>1. a \in Seq(T) /\ m \in Seq(T) /\ i \in Int
            BY <1>1, <1>3
      <2>2. i = Len(a) + Len(m) /\ Len(a) = i - 1
            BY <1>1, <1>3
      <2> QED BY <2>1, <2>2, ConcatAt DEF c
<1>5. \A j \in 1..i : c[j] = IF j < i THEN s[j] ELSE e
      <2> SUFFICES ASSUME NEW j \in 1..i
                   PROVE  c[j] = IF j < i THEN s[j] ELSE e
          OBVIOUS
      <2>1. CASE j < i
            BY <1>1, <1>4, <2>1
      <2>2. CASE j = i
            BY <1>3, <1>4, <2>2
      <2> QED BY <2>1, <2>2
<1>6. /\ c \o b \in Seq(T)
      /\ Len(c \o b) = Len(s) + 1
      /\ \A j \in 1..(Len(s) + 1) : (c \o b)[j] = IF j <= i THEN c[j] ELSE b[j - i]
      <2>1. PICK n \in Int : n = Len(s) + 1
            OBVIOUS
      <2>2. c \in Seq(T) /\ b \in Seq(T)
            BY <1>2, <1>4
      <2>3. n = Len(c) + Len(b) /\ Len(c) = i
            BY <1>2, <1>4, <2>1
      <2>4. /\ c \o b \in Seq(T) /\ Len(c \o b) = n
            /\ \A j \in 1..n : (c \o b)[j] = IF j <= i THEN c[j] ELSE b[j - i]
            BY <2>2, <2>3, ConcatAt
      <2> QED BY <2>1, <2>4
<1>7. ASSUME NEW j \in 1..(Len(s) + 1)
      PROVE  (c \o b)[j] = IF j < i THEN s[j] ELSE IF j = i THEN e ELSE s[j - 1]
      <2>1. CASE j <= i
            BY <1>5, <1>6, <2>1
      <2>2. CASE ~(j <= i)
            <3>1. j - i \in 1..(Len(s) - i + 1) /\ i + (j - i) - 1 = j - 1 /\ ~(j < i) /\ j # i
                  BY <2>2
            <3>2. (c \o b)[j] = b[j - i]
                  BY <1>6, <2>2
            <3> QED BY <1>2, <3>1, <3>2
      <2> QED BY <2>1, <2>2
<1> QED BY <1>6, <1>7 DEF InsertAt, a, b, c, m

-----------------------------------------------------------------------------
(* The tabs of one group *)

\* A tab made has the id and is not pinned.
LEMMA MakeTabGood ==
  ASSUME NEW id \in AnyId, NEW path \in Path
  PROVE  /\ MakeTab(id, path) \in AnyTab
         /\ MakeTab(id, path).id = id /\ ~MakeTab(id, path).pinned
  BY DEF MakeTab, AnyTab

\* A group of one tab.
LEMMA SingleGood ==
  ASSUME NEW tab \in AnyTab
  PROVE  GoodGroup(Single(tab)) /\ TabIds(Single(tab).tabs) = {tab.id}
<1>1. Single(tab) = [tabs |-> <<tab>>, active |-> tab.id]
      BY DEF Single
<1>2. <<tab>> \in Seq(AnyTab) /\ DOMAIN <<tab>> = {1} /\ <<tab>>[1] = tab
      OBVIOUS
<1> QED BY <1>1, <1>2 DEF GoodGroup, GoodTabs, Distinct, PinnedFirst, TabIds

\* A new tab goes last.
LEMMA AppendGood ==
  ASSUME NEW tabs, GoodTabs(tabs), NEW tab \in AnyTab, tab.id \notin TabIds(tabs), ~tab.pinned
  PROVE  /\ GoodTabs(Append(tabs, tab))
         /\ TabIds(Append(tabs, tab)) = TabIds(tabs) \cup {tab.id}
<1> DEFINE new == Append(tabs, tab)
<1>1. tabs \in Seq(AnyTab)
      BY DEF GoodTabs
<1>2. /\ new \in Seq(AnyTab) /\ DOMAIN new = 1..(Len(tabs) + 1) /\ DOMAIN tabs = 1..Len(tabs)
      /\ \A i \in 1..Len(tabs) : new[i] = tabs[i]
      /\ new[Len(tabs) + 1] = tab /\ Len(tabs) \in Nat
      BY <1>1
<1> HIDE DEF new
<1>3. Distinct(new)
      BY <1>2 DEF GoodTabs, Distinct, TabIds
<1>4. PinnedFirst(new)
      BY <1>2 DEF GoodTabs, PinnedFirst
<1>5. TabIds(new) = TabIds(tabs) \cup {tab.id}
      BY <1>2 DEF TabIds
<1> QED BY <1>2, <1>3, <1>4, <1>5 DEF GoodTabs, new

\* A tab is taken out.
LEMMA RemoveGood ==
  ASSUME NEW tabs, GoodTabs(tabs), NEW i \in DOMAIN tabs
  PROVE  /\ GoodTabs(RemoveAt(tabs, i))
         /\ TabIds(RemoveAt(tabs, i)) = TabIds(tabs) \ {tabs[i].id}
         /\ Len(RemoveAt(tabs, i)) = Len(tabs) - 1
         /\ \A j \in 1..(Len(tabs) - 1) :
              RemoveAt(tabs, i)[j] = IF j < i THEN tabs[j] ELSE tabs[j + 1]
<1> DEFINE left == RemoveAt(tabs, i)
           n == Len(tabs)
<1>1. tabs \in Seq(AnyTab) /\ DOMAIN tabs = 1..n /\ n \in Nat /\ i \in 1..n
      BY DEF GoodTabs
<1>2. /\ left \in Seq(AnyTab) /\ Len(left) = n - 1
      /\ \A j \in 1..(n - 1) : left[j] = IF j < i THEN tabs[j] ELSE tabs[j + 1]
      BY <1>1, RemoveAtProperties
<1>3. DOMAIN left = 1..(n - 1)
      BY <1>2
<1> DEFINE f == [j \in 1..(n - 1) |-> IF j < i THEN j ELSE j + 1]
<1> HIDE DEF left, n
<1>4. \A j \in 1..(n - 1) : f[j] \in 1..n /\ f[j] # i /\ left[j] = tabs[f[j]]
      BY <1>1, <1>2
<1>5. \A j, k \in 1..(n - 1) : j < k => f[j] < f[k]
      BY <1>1
<1> HIDE DEF f
<1>6. /\ Distinct(left)
      /\ PinnedFirst(left)
      /\ TabIds(left) \subseteq TabIds(tabs) \ {tabs[i].id}
      <2>1. Distinct(left)
            <3> SUFFICES ASSUME NEW j \in 1..(n - 1), NEW k \in 1..(n - 1), left[j].id = left[k].id
                         PROVE  j = k
                BY <1>3 DEF Distinct
            <3>1. f[j] = f[k]
                  BY <1>1, <1>4 DEF GoodTabs, Distinct
            <3>2. f[j] \in Int /\ ~(j < k) /\ ~(k < j)
                  BY <1>1, <1>4, <1>5, <3>1
            <3> QED BY <1>1, <3>2
      <2>2. PinnedFirst(left)
            <3> SUFFICES ASSUME NEW j \in 1..(n - 1), NEW k \in 1..(n - 1), j < k, left[k].pinned
                         PROVE  left[j].pinned
                BY <1>3 DEF PinnedFirst
            <3> QED BY <1>1, <1>4, <1>5 DEF GoodTabs, PinnedFirst
      <2>3. ASSUME NEW j \in 1..(n - 1)
            PROVE  left[j].id \in TabIds(tabs) \ {tabs[i].id}
            BY <1>1, <1>4 DEF GoodTabs, Distinct, TabIds
      <2>4. TabIds(left) \subseteq TabIds(tabs) \ {tabs[i].id}
            BY <1>3, <2>3 DEF TabIds
      <2> QED BY <2>1, <2>2, <2>4
<1>7. ASSUME NEW k \in 1..n, k # i
      PROVE  tabs[k].id \in TabIds(left)
      <2>1. CASE k < i
            BY <1>1, <1>2, <1>3, <2>1 DEF TabIds
      <2>2. CASE k > i
            <3>1. k - 1 \in 1..(n - 1) /\ ~(k - 1 < i) /\ (k - 1) + 1 = k
                  BY <1>1, <2>2
            <3>2. left[k - 1] = tabs[k]
                  BY <1>2, <3>1
            <3> QED BY <1>3, <3>1, <3>2 DEF TabIds
      <2> QED BY <1>1, <1>7, <2>1, <2>2
<1>8. TabIds(tabs) \ {tabs[i].id} \subseteq TabIds(left)
      BY <1>1, <1>7 DEF TabIds
<1> QED BY <1>2, <1>6, <1>8 DEF GoodTabs, left, n

\* A tab is put where no tab before it lacks its pin and none after has one it lacks.
LEMMA InsertGood ==
  ASSUME NEW tabs, GoodTabs(tabs), NEW tab \in AnyTab, tab.id \notin TabIds(tabs),
         NEW at \in 1..(Len(tabs) + 1),
         \A j \in 1..Len(tabs) : /\ j < at /\ tab.pinned => tabs[j].pinned
                                 /\ at <= j /\ tabs[j].pinned => tab.pinned
  PROVE  /\ GoodTabs(InsertAt(tabs, at, tab))
         /\ TabIds(InsertAt(tabs, at, tab)) = TabIds(tabs) \cup {tab.id}
<1> DEFINE new == InsertAt(tabs, at, tab)
           n == Len(tabs)
<1>1. tabs \in Seq(AnyTab) /\ DOMAIN tabs = 1..n /\ n \in Nat /\ at \in 1..(n + 1)
      BY DEF GoodTabs
<1>2. /\ new \in Seq(AnyTab) /\ Len(new) = n + 1
      /\ \A j \in 1..(n + 1) : new[j] = IF j < at THEN tabs[j] ELSE IF j = at THEN tab ELSE tabs[j - 1]
      <2>1. tabs \in Seq(AnyTab) /\ at \in 1..(Len(tabs) + 1)
            BY DEF GoodTabs
      <2> HIDE DEF new
      <2>2. /\ new \in Seq(AnyTab) /\ Len(new) = Len(tabs) + 1
            /\ \A j \in 1..(Len(tabs) + 1) :
                 new[j] = IF j < at THEN tabs[j] ELSE IF j = at THEN tab ELSE tabs[j - 1]
            BY <2>1, InsertAtProperties DEF new
      <2> QED BY <2>2
<1>3. DOMAIN new = 1..(n + 1)
      BY <1>1, <1>2
<1> DEFINE f == [j \in 1..(n + 1) |-> IF j < at THEN j ELSE j - 1]
<1> HIDE DEF new, n
<1>4. new[at] = tab /\ at \in 1..(n + 1)
      BY <1>1, <1>2
<1>5. ASSUME NEW j \in 1..(n + 1), j # at
      PROVE  f[j] \in 1..n /\ new[j] = tabs[f[j]]
      BY <1>1, <1>2, <1>5
<1>6. ASSUME NEW j \in 1..(n + 1), NEW k \in 1..(n + 1), j # at, k # at, j < k
      PROVE  f[j] < f[k]
      BY <1>1, <1>6
<1>13. ASSUME NEW j \in 1..(n + 1)
       PROVE  (j < at => f[j] < at) /\ (at < j => at <= f[j])
      BY <1>1
<1> HIDE DEF f
<1>14. ASSUME NEW j \in 1..(n + 1), j # at
       PROVE  new[j].id \in TabIds(tabs)
      BY <1>1, <1>5, <1>14 DEF TabIds
<1>10. Distinct(new)
      <2> SUFFICES ASSUME NEW j \in 1..(n + 1), NEW k \in 1..(n + 1), new[j].id = new[k].id
                   PROVE  j = k
          BY <1>3 DEF Distinct
      <2>1. CASE j = at \/ k = at
            BY <1>4, <1>14, <2>1
      <2>2. CASE j # at /\ k # at
            <3>1. f[j] \in 1..n /\ new[j] = tabs[f[j]] /\ f[k] \in 1..n /\ new[k] = tabs[f[k]]
                  BY <1>5, <2>2
            <3>2. f[j] = f[k]
                  BY <1>1, <3>1 DEF GoodTabs, Distinct
            <3>3. ~(j < k) /\ ~(k < j)
                  BY <1>6, <2>2, <3>1, <3>2
            <3> QED BY <1>1, <3>3
      <2> QED BY <2>1, <2>2
<1>11. PinnedFirst(new)
      <2> SUFFICES ASSUME NEW j \in 1..(n + 1), NEW k \in 1..(n + 1), j < k, new[k].pinned
                   PROVE  new[j].pinned
          BY <1>3 DEF PinnedFirst
      <2>1. CASE j = at
            <3>1. f[k] \in 1..n /\ new[k] = tabs[f[k]] /\ at <= f[k]
                  BY <1>1, <1>5, <1>13, <2>1
            <3> QED BY <1>1, <1>4, <2>1, <3>1 DEF n
      <2>2. CASE k = at
            <3>1. f[j] \in 1..n /\ new[j] = tabs[f[j]] /\ f[j] < at
                  BY <1>1, <1>5, <1>13, <2>2
            <3> QED BY <1>1, <1>4, <2>2, <3>1 DEF n
      <2>3. CASE j # at /\ k # at
            <3>1. f[j] \in 1..n /\ new[j] = tabs[f[j]] /\ f[k] \in 1..n /\ new[k] = tabs[f[k]]
                  BY <1>5, <2>3
            <3>2. f[j] < f[k]
                  BY <1>6, <2>3
            <3> QED BY <1>1, <3>1, <3>2 DEF GoodTabs, PinnedFirst
      <2> QED BY <2>1, <2>2, <2>3
<1>12. TabIds(new) \subseteq TabIds(tabs) \cup {tab.id}
      <2>1. ASSUME NEW j \in 1..(n + 1)
            PROVE  new[j].id \in TabIds(tabs) \cup {tab.id}
            BY <1>4, <1>14
      <2> QED BY <1>3, <2>1 DEF TabIds
<1>7. ASSUME NEW k \in 1..n
      PROVE  tabs[k].id \in TabIds(new)
      <2>1. CASE k < at
            BY <1>1, <1>2, <1>3, <2>1 DEF TabIds
      <2>2. CASE k >= at
            <3>1. k + 1 \in 1..(n + 1) /\ ~(k + 1 < at) /\ k + 1 # at /\ (k + 1) - 1 = k
                  BY <1>1, <2>2
            <3>2. new[k + 1] = tabs[k]
                  BY <1>2, <3>1
            <3> QED BY <1>3, <3>1, <3>2 DEF TabIds
      <2> QED BY <1>1, <2>1, <2>2
<1>8. tab.id \in TabIds(new)
      BY <1>1, <1>2, <1>3 DEF TabIds
<1>9. TabIds(tabs) \cup {tab.id} \subseteq TabIds(new)
      BY <1>1, <1>7, <1>8 DEF TabIds
<1> QED BY <1>2, <1>10, <1>11, <1>12, <1>9 DEF GoodTabs, new, n

\* A tab changes, but not its id nor its pin.
LEMMA ReplaceGood ==
  ASSUME NEW tabs, GoodTabs(tabs), NEW i \in DOMAIN tabs, NEW tab \in AnyTab,
         tab.id = tabs[i].id, tab.pinned = tabs[i].pinned
  PROVE  /\ GoodTabs([tabs EXCEPT ![i] = tab])
         /\ TabIds([tabs EXCEPT ![i] = tab]) = TabIds(tabs)
<1> DEFINE new == [tabs EXCEPT ![i] = tab]
<1>1. tabs \in Seq(AnyTab)
      BY DEF GoodTabs
<1>2. /\ new \in Seq(AnyTab) /\ DOMAIN new = DOMAIN tabs
      /\ \A j \in DOMAIN tabs : new[j] = IF j = i THEN tab ELSE tabs[j]
      BY <1>1
<1> HIDE DEF new
<1>3. \A j \in DOMAIN tabs : new[j].id = tabs[j].id /\ new[j].pinned = tabs[j].pinned
      BY <1>2
<1>4. Distinct(new)
      BY <1>2, <1>3 DEF GoodTabs, Distinct
<1>5. PinnedFirst(new)
      BY <1>2, <1>3 DEF GoodTabs, PinnedFirst
<1>6. TabIds(new) = TabIds(tabs)
      BY <1>2, <1>3 DEF TabIds
<1> QED BY <1>2, <1>4, <1>5, <1>6 DEF GoodTabs, new

-----------------------------------------------------------------------------
(* The store *)

\* findTabLocation finds the tab.
LEMMA Where ==
  ASSUME NEW S, Good(S), NEW id \in AllIds(S)
  PROVE  LET slug == SlugOf(S, id)
             tabs == S.groups[slug].tabs
         IN  /\ slug \in DOMAIN S.groups /\ slug \in Slugs
             /\ IndexOf(tabs, id) \in DOMAIN tabs
             /\ tabs[IndexOf(tabs, id)].id = id
<1> DEFINE Has(s) == \E i \in DOMAIN S.groups[s].tabs : S.groups[s].tabs[i].id = id
<1>1. PICK s \in DOMAIN S.groups : Has(s)
      BY DEF AllIds, TabIds
<1>2. SlugOf(S, id) = CHOOSE t \in DOMAIN S.groups : Has(t)
      BY DEF SlugOf
<1>3. SlugOf(S, id) \in DOMAIN S.groups /\ Has(SlugOf(S, id))
      <2> HIDE DEF Has
      <2> QED BY <1>1, <1>2
<1>4. SlugOf(S, id) \in Slugs
      BY <1>3 DEF Good
<1> QED BY <1>3, <1>4 DEF IndexOf

\* A good store has what DesktopTabs checks.
LEMMA GoodIs ==
  ASSUME NEW S, Good(S), None \notin Slugs
  PROVE  GroupsWellFormed(S) /\ AllPinnedFirst(S)
<1>1. AllPinnedFirst(S)
      BY DEF Good, GoodGroup, GoodTabs, AllPinnedFirst
<1>2. ASSUME NEW s \in DOMAIN S.groups, NEW t \in DOMAIN S.groups,
             NEW i \in DOMAIN S.groups[s].tabs, NEW j \in DOMAIN S.groups[t].tabs,
             S.groups[s].tabs[i].id = S.groups[t].tabs[j].id
      PROVE  s = t /\ i = j
      <2>1. s = t
            BY <1>2 DEF Good, Apart, TabIds
      <2> QED BY <1>2, <2>1 DEF Good, GoodGroup, GoodTabs, Distinct
<1> QED BY <1>1, <1>2 DEF GroupsWellFormed, Good, GoodGroup

OldIds(S, slug) == IF slug \in DOMAIN S.groups THEN TabIds(S.groups[slug].tabs) ELSE {}

\* A store stays good when one group becomes another good one that has no tabs but
\* its own and a new one.
LEMMA GoodWith ==
  ASSUME NEW S, Good(S), NEW slug \in Slugs, NEW g, GoodGroup(g), NEW id,
         id \notin AllIds(S), TabIds(g.tabs) \subseteq OldIds(S, slug) \cup {id},
         NEW a, a = None \/ a = slug \/ a \in DOMAIN S.groups
  PROVE  Good([active |-> a, groups |-> With(S.groups, slug, g)])
<1> DEFINE G == With(S.groups, slug, g)
           N == [active |-> a, groups |-> G]
<1>1. /\ DOMAIN G = DOMAIN S.groups \cup {slug}
      /\ G = [s \in DOMAIN G |-> G[s]]
      /\ G[slug] = g
      /\ \A s \in DOMAIN S.groups : s # slug => G[s] = S.groups[s]
      BY DEF With
<1> HIDE DEF G
<1>2. N.groups = G /\ N.active = a /\ N = [active |-> N.active, groups |-> N.groups]
      OBVIOUS
<1> HIDE DEF N
<1>3. DOMAIN G \subseteq Slugs /\ (a = None \/ a \in DOMAIN G)
      BY <1>1 DEF Good
<1>4. \A s \in DOMAIN G : GoodGroup(G[s])
      BY <1>1 DEF Good
<1>5. ASSUME NEW s \in DOMAIN S.groups, s # slug
      PROVE  TabIds(G[s].tabs) \cap TabIds(g.tabs) = {}
      <2>1. G[s] = S.groups[s]
            BY <1>1, <1>5
      <2>2. TabIds(S.groups[s].tabs) \cap OldIds(S, slug) = {}
            BY <1>5 DEF OldIds, Good, Apart
      <2>3. id \notin TabIds(S.groups[s].tabs)
            BY DEF AllIds
      <2> QED BY <2>1, <2>2, <2>3
<1>6. ASSUME NEW s \in DOMAIN G, NEW t \in DOMAIN G, s # t
      PROVE  TabIds(G[s].tabs) \cap TabIds(G[t].tabs) = {}
      <2>1. CASE s = slug
            BY <1>1, <1>5, <1>6, <2>1
      <2>2. CASE t = slug
            BY <1>1, <1>5, <1>6, <2>2
      <2>3. CASE s # slug /\ t # slug
            BY <1>1, <1>6, <2>3 DEF Good, Apart
      <2> QED BY <2>1, <2>2, <2>3
<1>7. Good(N)
      BY <1>1, <1>2, <1>3, <1>4, <1>6 DEF Good, Apart
<1> QED BY <1>7 DEF N, G

\* The same, where the shown workspace stays.
LEMMA GoodSet ==
  ASSUME NEW S, Good(S), NEW slug \in Slugs, NEW g, GoodGroup(g), NEW id,
         id \notin AllIds(S), TabIds(g.tabs) \subseteq OldIds(S, slug) \cup {id}
  PROVE  Good([S EXCEPT !.groups = With(S.groups, slug, g)])
<1> DEFINE G == With(S.groups, slug, g)
<1> HIDE DEF G
<1>1. [S EXCEPT !.groups = G] = [active |-> S.active, groups |-> G]
      BY DEF Good
<1>2. S.active = None \/ S.active = slug \/ S.active \in DOMAIN S.groups
      BY DEF Good
<1>3. Good([active |-> S.active, groups |-> G])
      BY <1>2, GoodWith DEF G
<1> QED BY <1>1, <1>3 DEF G

-----------------------------------------------------------------------------
(* One lemma per operation *)

\* Either the tabs stay, or a new one goes last; what is shown is among them.
LEMMA DedupeGood ==
  ASSUME NEW g, GoodGroup(g), NEW path \in Path, NEW id \in AnyId, id \notin TabIds(g.tabs)
  PROVE  LET to == Dedupe(g, path, id)
         IN  /\ GoodTabs(to.tabs)
             /\ TabIds(g.tabs) \subseteq TabIds(to.tabs)
             /\ TabIds(to.tabs) \subseteq TabIds(g.tabs) \cup {id}
             /\ to.shows \in TabIds(to.tabs)
<1> DEFINE Hit(i) == FirstAt(g.tabs, path, i)
           k == CHOOSE i \in DOMAIN g.tabs : Hit(i)
<1>1. CASE \E i \in DOMAIN g.tabs : Hit(i)
      <2>1. k \in DOMAIN g.tabs
            <3> HIDE DEF Hit
            <3> QED BY <1>1
      <2>2. Dedupe(g, path, id) = [tabs |-> g.tabs, shows |-> g.tabs[k].id]
            BY <1>1 DEF Dedupe
      <2> HIDE DEF k
      <2> QED BY <2>1, <2>2 DEF GoodGroup, TabIds
<1>2. CASE ~(\E i \in DOMAIN g.tabs : Hit(i))
      <2>1. Dedupe(g, path, id) = [tabs |-> Append(g.tabs, MakeTab(id, path)), shows |-> id]
            BY <1>2 DEF Dedupe
      <2>2. /\ GoodTabs(Append(g.tabs, MakeTab(id, path)))
            /\ TabIds(Append(g.tabs, MakeTab(id, path))) = TabIds(g.tabs) \cup {id}
            BY AppendGood, MakeTabGood DEF GoodGroup
      <2> QED BY <2>1, <2>2
<1> QED BY <1>1, <1>2

\* An id no tab has is no tab's of a group.
LEMMA NotInGroup ==
  ASSUME NEW S, NEW id, id \notin AllIds(S), NEW slug \in DOMAIN S.groups
  PROVE  id \notin TabIds(S.groups[slug].tabs)
  BY DEF AllIds

\* switchWorkspace gives one group the page, or makes a group of it.
LEMMA SwitchWorkspaceGood ==
  ASSUME NEW S, Good(S), NEW path \in Scopes, NEW id \in AnyId, id \notin AllIds(S)
  PROVE  Good(SwitchWorkspace(S, path.slug, path, id))
<1> DEFINE slug == path.slug
           to == Dedupe(S.groups[slug], path, id)
           g == IF slug \in DOMAIN S.groups THEN [tabs |-> to.tabs, active |-> to.shows]
                ELSE Single(MakeTab(id, path))
<1>1. slug \in Slugs /\ path \in Path
      BY TabAssumption DEF Path
<1>2. GoodGroup(g) /\ TabIds(g.tabs) \subseteq OldIds(S, slug) \cup {id}
      <2>1. CASE slug \in DOMAIN S.groups
            <3>1. GoodGroup(S.groups[slug]) /\ id \notin TabIds(S.groups[slug].tabs)
                  BY <2>1, NotInGroup DEF Good
            <3>2. /\ GoodTabs(to.tabs) /\ to.shows \in TabIds(to.tabs)
                  /\ TabIds(to.tabs) \subseteq TabIds(S.groups[slug].tabs) \cup {id}
                  BY <1>1, <3>1, DedupeGood
            <3> HIDE DEF to
            <3> QED BY <2>1, <3>2 DEF GoodGroup, OldIds
      <2>2. CASE slug \notin DOMAIN S.groups
            <3>1. g = Single(MakeTab(id, path))
                  BY <2>2
            <3> HIDE DEF g
            <3> QED BY <1>1, <3>1, MakeTabGood, SingleGood
      <2> QED BY <2>1, <2>2
<1> HIDE DEF g
<1>3. Good([active |-> slug, groups |-> With(S.groups, slug, g)])
      BY <1>1, <1>2, GoodWith
<1> QED BY <1>3 DEF SwitchWorkspace, g

\* openTab, with or without activating what it returns.
LEMMA OpenTabGood ==
  ASSUME NEW S, Good(S), S.active # None,
         NEW path \in Path, NEW id \in AnyId, id \notin AllIds(S)
  PROVE  Good(OpenTab(S, path, id)) /\ Good(OpenTabInFront(S, path, id))
<1> DEFINE old == S.groups[S.active]
           to == Dedupe(old, path, id)
           behind == [tabs |-> to.tabs, active |-> IF to.tabs = old.tabs THEN to.shows ELSE old.active]
           front == [tabs |-> to.tabs, active |-> to.shows]
<1>1. S.active \in DOMAIN S.groups /\ S.active \in Slugs /\ GoodGroup(old)
      BY DEF Good
<1>2. /\ GoodTabs(to.tabs) /\ to.shows \in TabIds(to.tabs)
      /\ TabIds(old.tabs) \subseteq TabIds(to.tabs)
      /\ TabIds(to.tabs) \subseteq TabIds(old.tabs) \cup {id}
      BY <1>1, NotInGroup, DedupeGood
<1>3. OldIds(S, S.active) = TabIds(old.tabs) /\ old.active \in TabIds(old.tabs)
      BY <1>1 DEF OldIds, GoodGroup
<1> HIDE DEF to, old
<1>4. GoodGroup(behind) /\ GoodGroup(front)
      BY <1>2, <1>3 DEF GoodGroup
<1>5. behind.tabs = to.tabs /\ front.tabs = to.tabs
      OBVIOUS
<1> HIDE DEF behind, front
<1>6. /\ Good([S EXCEPT !.groups = With(S.groups, S.active, behind)])
      /\ Good([S EXCEPT !.groups = With(S.groups, S.active, front)])
      BY <1>1, <1>2, <1>3, <1>4, <1>5, GoodSet
<1> QED BY <1>6 DEF OpenTab, OpenTabInFront, behind, front, to, old

\* addTab, and setActiveTab on what it returned.
LEMMA AddTabGood ==
  ASSUME NEW S, Good(S), S.active # None,
         NEW path \in Path, NEW id \in AnyId, id \notin AllIds(S)
  PROVE  Good(AddTabInFront(S, path, id))
<1> DEFINE old == S.groups[S.active]
           tabs == Append(old.tabs, MakeTab(id, path))
           g == [tabs |-> tabs, active |-> id]
<1>1. S.active \in DOMAIN S.groups /\ S.active \in Slugs /\ GoodTabs(old.tabs)
      BY DEF Good, GoodGroup
<1>2. GoodTabs(tabs) /\ TabIds(tabs) = TabIds(old.tabs) \cup {id}
      BY <1>1, NotInGroup, AppendGood, MakeTabGood
<1> HIDE DEF tabs
<1>3. GoodGroup(g) /\ TabIds(g.tabs) \subseteq OldIds(S, S.active) \cup {id}
      BY <1>1, <1>2 DEF GoodGroup, OldIds
<1> HIDE DEF g
<1>4. Good([S EXCEPT !.groups = With(S.groups, S.active, g)])
      BY <1>1, <1>3, GoodSet
<1> QED BY <1>4 DEF AddTabInFront, g, tabs

\* closeTab leaves every group a tab, and an active one.
LEMMA CloseTabGood ==
  ASSUME NEW S, Good(S), NEW id \in AllIds(S), NEW fresh \in AnyId, fresh \notin AllIds(S)
  PROVE  Good(CloseTab(S, id, fresh))
<1> DEFINE slug == SlugOf(S, id)
           old == S.groups[slug]
           i == IndexOf(old.tabs, id)
           left == RemoveAt(old.tabs, i)
           next == IF old.active # id THEN old.active
                   ELSE IF i <= Len(left) THEN left[i].id ELSE left[Len(left)].id
           g == IF Len(old.tabs) = 1 THEN Single(MakeTab(fresh, DefaultPath(slug)))
                ELSE [tabs |-> left, active |-> next]
<1>1. /\ slug \in DOMAIN S.groups /\ slug \in Slugs
      /\ i \in DOMAIN old.tabs /\ old.tabs[i].id = id /\ GoodGroup(old)
      BY Where DEF Good
<1>2. /\ GoodTabs(left) /\ TabIds(left) = TabIds(old.tabs) \ {id}
      /\ Len(left) = Len(old.tabs) - 1
      BY <1>1, RemoveGood DEF GoodGroup
<1>3. OldIds(S, slug) = TabIds(old.tabs) /\ DefaultPath(slug) \in Path
      BY <1>1, TabAssumption DEF OldIds, DefaultPath, Path
<1> HIDE DEF slug, left, i
<1>6. GoodGroup(g) /\ TabIds(g.tabs) \subseteq OldIds(S, slug) \cup {fresh}
      <2>1. CASE Len(old.tabs) = 1
            <3>1. g = Single(MakeTab(fresh, DefaultPath(slug)))
                  BY <2>1
            <3> HIDE DEF g, old
            <3> QED BY <1>3, <3>1, MakeTabGood, SingleGood
      <2>2. CASE Len(old.tabs) # 1
            <3>1. DOMAIN old.tabs = 1..Len(old.tabs) /\ Len(old.tabs) \in Nat /\ i \in 1..Len(old.tabs)
                  BY <1>1 DEF GoodGroup, GoodTabs
            <3>2. DOMAIN left = 1..Len(left) /\ Len(left) \in Nat \ {0}
                  BY <1>2, <2>2, <3>1 DEF GoodTabs
            <3>3. next \in TabIds(left)
                  <4>1. CASE old.active # id
                        BY <1>1, <1>2, <4>1 DEF GoodGroup
                  <4>2. CASE old.active = id
                        BY <3>1, <3>2, <4>2 DEF TabIds
                  <4> QED BY <4>1, <4>2
            <3>4. g = [tabs |-> left, active |-> next]
                  BY <2>2
            <3> HIDE DEF g, next
            <3> QED BY <1>2, <1>3, <3>3, <3>4 DEF GoodGroup
      <2> QED BY <2>1, <2>2
<1> HIDE DEF g
<1>7. Good([S EXCEPT !.groups = With(S.groups, slug, g)])
      BY <1>1, <1>6, GoodSet
<1> QED BY <1>7 DEF CloseTab, slug, g, left, i, old

\* setActiveTab activates a tab of the group it finds it in.
LEMMA SetActiveGood ==
  ASSUME NEW S, Good(S), None \notin AllIds(S), NEW id \in AllIds(S)
  PROVE  Good(SetActiveTab(S, id))
<1> DEFINE slug == SlugOf(S, id)
           old == S.groups[slug]
           g == [old EXCEPT !.active = id]
<1>1. /\ slug \in DOMAIN S.groups /\ slug \in Slugs
      /\ id \in TabIds(old.tabs) /\ GoodGroup(old)
      BY Where DEF Good, TabIds
<1>2. g = [tabs |-> old.tabs, active |-> id]
      BY <1>1 DEF GoodGroup
<1> HIDE DEF slug, old, g
<1>3. GoodGroup(g) /\ TabIds(g.tabs) \subseteq TabIds(old.tabs)
      BY <1>1, <1>2 DEF GoodGroup
<1>4. TabIds(g.tabs) \subseteq OldIds(S, slug) \cup {None}
      BY <1>1, <1>3 DEF OldIds, old
<1>5. Good([active |-> slug, groups |-> With(S.groups, slug, g)])
      BY <1>1, <1>3, <1>4, GoodWith
<1> QED BY <1>5 DEF SetActiveTab, slug, old, g

\* A tab replaced by one with its id and its pin.
LEMMA ReplacedGood ==
  ASSUME NEW S, Good(S), None \notin AllIds(S), NEW id \in AllIds(S), NEW tab \in AnyTab,
         tab.id = id, tab.pinned = TabOf(S, id).pinned
  PROVE  Good(Replaced(S, id, tab)) /\ AllIds(Replaced(S, id, tab)) = AllIds(S)
<1> DEFINE slug == SlugOf(S, id)
           old == S.groups[slug]
           i == IndexOf(old.tabs, id)
           tabs == [old.tabs EXCEPT ![i] = tab]
           g == [old EXCEPT !.tabs = [old.tabs EXCEPT ![i] = tab]]
<1>1. /\ slug \in DOMAIN S.groups /\ slug \in Slugs
      /\ i \in DOMAIN old.tabs /\ old.tabs[i].id = id /\ GoodGroup(old)
      BY Where DEF Good
<1>2. tab.pinned = old.tabs[i].pinned
      BY DEF TabOf
<1>3. GoodTabs(tabs) /\ TabIds(tabs) = TabIds(old.tabs)
      BY <1>1, <1>2, ReplaceGood DEF GoodGroup
<1>4. g = [tabs |-> tabs, active |-> old.active]
      BY <1>1 DEF GoodGroup
<1> HIDE DEF slug, old, i, tabs, g
<1>5. GoodGroup(g) /\ TabIds(g.tabs) = TabIds(old.tabs) /\ old = S.groups[slug]
      BY <1>1, <1>3, <1>4 DEF GoodGroup, old
<1>6. TabIds(g.tabs) \subseteq OldIds(S, slug) \cup {None}
      BY <1>1, <1>5 DEF OldIds
<1>7. Good([S EXCEPT !.groups = With(S.groups, slug, g)])
      BY <1>1, <1>5, <1>6, GoodSet
<1>8. Replaced(S, id, tab) = [S EXCEPT !.groups = With(S.groups, slug, g)]
      BY DEF Replaced, slug, old, i, g
<1>9. AllIds([S EXCEPT !.groups = With(S.groups, slug, g)]) = AllIds(S)
      <2>1. [S EXCEPT !.groups = With(S.groups, slug, g)].groups = With(S.groups, slug, g)
            BY DEF Good
      <2>2. /\ DOMAIN With(S.groups, slug, g) = DOMAIN S.groups
            /\ \A s \in DOMAIN S.groups :
                 TabIds(With(S.groups, slug, g)[s].tabs) = TabIds(S.groups[s].tabs)
            BY <1>1, <1>5 DEF With
      <2> QED BY <2>1, <2>2 DEF AllIds
<1> QED BY <1>7, <1>8, <1>9

\* The tab an id names, as the store has it.
LEMMA TabOfGood ==
  ASSUME NEW S, Good(S), NEW id \in AllIds(S)
  PROVE  TabOf(S, id) \in AnyTab /\ TabOf(S, id).id = id
<1>1. TabOf(S, id).id = id
      BY Where DEF TabOf
<1>2. S.groups[SlugOf(S, id)].tabs \in Seq(AnyTab)
      BY Where DEF Good, GoodGroup, GoodTabs
<1> QED BY <1>1, <1>2, Where DEF TabOf

\* updateTab changes the path only.
LEMMA UpdateTabGood ==
  ASSUME NEW S, Good(S), None \notin AllIds(S), NEW id \in AllIds(S), NEW path \in Path
  PROVE  Good(UpdateTab(S, id, path)) /\ AllIds(UpdateTab(S, id, path)) = AllIds(S)
<1> DEFINE tab == TabOf(S, id)
           new == [tab EXCEPT !.path = path]
<1>1. tab \in AnyTab /\ tab.id = id
      BY TabOfGood
<1> HIDE DEF tab
<1>2. new \in AnyTab /\ new.id = id /\ new.pinned = tab.pinned
      BY <1>1 DEF AnyTab
<1> QED BY <1>2, ReplacedGood DEF UpdateTab, tab

\* updateTabHistory changes the counts only.
LEMMA UpdateTabHistoryGood ==
  ASSUME NEW S, Good(S), None \notin AllIds(S), NEW id \in AllIds(S), NEW at \in Nat, NEW len \in Nat
  PROVE  /\ Good(UpdateTabHistory(S, id, at, len))
         /\ AllIds(UpdateTabHistory(S, id, at, len)) = AllIds(S)
<1> DEFINE tab == TabOf(S, id)
           new == [tab EXCEPT !.at = at, !.len = len]
<1>1. tab \in AnyTab /\ tab.id = id
      BY TabOfGood
<1> HIDE DEF tab
<1>2. new \in AnyTab /\ new.id = id /\ new.pinned = tab.pinned
      BY <1>1 DEF AnyTab
<1> QED BY <1>2, ReplacedGood DEF UpdateTabHistory, tab

\* A tab that is pinned goes behind the pinned ones, one that is unpinned before the others.
LEMMA ToggledGood ==
  ASSUME NEW tabs, GoodTabs(tabs), NEW i \in DOMAIN tabs, NEW b \in Nat,
         IsPinnedBoundary(RemoveAt(tabs, i), b)
  PROVE  GoodTabs(Toggled(tabs, i, b)) /\ TabIds(Toggled(tabs, i, b)) = TabIds(tabs)
<1> DEFINE left == RemoveAt(tabs, i)
           tab == [tabs[i] EXCEPT !.pinned = ~@]
<1>1. GoodTabs(left) /\ TabIds(left) = TabIds(tabs) \ {tabs[i].id}
      BY RemoveGood
<1>2. tabs[i] \in AnyTab
      BY DEF GoodTabs
<1>3. tab \in AnyTab /\ tab.id = tabs[i].id
      BY <1>2 DEF AnyTab
<1> HIDE DEF left, tab
<1>4. b \in 0..Len(left) /\ Len(left) \in Nat /\ DOMAIN left = 1..Len(left)
      BY <1>1 DEF IsPinnedBoundary, GoodTabs, left
<1>5. \A j \in 1..Len(left) : j <= b => left[j].pinned
      BY <1>4 DEF IsPinnedBoundary, left
<1>6. \A j \in 1..Len(left) : b + 1 <= j => ~left[j].pinned
      <2> SUFFICES ASSUME NEW j \in 1..Len(left), b + 1 <= j, left[j].pinned
                   PROVE  FALSE
          OBVIOUS
      <2>1. b + 1 \in 1..Len(left) /\ ~left[b + 1].pinned
            BY <1>4 DEF IsPinnedBoundary, left
      <2>2. j # b + 1 /\ b + 1 < j
            BY <1>4, <2>1
      <2> QED BY <1>1, <1>4, <2>1, <2>2 DEF GoodTabs, PinnedFirst
<1>7. \A j \in 1..Len(left) : /\ j < b + 1 /\ tab.pinned => left[j].pinned
                              /\ b + 1 <= j /\ left[j].pinned => tab.pinned
      BY <1>4, <1>5, <1>6
<1>8. tab.id \notin TabIds(left) /\ b + 1 \in 1..(Len(left) + 1)
      BY <1>1, <1>3, <1>4
<1>9. GoodTabs(InsertAt(left, b + 1, tab)) /\ TabIds(InsertAt(left, b + 1, tab)) = TabIds(left) \cup {tab.id}
      BY <1>1, <1>3, <1>7, <1>8, InsertGood
<1>10. tabs[i].id \in TabIds(tabs)
      BY DEF TabIds
<1> QED BY <1>1, <1>3, <1>9, <1>10 DEF Toggled, left, tab

\* A tab is dropped within its own zone.
LEMMA MoveToGood ==
  ASSUME NEW tabs, GoodTabs(tabs), NEW from \in DOMAIN tabs, NEW to \in DOMAIN tabs,
         NEW b \in Nat, IsPinnedBoundary(tabs, b)
  PROVE  GoodTabs(MoveTo(tabs, from, to, b)) /\ TabIds(MoveTo(tabs, from, to, b)) = TabIds(tabs)
<1> DEFINE left == RemoveAt(tabs, from)
           tab == tabs[from]
           at == Clamped(tabs, from, to, b)
           n == Len(tabs)
<1>1. /\ tabs \in Seq(AnyTab) /\ DOMAIN tabs = 1..n /\ n \in Nat
      /\ from \in 1..n /\ to \in 1..n /\ b \in 0..n
      BY DEF GoodTabs, IsPinnedBoundary
<1>2. /\ GoodTabs(left) /\ TabIds(left) = TabIds(tabs) \ {tab.id} /\ Len(left) = n - 1
      /\ \A j \in 1..(n - 1) : left[j] = IF j < from THEN tabs[j] ELSE tabs[j + 1]
      BY RemoveGood
<1>3. tab \in AnyTab /\ tab.id \in TabIds(tabs)
      BY <1>1 DEF TabIds
<1>4. /\ \A j \in 1..n : j <= b => tabs[j].pinned
      /\ \A j \in 1..n : b < j => ~tabs[j].pinned
      <2>1. \A j \in 1..n : j <= b => tabs[j].pinned
            BY <1>1 DEF IsPinnedBoundary
      <2>2. ASSUME NEW j \in 1..n, b < j, tabs[j].pinned
            PROVE  FALSE
            <3>1. b + 1 \in 1..n /\ ~tabs[b + 1].pinned
                  BY <1>1, <2>2 DEF IsPinnedBoundary
            <3>2. j # b + 1 /\ b + 1 < j
                  BY <1>1, <2>2, <3>1
            <3> QED BY <1>1, <2>2, <3>1, <3>2 DEF GoodTabs, PinnedFirst
      <2> QED BY <2>1, <2>2
<1>5. tab.pinned <=> from <= b
      BY <1>1, <1>4
<1>6. /\ at \in 1..n
      /\ tab.pinned => at <= b
      /\ ~tab.pinned => b < at
      BY <1>1, <1>5 DEF Clamped
<1> HIDE DEF left, tab, at, n
<1>7. \A j \in 1..(n - 1) : /\ j < at /\ tab.pinned => left[j].pinned
                            /\ at <= j /\ left[j].pinned => tab.pinned
      <2> SUFFICES ASSUME NEW j \in 1..(n - 1)
                   PROVE  /\ j < at /\ tab.pinned => left[j].pinned
                          /\ at <= j /\ left[j].pinned => tab.pinned
          OBVIOUS
      <2>1. j \in 1..n /\ j + 1 \in 1..n
            BY <1>1
      <2>2. CASE tab.pinned
            <3>1. j < at => j + 1 <= b /\ j <= b
                  BY <1>1, <1>6, <2>2
            <3> QED BY <1>2, <1>4, <2>1, <2>2, <3>1
      <2>3. CASE ~tab.pinned
            <3>1. at <= j => b < j /\ b < j + 1
                  BY <1>1, <1>6, <2>3
            <3> QED BY <1>2, <1>4, <2>1, <2>3, <3>1
      <2> QED BY <2>2, <2>3
<1>8. tab.id \notin TabIds(left) /\ at \in 1..(Len(left) + 1) /\ Len(left) = n - 1
      BY <1>1, <1>2, <1>6
<1>9. GoodTabs(InsertAt(left, at, tab)) /\ TabIds(InsertAt(left, at, tab)) = TabIds(left) \cup {tab.id}
      BY <1>2, <1>3, <1>7, <1>8, InsertGood
<1> QED BY <1>2, <1>3, <1>9 DEF MoveTo, left, tab, at

\* reset leaves no group.
LEMMA NoTabsGood == Good(NoTabs) /\ AllIds(NoTabs) = {}
  BY DEF NoTabs, Good, Apart, AllIds

\* Groups are dropped, and another is shown, or made.
LEMMA ValidatedGood ==
  ASSUME NEW S, Good(S), NEW valid \in SUBSET Slugs, NEW shown \in ShownNext(S, valid),
         NEW id \in AnyId, id \notin AllIds(S)
  PROVE  Good(Validated(S, valid, shown, id))
<1> DEFINE left == [s \in DOMAIN S.groups \cap valid |-> S.groups[s]]
           L == [active |-> None, groups |-> left]
           g == Single(MakeTab(id, DefaultPath(shown)))
<1>1. L.active = None /\ L.groups = left /\ L = [active |-> L.active, groups |-> L.groups]
      OBVIOUS
<1>2. DOMAIN left = DOMAIN S.groups \cap valid /\ \A s \in DOMAIN left : left[s] = S.groups[s]
      OBVIOUS
<1>3. left = [s \in DOMAIN left |-> left[s]]
      OBVIOUS
<1> HIDE DEF left, L, g
<1>4. Good(L) /\ id \notin AllIds(L)
      BY <1>1, <1>2, <1>3 DEF Good, Apart, AllIds
<1>5. None \notin Slugs
      BY TabAssumption
<1>6. CASE shown = None \/ shown \in DOMAIN left
      <2>1. Validated(S, valid, shown, id) = [active |-> shown, groups |-> left]
            BY <1>6 DEF Validated, left
      <2> DEFINE V == [active |-> shown, groups |-> left]
      <2>2. V.active = shown /\ V.groups = left
            OBVIOUS
      <2> HIDE DEF V
      <2>3. Good(V)
            BY <1>1, <1>4, <1>6, <2>2 DEF Good, Apart, V
      <2> QED BY <2>1, <2>3 DEF V
<1>7. CASE ~(shown = None \/ shown \in DOMAIN left)
      <2>1. shown \in valid
            BY <1>7 DEF ShownNext
      <2>2. Validated(S, valid, shown, id) = [active |-> shown, groups |-> With(left, shown, g)]
            BY <1>7 DEF Validated, left, g
      <2>3. DefaultPath(shown) \in Path
            BY <2>1, TabAssumption DEF DefaultPath, Path
      <2>4. GoodGroup(g) /\ TabIds(g.tabs) = {id}
            BY <2>3, MakeTabGood, SingleGood DEF g
      <2>5. Good([active |-> shown, groups |-> With(L.groups, shown, g)])
            BY <1>4, <2>1, <2>4, GoodWith
      <2> QED BY <1>1, <2>2, <2>5
<1> QED BY <1>6, <1>7

\* A tab that is loaded keeps its id and its pin.
LEMMA LoadedGood ==
  ASSUME NEW t \in AnyTab
  PROVE  Loaded(t) \in AnyTab /\ Loaded(t).id = t.id /\ Loaded(t).pinned = t.pinned
  BY DEF Loaded, AnyTab

\* The tabs a group gets back are some of those it had, pinned ones first.
LEMMA RehydrationGood ==
  ASSUME NEW tabs, GoodTabs(tabs), NEW slug, KeptAt(tabs, slug) # {},
         NEW r \in Rehydrations(tabs, slug)
  PROVE  GoodTabs(r) /\ TabIds(r) \subseteq TabIds(tabs) /\ 1 \in DOMAIN r
<1> DEFINE K == KeptAt(tabs, slug)
           n == Cardinality(K)
<1>1. tabs \in Seq(AnyTab) /\ DOMAIN tabs = 1..Len(tabs) /\ Len(tabs) \in Nat /\ K \subseteq 1..Len(tabs)
      BY DEF GoodTabs, KeptAt
<1>2. IsFiniteSet(K)
      <2>1. IsFiniteSet(1..Len(tabs))
            BY <1>1, FS_Interval
      <2> HIDE DEF K
      <2> QED BY <1>1, <2>1, FS_Subset
<1>3. n \in Nat /\ n # 0
      BY <1>2, FS_CardinalityType, FS_EmptySet
<1>4. PICK f \in [1..n -> K] : /\ \A j, k \in 1..n : j < k => Precedes(tabs, f[j], f[k])
                               /\ r = [k \in 1..n |-> Loaded(tabs[f[k]])]
      BY DEF Rehydrations, Sortings
<1> HIDE DEF K, n
<1>5. ASSUME NEW k \in 1..n
      PROVE  /\ f[k] \in 1..Len(tabs) /\ tabs[f[k]] \in AnyTab
             /\ r[k] \in AnyTab /\ r[k].id = tabs[f[k]].id /\ r[k].pinned = tabs[f[k]].pinned
      <2>1. f[k] \in K
            BY <1>4
      <2>2. f[k] \in 1..Len(tabs)
            BY <1>1, <2>1
      <2>3. tabs[f[k]] \in AnyTab
            BY <1>1, <2>2
      <2>4. PICK t \in AnyTab : t = tabs[f[k]]
            BY <2>3
      <2>5. r[k] = Loaded(t)
            BY <1>4, <2>4
      <2>6. r[k] \in AnyTab /\ r[k].id = t.id /\ r[k].pinned = t.pinned
            BY <2>5, LoadedGood
      <2> QED BY <2>2, <2>4, <2>6
<1>6. DOMAIN r = 1..n
      BY <1>4
<1>7. r \in Seq(AnyTab)
      <2>1. r \in [1..n -> AnyTab]
            BY <1>4, <1>5
      <2> QED BY <1>3, <2>1, SeqDef
<1>8. Distinct(r)
      <2> SUFFICES ASSUME NEW j \in 1..n, NEW k \in 1..n, r[j].id = r[k].id
                   PROVE  j = k
          BY <1>6 DEF Distinct
      <2>1. f[j] = f[k] /\ f[j] \in Int
            BY <1>1, <1>5 DEF GoodTabs, Distinct
      <2>2. ~(j < k) /\ ~(k < j)
            BY <1>4, <2>1 DEF Precedes
      <2> QED BY <1>3, <2>2
<1>9. PinnedFirst(r)
      <2> SUFFICES ASSUME NEW j \in 1..n, NEW k \in 1..n, j < k, r[k].pinned
                   PROVE  r[j].pinned
          BY <1>6 DEF PinnedFirst
      <2>1. Precedes(tabs, f[j], f[k])
            BY <1>4
      <2>2. CASE tabs[f[j]].pinned = tabs[f[k]].pinned
            BY <1>5, <2>2
      <2>3. CASE tabs[f[j]].pinned # tabs[f[k]].pinned
            BY <1>5, <2>1, <2>3 DEF Precedes
      <2> QED BY <2>2, <2>3
<1>10. TabIds(r) \subseteq TabIds(tabs) /\ 1 \in DOMAIN r
      BY <1>1, <1>3, <1>5, <1>6 DEF TabIds
<1> QED BY <1>7, <1>8, <1>9, <1>10 DEF GoodTabs

\* merge keeps the groups well formed, and makes no tab.
LEMMA MergedGood ==
  ASSUME NEW S, Good(S), NEW order, IsOrder(S, order), NEW shown \in ShownAfterMerge(S)
  PROVE  Good(Merged(S, order, shown)) /\ AllIds(Merged(S, order, shown)) \subseteq AllIds(S)
<1> DEFINE G == [s \in DOMAIN order |->
                   [tabs |-> order[s],
                    active |-> IF S.groups[s].active \in TabIds(order[s])
                               THEN S.groups[s].active ELSE order[s][1].id]]
           M == [active |-> shown, groups |-> G]
<1>1. /\ M.active = shown /\ M.groups = G /\ M = [active |-> M.active, groups |-> M.groups]
      /\ DOMAIN G = DOMAIN order /\ G = [s \in DOMAIN G |-> G[s]]
      /\ Merged(S, order, shown) = M
      BY DEF Merged
<1>2. DOMAIN order = KeptSlugs(S) /\ DOMAIN order \subseteq DOMAIN S.groups
      BY DEF IsOrder, KeptSlugs
<1>3. ASSUME NEW s \in DOMAIN order
      PROVE  GoodGroup(G[s]) /\ TabIds(G[s].tabs) \subseteq TabIds(S.groups[s].tabs)
      <2>1. order[s] \in Rehydrations(S.groups[s].tabs, s) /\ KeptAt(S.groups[s].tabs, s) # {}
            BY <1>2 DEF IsOrder, KeptSlugs
      <2>2. GoodTabs(S.groups[s].tabs)
            BY <1>2 DEF Good, GoodGroup
      <2>3. /\ GoodTabs(order[s]) /\ TabIds(order[s]) \subseteq TabIds(S.groups[s].tabs)
            /\ 1 \in DOMAIN order[s]
            BY <2>1, <2>2, RehydrationGood
      <2>4. order[s][1].id \in TabIds(order[s])
            BY <2>3 DEF TabIds
      <2>5. /\ G[s] = [tabs |-> G[s].tabs, active |-> G[s].active]
            /\ G[s].tabs = order[s] /\ G[s].active \in TabIds(order[s])
            BY <2>4
      <2> HIDE DEF G
      <2> QED BY <2>3, <2>5 DEF GoodGroup
<1>4. shown = None \/ shown \in DOMAIN G
      BY <1>1, <1>2 DEF ShownAfterMerge
<1> HIDE DEF G, M
<1>5. Apart(M)
      BY <1>1, <1>2, <1>3 DEF Good, Apart
<1>6. Good(M)
      BY <1>1, <1>2, <1>3, <1>4, <1>5 DEF Good
<1>7. AllIds(M) \subseteq AllIds(S)
      BY <1>1, <1>2, <1>3 DEF AllIds
<1> QED BY <1>1, <1>6, <1>7

\* Sorting the pinned ones first changes no order of tabs that are in it.
LEMMA PrecedesIsBefore ==
  ASSUME NEW tabs, GoodTabs(tabs), NEW i \in DOMAIN tabs, NEW j \in DOMAIN tabs,
         Precedes(tabs, i, j)
  PROVE  i < j
<1>1. i \in Int /\ j \in Int /\ tabs[i].pinned \in BOOLEAN /\ tabs[j].pinned \in BOOLEAN
      <2>1. tabs \in Seq(AnyTab) /\ DOMAIN tabs = 1..Len(tabs) /\ Len(tabs) \in Nat
            BY DEF GoodTabs
      <2>2. tabs[i] \in AnyTab /\ tabs[j] \in AnyTab
            BY <2>1
      <2> QED BY <2>1, <2>2 DEF AnyTab
<1>2. CASE tabs[i].pinned = tabs[j].pinned
      BY <1>2 DEF Precedes
<1>3. CASE tabs[i].pinned # tabs[j].pinned
      <2>1. tabs[i].pinned /\ ~tabs[j].pinned /\ i # j
            BY <1>1, <1>3 DEF Precedes
      <2>2. ~(j < i)
            BY <2>1 DEF GoodTabs, PinnedFirst
      <2> QED BY <1>1, <2>1, <2>2
<1> QED BY <1>2, <1>3

\* merge loses no tab it keeps, and leaves their order alone.
LEMMA RehydrationKeeps ==
  ASSUME NEW tabs, GoodTabs(tabs), NEW slug, NEW r \in Rehydrations(tabs, slug)
  PROVE  /\ TabIds(r) = {tabs[i].id : i \in KeptAt(tabs, slug)}
         /\ \A m, n \in DOMAIN r, i, j \in KeptAt(tabs, slug) :
              r[m].id = tabs[i].id /\ r[n].id = tabs[j].id => (m < n <=> i < j)
<1> DEFINE K == KeptAt(tabs, slug)
           c == Cardinality(K)
<1>1. tabs \in Seq(AnyTab) /\ DOMAIN tabs = 1..Len(tabs) /\ Len(tabs) \in Nat /\ K \subseteq 1..Len(tabs)
      BY DEF GoodTabs, KeptAt
<1>2. IsFiniteSet(K)
      <2>1. IsFiniteSet(1..Len(tabs))
            BY <1>1, FS_Interval
      <2> HIDE DEF K
      <2> QED BY <1>1, <2>1, FS_Subset
<1>3. c \in Nat
      BY <1>2, FS_CardinalityType
<1>4. PICK f \in [1..c -> K] : /\ \A m, n \in 1..c : m < n => Precedes(tabs, f[m], f[n])
                               /\ r = [k \in 1..c |-> Loaded(tabs[f[k]])]
      BY DEF Rehydrations, Sortings
<1>5. Cardinality(1..c) = Cardinality(K)
      BY <1>3, FS_Interval
<1> HIDE DEF K, c
<1>6. ASSUME NEW k \in 1..c
      PROVE  f[k] \in K /\ f[k] \in 1..Len(tabs) /\ r[k].id = tabs[f[k]].id
      <2>1. f[k] \in K
            BY <1>4
      <2>2. f[k] \in 1..Len(tabs)
            BY <1>1, <2>1
      <2>3. PICK t \in AnyTab : t = tabs[f[k]]
            BY <1>1, <2>2
      <2>4. r[k] = Loaded(t)
            BY <1>4, <2>3
      <2> QED BY <2>1, <2>2, <2>3, <2>4, LoadedGood
<1>7. ASSUME NEW m \in 1..c, NEW n \in 1..c
      PROVE  m < n <=> f[m] < f[n]
      <2>1. f[m] \in Int /\ f[n] \in Int /\ m \in Int /\ n \in Int
            BY <1>1, <1>3, <1>6
      <2>2. m < n => f[m] < f[n]
            BY <1>1, <1>4, <1>6, PrecedesIsBefore
      <2>3. n < m => f[n] < f[m]
            BY <1>1, <1>4, <1>6, PrecedesIsBefore
      <2> QED BY <2>1, <2>2, <2>3
<1>8. \A i \in K : \E k \in 1..c : f[k] = i
      <2>1. ASSUME NEW m \in 1..c, NEW n \in 1..c, f[m] = f[n] PROVE m = n
            <3>1. f[m] \in Int /\ m \in Int /\ n \in Int
                  BY <1>1, <1>3, <1>6
            <3> QED BY <1>7, <2>1, <3>1
      <2>2. f \in Injection(1..c, K)
            BY <1>4, <2>1 DEF Injection, IsInjective
      <2>3. f \in Surjection(1..c, K)
            BY <1>2, <1>5, <2>2, FS_Injection
      <2> QED BY <2>3 DEF Surjection
<1>9. DOMAIN r = 1..c
      BY <1>4
<1>10. TabIds(r) = {tabs[i].id : i \in K}
      BY <1>6, <1>8, <1>9 DEF TabIds
<1>11. \A m, n \in DOMAIN r, i, j \in K :
         r[m].id = tabs[i].id /\ r[n].id = tabs[j].id => (m < n <=> i < j)
      <2> SUFFICES ASSUME NEW m \in 1..c, NEW n \in 1..c, NEW i \in K, NEW j \in K,
                          r[m].id = tabs[i].id, r[n].id = tabs[j].id
                   PROVE  m < n <=> i < j
          BY <1>9
      <2>1. i \in DOMAIN tabs /\ j \in DOMAIN tabs /\ f[m] \in DOMAIN tabs /\ f[n] \in DOMAIN tabs
            BY <1>1, <1>6
      <2>2. f[m] = i /\ f[n] = j
            BY <1>6, <2>1 DEF GoodTabs, Distinct
      <2> QED BY <1>7, <2>2
<1> QED BY <1>10, <1>11 DEF K

-----------------------------------------------------------------------------
(* What a tab shows changes only by updateTab and updateTabHistory: every other *)
(* operation leaves the tabs that stay in the groups where they were, with the  *)
(* page and the history they had, and makes at most one tab.                    *)

Same(t, u) == t.id = u.id /\ t.path = u.path /\ t.at = u.at /\ t.len = u.len

New(t, path, id) == t.id = id /\ t.path = path /\ t.at = 0 /\ t.len = 1

\* Every tab is one of old, or the new one.
From(tabs, old, path, id) ==
  \A i \in DOMAIN tabs :
    New(tabs[i], path, id) \/ \E j \in DOMAIN old : Same(tabs[i], old[j])

\* Every tab of T is one of S, in the same group, or the new one, in group slug.
Comes(S, T, slug, path, id) ==
  \A s \in DOMAIN T.groups, i \in Nat :
    i \in DOMAIN T.groups[s].tabs =>
      \/ s = slug /\ New(T.groups[s].tabs[i], path, id)
      \/ /\ s \in DOMAIN S.groups
         /\ \E j \in DOMAIN S.groups[s].tabs : Same(T.groups[s].tabs[i], S.groups[s].tabs[j])

\* An operation that sets one group.
LEMMA ComesWith ==
  ASSUME NEW S, NEW T, NEW slug, NEW path, NEW id, NEW g, T.groups = With(S.groups, slug, g),
         \/ slug \in DOMAIN S.groups /\ From(g.tabs, S.groups[slug].tabs, path, id)
         \/ \A i \in DOMAIN g.tabs : New(g.tabs[i], path, id)
  PROVE  Comes(S, T, slug, path, id)
<1> SUFFICES ASSUME NEW s \in DOMAIN T.groups, NEW i \in Nat, i \in DOMAIN T.groups[s].tabs
             PROVE  \/ s = slug /\ New(T.groups[s].tabs[i], path, id)
                    \/ /\ s \in DOMAIN S.groups
                       /\ \E j \in DOMAIN S.groups[s].tabs :
                            Same(T.groups[s].tabs[i], S.groups[s].tabs[j])
    BY DEF Comes
<1>1. CASE s = slug
      <2>1. T.groups[s] = g
            BY <1>1 DEF With
      <2> QED BY <1>1, <2>1 DEF From
<1>2. CASE s # slug
      <2>1. s \in DOMAIN S.groups /\ T.groups[s] = S.groups[s]
            BY <1>2 DEF With
      <2> QED BY <2>1 DEF Same
<1> QED BY <1>1, <1>2

\* The group of a tab alone.
LEMMA SingleFrom ==
  ASSUME NEW path, NEW id
  PROVE  \A i \in DOMAIN Single(MakeTab(id, path)).tabs :
           New(Single(MakeTab(id, path)).tabs[i], path, id)
<1>1. Single(MakeTab(id, path)).tabs = <<MakeTab(id, path)>>
      BY DEF Single
<1>2. New(MakeTab(id, path), path, id)
      BY DEF New, MakeTab
<1> HIDE DEF New
<1> QED BY <1>1, <1>2

\* A tab is added at the end.
LEMMA AppendFrom ==
  ASSUME NEW tabs, GoodTabs(tabs), NEW path, NEW id
  PROVE  From(Append(tabs, MakeTab(id, path)), tabs, path, id)
<1> DEFINE new == Append(tabs, MakeTab(id, path))
           n == Len(tabs)
<1>1. tabs \in Seq(AnyTab) /\ DOMAIN tabs = 1..n /\ n \in Nat
      BY DEF GoodTabs
<1>2. /\ DOMAIN new = 1..(n + 1) /\ new[n + 1] = MakeTab(id, path)
      /\ \A i \in 1..n : new[i] = tabs[i]
      BY <1>1
<1>3. New(MakeTab(id, path), path, id)
      BY DEF New, MakeTab
<1> HIDE DEF new, n
<1>4. ASSUME NEW i \in 1..(n + 1)
      PROVE  New(new[i], path, id) \/ \E j \in DOMAIN tabs : Same(new[i], tabs[j])
      <2>1. CASE i = n + 1
            BY <1>2, <1>3, <2>1
      <2>2. CASE i # n + 1
            <3>1. i \in DOMAIN tabs /\ new[i] = tabs[i]
                  BY <1>1, <1>2, <2>2
            <3> QED BY <3>1 DEF Same
      <2> QED BY <2>1, <2>2
<1> QED BY <1>2, <1>4 DEF From, new

\* A tab is looked for, and added if there is none.
LEMMA DedupeFrom ==
  ASSUME NEW g, GoodGroup(g), NEW path, NEW id
  PROVE  From(Dedupe(g, path, id).tabs, g.tabs, path, id)
<1>1. CASE \E i \in DOMAIN g.tabs : FirstAt(g.tabs, path, i)
      <2>1. Dedupe(g, path, id).tabs = g.tabs
            BY <1>1 DEF Dedupe
      <2> QED BY <2>1 DEF From, Same
<1>2. CASE ~(\E i \in DOMAIN g.tabs : FirstAt(g.tabs, path, i))
      <2>1. Dedupe(g, path, id).tabs = Append(g.tabs, MakeTab(id, path))
            BY <1>2 DEF Dedupe
      <2> QED BY <2>1, AppendFrom DEF GoodGroup
<1> QED BY <1>1, <1>2

\* switchWorkspace.
LEMMA SwitchWorkspaceComes ==
  ASSUME NEW S, Good(S), NEW slug, NEW path, NEW id
  PROVE  Comes(S, SwitchWorkspace(S, slug, path, id), slug, path, id)
<1> DEFINE g == IF slug \in DOMAIN S.groups
                THEN [tabs |-> Dedupe(S.groups[slug], path, id).tabs,
                      active |-> Dedupe(S.groups[slug], path, id).shows]
                ELSE Single(MakeTab(id, path))
<1>1. SwitchWorkspace(S, slug, path, id).groups = With(S.groups, slug, g)
      BY DEF SwitchWorkspace
<1>2. CASE slug \in DOMAIN S.groups
      <2>1. g.tabs = Dedupe(S.groups[slug], path, id).tabs /\ GoodGroup(S.groups[slug])
            BY <1>2 DEF Good
      <2> HIDE DEF g
      <2>2. From(g.tabs, S.groups[slug].tabs, path, id)
            BY <2>1, DedupeFrom
      <2> QED BY <1>1, <1>2, <2>2, ComesWith
<1>3. CASE slug \notin DOMAIN S.groups
      <2>1. g = Single(MakeTab(id, path))
            BY <1>3
      <2> HIDE DEF g
      <2>2. \A i \in DOMAIN g.tabs : New(g.tabs[i], path, id)
            BY <2>1, SingleFrom
      <2> QED BY <1>1, <2>2, ComesWith
<1> QED BY <1>2, <1>3

\* openTab and addTab, with or without activating what they return.
LEMMA OpenTabComes ==
  ASSUME NEW S, Good(S), S.active # None, NEW path, NEW id
  PROVE  /\ Comes(S, OpenTab(S, path, id), S.active, path, id)
         /\ Comes(S, OpenTabInFront(S, path, id), S.active, path, id)
         /\ Comes(S, AddTabInFront(S, path, id), S.active, path, id)
<1> DEFINE old == S.groups[S.active]
           to == Dedupe(old, path, id)
           behind == [tabs |-> to.tabs, active |-> IF to.tabs = old.tabs THEN to.shows ELSE old.active]
           front == [tabs |-> to.tabs, active |-> to.shows]
           added == [tabs |-> Append(old.tabs, MakeTab(id, path)), active |-> id]
<1>1. S.active \in DOMAIN S.groups /\ GoodGroup(old)
      BY DEF Good
<1>2. From(behind.tabs, old.tabs, path, id) /\ From(front.tabs, old.tabs, path, id)
      BY <1>1, DedupeFrom
<1>3. From(added.tabs, old.tabs, path, id)
      BY <1>1, AppendFrom DEF GoodGroup
<1>4. /\ OpenTab(S, path, id).groups = With(S.groups, S.active, behind)
      /\ OpenTabInFront(S, path, id).groups = With(S.groups, S.active, front)
      /\ AddTabInFront(S, path, id).groups = With(S.groups, S.active, added)
      BY DEF Good, OpenTab, OpenTabInFront, AddTabInFront
<1> HIDE DEF behind, front, added, to
<1> QED BY <1>1, <1>2, <1>3, <1>4, ComesWith

\* closeTab.
LEMMA CloseTabComes ==
  ASSUME NEW S, Good(S), NEW id \in AllIds(S), NEW fresh
  PROVE  Comes(S, CloseTab(S, id, fresh), SlugOf(S, id), DefaultPath(SlugOf(S, id)), fresh)
<1> DEFINE slug == SlugOf(S, id)
           old == S.groups[slug]
           i == IndexOf(old.tabs, id)
           left == RemoveAt(old.tabs, i)
           next == IF old.active # id THEN old.active
                   ELSE IF i <= Len(left) THEN left[i].id ELSE left[Len(left)].id
           g == IF Len(old.tabs) = 1 THEN Single(MakeTab(fresh, DefaultPath(slug)))
                ELSE [tabs |-> left, active |-> next]
<1>1. slug \in DOMAIN S.groups /\ i \in DOMAIN old.tabs /\ GoodTabs(old.tabs)
      BY Where DEF Good, GoodGroup
<1>2. CloseTab(S, id, fresh).groups = With(S.groups, slug, g)
      BY DEF Good, CloseTab
<1> HIDE DEF slug, i, next
<1>3. CASE Len(old.tabs) = 1
      <2>1. g = Single(MakeTab(fresh, DefaultPath(slug)))
            BY <1>3
      <2> HIDE DEF g
      <2>2. \A k \in DOMAIN g.tabs : New(g.tabs[k], DefaultPath(slug), fresh)
            BY <2>1, SingleFrom
      <2> QED BY <1>2, <2>2, ComesWith DEF slug
<1>4. CASE Len(old.tabs) # 1
      <2>1. g.tabs = left
            BY <1>4
      <2>2. /\ DOMAIN old.tabs = 1..Len(old.tabs) /\ Len(old.tabs) \in Nat
            /\ DOMAIN left = 1..(Len(old.tabs) - 1)
            /\ \A k \in 1..(Len(old.tabs) - 1) :
                 left[k] = IF k < i THEN old.tabs[k] ELSE old.tabs[k + 1]
            BY <1>1, RemoveGood DEF GoodTabs
      <2> HIDE DEF left, g
      <2>3. ASSUME NEW k \in DOMAIN left
            PROVE  \E j \in DOMAIN old.tabs : Same(left[k], old.tabs[j])
            <3>1. k \in DOMAIN old.tabs /\ k + 1 \in DOMAIN old.tabs
                  BY <2>2
            <3>2. left[k] = old.tabs[k] \/ left[k] = old.tabs[k + 1]
                  BY <2>2
            <3> QED BY <3>1, <3>2 DEF Same
      <2>4. From(g.tabs, old.tabs, DefaultPath(slug), fresh)
            BY <2>1, <2>3 DEF From
      <2> QED BY <1>1, <1>2, <2>4, ComesWith DEF slug
<1> QED BY <1>3, <1>4

\* setActiveTab.
LEMMA SetActiveComes ==
  ASSUME NEW S, Good(S), NEW id \in AllIds(S), NEW path, NEW new
  PROVE  Comes(S, SetActiveTab(S, id), SlugOf(S, id), path, new)
<1> DEFINE slug == SlugOf(S, id)
           g == [S.groups[slug] EXCEPT !.active = id]
<1>1. slug \in DOMAIN S.groups /\ GoodGroup(S.groups[slug])
      BY Where DEF Good
<1>2. g.tabs = S.groups[slug].tabs
      BY <1>1 DEF GoodGroup
<1>3. SetActiveTab(S, id).groups = With(S.groups, slug, g)
      BY DEF SetActiveTab
<1> HIDE DEF g, slug
<1>4. From(g.tabs, S.groups[slug].tabs, path, new)
      BY <1>2 DEF From, Same
<1> QED BY <1>1, <1>3, <1>4, ComesWith DEF slug

\* A tab is taken out of a group and put back, pinned or not.
LEMMA PutBackFrom ==
  ASSUME NEW tabs, GoodTabs(tabs), NEW i \in DOMAIN tabs, NEW at \in 1..Len(tabs),
         NEW tab \in AnyTab, Same(tab, tabs[i]), NEW path, NEW id
  PROVE  From(InsertAt(RemoveAt(tabs, i), at, tab), tabs, path, id)
<1> DEFINE left == RemoveAt(tabs, i)
           n == Len(tabs)
           back == InsertAt(left, at, tab)
<1>1. tabs \in Seq(AnyTab) /\ DOMAIN tabs = 1..n /\ n \in Nat /\ i \in 1..n
      BY DEF GoodTabs
<1>2. /\ left \in Seq(AnyTab) /\ Len(left) = n - 1
      /\ \A k \in 1..(n - 1) : left[k] = IF k < i THEN tabs[k] ELSE tabs[k + 1]
      BY <1>1, RemoveGood DEF GoodTabs
<1>3. at \in 1..(Len(left) + 1)
      BY <1>1, <1>2
<1> HIDE DEF left, n
<1>4. /\ back \in Seq(AnyTab) /\ Len(back) = Len(left) + 1
      /\ \A k \in 1..(Len(left) + 1) :
           back[k] = IF k < at THEN left[k] ELSE IF k = at THEN tab ELSE left[k - 1]
      <2>1. left \in Seq(AnyTab)
            BY <1>2
      <2> HIDE DEF back
      <2> QED BY <1>3, <2>1, InsertAtProperties DEF back
<1> HIDE DEF back
<1>5. \A k \in 1..(n - 1) : \E j \in 1..n : left[k] = tabs[j]
      <2> SUFFICES ASSUME NEW k \in 1..(n - 1) PROVE \E j \in 1..n : left[k] = tabs[j]
          OBVIOUS
      <2>1. k \in 1..n /\ k + 1 \in 1..n
            BY <1>1
      <2> QED BY <1>2, <2>1
<1>6. ASSUME NEW k \in 1..n
      PROVE  \E j \in 1..n : Same(back[k], tabs[j])
      <2>1. k \in 1..(Len(left) + 1)
            BY <1>1, <1>2
      <2>2. CASE k < at
            <3>1. back[k] = left[k] /\ k \in 1..(n - 1)
                  BY <1>1, <1>2, <1>3, <1>4, <2>1, <2>2
            <3> QED BY <1>5, <3>1 DEF Same
      <2>3. CASE k = at
            <3>1. back[k] = tab
                  BY <1>3, <1>4, <2>1, <2>3
            <3> QED BY <1>1, <3>1
      <2>4. CASE at < k
            <3>1. back[k] = left[k - 1] /\ k - 1 \in 1..(n - 1)
                  BY <1>1, <1>2, <1>3, <1>4, <2>1, <2>4
            <3> QED BY <1>5, <3>1 DEF Same
      <2> QED BY <1>1, <1>3, <2>2, <2>3, <2>4
<1>7. DOMAIN back = 1..n
      BY <1>1, <1>2, <1>4
<1> QED BY <1>1, <1>6, <1>7 DEF From, back, left

\* togglePin.
LEMMA ToggledFrom ==
  ASSUME NEW tabs, GoodTabs(tabs), NEW i \in DOMAIN tabs, NEW b \in 0..(Len(tabs) - 1),
         NEW path, NEW id
  PROVE  From(Toggled(tabs, i, b), tabs, path, id)
<1>1. tabs[i] \in AnyTab /\ Len(tabs) \in Nat
      BY DEF GoodTabs
<1>2. /\ [tabs[i] EXCEPT !.pinned = ~@] \in AnyTab
      /\ Same([tabs[i] EXCEPT !.pinned = ~@], tabs[i])
      BY <1>1 DEF AnyTab, Same
<1>3. b + 1 \in 1..Len(tabs)
      BY <1>1
<1> QED BY <1>2, <1>3, PutBackFrom DEF Toggled

\* moveTab.
LEMMA MoveToFrom ==
  ASSUME NEW tabs, GoodTabs(tabs), NEW from \in DOMAIN tabs, NEW to \in DOMAIN tabs,
         NEW b \in 0..Len(tabs), IsPinnedBoundary(tabs, b), NEW path, NEW id
  PROVE  From(MoveTo(tabs, from, to, b), tabs, path, id)
<1>1. /\ tabs \in Seq(AnyTab) /\ DOMAIN tabs = 1..Len(tabs) /\ Len(tabs) \in Nat
      /\ tabs[from] \in AnyTab
      BY DEF GoodTabs
<1>2. tabs[from].pinned => from <= b
      <2> SUFFICES ASSUME tabs[from].pinned, b < from PROVE FALSE
          BY <1>1
      <2>1. b + 1 \in 1..Len(tabs) /\ ~tabs[b + 1].pinned
            BY <1>1 DEF IsPinnedBoundary
      <2>2. b + 1 # from /\ b + 1 < from
            BY <1>1, <2>1
      <2> QED BY <1>1, <2>1, <2>2 DEF GoodTabs, PinnedFirst
<1>3. ~tabs[from].pinned => b < from
      BY <1>1 DEF IsPinnedBoundary
<1>4. Clamped(tabs, from, to, b) \in 1..Len(tabs)
      BY <1>1, <1>2, <1>3 DEF Clamped
<1>5. Same(tabs[from], tabs[from])
      BY DEF Same
<1> QED BY <1>1, <1>4, <1>5, PutBackFrom DEF MoveTo

\* validateWorkspaceSlugs.
LEMMA ValidatedComes ==
  ASSUME NEW S, Good(S), NEW valid, NEW shown, NEW id
  PROVE  Comes(S, Validated(S, valid, shown, id), shown, DefaultPath(shown), id)
<1> DEFINE left == [s \in DOMAIN S.groups \cap valid |-> S.groups[s]]
           L == [active |-> None, groups |-> left]
           V == Validated(S, valid, shown, id)
           g == Single(MakeTab(id, DefaultPath(shown)))
<1>1. L.groups = left
      OBVIOUS
<1>2. DOMAIN left \subseteq DOMAIN S.groups /\ \A s \in DOMAIN left : left[s] = S.groups[s]
      OBVIOUS
<1>3. \A i \in DOMAIN g.tabs : New(g.tabs[i], DefaultPath(shown), id)
      BY SingleFrom
<1>4. V.groups = left \/ V.groups = With(left, shown, g)
      BY DEF Validated
<1> HIDE DEF left, V, g, L
<1>5. ASSUME V.groups = left
      PROVE  Comes(S, V, shown, DefaultPath(shown), id)
      BY <1>2, <1>5 DEF Comes, Same
<1>6. ASSUME V.groups = With(left, shown, g)
      PROVE  Comes(S, V, shown, DefaultPath(shown), id)
      <2>1. Comes(L, V, shown, DefaultPath(shown), id)
            BY <1>1, <1>3, <1>6, ComesWith
      <2> QED BY <1>1, <1>2, <2>1 DEF Comes
<1> QED BY <1>4, <1>5, <1>6 DEF V

\* What is replaced is the tab, and nothing else.
LEMMA ReplacedIs ==
  ASSUME NEW S, Good(S), NEW id \in AllIds(S), NEW tab
  PROVE  LET T == Replaced(S, id, tab)
         IN  /\ T.active = S.active /\ DOMAIN T.groups = DOMAIN S.groups
             /\ \A s \in DOMAIN S.groups :
                  /\ T.groups[s].active = S.groups[s].active
                  /\ DOMAIN T.groups[s].tabs = DOMAIN S.groups[s].tabs
                  /\ \A i \in DOMAIN S.groups[s].tabs :
                       T.groups[s].tabs[i] = IF S.groups[s].tabs[i].id = id THEN tab
                                             ELSE S.groups[s].tabs[i]
<1> DEFINE slug == SlugOf(S, id)
           old == S.groups[slug]
           k == IndexOf(old.tabs, id)
           tabs == [old.tabs EXCEPT ![k] = tab]
           g == [old EXCEPT !.tabs = tabs]
           T == Replaced(S, id, tab)
<1>1. /\ slug \in DOMAIN S.groups /\ GoodGroup(old)
      /\ k \in DOMAIN old.tabs /\ old.tabs[k].id = id
      BY Where DEF Good
<1>2. g.tabs = tabs /\ g.active = old.active
      BY <1>1 DEF GoodGroup
<1>3. T.active = S.active /\ T.groups = With(S.groups, slug, g)
      BY DEF Replaced, Good
<1> HIDE DEF T
<1>4. DOMAIN tabs = DOMAIN old.tabs
      OBVIOUS
<1>5. \A i \in DOMAIN old.tabs : tabs[i] = IF i = k THEN tab ELSE old.tabs[i]
      OBVIOUS
<1>6. \A i \in DOMAIN old.tabs : old.tabs[i].id = id <=> i = k
      BY <1>1 DEF GoodGroup, GoodTabs, Distinct
<1>7. id \in TabIds(old.tabs)
      BY <1>1 DEF TabIds
<1>8. \A s \in DOMAIN S.groups : s # slug => id \notin TabIds(S.groups[s].tabs)
      BY <1>1, <1>7 DEF Good, Apart
<1> HIDE DEF g, tabs, k, slug
<1>9. DOMAIN T.groups = DOMAIN S.groups
      BY <1>1, <1>3 DEF With
<1>10. ASSUME NEW s \in DOMAIN S.groups
       PROVE  /\ T.groups[s].active = S.groups[s].active
              /\ DOMAIN T.groups[s].tabs = DOMAIN S.groups[s].tabs
              /\ \A i \in DOMAIN S.groups[s].tabs :
                   T.groups[s].tabs[i] = IF S.groups[s].tabs[i].id = id THEN tab
                                         ELSE S.groups[s].tabs[i]
       <2>1. CASE s = slug
             <3>1. T.groups[s] = g
                   BY <1>3, <2>1 DEF With
             <3> QED BY <1>2, <1>4, <1>5, <1>6, <2>1, <3>1
       <2>2. CASE s # slug
             <3>1. T.groups[s] = S.groups[s]
                   BY <1>3, <2>2 DEF With
             <3> QED BY <1>8, <2>2, <3>1 DEF TabIds
       <2> QED BY <2>1, <2>2
<1> QED BY <1>3, <1>9, <1>10 DEF T

\* A tab and the id that names it.
LEMMA TabIsTabOf ==
  ASSUME NEW S, Good(S), NEW s \in DOMAIN S.groups, NEW i \in DOMAIN S.groups[s].tabs
  PROVE  /\ S.groups[s].tabs[i].id \in AllIds(S)
         /\ TabOf(S, S.groups[s].tabs[i].id) = S.groups[s].tabs[i]
         /\ SlugOf(S, S.groups[s].tabs[i].id) = s
<1> DEFINE id == S.groups[s].tabs[i].id
           t == SlugOf(S, id)
           k == IndexOf(S.groups[t].tabs, id)
<1>1. id \in TabIds(S.groups[s].tabs) /\ id \in AllIds(S)
      BY DEF TabIds, AllIds
<1>2. t \in DOMAIN S.groups /\ k \in DOMAIN S.groups[t].tabs /\ S.groups[t].tabs[k].id = id
      BY <1>1, Where
<1> HIDE DEF t, k
<1>3. id \in TabIds(S.groups[t].tabs)
      BY <1>2 DEF TabIds
<1>4. t = s
      BY <1>1, <1>2, <1>3 DEF Good, Apart
<1>5. k = i
      BY <1>2, <1>4 DEF Good, GoodGroup, GoodTabs, Distinct
<1> QED BY <1>1, <1>4, <1>5 DEF TabOf, t, k

-----------------------------------------------------------------------------
(* The steps of DesktopTabs *)

GoodRouter(r) == r \in Router /\ r.at \in 1..Len(r.entries)

Hook == [at : Nat, len : Nat \ {0}]

\* The routers R are those of the tabs of S.
RoutersFit(R, S) ==
  /\ R = [id \in Ids |-> R[id]]
  /\ \A id \in AllIds(S) : GoodRouter(R[id])
  /\ \A id \in Ids \ AllIds(S) : R[id] = None

GoodStore(S) == Good(S) /\ AllIds(S) \subseteq Ids

LateFits(L, S) == L \subseteq [tab : AllIds(S) \cup {None}, path : Scopes]

IInv ==
  /\ GoodStore(store)
  /\ RoutersFit(router, store)
  /\ hook \in [Ids -> Hook]
  /\ LateFits(late, store)
  /\ strayed \subseteq AllIds(store)

-----------------------------------------------------------------------------
\* None is no id of a tab.
LEMMA NoneIsNoTab ==
  ASSUME NEW S, GoodStore(S)
  PROVE  None \notin AllIds(S)
  BY TabAssumption DEF GoodStore

\* A store whose tabs all have an id.
LEMMA NamedStore ==
  ASSUME NEW S, Good(S), None \notin AllIds(S)
  PROVE  GoodStore(S)
<1>1. ASSUME NEW slug \in DOMAIN S.groups, NEW i \in DOMAIN S.groups[slug].tabs
      PROVE  S.groups[slug].tabs[i].id \in AnyId
      <2>1. S.groups[slug].tabs \in Seq(AnyTab)
            BY DEF Good, GoodGroup, GoodTabs
      <2>2. S.groups[slug].tabs[i] \in AnyTab
            BY <2>1
      <2> QED BY <2>2 DEF AnyTab
<1>2. AllIds(S) \subseteq AnyId
      BY <1>1 DEF AllIds, TabIds
<1> QED BY <1>2 DEF GoodStore, AnyId

\* The visible tab is open.
LEMMA VisibleIsOpen ==
  ASSUME NEW S, Good(S), Visible(S) # None
  PROVE  /\ S.active # None /\ S.active \in DOMAIN S.groups
         /\ Visible(S) \in AllIds(S) /\ Visible(S) \in TabIds(S.groups[S.active].tabs)
<1>1. S.active # None
      BY DEF Visible
<1>2. S.active \in DOMAIN S.groups /\ GoodGroup(S.groups[S.active])
      BY <1>1 DEF Good
<1>3. Visible(S) \in TabIds(S.groups[S.active].tabs)
      BY <1>1, <1>2 DEF Visible, GoodGroup
<1> QED BY <1>1, <1>2, <1>3 DEF AllIds

\* A rendered tab is open.
LEMMA RenderedIsOpen ==
  ASSUME NEW S, Good(S)
  PROVE  Rendered(S) \subseteq AllIds(S)
  BY DEF Rendered, Good, AllIds

\* A new id is no tab's.
LEMMA NewIdIsNew ==
  ASSUME NEW id \in NewIds, GoodStore(store)
  PROVE  id \in AnyId /\ id \notin AllIds(store)
  BY NoneIsNoTab DEF NewIds, AnyId

\* The page a router is on.
LEMMA LocationType ==
  ASSUME NEW r, GoodRouter(r)
  PROVE  Location(r) \in Path
<1>1. r.entries \in Seq(Path) /\ r.at \in 1..Len(r.entries)
      BY DEF GoodRouter, Router
<1> QED BY <1>1 DEF Location

\* A new router.
LEMMA NewRouterGood ==
  ASSUME NEW path \in Path
  PROVE  GoodRouter(NewRouter(path))
<1>1. <<path>> \in Seq(Path) /\ Len(<<path>>) = 1
      OBVIOUS
<1> QED BY <1>1 DEF GoodRouter, Router, NewRouter

\* A new router is on its only page.
LEMMA NewRouterIs ==
  \A path : /\ NewRouter(path).at = 1 /\ NewRouter(path).entries = <<path>>
            /\ Len(NewRouter(path).entries) = 1 /\ Location(NewRouter(path)) = path
  BY DEF NewRouter, Location

\* A memory history keeps its place in its entries.
LEMMA PushedGood ==
  ASSUME NEW r, GoodRouter(r), NEW path \in Path
  PROVE  GoodRouter(Pushed(r, path))
<1> DEFINE kept == SubSeq(r.entries, 1, r.at)
<1>1. r.entries \in Seq(Path) /\ r.at \in 1..Len(r.entries)
      BY DEF GoodRouter, Router
<1>2. kept \in Seq(Path) /\ Len(kept) = r.at
      BY <1>1
<1> HIDE DEF kept
<1>3. Append(kept, path) \in Seq(Path) /\ Len(Append(kept, path)) = r.at + 1
      BY <1>2
<1> QED BY <1>1, <1>3 DEF GoodRouter, Router, Pushed, kept

\* A navigation that replaces the current entry.
LEMMA ReplacedEntryGood ==
  ASSUME NEW r, GoodRouter(r), NEW path \in Path
  PROVE  GoodRouter([r EXCEPT !.entries[r.at] = path])
<1> DEFINE to == [r EXCEPT !.entries[r.at] = path]
<1>1. r \in Router /\ r.entries \in Seq(Path) /\ r.at \in 1..Len(r.entries)
      BY DEF GoodRouter, Router
<1>2. to = [entries |-> [r.entries EXCEPT ![r.at] = path], at |-> r.at]
      BY <1>1 DEF Router
<1>3. /\ [r.entries EXCEPT ![r.at] = path] \in Seq(Path)
      /\ Len([r.entries EXCEPT ![r.at] = path]) = Len(r.entries)
      BY <1>1
<1> HIDE DEF to
<1> QED BY <1>1, <1>2, <1>3 DEF GoodRouter, Router, to

\* Every tab of S has its router, and no other tab has one.
LEMMA RoutersOfFit ==
  ASSUME IInv, NEW S, GoodStore(S)
  PROVE  RoutersFit(RoutersOf(S), S)
<1> DEFINE R == RoutersOf(S)
<1>1. /\ R = [id \in Ids |-> R[id]]
      /\ \A id \in Ids \ AllIds(S) : R[id] = None
      BY DEF RoutersOf
<1>2. ASSUME NEW id \in AllIds(S)
      PROVE  GoodRouter(R[id])
      <2>1. id \in Ids
            BY DEF GoodStore
      <2>2. CASE router[id] # None
            <3>1. id \in AllIds(store)
                  BY <2>1, <2>2 DEF IInv, RoutersFit
            <3> QED BY <2>1, <2>2, <3>1 DEF RoutersOf, IInv, RoutersFit
      <2>3. CASE router[id] = None
            <3>1. R[id] = NewRouter(TabOf(S, id).path)
                  BY <2>1, <2>3 DEF RoutersOf
            <3>2. TabOf(S, id).path \in Path
                  BY TabOfGood DEF GoodStore, AnyTab
            <3> QED BY <3>1, <3>2, NewRouterGood
      <2> QED BY <2>2, <2>3
<1> QED BY <1>1, <1>2 DEF RoutersFit

-----------------------------------------------------------------------------
(* What the actions make of the tabs *)

\* The tabs of T are those of S, where tab has what tab id has become.
Updates(S, T, id, tab) ==
  /\ T.active = S.active /\ DOMAIN T.groups = DOMAIN S.groups
  /\ Visible(T) = Visible(S) /\ Rendered(T) = Rendered(S)
  /\ \A s \in DOMAIN S.groups :
       /\ DOMAIN T.groups[s].tabs = DOMAIN S.groups[s].tabs
       /\ \A i \in DOMAIN S.groups[s].tabs :
            T.groups[s].tabs[i] = IF S.groups[s].tabs[i].id = id THEN tab ELSE S.groups[s].tabs[i]
  /\ TabOf(T, id) = tab

\* A tab that is replaced keeps its place, and the others what they show.
LEMMA ReplacedUpdates ==
  ASSUME NEW S, Good(S), None \notin AllIds(S), NEW id \in AllIds(S), NEW tab \in AnyTab,
         tab.id = id, tab.pinned = TabOf(S, id).pinned
  PROVE  Updates(S, Replaced(S, id, tab), id, tab)
<1> DEFINE T == Replaced(S, id, tab)
<1>1. /\ T.active = S.active /\ DOMAIN T.groups = DOMAIN S.groups
      /\ \A s \in DOMAIN S.groups :
           /\ T.groups[s].active = S.groups[s].active
           /\ DOMAIN T.groups[s].tabs = DOMAIN S.groups[s].tabs
           /\ \A i \in DOMAIN S.groups[s].tabs :
                T.groups[s].tabs[i] = IF S.groups[s].tabs[i].id = id THEN tab
                                      ELSE S.groups[s].tabs[i]
      BY ReplacedIs
<1>2. Good(T)
      BY ReplacedGood
<1> HIDE DEF T
<1>3. Visible(T) = Visible(S)
      BY <1>1 DEF Visible, Good
<1>4. \A s \in DOMAIN S.groups : TabIds(T.groups[s].tabs) = TabIds(S.groups[s].tabs)
      BY <1>1 DEF TabIds
<1>5. Rendered(T) = Rendered(S)
      BY <1>1, <1>4 DEF Rendered, Good
<1>6. PICK s \in DOMAIN S.groups : id \in TabIds(S.groups[s].tabs)
      BY DEF AllIds
<1>7. PICK i \in DOMAIN S.groups[s].tabs : S.groups[s].tabs[i].id = id
      BY <1>6 DEF TabIds
<1>8. T.groups[s].tabs[i] = tab /\ s \in DOMAIN T.groups /\ i \in DOMAIN T.groups[s].tabs
      BY <1>1, <1>7
<1>9. TabOf(T, id) = tab
      BY <1>2, <1>8, TabIsTabOf
<1> QED BY <1>1, <1>3, <1>5, <1>9 DEF Updates, T

\* What updateTab makes of the store.
LEMMA UpdateTabIs ==
  ASSUME NEW S, GoodStore(S), NEW id \in AllIds(S), NEW path \in Path
  PROVE  /\ Good(UpdateTab(S, id, path)) /\ AllIds(UpdateTab(S, id, path)) = AllIds(S)
         /\ Updates(S, UpdateTab(S, id, path), id, [TabOf(S, id) EXCEPT !.path = path])
<1> DEFINE tab == [TabOf(S, id) EXCEPT !.path = path]
<1>1. Good(S) /\ None \notin AllIds(S)
      BY NoneIsNoTab DEF GoodStore
<1>2. TabOf(S, id) \in AnyTab /\ TabOf(S, id).id = id
      BY <1>1, TabOfGood
<1>3. tab \in AnyTab /\ tab.id = id /\ tab.pinned = TabOf(S, id).pinned
      BY <1>2 DEF AnyTab
<1>4. Updates(S, Replaced(S, id, tab), id, tab)
      <2> HIDE DEF tab
      <2> QED BY <1>1, <1>3, ReplacedUpdates
<1> QED BY <1>1, <1>4, UpdateTabGood DEF UpdateTab

\* What updateTabHistory makes of the store.
LEMMA UpdateTabHistoryIs ==
  ASSUME NEW S, GoodStore(S), NEW id \in AllIds(S), NEW at \in Nat, NEW len \in Nat
  PROVE  /\ Good(UpdateTabHistory(S, id, at, len)) /\ AllIds(UpdateTabHistory(S, id, at, len)) = AllIds(S)
         /\ Updates(S, UpdateTabHistory(S, id, at, len), id,
                    [TabOf(S, id) EXCEPT !.at = at, !.len = len])
<1> DEFINE tab == [TabOf(S, id) EXCEPT !.at = at, !.len = len]
<1>1. Good(S) /\ None \notin AllIds(S)
      BY NoneIsNoTab DEF GoodStore
<1>2. TabOf(S, id) \in AnyTab /\ TabOf(S, id).id = id
      BY <1>1, TabOfGood
<1>3. tab \in AnyTab /\ tab.id = id /\ tab.pinned = TabOf(S, id).pinned
      BY <1>2 DEF AnyTab
<1>4. Updates(S, Replaced(S, id, tab), id, tab)
      <2> HIDE DEF tab
      <2> QED BY <1>1, <1>3, ReplacedUpdates
<1> QED BY <1>1, <1>4, UpdateTabHistoryGood DEF UpdateTabHistory

\* The effect of a commit changes the page of the visible tab only.
LEMMA CommitIs ==
  ASSUME NEW S, GoodStore(S), NEW R, RoutersFit(R, S), Commit(S, R), Visible(S) # None
  PROVE  \E tab :
           /\ Updates(S, store', Visible(S), tab)
           /\ tab.id = Visible(S) /\ tab.path = Location(R[Visible(S)])
           /\ tab.at = TabOf(S, Visible(S)).at /\ tab.len = TabOf(S, Visible(S)).len
<1> DEFINE v == Visible(S)
           to == Location(R[v])
           tab == [TabOf(S, v) EXCEPT !.path = to]
<1>1. v \in AllIds(S) /\ Good(S)
      BY VisibleIsOpen DEF GoodStore
<1>2. to \in Path
      BY <1>1, LocationType DEF RoutersFit
<1>3. store' = UpdateTab(S, v, to)
      BY DEF Commit
<1>4. Updates(S, store', v, tab)
      BY <1>1, <1>2, <1>3, UpdateTabIs
<1>5. TabOf(S, v) \in AnyTab /\ TabOf(S, v).id = v
      BY <1>1, TabOfGood
<1>6. tab.id = v /\ tab.at = TabOf(S, v).at /\ tab.len = TabOf(S, v).len /\ tab.path = to
      BY <1>5 DEF AnyTab
<1> HIDE DEF tab
<1> QED BY <1>4, <1>6

\* The subscription of a tab changes the page and the history of this tab only.
LEMMA CountedIs ==
  ASSUME IInv, NEW id \in AllIds(store), NEW r, GoodRouter(r), NEW h \in Hook, Counted(id, r, h)
  PROVE  /\ \E tab :
              /\ Updates(store, store', id, tab)
              /\ tab.id = id /\ tab.path = Location(r) /\ tab.at = h.at /\ tab.len = h.len
         /\ router'[id] = r /\ \A i \in Ids : i # id => router'[i] = router[i]
         /\ hook'[id] = h /\ \A i \in Ids : i # id => hook'[i] = hook[i]
         /\ strayed' = strayed
<1> DEFINE S == UpdateTab(store, id, Location(r))
           one == [TabOf(store, id) EXCEPT !.path = Location(r)]
           two == [TabOf(S, id) EXCEPT !.at = h.at, !.len = h.len]
<1>1. GoodStore(store) /\ Good(store) /\ id \in Ids
      BY DEF IInv, GoodStore
<1>2. Location(r) \in Path
      BY LocationType
<1>3. Good(S) /\ AllIds(S) = AllIds(store) /\ Updates(store, S, id, one)
      BY <1>1, <1>2, UpdateTabIs
<1>4. GoodStore(S)
      BY <1>1, <1>3 DEF GoodStore
<1>5. h.at \in Nat /\ h.len \in Nat
      BY DEF Hook
<1>6. store' = UpdateTabHistory(S, id, h.at, h.len)
      BY DEF Counted
<1> HIDE DEF S
<1>7. Updates(S, store', id, two)
      BY <1>3, <1>4, <1>5, <1>6, UpdateTabHistoryIs
<1>8. TabOf(store, id) \in AnyTab /\ TabOf(store, id).id = id
      BY <1>1, TabOfGood
<1>9. one.id = id /\ one.path = Location(r) /\ one \in AnyTab
      BY <1>2, <1>8 DEF AnyTab
<1>10. TabOf(S, id) = one
      BY <1>3 DEF Updates
<1>11. two.id = id /\ two.path = Location(r) /\ two.at = h.at /\ two.len = h.len
      <2> HIDE DEF one
      <2> QED BY <1>9, <1>10 DEF AnyTab
<1> HIDE DEF one, two
<1>12. Updates(store, store', id, two)
      BY <1>3, <1>7, <1>9 DEF Updates
<1>13. router' = [router EXCEPT ![id] = r] /\ hook' = [hook EXCEPT ![id] = h] /\ strayed' = strayed
      BY DEF Counted
<1>14. /\ router'[id] = r /\ \A i \in Ids : i # id => router'[i] = router[i]
       /\ hook'[id] = h /\ \A i \in Ids : i # id => hook'[i] = hook[i]
      BY <1>1, <1>13 DEF IInv, RoutersFit
<1> QED BY <1>11, <1>12, <1>13, <1>14

\* reloadActiveTab gives the visible tab a new router on its page.
LEMMA ReloadIs ==
  ASSUME IInv, Reload
  PROVE  LET v == Visible(store)
         IN  /\ v \in AllIds(store) /\ v # None
             /\ strayed' = IF hook[v] = NoHook THEN strayed \ {v} ELSE strayed \cup {v}
             /\ \E S, R, tab :
                  /\ GoodStore(S) /\ AllIds(S) = AllIds(store) /\ RoutersFit(R, S) /\ Commit(S, R)
                  /\ Updates(store, S, v, tab)
                  /\ tab.id = v /\ tab.at = 0 /\ tab.len = 1 /\ tab.path = TabOf(store, v).path
                  /\ R[v] = NewRouter(TabOf(store, v).path)
                  /\ \A i \in Ids : i # v => R[i] = router[i]
<1> DEFINE v == Visible(store)
           S == UpdateTabHistory(store, v, 0, 1)
           R == [router EXCEPT ![v] = NewRouter(TabOf(store, v).path)]
           tab == [TabOf(store, v) EXCEPT !.at = 0, !.len = 1]
<1>1. GoodStore(store) /\ Good(store)
      BY DEF IInv, GoodStore
<1>2. v \in AllIds(store) /\ v \in Ids /\ v # None
      BY <1>1, VisibleIsOpen DEF Reload, GoodStore
<1>3. Good(S) /\ AllIds(S) = AllIds(store) /\ Updates(store, S, v, tab)
      BY <1>1, <1>2, UpdateTabHistoryIs
<1>4. GoodStore(S)
      BY <1>1, <1>3 DEF GoodStore
<1>5. TabOf(store, v) \in AnyTab /\ TabOf(store, v).id = v
      BY <1>1, <1>2, TabOfGood
<1>6. /\ tab.id = v /\ tab.at = 0 /\ tab.len = 1 /\ tab.path = TabOf(store, v).path
      /\ TabOf(store, v).path \in Path
      BY <1>5 DEF AnyTab
<1>7. GoodRouter(NewRouter(TabOf(store, v).path))
      BY <1>6, NewRouterGood
<1>8. R[v] = NewRouter(TabOf(store, v).path) /\ \A i \in Ids : i # v => R[i] = router[i]
      BY <1>2 DEF IInv, RoutersFit
<1>9. RoutersFit(R, S)
      <2> HIDE DEF S
      <2> QED BY <1>2, <1>3, <1>7 DEF IInv, RoutersFit
<1>10. Commit(S, R) /\ strayed' = IF hook[v] = NoHook THEN strayed \ {v} ELSE strayed \cup {v}
      BY DEF Reload
<1> HIDE DEF S, R, tab
<1> QED BY <1>2, <1>3, <1>4, <1>6, <1>8, <1>9, <1>10

\* What a restart loads has no history.
LEMMA MergedLoaded ==
  ASSUME NEW S, Good(S), NEW order, IsOrder(S, order), NEW shown,
         NEW s \in DOMAIN Merged(S, order, shown).groups,
         NEW i \in DOMAIN Merged(S, order, shown).groups[s].tabs
  PROVE  LET t == Merged(S, order, shown).groups[s].tabs[i]
         IN  t.at = 0 /\ t.len = 1 /\ t.path.slug = s
<1> DEFINE tabs == S.groups[s].tabs
<1>1. s \in KeptSlugs(S) /\ Merged(S, order, shown).groups[s].tabs = order[s]
      BY DEF Merged, IsOrder
<1>2. order[s] \in Rehydrations(tabs, s) /\ GoodTabs(tabs)
      BY <1>1 DEF IsOrder, KeptSlugs, Good, GoodGroup
<1> HIDE DEF tabs
<1>3. PICK f \in Sortings(tabs, KeptAt(tabs, s)) : order[s] = [k \in DOMAIN f |-> Loaded(tabs[f[k]])]
      BY <1>2 DEF Rehydrations
<1>4. f[i] \in KeptAt(tabs, s) /\ order[s][i] = Loaded(tabs[f[i]])
      BY <1>1, <1>3 DEF Sortings
<1>5. tabs[f[i]] \in AnyTab /\ tabs[f[i]].path.slug = s
      BY <1>2, <1>4 DEF KeptAt, GoodTabs
<1>6. PICK u \in AnyTab : u = tabs[f[i]]
      BY <1>5
<1>7. Loaded(u).at = 0 /\ Loaded(u).len = 1 /\ Loaded(u).path = u.path
      BY DEF Loaded, AnyTab
<1> QED BY <1>1, <1>4, <1>5, <1>6, <1>7

\* A restart merges the saved store, and every tab starts anew on its page.
LEMMA RestartIs ==
  ASSUME IInv, Restart
  PROVE  /\ GoodStore(store')
         /\ \A i \in Ids : router'[i] = IF i \in AllIds(store')
                                       THEN NewRouter(TabOf(store', i).path) ELSE None
         /\ \A s \in DOMAIN store'.groups, i \in Nat :
              i \in DOMAIN store'.groups[s].tabs =>
                LET t == store'.groups[s].tabs[i]
                IN  t.at = 0 /\ t.len = 1 /\ t.path.slug = s
<1>1. Good(store)
      BY DEF IInv, GoodStore
<1>2. PICK order \in [KeptSlugs(store) -> UNION {Rehydrations(store.groups[s].tabs, s) : s \in KeptSlugs(store)}],
           shown \in ShownAfterMerge(store) :
        IsOrder(store, order) /\ store' = Merged(store, order, shown)
      BY DEF Restart
<1>3. Good(store') /\ AllIds(store') \subseteq AllIds(store)
      BY <1>1, <1>2, MergedGood
<1>4. \A i \in Ids : router'[i] = IF i \in AllIds(store')
                                 THEN NewRouter(TabOf(store', i).path) ELSE None
      BY DEF Restart
<1>5. ASSUME NEW s \in DOMAIN store'.groups, NEW i \in Nat, i \in DOMAIN store'.groups[s].tabs
      PROVE  LET t == store'.groups[s].tabs[i]
             IN  t.at = 0 /\ t.len = 1 /\ t.path.slug = s
      BY <1>1, <1>2, <1>5, MergedLoaded
<1> QED BY <1>3, <1>4, <1>5 DEF IInv, GoodStore

-----------------------------------------------------------------------------
(* The kinds of steps.  Most actions end in StoreBecomes, on a store whose tabs *)
(* are those there were and at most a new one; a few move a router.  The        *)
(* invariants below are kept by one argument per kind.                          *)

\* The store becomes S, whose tabs are those of store but for one that is new.
Becomes ==
  \E S, slug, path : \E id \in NewIds, L \in SUBSET late :
    /\ Good(S) /\ Comes(store, S, slug, path, id) /\ StoreBecomes(S, L)
    /\ path.slug = slug \/ LinkElsewhere

\* The entries of a router after a move within workspace slug.
EntriesFrom(to, r, slug) ==
  \A k \in 1..Len(to.entries) :
    \/ to.entries[k].slug \in {slug, None}
    \/ \E j \in 1..Len(r.entries) : to.entries[k] = r.entries[j]

\* The visible tab moves, and its hook counts.
Moves ==
  \E id \in AllIds(store), h \in Hook : \E r :
    /\ id = Visible(store) /\ GoodRouter(r) /\ Counted(id, r, h) /\ late' \subseteq late
    /\ hook[id].at = router[id].at - 1 /\ hook[id].len = Len(router[id].entries)
         => h.at = r.at - 1 /\ h.len = Len(r.entries)
    /\ EntriesFrom(r, router[id], store.active)

\* A late answer moves a tab that is not visible.
Escapes ==
  \E n \in late :
    /\ n.tab \in AllIds(store) /\ n.tab # Visible(store)
    /\ PushHidden(n.tab, n.path) /\ late' \subseteq late

Drops == late' \subseteq late /\ UNCHANGED <<store, router, hook, strayed>>

Kinds == Becomes \/ Moves \/ Escapes \/ Drops \/ Reload \/ Restart \/ StartRequest

\* An instance of Becomes.
LEMMA BecomesIs ==
  ASSUME NEW S, Good(S), NEW slug, NEW path, NEW id \in NewIds, NEW L \in SUBSET late,
         Comes(store, S, slug, path, id), StoreBecomes(S, L),
         path.slug = slug \/ LinkElsewhere
  PROVE  Becomes
  BY DEF Becomes

\* An instance of Moves.
LEMMA MovesIs ==
  ASSUME NEW id \in AllIds(store), id = Visible(store), NEW r, GoodRouter(r), NEW h \in Hook,
         Counted(id, r, h), late' \subseteq late,
         hook[id].at = router[id].at - 1 /\ hook[id].len = Len(router[id].entries)
           => h.at = r.at - 1 /\ h.len = Len(r.entries),
         EntriesFrom(r, router[id], store.active)
  PROVE  Moves
  BY DEF Moves

\* The default path is one of the workspace.
LEMMA DefaultPathIn ==
  ASSUME NEW slug
  PROVE  DefaultPath(slug).slug = slug
  BY DEF DefaultPath

\* A push keeps the entries up to the current one, and adds the path.
LEMMA PushedIs ==
  ASSUME NEW r, GoodRouter(r), NEW path \in Path
  PROVE  /\ GoodRouter(Pushed(r, path))
         /\ Pushed(r, path).at = r.at + 1 /\ Len(Pushed(r, path).entries) = r.at + 1
         /\ EntriesFrom(Pushed(r, path), r, path.slug)
<1> DEFINE kept == SubSeq(r.entries, 1, r.at)
           to == Pushed(r, path)
<1>1. r.entries \in Seq(Path) /\ r.at \in 1..Len(r.entries)
      BY DEF GoodRouter, Router
<1>2. /\ kept \in Seq(Path) /\ Len(kept) = r.at /\ r.at \in Nat
      /\ \A k \in 1..r.at : kept[k] = r.entries[k]
      BY <1>1
<1>3. to.at = r.at + 1 /\ to.entries = Append(kept, path)
      BY DEF Pushed
<1> HIDE DEF to, kept
<1>4. /\ Len(to.entries) = r.at + 1 /\ to.entries[r.at + 1] = path
      /\ \A k \in 1..r.at : to.entries[k] = kept[k]
      BY <1>2, <1>3
<1>5. EntriesFrom(to, r, path.slug)
      <2> SUFFICES ASSUME NEW k \in 1..(r.at + 1)
                   PROVE  \/ to.entries[k].slug \in {path.slug, None}
                          \/ \E j \in 1..Len(r.entries) : to.entries[k] = r.entries[j]
          BY <1>4 DEF EntriesFrom
      <2>1. CASE k = r.at + 1
            BY <1>4, <2>1
      <2>2. CASE k # r.at + 1
            <3>1. k \in 1..r.at /\ k \in 1..Len(r.entries)
                  BY <1>1, <1>2, <2>2
            <3> QED BY <1>2, <1>4, <3>1
      <2> QED BY <2>1, <2>2
<1> QED BY <1>3, <1>4, <1>5, PushedGood DEF to

\* A push into the visible tab.
LEMMA PushVisibleKind ==
  ASSUME IInv, NEW id \in AllIds(store), id = Visible(store), late' \subseteq late,
         NEW path \in Path, path.slug = store.active, PushVisible(id, path)
  PROVE  Moves
<1> DEFINE h == [at |-> hook[id].at + 1, len |-> hook[id].at + 2]
           r == Pushed(router[id], path)
<1>1. GoodRouter(router[id]) /\ hook[id] \in Hook
      BY DEF IInv, GoodStore, RoutersFit
<1>2. /\ GoodRouter(r) /\ r.at = router[id].at + 1 /\ Len(r.entries) = router[id].at + 1
      /\ EntriesFrom(r, router[id], store.active)
      BY <1>1, PushedIs
<1>3. h \in Hook /\ h.at = hook[id].at + 1 /\ h.len = hook[id].at + 2
      BY <1>1 DEF Hook
<1>4. Counted(id, r, h)
      BY DEF PushVisible
<1> HIDE DEF h, r
<1>5. router[id].at \in Nat
      BY <1>1 DEF GoodRouter, Router
<1>6. hook[id].at = router[id].at - 1 => h.at = r.at - 1 /\ h.len = Len(r.entries)
      BY <1>2, <1>3, <1>5
<1> QED BY <1>2, <1>3, <1>4, <1>6, MovesIs

\* switchWorkspace.
LEMMA SwitchedKind ==
  ASSUME IInv, NEW path \in Scopes, NEW L \in SUBSET late, Switched(path, L)
  PROVE  Becomes
<1>1. PICK id \in NewIds : StoreBecomes(SwitchWorkspace(store, path.slug, path, id), L)
      BY DEF Switched
<1>2. Good(store) /\ id \in AnyId /\ id \notin AllIds(store)
      BY NewIdIsNew DEF IInv, GoodStore
<1> QED BY <1>1, <1>2, SwitchWorkspaceGood, SwitchWorkspaceComes, BecomesIs

\* A page that opens in front.
LEMMA InFrontKind ==
  ASSUME IInv, store.active # None, NEW path \in Path, NEW L \in SUBSET late,
         path.slug = store.active \/ LinkElsewhere,
         NEW id \in NewIds, StoreBecomes(OpenTabInFront(store, path, id), L)
  PROVE  Becomes
<1>1. Good(store) /\ id \in AnyId /\ id \notin AllIds(store)
      BY NewIdIsNew DEF IInv, GoodStore
<1> QED BY <1>1, OpenTabGood, OpenTabComes, BecomesIs

\* The three ways of a push.
LEMMA PushFromKind ==
  ASSUME IInv, NEW path \in Scopes, NEW L \in SUBSET late,
         NEW origin \in AllIds(store) \cup {None}, PushFrom(origin, path, L),
         origin = Visible(store) \/ \E n \in late : n.tab = origin /\ n.path = path
  PROVE  Becomes \/ Moves \/ Escapes
<1>1. path \in Path
      BY DEF Path
<1>2. CASE Switched(path, L)
      BY <1>2, SwitchedKind
<1>3. CASE path.slug = store.active /\ PinnedNewTab(path) /\ \E id \in NewIds : StoreBecomes(OpenTabInFront(store, path, id), L)
      <2>1. store.active # None
            BY <1>3, VisibleIsOpen DEF PinnedNewTab, IInv, GoodStore
      <2> QED BY <1>1, <1>3, <2>1, InFrontKind
<1>4. CASE /\ path.slug = store.active /\ origin # None /\ late' = L
           /\ IF origin = Visible(store) THEN PushVisible(origin, path) ELSE PushHidden(origin, path)
      <2>1. origin \in AllIds(store) /\ late' \subseteq late
            BY <1>4
      <2>2. CASE origin = Visible(store)
            BY <1>1, <1>4, <2>1, <2>2, PushVisibleKind
      <2>3. CASE origin # Visible(store)
            BY <1>4, <2>1, <2>3 DEF Escapes
      <2> QED BY <2>2, <2>3
<1> QED BY <1>2, <1>3, <1>4 DEF PushFrom

\* Going back, forward, and being parked on "/".
LEMMA HistoryKind ==
  ASSUME IInv, Back \/ GoForward \/ Park
  PROVE  Moves
<1> DEFINE v == Visible(store)
           r == router[v]
           h == hook[v]
<1>1. v # None
      BY DEF Back, GoForward, Park
<1>2. v \in AllIds(store) /\ v \in Ids
      BY <1>1, VisibleIsOpen DEF IInv, GoodStore
<1>3. GoodRouter(r) /\ h \in Hook
      BY <1>2 DEF IInv, RoutersFit
<1>4. late' \subseteq late
      BY DEF Back, GoForward, Park
<1> HIDE DEF r, h
<1>5. r = [entries |-> r.entries, at |-> r.at] /\ r.entries \in Seq(Path) /\ r.at \in 1..Len(r.entries)
      BY <1>3 DEF GoodRouter, Router
<1>6. h = [at |-> h.at, len |-> h.len] /\ h.at \in Nat /\ h.len \in Nat \ {0}
      BY <1>3 DEF Hook
<1>7. CASE Back
      <2> DEFINE to == [r EXCEPT !.at = IF @ = 1 THEN 1 ELSE @ - 1]
                 counts == [h EXCEPT !.at = IF @ = 0 THEN 0 ELSE @ - 1]
      <2>1. /\ to.at = (IF r.at = 1 THEN 1 ELSE r.at - 1) /\ to.entries = r.entries
            /\ counts.at = (IF h.at = 0 THEN 0 ELSE h.at - 1) /\ counts.len = h.len
            BY <1>5, <1>6
      <2>2. GoodRouter(to)
            BY <1>3 DEF GoodRouter, Router
      <2>3. counts \in Hook
            BY <1>3 DEF Hook
      <2>4. Counted(v, to, counts)
            BY <1>7 DEF Back, r, h
      <2> HIDE DEF to, counts
      <2>5. h.at = r.at - 1 /\ h.len = Len(r.entries) => counts.at = to.at - 1 /\ counts.len = Len(to.entries)
            BY <1>5, <1>6, <2>1
      <2>6. EntriesFrom(to, r, store.active)
            BY <2>1 DEF EntriesFrom
      <2> QED BY <1>2, <1>4, <2>2, <2>3, <2>4, <2>5, <2>6, MovesIs DEF r, h
<1>8. CASE GoForward
      <2> DEFINE to == [r EXCEPT !.at = IF @ = Len(r.entries) THEN @ ELSE @ + 1]
                 counts == [h EXCEPT !.at = IF @ + 1 < h.len THEN @ + 1 ELSE h.len - 1]
      <2>1. /\ to.at = (IF r.at = Len(r.entries) THEN r.at ELSE r.at + 1) /\ to.entries = r.entries
            /\ counts.at = (IF h.at + 1 < h.len THEN h.at + 1 ELSE h.len - 1) /\ counts.len = h.len
            BY <1>5, <1>6
      <2>2. GoodRouter(to)
            BY <1>3 DEF GoodRouter, Router
      <2>3. counts \in Hook
            BY <1>3 DEF Hook
      <2>4. Counted(v, to, counts)
            BY <1>8 DEF GoForward, r, h
      <2> HIDE DEF to, counts
      <2>5. h.at = r.at - 1 /\ h.len = Len(r.entries) => counts.at = to.at - 1 /\ counts.len = Len(to.entries)
            BY <1>5, <1>6, <2>1
      <2>6. EntriesFrom(to, r, store.active)
            BY <2>1 DEF EntriesFrom
      <2> QED BY <1>2, <1>4, <2>2, <2>3, <2>4, <2>5, <2>6, MovesIs DEF r, h
<1>9. CASE Park
      <2> DEFINE to == [r EXCEPT !.entries[r.at] = Root]
      <2>1. GoodRouter(to)
            BY <1>3, ReplacedEntryGood DEF Path
      <2>2. Counted(v, to, h)
            BY <1>9 DEF Park, r, h
      <2>3. to.at = r.at /\ Len(to.entries) = Len(r.entries)
            BY <1>5
      <2>4. \A k \in 1..Len(r.entries) : to.entries[k] = IF k = r.at THEN Root ELSE r.entries[k]
            BY <1>5
      <2> HIDE DEF to
      <2>5. EntriesFrom(to, r, store.active)
            BY <2>3, <2>4 DEF EntriesFrom, Root
      <2> QED BY <1>2, <1>3, <1>4, <2>1, <2>2, <2>3, <2>5, MovesIs DEF r, h
<1> QED BY <1>7, <1>8, <1>9

\* replace of the adapters.
LEMMA ReplaceKind ==
  ASSUME IInv, NEW path \in Scopes, Replace(path)
  PROVE  Becomes \/ Moves
<1> DEFINE v == Visible(store)
<1>1. CASE Switched(path, late)
      BY <1>1, SwitchedKind
<1>2. CASE /\ path.slug = store.active /\ v # None /\ late' = late
           /\ Counted(v, [router[v] EXCEPT !.entries[router[v].at] = path], hook[v])
      <2> DEFINE to == [router[v] EXCEPT !.entries[router[v].at] = path]
      <2>1. v \in AllIds(store) /\ v \in Ids
            BY <1>2, VisibleIsOpen DEF IInv, GoodStore
      <2>2. GoodRouter(router[v]) /\ hook[v] \in Hook
            BY <2>1 DEF IInv, RoutersFit
      <2>3. GoodRouter(to)
            BY <2>2, ReplacedEntryGood DEF Path
      <2>4. to.at = router[v].at /\ Len(to.entries) = Len(router[v].entries)
            BY <2>2 DEF GoodRouter, Router
      <2>5. \A k \in 1..Len(router[v].entries) :
              to.entries[k] = IF k = router[v].at THEN path ELSE router[v].entries[k]
            BY <2>2 DEF GoodRouter, Router
      <2>6. Counted(v, to, hook[v])
            BY <1>2
      <2> HIDE DEF to
      <2>7. EntriesFrom(to, router[v], store.active)
            BY <1>2, <2>4, <2>5 DEF EntriesFrom
      <2> QED BY <1>2, <2>1, <2>2, <2>3, <2>4, <2>6, <2>7, MovesIs
<1> QED BY <1>1, <1>2 DEF Replace

\* Opening, closing and choosing tabs.
LEMMA TabBarKind ==
  ASSUME IInv,
         \/ NewTab
         \/ \E path \in Scopes : OpenInNewTab(path) \/ OpenLink(path)
         \/ \E id \in Ids : Close(id) \/ SetActive(id)
  PROVE  Becomes
<1>1. Good(store) /\ GoodStore(store) /\ None \notin AllIds(store)
      BY NoneIsNoTab DEF IInv, GoodStore
<1>2. \A id \in NewIds : id \in AnyId /\ id \notin AllIds(store)
      BY <1>1, NewIdIsNew
<1>3. CASE NewTab
      <2>1. PICK id \in NewIds : StoreBecomes(AddTabInFront(store, DefaultPath(store.active), id), late)
            BY <1>3 DEF NewTab
      <2>2. store.active # None /\ store.active \in Slugs
            BY <1>1, <1>3 DEF NewTab, Good
      <2>3. DefaultPath(store.active) \in Path
            BY <2>2, TabAssumption DEF DefaultPath, Path
      <2> QED BY <1>1, <1>2, <2>1, <2>2, <2>3, AddTabGood, OpenTabComes, DefaultPathIn, BecomesIs
<1>4. ASSUME NEW path \in Scopes, OpenInNewTab(path) PROVE Becomes
      <2>1. CASE Switched(path, late)
            BY <2>1, SwitchedKind
      <2>2. CASE path.slug = store.active /\ \E id \in NewIds : StoreBecomes(OpenTab(store, path, id), late)
            <3>1. PICK id \in NewIds : StoreBecomes(OpenTab(store, path, id), late)
                  BY <2>2
            <3>2. store.active # None /\ path \in Path
                  BY <2>2, TabAssumption DEF Path
            <3>3. Good(OpenTab(store, path, id)) /\ Comes(store, OpenTab(store, path, id), store.active, path, id)
                  BY <1>1, <1>2, <3>2, OpenTabGood, OpenTabComes
            <3> QED BY <2>2, <3>1, <3>3, BecomesIs
      <2>3. CASE path.slug = store.active /\ \E id \in NewIds : StoreBecomes(OpenTabInFront(store, path, id), late)
            <3>1. store.active # None /\ path \in Path
                  BY <2>3, TabAssumption DEF Path
            <3> QED BY <2>3, <3>1, InFrontKind
      <2> QED BY <1>4, <2>1, <2>2, <2>3 DEF OpenInNewTab
<1>5. ASSUME NEW path \in Scopes, OpenLink(path) PROVE Becomes
      <2>1. path \in Path
            BY DEF Path
      <2> QED BY <1>5, <2>1, InFrontKind DEF OpenLink, LinkElsewhere
<1>6. ASSUME NEW id \in Ids, Close(id) PROVE Becomes
      <2>1. PICK fresh \in NewIds : StoreBecomes(CloseTab(store, id, fresh), late)
            BY <1>6 DEF Close
      <2>2. id \in AllIds(store)
            BY <1>1, <1>6, RenderedIsOpen DEF Close
      <2>3. Good(CloseTab(store, id, fresh))
            BY <1>1, <1>2, <2>2, CloseTabGood
      <2> QED BY <1>1, <2>1, <2>2, <2>3, CloseTabComes, DefaultPathIn, BecomesIs
<1>7. ASSUME NEW id \in Ids, SetActive(id) PROVE Becomes
      <2>1. id \in AllIds(store)
            BY <1>1, <1>7, RenderedIsOpen DEF SetActive
      <2>2. Good(SetActiveTab(store, id))
            BY <1>1, <2>1, SetActiveGood
      <2>3. PICK new \in NewIds : TRUE
            BY DEF NewIds
      <2>4. Comes(store, SetActiveTab(store, id), SlugOf(store, id), DefaultPath(SlugOf(store, id)), new)
            BY <1>1, <2>1, SetActiveComes
      <2> QED BY <1>7, <2>2, <2>4, DefaultPathIn, BecomesIs DEF SetActive
<1> QED BY <1>3, <1>4, <1>5, <1>6, <1>7

\* Dragging and pinning give the shown group the same tabs in another order.
LEMMA ReorderedGood ==
  ASSUME IInv, NEW tabs, GoodTabs(tabs), store.active # None,
         TabIds(tabs) = TabIds(store.groups[store.active].tabs)
  PROVE  Good(Reordered(tabs))
<1> DEFINE s == store.active
           old == store.groups[s]
           g == [old EXCEPT !.tabs = tabs]
<1>1. Good(store) /\ None \notin AllIds(store) /\ s \in DOMAIN store.groups
      BY NoneIsNoTab DEF IInv, GoodStore, Good
<1>2. GoodGroup(old) /\ s \in Slugs
      BY <1>1 DEF Good
<1>3. g = [tabs |-> tabs, active |-> old.active]
      BY <1>2 DEF GoodGroup
<1>4. GoodGroup(g)
      BY <1>2, <1>3 DEF GoodGroup
<1>5. TabIds(g.tabs) \subseteq OldIds(store, s) \cup {None}
      BY <1>1, <1>3 DEF OldIds
<1>6. Reordered(tabs) = [store EXCEPT !.groups = With(store.groups, s, g)]
      BY DEF Reordered
<1> HIDE DEF g
<1> QED BY <1>1, <1>2, <1>4, <1>5, <1>6, GoodSet

\* They move tabs within the shown group.
LEMMA ReorderedComes ==
  ASSUME IInv, NEW tabs, store.active # None, NEW path, NEW id,
         From(tabs, store.groups[store.active].tabs, path, id)
  PROVE  Comes(store, Reordered(tabs), store.active, path, id)
<1> DEFINE g == [store.groups[store.active] EXCEPT !.tabs = tabs]
<1>1. Good(store) /\ store.active \in DOMAIN store.groups /\ GoodGroup(store.groups[store.active])
      BY DEF IInv, GoodStore, Good
<1>2. g.tabs = tabs
      BY <1>1 DEF GoodGroup
<1>3. Reordered(tabs).groups = With(store.groups, store.active, g)
      BY <1>1 DEF Reordered, Good
<1> HIDE DEF g
<1> QED BY <1>1, <1>2, <1>3, ComesWith

\* togglePin and moveTab.
LEMMA OrderKind ==
  ASSUME IInv,
         \/ \E id \in Ids : TogglePin(id)
         \/ \E from, to \in 1..Cardinality(Ids) : Move(from, to)
  PROVE  Becomes
<1> DEFINE tabs == store.groups[store.active].tabs
<1>1. Good(store)
      BY DEF IInv, GoodStore
<1>2. store.active # None => store.active \in DOMAIN store.groups /\ GoodTabs(tabs)
      BY <1>1 DEF Good, GoodGroup
<1>3. PICK new \in NewIds : TRUE
      BY DEF NewIds
<1>4. ASSUME NEW id \in Ids, TogglePin(id) PROVE Becomes
      <2> DEFINE i == IndexOf(tabs, id)
      <2>1. store.active # None /\ id \in TabIds(tabs)
            BY <1>4 DEF TogglePin, Rendered
      <2>2. i \in DOMAIN tabs
            BY <2>1 DEF IndexOf, TabIds
      <2>3. PICK b \in 0..(Len(tabs) - 1) :
              /\ IsPinnedBoundary(RemoveAt(tabs, i), b)
              /\ StoreBecomes(Reordered(Toggled(tabs, i, b)), late)
            BY <1>4 DEF TogglePin
      <2> HIDE DEF i, tabs
      <2>4. GoodTabs(tabs)
            BY <1>2, <2>1
      <2>5. b \in Nat
            BY <2>3
      <2>6. GoodTabs(Toggled(tabs, i, b)) /\ TabIds(Toggled(tabs, i, b)) = TabIds(tabs)
            BY <2>2, <2>3, <2>4, <2>5, ToggledGood
      <2>7. From(Toggled(tabs, i, b), tabs, DefaultPath(store.active), new)
            BY <2>2, <2>3, <2>4, ToggledFrom
      <2>8. Good(Reordered(Toggled(tabs, i, b)))
            BY <2>1, <2>6, ReorderedGood DEF tabs
      <2>9. Comes(store, Reordered(Toggled(tabs, i, b)), store.active, DefaultPath(store.active), new)
            BY <2>1, <2>7, ReorderedComes DEF tabs
      <2> QED BY <2>3, <2>8, <2>9, DefaultPathIn, BecomesIs
<1>5. ASSUME NEW from, NEW to, Move(from, to) PROVE Becomes
      <2>1. store.active # None /\ from \in DOMAIN tabs /\ to \in DOMAIN tabs
            BY <1>5 DEF Move
      <2>2. PICK b \in 0..Len(tabs) :
              /\ IsPinnedBoundary(tabs, b)
              /\ StoreBecomes(Reordered(MoveTo(tabs, from, to, b)), late)
            BY <1>5 DEF Move
      <2>3. b \in Nat
            BY <2>2
      <2> HIDE DEF tabs
      <2>4. GoodTabs(tabs)
            BY <1>2, <2>1
      <2>5. GoodTabs(MoveTo(tabs, from, to, b)) /\ TabIds(MoveTo(tabs, from, to, b)) = TabIds(tabs)
            BY <2>1, <2>2, <2>3, <2>4, MoveToGood
      <2>6. From(MoveTo(tabs, from, to, b), tabs, DefaultPath(store.active), new)
            BY <2>1, <2>2, <2>4, MoveToFrom
      <2>7. Good(Reordered(MoveTo(tabs, from, to, b)))
            BY <2>1, <2>5, ReorderedGood DEF tabs
      <2>8. Comes(store, Reordered(MoveTo(tabs, from, to, b)), store.active, DefaultPath(store.active), new)
            BY <2>1, <2>6, ReorderedComes DEF tabs
      <2> QED BY <2>2, <2>7, <2>8, DefaultPathIn, BecomesIs
<1> QED BY <1>4, <1>5

\* Requests are sent and answered.
LEMMA LateKind ==
  ASSUME IInv,
         \/ \E path \in Scopes : Push(path)
         \/ \E n \in late : PushLate(n) \/ DropLate(n)
  PROVE  Kinds
<1>1. Visible(store) \in AllIds(store) \cup {None}
      BY VisibleIsOpen DEF IInv, GoodStore
<1>2. ASSUME NEW path \in Scopes, Push(path) PROVE Kinds
      BY <1>1, <1>2, PushFromKind DEF Push, Kinds
<1>3. ASSUME NEW n \in late, PushLate(n) PROVE Kinds
      <2>1. n.tab \in AllIds(store) \cup {None} /\ n.path \in Scopes /\ (late \ {n}) \in SUBSET late
            BY DEF IInv, LateFits
      <2>2. PushFrom(n.tab, n.path, late \ {n})
            BY <1>3 DEF PushLate
      <2> QED BY <2>1, <2>2, PushFromKind DEF Kinds
<1>4. ASSUME NEW n \in late, DropLate(n) PROVE Kinds
      BY <1>4 DEF DropLate, Drops, Kinds
<1> QED BY <1>2, <1>3, <1>4

\* The list of workspaces, and logging out.
LEMMA SessionKind ==
  ASSUME IInv, Logout \/ \E W \in SUBSET Slugs : Validate(W)
  PROVE  Becomes
<1>1. Good(store) /\ GoodStore(store)
      BY DEF IInv, GoodStore
<1>2. CASE Logout
      <2>1. StoreBecomes(NoTabs, late)
            BY <1>2 DEF Logout
      <2>2. PICK new \in NewIds : TRUE
            BY DEF NewIds
      <2>3. Comes(store, NoTabs, None, DefaultPath(None), new)
            BY DEF NoTabs, Comes
      <2> QED BY <2>1, <2>3, NoTabsGood, DefaultPathIn, BecomesIs
<1>3. ASSUME NEW W \in SUBSET Slugs, Validate(W) PROVE Becomes
      <2>1. PICK id \in NewIds, shown \in ShownNext(store, W) :
              StoreBecomes(Validated(store, W, shown, id), late)
            BY <1>3 DEF Validate
      <2>2. id \in AnyId /\ id \notin AllIds(store)
            BY <1>1, NewIdIsNew
      <2>3. Good(Validated(store, W, shown, id))
            BY <1>1, <2>2, ValidatedGood
      <2>4. Comes(store, Validated(store, W, shown, id), shown, DefaultPath(shown), id)
            BY <1>1, ValidatedComes
      <2> QED BY <2>1, <2>3, <2>4, DefaultPathIn, BecomesIs
<1> QED BY <1>2, <1>3

\* Every step is of one of the kinds.
LEMMA StepKinds == IInv /\ [Next]_vars => Kinds
<1> SUFFICES ASSUME IInv, [Next]_vars PROVE Kinds
    OBVIOUS
<1>1. CASE Back \/ GoForward \/ Park
      BY <1>1, HistoryKind DEF Kinds
<1>2. CASE NewTab \/ (\E path \in Scopes : OpenInNewTab(path) \/ OpenLink(path))
             \/ (\E id \in Ids : Close(id) \/ SetActive(id))
      BY <1>2, TabBarKind DEF Kinds
<1>3. CASE (\E id \in Ids : TogglePin(id)) \/ (\E from, to \in 1..Cardinality(Ids) : Move(from, to))
      BY <1>3, OrderKind DEF Kinds
<1>4. CASE Reload \/ Restart \/ StartRequest
      BY <1>4 DEF Kinds
<1>5. CASE (\E path \in Scopes : Push(path)) \/ (\E n \in late : PushLate(n) \/ DropLate(n))
      BY <1>5, LateKind
<1>6. CASE \E path \in Scopes : Replace(path)
      BY <1>6, ReplaceKind DEF Kinds
<1>7. CASE Logout \/ (\E W \in SUBSET Slugs : Validate(W))
      BY <1>7, SessionKind DEF Kinds
<1>8. CASE UNCHANGED vars
      BY <1>8 DEF vars, Drops, Kinds
<1> QED BY <1>1, <1>2, <1>3, <1>4, <1>5, <1>6, <1>7, <1>8 DEF Next

-----------------------------------------------------------------------------
(* IInv, one argument per kind of step *)

\* The effect of a commit: the visible tab's page is copied.
LEMMA CommitGood ==
  ASSUME IInv, NEW S, GoodStore(S), NEW R, RoutersFit(R, S), Commit(S, R)
  PROVE  /\ GoodStore(store') /\ AllIds(store') = AllIds(S)
         /\ RoutersFit(router', store') /\ hook' \in [Ids -> Hook]
<1>1. hook' \in [Ids -> Hook]
      BY DEF Commit, IInv, NoHook, Hook
<1>2. GoodStore(store') /\ AllIds(store') = AllIds(S)
      <2>1. CASE Visible(S) = None
            BY <2>1 DEF Commit
      <2>2. CASE Visible(S) # None
            <3>1. Visible(S) \in AllIds(S)
                  BY <2>2, VisibleIsOpen DEF GoodStore
            <3>2. Location(R[Visible(S)]) \in Path
                  BY <3>1, LocationType DEF RoutersFit
            <3>3. store' = UpdateTab(S, Visible(S), Location(R[Visible(S)]))
                  BY <2>2 DEF Commit
            <3> QED BY <3>1, <3>2, <3>3, UpdateTabGood, NoneIsNoTab DEF GoodStore
      <2> QED BY <2>1, <2>2
<1>3. RoutersFit(router', store')
      BY <1>2 DEF Commit, RoutersFit
<1> QED BY <1>1, <1>2, <1>3

\* A step that changes the store keeps IInv if what it makes of the store is good.
LEMMA StoreBecomesGood ==
  ASSUME IInv, NEW S, Good(S), NEW L \in SUBSET late, StoreBecomes(S, L)
  PROVE  IInv'
<1>1. GoodStore(S)
      BY NamedStore DEF StoreBecomes
<1>2. /\ GoodStore(store') /\ AllIds(store') = AllIds(S)
      /\ RoutersFit(router', store') /\ hook' \in [Ids -> Hook]
      BY <1>1, RoutersOfFit, CommitGood DEF StoreBecomes
<1>3. LateFits(late', store')
      <2>1. late' = {[n EXCEPT !.tab = IF n.tab \in AllIds(S) THEN n.tab ELSE None] : n \in L}
            BY DEF StoreBecomes, Orphaned
      <2>2. \A n \in L : n \in [tab : AllIds(store) \cup {None}, path : Scopes]
            BY DEF IInv, LateFits
      <2>3. \A n \in L : [n EXCEPT !.tab = IF n.tab \in AllIds(S) THEN n.tab ELSE None]
                           \in [tab : AllIds(S) \cup {None}, path : Scopes]
            BY <2>2
      <2> QED BY <1>2, <2>1, <2>3 DEF LateFits
<1>4. strayed' \subseteq AllIds(store')
      BY <1>2 DEF StoreBecomes
<1> QED BY <1>2, <1>3, <1>4 DEF IInv

\* A navigation of a visible tab keeps IInv if what it makes of the router is good.
LEMMA CountedGood ==
  ASSUME IInv, NEW id \in AllIds(store), NEW r, GoodRouter(r), NEW h \in Hook,
         Counted(id, r, h), late' \subseteq late
  PROVE  IInv'
<1> DEFINE S == UpdateTab(store, id, Location(r))
<1>1. GoodStore(store) /\ None \notin AllIds(store) /\ id \in Ids
      BY NoneIsNoTab DEF IInv, GoodStore
<1>2. Good(S) /\ AllIds(S) = AllIds(store)
      BY <1>1, LocationType, UpdateTabGood DEF GoodStore
<1> HIDE DEF S
<1>3. h.at \in Nat /\ h.len \in Nat
      BY DEF Hook
<1>4. store' = UpdateTabHistory(S, id, h.at, h.len)
      BY DEF Counted, S
<1>5. GoodStore(store') /\ AllIds(store') = AllIds(store)
      BY <1>1, <1>2, <1>3, <1>4, UpdateTabHistoryGood DEF GoodStore
<1>6. router' = [router EXCEPT ![id] = r] /\ hook' = [hook EXCEPT ![id] = h] /\ strayed' = strayed
      BY DEF Counted
<1>7. RoutersFit(router', store')
      BY <1>1, <1>5, <1>6 DEF IInv, RoutersFit
<1>8. hook' \in [Ids -> Hook]
      BY <1>6 DEF IInv
<1> QED BY <1>5, <1>6, <1>7, <1>8 DEF IInv, LateFits

\* A push into a tab that is not visible.
LEMMA PushHiddenGood ==
  ASSUME IInv, NEW id \in AllIds(store), NEW path \in Path, PushHidden(id, path),
         late' \subseteq late
  PROVE  IInv'
<1>1. id \in Ids /\ GoodRouter(router[id])
      BY DEF IInv, GoodStore, RoutersFit
<1>2. GoodRouter(Pushed(router[id], path))
      BY <1>1, PushedGood
<1>3. router' = [router EXCEPT ![id] = Pushed(router[id], path)]
      BY DEF PushHidden
<1>4. RoutersFit(router', store)
      BY <1>1, <1>2, <1>3 DEF IInv, RoutersFit
<1>5. store' = store /\ hook' = hook /\ strayed' = strayed \cup {id}
      BY DEF PushHidden
<1> QED BY <1>4, <1>5 DEF IInv, LateFits

\* reloadActiveTab.
LEMMA ReloadGood ==
  ASSUME IInv, Reload
  PROVE  IInv'
<1> DEFINE v == Visible(store)
<1>1. v \in AllIds(store) /\ strayed' = IF hook[v] = NoHook THEN strayed \ {v} ELSE strayed \cup {v}
      BY ReloadIs
<1>2. PICK S, R : GoodStore(S) /\ AllIds(S) = AllIds(store) /\ RoutersFit(R, S) /\ Commit(S, R)
      BY ReloadIs
<1>3. /\ GoodStore(store') /\ AllIds(store') = AllIds(store)
      /\ RoutersFit(router', store') /\ hook' \in [Ids -> Hook]
      BY <1>2, CommitGood
<1>4. LateFits(late', store')
      <2>1. \A n \in late : n \in [tab : AllIds(store) \cup {None}, path : Scopes]
            BY DEF IInv, LateFits
      <2>2. \A n \in late : [n EXCEPT !.tab = IF n.tab = v THEN None ELSE n.tab]
                            \in [tab : AllIds(store) \cup {None}, path : Scopes]
            BY <2>1
      <2>3. late' = {[n EXCEPT !.tab = IF n.tab = v THEN None ELSE n.tab] : n \in late}
            BY DEF Reload
      <2> QED BY <1>3, <2>2, <2>3 DEF LateFits
<1>5. strayed' \subseteq AllIds(store')
      BY <1>1, <1>3 DEF IInv
<1> QED BY <1>3, <1>4, <1>5 DEF IInv

\* A restart.
LEMMA RestartGood ==
  ASSUME IInv, Restart
  PROVE  IInv'
<1>1. GoodStore(store')
      BY RestartIs
<1>2. router' = [id \in Ids |-> IF id \in AllIds(store')
                               THEN NewRouter(TabOf(store', id).path) ELSE None]
      BY DEF Restart
<1>3. \A id \in AllIds(store') : id \in Ids /\ TabOf(store', id).path \in Path
      BY <1>1, TabOfGood DEF GoodStore, AnyTab
<1>4. RoutersFit(router', store')
      BY <1>2, <1>3, NewRouterGood DEF RoutersFit
<1>5. hook' \in [Ids -> Hook] /\ late' = {} /\ strayed' = {}
      BY DEF Restart, NoHook, Hook
<1> QED BY <1>1, <1>4, <1>5 DEF IInv, LateFits

\* A request is sent from a page of the visible tab, and leads back to its workspace.
LEMMA RequestGood ==
  ASSUME IInv, StartRequest
  PROVE  IInv'
<1> DEFINE v == Visible(store)
           page == Location(router[v])
<1>1. v \in AllIds(store) /\ GoodRouter(router[v])
      BY VisibleIsOpen DEF StartRequest, IInv, GoodStore, RoutersFit
<1>2. page \in Scopes
      BY <1>1 DEF StartRequest, Location, GoodRouter, Router, Path
<1>3. DefaultPath(page.slug) \in Scopes
      BY <1>2, TabAssumption DEF DefaultPath
<1>4. [tab |-> v, path |-> DefaultPath(page.slug)]
        \in [tab : AllIds(store) \cup {None}, path : Scopes]
      BY <1>1, <1>3
<1>5. /\ late' = late \cup {[tab |-> v, path |-> DefaultPath(page.slug)]}
      /\ UNCHANGED <<store, router, hook, strayed>>
      BY DEF StartRequest
<1> QED BY <1>4, <1>5 DEF IInv, LateFits

\* A first start has no tabs.
LEMMA InitGood == Init => IInv
<1> SUFFICES ASSUME Init PROVE IInv
    OBVIOUS
<1>1. GoodStore(store) /\ AllIds(store) = {}
      BY NoTabsGood DEF Init, GoodStore
<1>2. RoutersFit(router, store)
      BY <1>1 DEF Init, RoutersFit
<1>3. hook \in [Ids -> Hook]
      BY DEF Init, NoHook, Hook
<1> QED BY <1>1, <1>2, <1>3 DEF Init, IInv, LateFits

\* IInv is inductive.
LEMMA StepGood == IInv /\ [Next]_vars => IInv'
<1> SUFFICES ASSUME IInv, [Next]_vars PROVE IInv'
    OBVIOUS
<1>1. CASE Becomes
      <2>1. PICK S, slug, path : \E id \in NewIds, L \in SUBSET late :
              Good(S) /\ StoreBecomes(S, L)
            BY <1>1 DEF Becomes
      <2> QED BY <2>1, StoreBecomesGood
<1>2. CASE Moves
      <2>1. PICK id \in AllIds(store), h \in Hook : \E r :
              GoodRouter(r) /\ Counted(id, r, h) /\ late' \subseteq late
            BY <1>2 DEF Moves
      <2> QED BY <2>1, CountedGood
<1>3. CASE Escapes
      <2>1. PICK n \in late : n.tab \in AllIds(store) /\ PushHidden(n.tab, n.path) /\ late' \subseteq late
            BY <1>3 DEF Escapes
      <2>2. n.path \in Path
            BY DEF IInv, LateFits, Path
      <2> QED BY <2>1, <2>2, PushHiddenGood
<1>4. CASE Drops
      BY <1>4 DEF Drops, IInv, LateFits
<1>5. CASE Reload \/ Restart \/ StartRequest
      BY <1>5, ReloadGood, RestartGood, RequestGood
<1> QED BY <1>1, <1>2, <1>3, <1>4, <1>5, StepKinds DEF Kinds

\* IInv holds in every reachable state.
THEOREM TabsInvariant == Spec => []IInv
<1> QED BY InitGood, StepGood, PTL DEF Spec

\* A group's tabs have ids, so they are the tabs TypeOK speaks of.
LEMMA GroupType ==
  ASSUME GoodStore(store), NEW s \in DOMAIN store.groups
  PROVE  store.groups[s] \in Group
<1> DEFINE g == store.groups[s]
           n == Len(g.tabs)
<1>1. /\ g = [tabs |-> g.tabs, active |-> g.active]
      /\ g.tabs \in Seq(AnyTab) /\ g.active \in TabIds(g.tabs)
      BY DEF GoodStore, Good, GoodGroup, GoodTabs
<1>2. TabIds(g.tabs) \subseteq Ids
      BY DEF GoodStore, AllIds
<1> HIDE DEF g
<1>3. \A i \in 1..n : g.tabs[i] \in Tab
      <2> SUFFICES ASSUME NEW i \in 1..n PROVE g.tabs[i] \in Tab
          OBVIOUS
      <2>1. g.tabs[i] \in AnyTab /\ i \in DOMAIN g.tabs
            BY <1>1
      <2>2. g.tabs[i].id \in Ids
            BY <1>2, <2>1 DEF TabIds
      <2> QED BY <2>1, <2>2 DEF AnyTab, Tab
<1>4. g.tabs \in Seq(Tab)
      BY <1>1, <1>3
<1> QED BY <1>1, <1>2, <1>4 DEF Group, g

\* Every variable keeps its type, and a tab has a router exactly while it is open.
THEOREM TypeCorrect == Spec => []TypeOK
<1>1. IInv => TypeOK
      <2> SUFFICES ASSUME IInv PROVE TypeOK
          OBVIOUS
      <2>1. GoodStore(store) /\ Good(store)
            BY DEF IInv, GoodStore
      <2>2. store.active \in Slugs \cup {None} /\ DOMAIN store.groups \subseteq Slugs
            BY <2>1 DEF Good
      <2>3. \A s \in DOMAIN store.groups : store.groups[s] \in Group
            BY <2>1, GroupType
      <2> QED BY <2>2, <2>3 DEF IInv, TypeOK, RoutersFit, GoodRouter, LateFits, Hook
<1> QED BY <1>1, TabsInvariant, PTL

\* No page is lost and none is shown twice, whatever closes, moves and merges tabs.
THEOREM ActiveTabAlwaysExists == Spec => []ActiveTabExists
<1>1. IInv => ActiveTabExists
      BY GoodIs, TabAssumption DEF IInv, GoodStore, ActiveTabExists
<1> QED BY <1>1, TabsInvariant, PTL

\* Pinned tabs come first, wherever a tab is dropped and whatever was saved.
THEOREM PinnedTabsAlwaysFirst == Spec => []PinnedTabsFirst
<1>1. IInv => PinnedTabsFirst
      BY GoodIs, TabAssumption DEF IInv, GoodStore, PinnedTabsFirst
<1> QED BY <1>1, TabsInvariant, PTL

\* A restart loses no tab of its workspace, keeps their order, and restores the
\* active one.
THEOREM RestartsKeepTabs == Spec => RestartKeepsTabs
<1> DEFINE Tabs(s) == store.groups[s].tabs
           Own(s)  == {i \in DOMAIN Tabs(s) : Tabs(s)[i].path.slug = s}
<1>1. ASSUME IInv, Restart, NEW s \in DOMAIN store.groups, Own(s) # {}
      PROVE  /\ s \in DOMAIN store'.groups
             /\ TabIds(store'.groups[s].tabs) = {Tabs(s)[i].id : i \in Own(s)}
             /\ \A m, n \in DOMAIN store'.groups[s].tabs, i, j \in Own(s) :
                  store'.groups[s].tabs[m].id = Tabs(s)[i].id /\ store'.groups[s].tabs[n].id = Tabs(s)[j].id
                    => (m < n <=> i < j)
             /\ (\E i \in Own(s) : Tabs(s)[i].id = store.groups[s].active)
                  => store'.groups[s].active = store.groups[s].active
      <2>1. PICK order \in [KeptSlugs(store) -> UNION {Rehydrations(store.groups[t].tabs, t) : t \in KeptSlugs(store)}],
                 shown \in ShownAfterMerge(store) :
              IsOrder(store, order) /\ store' = Merged(store, order, shown)
            BY <1>1 DEF Restart
      <2>2. s \in Slugs /\ s # None /\ GoodTabs(Tabs(s))
            BY <1>1, TabAssumption DEF IInv, GoodStore, Good, GoodGroup
      <2>3. KeptAt(Tabs(s), s) = Own(s)
            BY <2>2 DEF KeptAt, Scoped
      <2>4. s \in KeptSlugs(store) /\ DOMAIN order = KeptSlugs(store)
            BY <1>1, <2>1, <2>3 DEF KeptSlugs
      <2>5. order[s] \in Rehydrations(Tabs(s), s)
            BY <2>1, <2>4 DEF IsOrder
      <2>6. /\ s \in DOMAIN store'.groups
            /\ store'.groups[s].tabs = order[s]
            /\ store.groups[s].active \in TabIds(order[s])
                 => store'.groups[s].active = store.groups[s].active
            BY <2>1, <2>4 DEF Merged
      <2> HIDE DEF Tabs, Own
      <2>7. /\ TabIds(order[s]) = {Tabs(s)[i].id : i \in Own(s)}
            /\ \A m, n \in DOMAIN order[s], i, j \in Own(s) :
                 order[s][m].id = Tabs(s)[i].id /\ order[s][n].id = Tabs(s)[j].id => (m < n <=> i < j)
            BY <2>2, <2>3, <2>5, RehydrationKeeps
      <2> QED BY <2>6, <2>7
<1>2. IInv /\ [Next]_vars =>
        [Restart =>
           \A s \in DOMAIN store.groups :
             LET tabs  == store.groups[s].tabs
                 own   == {i \in DOMAIN tabs : tabs[i].path.slug = s}
                 after == store'.groups[s].tabs
             IN  own # {} =>
                   /\ s \in DOMAIN store'.groups
                   /\ TabIds(after) = {tabs[i].id : i \in own}
                   /\ \A m, n \in DOMAIN after, i, j \in own :
                        after[m].id = tabs[i].id /\ after[n].id = tabs[j].id => (m < n <=> i < j)
                   /\ (\E i \in own : tabs[i].id = store.groups[s].active)
                        => store'.groups[s].active = store.groups[s].active]_vars
      BY <1>1
<1> QED BY <1>2, TabsInvariant, PTL DEF Spec, RestartKeepsTabs

-----------------------------------------------------------------------------
(* What the bars show.  BarsInv says of every tab that no move of its router    *)
(* escaped that the router, its hook and the store agree, and that the store    *)
(* has the page of the visible tab.                                             *)

\* The counts of the tabs of S are those of their hooks H and of their routers R.
Counts(S, R, H, escaped) ==
  \A s \in DOMAIN S.groups, i \in Nat :
    i \in DOMAIN S.groups[s].tabs =>
      LET t == S.groups[s].tabs[i]
      IN  t.id \notin escaped =>
            /\ t.at = H[t.id].at /\ t.len = H[t.id].len
            /\ H[t.id].at = R[t.id].at - 1 /\ H[t.id].len = Len(R[t.id].entries)

ShowsPage(S, R) ==
  Visible(S) # None => TabOf(S, Visible(S)).path = Location(R[Visible(S)])

\* A tab that is not rendered has no refs.
RefsRendered(S, H) == \A id \in Ids \ Rendered(S) : H[id] = NoHook

BarsInv ==
  /\ Counts(store, router, hook, strayed)
  /\ ShowsPage(store, router)
  /\ RefsRendered(store, hook)

\* The effect of a commit leaves the counts alone, and shows the page.
LEMMA CommitShows ==
  ASSUME NEW S, GoodStore(S), NEW R, RoutersFit(R, S), Commit(S, R), NEW escaped,
         Counts(S, R, hook', escaped)
  PROVE  /\ Counts(store', router', hook', escaped)
         /\ ShowsPage(store', router') /\ RefsRendered(store', hook')
<1> DEFINE v == Visible(S)
<1>1. router' = R /\ \A id \in Ids \ Rendered(S) : hook'[id] = NoHook
      BY DEF Commit
<1>2. CASE v = None
      BY <1>1, <1>2 DEF Commit, ShowsPage, RefsRendered
<1>3. CASE v # None
      <2>1. PICK tab : /\ Updates(S, store', v, tab)
                       /\ tab.id = v /\ tab.path = Location(R[v])
                       /\ tab.at = TabOf(S, v).at /\ tab.len = TabOf(S, v).len
            BY <1>3, CommitIs
      <2>2. Good(S)
            BY DEF GoodStore
      <2> HIDE DEF v
      <2>3. ShowsPage(store', router') /\ RefsRendered(store', hook')
            BY <1>1, <2>1 DEF Updates, ShowsPage, RefsRendered, v
      <2>4. ASSUME NEW s \in DOMAIN store'.groups, NEW i \in Nat, i \in DOMAIN store'.groups[s].tabs
            PROVE  LET t == store'.groups[s].tabs[i]
                   IN  t.id \notin escaped =>
                         /\ t.at = hook'[t.id].at /\ t.len = hook'[t.id].len
                         /\ hook'[t.id].at = router'[t.id].at - 1
                         /\ hook'[t.id].len = Len(router'[t.id].entries)
            <3> DEFINE u == S.groups[s].tabs[i]
                       t == store'.groups[s].tabs[i]
            <3>1. s \in DOMAIN S.groups /\ i \in DOMAIN S.groups[s].tabs
                  BY <2>1, <2>4 DEF Updates
            <3>2. t = IF u.id = v THEN tab ELSE u
                  BY <2>1, <3>1 DEF Updates
            <3>3. u.id = v => TabOf(S, v) = u
                  BY <2>2, <3>1, TabIsTabOf
            <3> HIDE DEF u, t
            <3>4. t.id = u.id /\ t.at = u.at /\ t.len = u.len
                  BY <2>1, <3>2, <3>3
            <3>5. u.id \notin escaped =>
                         /\ u.at = hook'[u.id].at /\ u.len = hook'[u.id].len
                         /\ hook'[u.id].at = R[u.id].at - 1
                         /\ hook'[u.id].len = Len(R[u.id].entries)
                  BY <2>4, <3>1 DEF Counts, u
            <3> QED BY <1>1, <3>4, <3>5 DEF t
      <2> QED BY <2>3, <2>4 DEF Counts
<1> QED BY <1>2, <1>3

\* A step that leaves tabs where they are, takes some away, and makes at most one.
LEMMA StoreBecomesShows ==
  ASSUME IInv, BarsInv, NEW S, Good(S), NEW slug, NEW path, NEW id \in NewIds,
         Comes(store, S, slug, path, id), NEW L, StoreBecomes(S, L)
  PROVE  BarsInv'
<1> DEFINE R == RoutersOf(S)
<1>1. GoodStore(S) /\ GoodStore(store) /\ Good(store)
      BY NamedStore DEF StoreBecomes, IInv, GoodStore
<1>2. RoutersFit(R, S)
      BY <1>1, RoutersOfFit
<1>3. Commit(S, R) /\ strayed' = (strayed \cup Forgotten(S)) \cap AllIds(S)
      BY DEF StoreBecomes
<1>4. \A i \in Ids : hook'[i] = IF i \in Rendered(S) THEN hook[i] ELSE NoHook
      BY <1>3 DEF Commit
<1>5. Rendered(store) \subseteq AllIds(store) /\ AllIds(store) \subseteq Ids
      BY <1>1, RenderedIsOpen DEF GoodStore
<1>6. \A i \in Ids : R[i] = IF i \notin AllIds(S) THEN None
                             ELSE IF router[i] # None THEN router[i] ELSE NewRouter(TabOf(S, i).path)
      BY DEF RoutersOf
<1> HIDE DEF R
<1>7. ASSUME NEW s \in DOMAIN S.groups, NEW i \in Nat, i \in DOMAIN S.groups[s].tabs,
             S.groups[s].tabs[i].id \notin strayed'
      PROVE  LET t == S.groups[s].tabs[i]
             IN  /\ t.at = hook'[t.id].at /\ t.len = hook'[t.id].len
                 /\ hook'[t.id].at = R[t.id].at - 1 /\ hook'[t.id].len = Len(R[t.id].entries)
      <2> DEFINE t == S.groups[s].tabs[i]
      <2>1. t.id \in AllIds(S) /\ t.id \in Ids /\ t.id # None
            BY <1>1, <1>7, TabIsTabOf, NoneIsNoTab DEF GoodStore
      <2>2. t.id \notin strayed /\ t.id \notin Forgotten(S)
            BY <1>3, <1>7, <2>1
      <2>3. hook'[t.id] = hook[t.id]
            <3>1. t.id \in Rendered(store) => t.id \in Rendered(S) \/ hook[t.id] = NoHook
                  BY <2>2 DEF Forgotten
            <3>2. t.id \notin Rendered(store) => hook[t.id] = NoHook
                  BY <2>1 DEF BarsInv, RefsRendered
            <3> QED BY <1>4, <2>1, <3>1, <3>2
      <2>4. CASE New(t, path, id)
            <3>1. t.id \notin AllIds(store)
                  BY <1>1, <2>4, NewIdIsNew DEF New
            <3>2. router[t.id] = None /\ hook[t.id] = NoHook
                  BY <1>5, <2>1, <3>1 DEF IInv, RoutersFit, BarsInv, RefsRendered
            <3>3. R[t.id] = NewRouter(TabOf(S, t.id).path)
                  BY <1>6, <2>1, <3>2
            <3>4. R[t.id].at = 1 /\ Len(R[t.id].entries) = 1
                  BY <3>3 DEF NewRouter
            <3> HIDE DEF t
            <3>5. hook'[t.id].at = 0 /\ hook'[t.id].len = 1
                  BY <2>3, <3>2 DEF NoHook
            <3> QED BY <2>4, <3>4, <3>5 DEF t, New
      <2>5. CASE s \in DOMAIN store.groups /\ \E j \in DOMAIN store.groups[s].tabs : Same(t, store.groups[s].tabs[j])
            <3>1. PICK j \in DOMAIN store.groups[s].tabs : Same(t, store.groups[s].tabs[j])
                  BY <2>5
            <3>2. j \in Nat
                  BY <1>1, <2>5 DEF Good, GoodGroup, GoodTabs
            <3> DEFINE u == store.groups[s].tabs[j]
            <3>3. u.id = t.id /\ u.at = t.at /\ u.len = t.len
                  BY <3>1 DEF Same
            <3>4. t.id \in AllIds(store)
                  BY <1>1, <2>5, <3>3, TabIsTabOf
            <3>5. router[t.id] # None
                  BY <3>4, RouterAssumption DEF IInv, RoutersFit, GoodRouter
            <3>6. R[t.id] = router[t.id]
                  BY <1>6, <2>1, <3>5
            <3>7. /\ u.at = hook[u.id].at /\ u.len = hook[u.id].len
                  /\ hook[u.id].at = router[u.id].at - 1
                  /\ hook[u.id].len = Len(router[u.id].entries)
                  BY <2>2, <2>5, <3>2, <3>3 DEF BarsInv, Counts
            <3> HIDE DEF u, t
            <3> QED BY <2>3, <3>3, <3>6, <3>7 DEF t
      <2> QED BY <1>7, <2>4, <2>5 DEF Comes
<1>8. Counts(S, R, hook', strayed')
      BY <1>7 DEF Counts
<1>9. /\ Counts(store', router', hook', strayed')
      /\ ShowsPage(store', router') /\ RefsRendered(store', hook')
      BY <1>1, <1>2, <1>3, <1>8, CommitShows
<1> QED BY <1>9 DEF BarsInv

\* A move of the visible tab's router that its hook counts right.
LEMMA CountedShows ==
  ASSUME IInv, BarsInv, NEW id \in AllIds(store), id = Visible(store),
         NEW r, GoodRouter(r), NEW h \in Hook, Counted(id, r, h),
         id \notin strayed => h.at = r.at - 1 /\ h.len = Len(r.entries)
  PROVE  BarsInv'
<1>1. Good(store) /\ AllIds(store) \subseteq Ids /\ id # None
      BY NoneIsNoTab DEF IInv, GoodStore
<1>2. PICK tab : /\ Updates(store, store', id, tab)
                 /\ tab.id = id /\ tab.path = Location(r) /\ tab.at = h.at /\ tab.len = h.len
      BY CountedIs
<1>3. /\ router'[id] = r /\ \A i \in Ids : i # id => router'[i] = router[i]
      /\ hook'[id] = h /\ \A i \in Ids : i # id => hook'[i] = hook[i]
      /\ strayed' = strayed
      BY CountedIs
<1>4. ShowsPage(store', router')
      BY <1>2, <1>3 DEF Updates, ShowsPage
<1>5. RefsRendered(store', hook')
      <2>1. id \in Rendered(store)
            BY <1>1, VisibleIsOpen DEF Rendered
      <2> QED BY <1>2, <1>3, <2>1 DEF Updates, RefsRendered, BarsInv
<1>6. ASSUME NEW s \in DOMAIN store'.groups, NEW i \in Nat, i \in DOMAIN store'.groups[s].tabs,
             store'.groups[s].tabs[i].id \notin strayed'
      PROVE  LET t == store'.groups[s].tabs[i]
             IN  /\ t.at = hook'[t.id].at /\ t.len = hook'[t.id].len
                 /\ hook'[t.id].at = router'[t.id].at - 1
                 /\ hook'[t.id].len = Len(router'[t.id].entries)
      <2> DEFINE t == store'.groups[s].tabs[i]
                 u == store.groups[s].tabs[i]
      <2>1. /\ s \in DOMAIN store.groups /\ i \in DOMAIN store.groups[s].tabs
            /\ t = IF u.id = id THEN tab ELSE u
            BY <1>2, <1>6 DEF Updates
      <2>2. u.id \in Ids
            BY <1>1, <2>1, TabIsTabOf
      <2>3. CASE u.id = id
            <3> HIDE DEF u, t
            <3>1. t = tab
                  BY <2>1, <2>3
            <3>2. id \notin strayed
                  BY <1>2, <1>3, <1>6, <3>1 DEF t
            <3> QED BY <1>2, <1>3, <3>1, <3>2 DEF t
      <2>4. CASE u.id # id
            <3>1. t = u /\ u.id \notin strayed
                  BY <1>3, <1>6, <2>1, <2>4
            <3>2. /\ u.at = hook[u.id].at /\ u.len = hook[u.id].len
                  /\ hook[u.id].at = router[u.id].at - 1
                  /\ hook[u.id].len = Len(router[u.id].entries)
                  BY <1>6, <2>1, <3>1 DEF BarsInv, Counts
            <3> HIDE DEF u, t
            <3> QED BY <1>3, <2>2, <2>4, <3>1, <3>2 DEF t
      <2> QED BY <2>3, <2>4
<1>7. Counts(store', router', hook', strayed')
      BY <1>6 DEF Counts
<1> QED BY <1>4, <1>5, <1>7 DEF BarsInv

\* A push into a tab that is not visible, which escapes its hook.
LEMMA PushHiddenShows ==
  ASSUME IInv, BarsInv, NEW id \in AllIds(store), id # Visible(store), NEW path, PushHidden(id, path)
  PROVE  BarsInv'
<1>1. /\ store' = store /\ hook' = hook /\ strayed' = strayed \cup {id} /\ Good(store)
      /\ router' = [router EXCEPT ![id] = Pushed(router[id], path)]
      BY DEF PushHidden, IInv, GoodStore
<1>2. \A i \in Ids : i # id => router'[i] = router[i]
      BY <1>1 DEF IInv, RoutersFit
<1>3. ShowsPage(store', router')
      BY <1>1, <1>2, VisibleIsOpen DEF BarsInv, ShowsPage, IInv, GoodStore
<1>4. ASSUME NEW s \in DOMAIN store.groups, NEW i \in Nat, i \in DOMAIN store.groups[s].tabs,
             store.groups[s].tabs[i].id \notin strayed'
      PROVE  LET t == store.groups[s].tabs[i]
             IN  /\ t.at = hook[t.id].at /\ t.len = hook[t.id].len
                 /\ hook[t.id].at = router'[t.id].at - 1
                 /\ hook[t.id].len = Len(router'[t.id].entries)
      <2> DEFINE t == store.groups[s].tabs[i]
      <2>1. t.id \notin strayed /\ t.id # id
            BY <1>1, <1>4
      <2>2. t.id \in Ids
            BY <1>1, <1>4, TabIsTabOf DEF IInv, GoodStore
      <2>3. router'[t.id] = router[t.id]
            BY <1>2, <2>1, <2>2
      <2>4. /\ t.at = hook[t.id].at /\ t.len = hook[t.id].len
            /\ hook[t.id].at = router[t.id].at - 1 /\ hook[t.id].len = Len(router[t.id].entries)
            BY <1>4, <2>1 DEF BarsInv, Counts
      <2> HIDE DEF t
      <2> QED BY <2>3, <2>4 DEF t
<1>5. Counts(store, router', hook, strayed')
      BY <1>4 DEF Counts
<1>6. Counts(store', router', hook', strayed')
      BY <1>1, <1>5
<1> QED BY <1>1, <1>3, <1>6 DEF BarsInv, RefsRendered

\* The counts of the visible tab.
LEMMA VisibleCounts ==
  ASSUME IInv, BarsInv, Visible(store) # None, Visible(store) \notin strayed
  PROVE  LET v == Visible(store)
         IN  /\ hook[v].at = router[v].at - 1 /\ hook[v].len = Len(router[v].entries)
             /\ TabOf(store, v).at = router[v].at - 1
             /\ TabOf(store, v).len = Len(router[v].entries)
<1> DEFINE v == Visible(store)
<1>1. Good(store) /\ v \in AllIds(store)
      BY VisibleIsOpen DEF IInv, GoodStore
<1> HIDE DEF v
<1>2. PICK s \in DOMAIN store.groups : v \in TabIds(store.groups[s].tabs)
      BY <1>1 DEF AllIds
<1>3. PICK i \in DOMAIN store.groups[s].tabs : store.groups[s].tabs[i].id = v
      BY <1>2 DEF TabIds
<1>4. i \in Nat
      BY <1>1 DEF Good, GoodGroup, GoodTabs
<1>5. TabOf(store, v) = store.groups[s].tabs[i]
      BY <1>1, <1>3, TabIsTabOf
<1>6. LET t == store.groups[s].tabs[i]
      IN  /\ t.at = hook[v].at /\ t.len = hook[v].len
          /\ hook[v].at = router[v].at - 1 /\ hook[v].len = Len(router[v].entries)
      BY <1>3, <1>4 DEF BarsInv, Counts, v
<1> QED BY <1>5, <1>6 DEF v

\* reloadActiveTab: the refs of a tab that had moved are wrong from now on.
LEMMA ReloadShows ==
  ASSUME IInv, BarsInv, Reload
  PROVE  BarsInv'
<1> DEFINE v == Visible(store)
<1>1. Good(store) /\ AllIds(store) \subseteq Ids
      BY DEF IInv, GoodStore
<1>2. /\ v \in Ids /\ v # None
      /\ strayed' = IF hook[v] = NoHook THEN strayed \ {v} ELSE strayed \cup {v}
      BY <1>1, ReloadIs
<1>3. PICK S, R, tab :
        /\ GoodStore(S) /\ RoutersFit(R, S) /\ Commit(S, R)
        /\ Updates(store, S, v, tab)
        /\ tab.id = v /\ tab.at = 0 /\ tab.len = 1
        /\ R[v] = NewRouter(TabOf(store, v).path)
        /\ \A i \in Ids : i # v => R[i] = router[i]
      BY ReloadIs
<1>4. R[v].at = 1 /\ Len(R[v].entries) = 1
      BY <1>3, NewRouterIs
<1>5. \A i \in Ids : hook'[i] = hook[i]
      <2>1. \A i \in Ids : hook'[i] = IF i \in Rendered(S) THEN hook[i] ELSE NoHook
            BY <1>3 DEF Commit
      <2>2. Rendered(S) = Rendered(store)
            BY <1>3 DEF Updates
      <2> QED BY <2>1, <2>2 DEF BarsInv, RefsRendered
<1> HIDE DEF v
<1>6. ASSUME NEW s \in DOMAIN S.groups, NEW i \in Nat, i \in DOMAIN S.groups[s].tabs,
             S.groups[s].tabs[i].id \notin strayed'
      PROVE  LET t == S.groups[s].tabs[i]
             IN  /\ t.at = hook'[t.id].at /\ t.len = hook'[t.id].len
                 /\ hook'[t.id].at = R[t.id].at - 1 /\ hook'[t.id].len = Len(R[t.id].entries)
      <2> DEFINE t == S.groups[s].tabs[i]
                 u == store.groups[s].tabs[i]
      <2>1. /\ s \in DOMAIN store.groups /\ i \in DOMAIN store.groups[s].tabs
            /\ t = IF u.id = v THEN tab ELSE u
            BY <1>3, <1>6 DEF Updates
      <2>2. u.id \in Ids
            BY <1>1, <2>1, TabIsTabOf
      <2>3. CASE u.id = v
            <3> HIDE DEF u
            <3>1. t = tab
                  BY <2>1, <2>3
            <3>2. hook[v] = NoHook
                  BY <1>2, <1>3, <1>6, <3>1
            <3> HIDE DEF t
            <3>3. hook'[v].at = 0 /\ hook'[v].len = 1
                  BY <1>2, <1>5, <3>2 DEF NoHook
            <3>4. t.id = v /\ t.at = 0 /\ t.len = 1
                  BY <1>3, <3>1
            <3>5. R[t.id].at - 1 = 0 /\ Len(R[t.id].entries) = 1
                  BY <1>4, <3>4
            <3>6. hook'[t.id].at = 0 /\ hook'[t.id].len = 1
                  BY <3>3, <3>4
            <3> QED BY <3>4, <3>5, <3>6 DEF t
      <2>4. CASE u.id # v
            <3>1. t = u /\ u.id \notin strayed
                  BY <1>2, <1>6, <2>1, <2>4
            <3>2. /\ u.at = hook[u.id].at /\ u.len = hook[u.id].len
                  /\ hook[u.id].at = router[u.id].at - 1
                  /\ hook[u.id].len = Len(router[u.id].entries)
                  BY <1>6, <2>1, <3>1 DEF BarsInv, Counts
            <3> HIDE DEF t, u
            <3> QED BY <1>3, <1>5, <2>2, <2>4, <3>1, <3>2 DEF t
      <2> QED BY <2>3, <2>4
<1>7. Counts(S, R, hook', strayed')
      BY <1>6 DEF Counts
<1> QED BY <1>3, <1>7, CommitShows DEF BarsInv

\* A restart counts from nothing.
LEMMA RestartShows ==
  ASSUME IInv, Restart
  PROVE  BarsInv'
<1>1. Good(store') /\ AllIds(store') \subseteq Ids
      BY RestartIs DEF GoodStore
<1>2. \A i \in Ids : hook'[i] = NoHook
      BY DEF Restart
<1>3. \A i \in AllIds(store') : router'[i] = NewRouter(TabOf(store', i).path)
      BY <1>1, RestartIs
<1>4. ASSUME NEW s \in DOMAIN store'.groups, NEW i \in Nat, i \in DOMAIN store'.groups[s].tabs
      PROVE  LET t == store'.groups[s].tabs[i]
             IN  /\ t.at = hook'[t.id].at /\ t.len = hook'[t.id].len
                 /\ hook'[t.id].at = router'[t.id].at - 1
                 /\ hook'[t.id].len = Len(router'[t.id].entries)
      <2> DEFINE t == store'.groups[s].tabs[i]
      <2>1. t.at = 0 /\ t.len = 1
            BY <1>4, RestartIs
      <2>2. t.id \in AllIds(store')
            BY <1>1, <1>4, TabIsTabOf
      <2> HIDE DEF t
      <2>3. router'[t.id].at = 1 /\ Len(router'[t.id].entries) = 1
            BY <1>3, <2>2, NewRouterIs
      <2>4. hook'[t.id].at = 0 /\ hook'[t.id].len = 1
            BY <1>1, <1>2, <2>2 DEF NoHook
      <2> QED BY <2>1, <2>3, <2>4 DEF t
<1>5. Counts(store', router', hook', strayed')
      BY <1>4 DEF Counts
<1>6. ShowsPage(store', router')
      <2> SUFFICES ASSUME Visible(store') # None
                   PROVE  TabOf(store', Visible(store')).path = Location(router'[Visible(store')])
          BY DEF ShowsPage
      <2>1. Visible(store') \in AllIds(store')
            BY <1>1, VisibleIsOpen
      <2> QED BY <1>3, <2>1, NewRouterIs
<1> QED BY <1>2, <1>5, <1>6 DEF BarsInv, RefsRendered

\* A hook that counts a move right keeps counting right.
LEMMA MovesShows ==
  ASSUME IInv, BarsInv, Moves
  PROVE  BarsInv'
<1>1. PICK id \in AllIds(store), h \in Hook : \E r :
        /\ id = Visible(store) /\ GoodRouter(r) /\ Counted(id, r, h)
        /\ hook[id].at = router[id].at - 1 /\ hook[id].len = Len(router[id].entries)
             => h.at = r.at - 1 /\ h.len = Len(r.entries)
      BY DEF Moves
<1>2. PICK r : /\ id = Visible(store) /\ GoodRouter(r) /\ Counted(id, r, h)
               /\ hook[id].at = router[id].at - 1 /\ hook[id].len = Len(router[id].entries)
                    => h.at = r.at - 1 /\ h.len = Len(r.entries)
      BY <1>1
<1>3. Visible(store) # None
      BY <1>2, NoneIsNoTab DEF IInv
<1>4. id \notin strayed => h.at = r.at - 1 /\ h.len = Len(r.entries)
      BY <1>2, <1>3, VisibleCounts
<1> QED BY <1>2, <1>4, CountedShows

\* BarsInv is inductive, together with IInv.
LEMMA BarsStep == IInv /\ BarsInv /\ [Next]_vars => BarsInv'
<1> SUFFICES ASSUME IInv, BarsInv, [Next]_vars PROVE BarsInv'
    OBVIOUS
<1>1. CASE Becomes
      <2>1. PICK S, slug, path : \E id \in NewIds, L \in SUBSET late :
              Good(S) /\ Comes(store, S, slug, path, id) /\ StoreBecomes(S, L)
            BY <1>1 DEF Becomes
      <2> QED BY <2>1, StoreBecomesShows
<1>2. CASE Moves
      BY <1>2, MovesShows
<1>3. CASE Escapes
      <2>1. PICK n \in late : n.tab \in AllIds(store) /\ n.tab # Visible(store) /\ PushHidden(n.tab, n.path)
            BY <1>3 DEF Escapes
      <2>2. n.path \in Path
            BY DEF IInv, LateFits, Path
      <2> QED BY <2>1, <2>2, PushHiddenShows
<1>4. CASE Drops
      BY <1>4 DEF Drops, BarsInv, ShowsPage
<1>5. CASE Reload
      BY <1>5, ReloadShows
<1>6. CASE Restart
      BY <1>6, RestartShows
<1>7. CASE StartRequest
      BY <1>7 DEF StartRequest, BarsInv, ShowsPage
<1> QED BY <1>1, <1>2, <1>3, <1>4, <1>5, <1>6, <1>7, StepKinds DEF Kinds

\* Whatever is pushed, reloaded, switched and answered late, the bars show the page
\* of the visible tab's router and, unless a move escaped its hook, its counts.
THEOREM BarsAlwaysShowTheRouter == Spec => []BarsShowTheRouter
<1>1. Init => BarsInv
      BY DEF Init, NoTabs, BarsInv, Counts, ShowsPage, Visible, RefsRendered
<1>2. IInv /\ BarsInv => BarsShowTheRouter
      BY VisibleCounts DEF BarsInv, ShowsPage, BarsShowTheRouter
<1> QED BY <1>1, <1>2, BarsStep, TabsInvariant, PTL DEF Spec

-----------------------------------------------------------------------------
(* Tabs and workspaces.  A tab may go back to any page of its router, and a     *)
(* late answer may push another: Within says of all of these that they are      *)
(* pages of the tab's workspace, but for the tabs F.                            *)

Within(S, R, L, F) ==
  \A s \in DOMAIN S.groups, i \in Nat :
    i \in DOMAIN S.groups[s].tabs /\ S.groups[s].tabs[i].id \notin F =>
      LET t == S.groups[s].tabs[i]
      IN  /\ t.path.slug \in {s, None}
          /\ \A k \in 1..Len(R[t.id].entries) : R[t.id].entries[k].slug \in {s, None}
          /\ \A n \in L : n.tab = t.id => n.path.slug = s

Stays(F) == Within(store, router, late, F)

\* The visible tab is in the shown group.
LEMMA VisibleIsShown ==
  ASSUME NEW S, Good(S), NEW s \in DOMAIN S.groups, NEW i \in DOMAIN S.groups[s].tabs,
         Visible(S) # None, S.groups[s].tabs[i].id = Visible(S)
  PROVE  s = S.active
<1>1. S.active \in DOMAIN S.groups /\ Visible(S) \in TabIds(S.groups[S.active].tabs)
      BY VisibleIsOpen
<1>2. Visible(S) \in TabIds(S.groups[s].tabs)
      BY DEF TabIds
<1> QED BY <1>1, <1>2 DEF Good, Apart

\* The page a commit copies is one of the router's.
LEMMA CommitStays ==
  ASSUME NEW S, GoodStore(S), NEW R, RoutersFit(R, S), Commit(S, R), NEW L, NEW F,
         Within(S, R, L, F)
  PROVE  Within(store', router', L, F)
<1> DEFINE v == Visible(S)
<1>1. router' = R
      BY DEF Commit
<1>2. CASE v = None
      BY <1>1, <1>2 DEF Commit
<1>3. CASE v # None
      <2>1. PICK tab : Updates(S, store', v, tab) /\ tab.id = v /\ tab.path = Location(R[v])
            BY <1>3, CommitIs
      <2>2. v \in AllIds(S) /\ GoodRouter(R[v])
            BY <1>3, VisibleIsOpen DEF GoodStore, RoutersFit
      <2>3. R[v].at \in 1..Len(R[v].entries)
            BY <2>2 DEF GoodRouter
      <2> HIDE DEF v
      <2>4. ASSUME NEW s \in DOMAIN store'.groups, NEW i \in Nat, i \in DOMAIN store'.groups[s].tabs,
             store'.groups[s].tabs[i].id \notin F
            PROVE  LET t == store'.groups[s].tabs[i]
                   IN  /\ t.path.slug \in {s, None}
                       /\ \A k \in 1..Len(R[t.id].entries) : R[t.id].entries[k].slug \in {s, None}
                       /\ \A n \in L : n.tab = t.id => n.path.slug = s
            <3> DEFINE u == S.groups[s].tabs[i]
                       t == store'.groups[s].tabs[i]
            <3>1. /\ s \in DOMAIN S.groups /\ i \in DOMAIN S.groups[s].tabs
                  /\ t = IF u.id = v THEN tab ELSE u
                  BY <2>1, <2>4 DEF Updates
            <3>2. /\ u.path.slug \in {s, None}
                  /\ \A k \in 1..Len(R[u.id].entries) : R[u.id].entries[k].slug \in {s, None}
                  /\ \A n \in L : n.tab = u.id => n.path.slug = s
                  <4>1. u.id = t.id
                        BY <2>1, <3>1
                  <4> QED BY <2>4, <3>1, <4>1 DEF Within
            <3> HIDE DEF u, t
            <3>3. t.id = u.id
                  BY <2>1, <3>1
            <3>4. t.path.slug \in {s, None}
                  BY <2>1, <2>3, <3>1, <3>2 DEF Location
            <3> QED BY <3>2, <3>3, <3>4 DEF t
      <2> QED BY <1>1, <2>4 DEF Within
<1> QED BY <1>2, <1>3

\* A step that leaves tabs where they are, and makes one on a page of its workspace.
LEMMA StoreBecomesStays ==
  ASSUME IInv, NEW F, Stays(F), NEW S, Good(S), NEW slug, NEW path, path.slug = slug, NEW id \in NewIds,
         Comes(store, S, slug, path, id), NEW L \in SUBSET late, StoreBecomes(S, L)
  PROVE  Within(store', router', late', F)
<1> DEFINE R == RoutersOf(S)
<1>1. GoodStore(S) /\ GoodStore(store) /\ Good(store)
      BY NamedStore DEF StoreBecomes, IInv, GoodStore
<1>2. RoutersFit(R, S)
      BY <1>1, RoutersOfFit
<1>3. Commit(S, R) /\ late' = Orphaned(S, L)
      BY DEF StoreBecomes
<1>4. \A i \in Ids : R[i] = IF i \notin AllIds(S) THEN None
                             ELSE IF router[i] # None THEN router[i] ELSE NewRouter(TabOf(S, i).path)
      BY DEF RoutersOf
<1>5. \A n \in late' : n.tab # None => \E m \in late : m.tab = n.tab /\ m.path = n.path
      <2>1. late' = {[n EXCEPT !.tab = IF n.tab \in AllIds(S) THEN n.tab ELSE None] : n \in L}
            BY <1>3 DEF Orphaned
      <2>2. \A n \in L : n \in late /\ n \in [tab : AllIds(store) \cup {None}, path : Scopes]
            BY DEF IInv, LateFits
      <2> QED BY <2>1, <2>2
<1>6. \A n \in late : n.tab \in AllIds(store) \cup {None}
      BY DEF IInv, LateFits
<1> HIDE DEF R
<1>7. ASSUME NEW s \in DOMAIN S.groups, NEW i \in Nat, i \in DOMAIN S.groups[s].tabs,
             S.groups[s].tabs[i].id \notin F
      PROVE  LET t == S.groups[s].tabs[i]
             IN  /\ t.path.slug \in {s, None}
                 /\ \A k \in 1..Len(R[t.id].entries) : R[t.id].entries[k].slug \in {s, None}
                 /\ \A n \in late' : n.tab = t.id => n.path.slug = s
      <2> DEFINE t == S.groups[s].tabs[i]
      <2>1. t.id \in AllIds(S) /\ t.id \in Ids /\ t.id # None /\ TabOf(S, t.id) = t
            BY <1>1, <1>7, TabIsTabOf, NoneIsNoTab DEF GoodStore
      <2>2. CASE s = slug /\ New(t, path, id)
            <3>1. t.id \notin AllIds(store)
                  BY <1>1, <2>2, NewIdIsNew DEF New
            <3>2. router[t.id] = None
                  BY <2>1, <3>1 DEF IInv, RoutersFit
            <3>3. R[t.id] = NewRouter(t.path)
                  BY <1>4, <2>1, <3>2
            <3>4. \A n \in late' : n.tab # t.id
                  BY <1>5, <1>6, <2>1, <3>1
            <3>5. t.path = path
                  BY <2>2 DEF New
            <3>6. Len(R[t.id].entries) = 1 /\ R[t.id].entries[1] = path
                  BY <3>3, <3>5 DEF NewRouter
            <3> HIDE DEF t
            <3> QED BY <2>2, <3>4, <3>5, <3>6 DEF t
      <2>3. CASE s \in DOMAIN store.groups /\ \E j \in DOMAIN store.groups[s].tabs : Same(t, store.groups[s].tabs[j])
            <3>1. PICK j \in DOMAIN store.groups[s].tabs : Same(t, store.groups[s].tabs[j])
                  BY <2>3
            <3>2. j \in Nat
                  BY <1>1, <2>3 DEF Good, GoodGroup, GoodTabs
            <3> DEFINE u == store.groups[s].tabs[j]
            <3>3. u.id = t.id /\ u.path = t.path
                  BY <3>1 DEF Same
            <3>4. t.id \in AllIds(store)
                  BY <1>1, <2>3, <3>3, TabIsTabOf
            <3>5. router[t.id] # None
                  BY <3>4, RouterAssumption DEF IInv, RoutersFit, GoodRouter
            <3>6. R[t.id] = router[t.id]
                  BY <1>4, <2>1, <3>5
            <3>7. /\ u.path.slug \in {s, None}
                  /\ \A k \in 1..Len(router[u.id].entries) : router[u.id].entries[k].slug \in {s, None}
                  /\ \A n \in late : n.tab = u.id => n.path.slug = s
                  BY <1>7, <2>3, <3>2, <3>3 DEF Stays, Within
            <3> HIDE DEF u, t
            <3>8. \A n \in late' : n.tab = t.id => n.path.slug = s
                  BY <1>5, <2>1, <3>3, <3>7
            <3> QED BY <3>3, <3>6, <3>7, <3>8 DEF t
      <2> QED BY <1>7, <2>2, <2>3 DEF Comes
<1>8. Within(S, R, late', F)
      BY <1>7 DEF Within
<1>9. Within(store', router', late', F)
      BY <1>1, <1>2, <1>3, <1>8, CommitStays
<1> QED BY <1>9 DEF Stays

\* A move of the visible tab's router within the shown workspace.
LEMMA MovesStays ==
  ASSUME IInv, NEW F, Stays(F), Moves
  PROVE  Within(store', router', late', F)
<1>1. PICK id \in AllIds(store), h \in Hook : \E r :
        /\ id = Visible(store) /\ GoodRouter(r) /\ Counted(id, r, h) /\ late' \subseteq late
        /\ EntriesFrom(r, router[id], store.active)
      BY DEF Moves
<1>2. PICK r : /\ id = Visible(store) /\ GoodRouter(r) /\ Counted(id, r, h) /\ late' \subseteq late
               /\ EntriesFrom(r, router[id], store.active)
      BY <1>1
<1>3. Good(store) /\ AllIds(store) \subseteq Ids /\ id # None
      BY NoneIsNoTab DEF IInv, GoodStore
<1>4. PICK tab : Updates(store, store', id, tab) /\ tab.id = id /\ tab.path = Location(r)
      BY <1>2, CountedIs
<1>5. router'[id] = r /\ \A i \in Ids : i # id => router'[i] = router[i]
      BY <1>2, CountedIs
<1>6. r.at \in 1..Len(r.entries)
      BY <1>2 DEF GoodRouter
<1>7. ASSUME NEW s \in DOMAIN store'.groups, NEW i \in Nat, i \in DOMAIN store'.groups[s].tabs,
             store'.groups[s].tabs[i].id \notin F
      PROVE  LET t == store'.groups[s].tabs[i]
             IN  /\ t.path.slug \in {s, None}
                 /\ \A k \in 1..Len(router'[t.id].entries) : router'[t.id].entries[k].slug \in {s, None}
                 /\ \A n \in late' : n.tab = t.id => n.path.slug = s
      <2> DEFINE t == store'.groups[s].tabs[i]
                 u == store.groups[s].tabs[i]
      <2>1. /\ s \in DOMAIN store.groups /\ i \in DOMAIN store.groups[s].tabs
            /\ t = IF u.id = id THEN tab ELSE u
            BY <1>4, <1>7 DEF Updates
      <2>2. u.id \in Ids
            BY <1>3, <2>1, TabIsTabOf
      <2>3. /\ u.path.slug \in {s, None}
            /\ \A k \in 1..Len(router[u.id].entries) : router[u.id].entries[k].slug \in {s, None}
            /\ \A n \in late' : n.tab = u.id => n.path.slug = s
            <3>1. u.id = t.id
                  BY <1>4, <2>1
            <3> QED BY <1>2, <1>7, <2>1, <3>1 DEF Stays, Within
      <2>4. CASE u.id = id
            <3>1. s = store.active
                  BY <1>2, <1>3, <2>1, <2>4, VisibleIsShown
            <3> HIDE DEF u, t
            <3>2. t = tab
                  BY <2>1, <2>4
            <3>3. \A k \in 1..Len(r.entries) : r.entries[k].slug \in {s, None}
                  BY <1>2, <2>3, <2>4, <3>1 DEF EntriesFrom
            <3>4. t.id = id /\ t.path.slug \in {s, None}
                  BY <1>4, <1>6, <3>2, <3>3 DEF Location
            <3> QED BY <1>5, <2>3, <2>4, <3>3, <3>4 DEF t
      <2>5. CASE u.id # id
            <3> HIDE DEF u, t
            <3> QED BY <1>5, <2>1, <2>2, <2>3, <2>5 DEF t
      <2> QED BY <2>4, <2>5
<1> QED BY <1>7 DEF Stays, Within

\* A late answer pushes a page of the tab's own workspace.
LEMMA EscapesStays ==
  ASSUME IInv, NEW F, Stays(F), Escapes
  PROVE  Within(store', router', late', F)
<1>1. PICK n \in late : /\ n.tab \in AllIds(store) /\ PushHidden(n.tab, n.path)
                        /\ late' \subseteq late
      BY DEF Escapes
<1> DEFINE id == n.tab
           to == Pushed(router[id], n.path)
<1>2. /\ n.path \in Path /\ id \in Ids /\ GoodRouter(router[id])
      /\ Good(store) /\ AllIds(store) \subseteq Ids
      BY <1>1 DEF IInv, LateFits, Path, GoodStore, RoutersFit
<1>3. /\ store' = store /\ router'[id] = to
      /\ \A i \in Ids : i # id => router'[i] = router[i]
      BY <1>1, <1>2 DEF PushHidden, IInv, RoutersFit
<1>4. EntriesFrom(to, router[id], n.path.slug)
      BY <1>2, PushedIs
<1> HIDE DEF to
<1>5. ASSUME NEW s \in DOMAIN store.groups, NEW i \in Nat, i \in DOMAIN store.groups[s].tabs,
             store.groups[s].tabs[i].id \notin F
      PROVE  LET t == store.groups[s].tabs[i]
             IN  /\ t.path.slug \in {s, None}
                 /\ \A k \in 1..Len(router'[t.id].entries) : router'[t.id].entries[k].slug \in {s, None}
                 /\ \A m \in late' : m.tab = t.id => m.path.slug = s
      <2> DEFINE t == store.groups[s].tabs[i]
      <2>1. /\ t.path.slug \in {s, None}
            /\ \A k \in 1..Len(router[t.id].entries) : router[t.id].entries[k].slug \in {s, None}
            /\ \A m \in late : m.tab = t.id => m.path.slug = s
            BY <1>5 DEF Stays, Within
      <2>2. t.id \in Ids
            BY <1>2, <1>5, TabIsTabOf
      <2> HIDE DEF t
      <2>3. CASE t.id = id
            <3>1. n.path.slug = s
                  BY <2>1, <2>3
            <3>2. \A k \in 1..Len(to.entries) : to.entries[k].slug \in {s, None}
                  BY <1>4, <2>1, <2>3, <3>1 DEF EntriesFrom
            <3> QED BY <1>1, <1>3, <2>1, <2>3, <3>2 DEF t
      <2>4. CASE t.id # id
            BY <1>1, <1>3, <2>1, <2>2, <2>4 DEF t
      <2> QED BY <2>3, <2>4
<1>6. Within(store, router', late', F)
      BY <1>5 DEF Within
<1> QED BY <1>3, <1>6 DEF Stays

\* reloadActiveTab keeps the page.
LEMMA ReloadStays ==
  ASSUME IInv, NEW F, Stays(F), Reload
  PROVE  Within(store', router', late', F)
<1> DEFINE v == Visible(store)
<1>1. Good(store) /\ AllIds(store) \subseteq Ids
      BY DEF IInv, GoodStore
<1>2. v # None
      BY ReloadIs
<1>3. PICK S, R, tab :
        /\ GoodStore(S) /\ RoutersFit(R, S) /\ Commit(S, R)
        /\ Updates(store, S, v, tab)
        /\ tab.id = v /\ tab.path = TabOf(store, v).path
        /\ R[v] = NewRouter(TabOf(store, v).path)
        /\ \A i \in Ids : i # v => R[i] = router[i]
      BY ReloadIs
<1>4. \A n \in late' : n.tab # None => n \in late
      <2>1. late' = {[n EXCEPT !.tab = IF n.tab = v THEN None ELSE n.tab] : n \in late}
            BY DEF Reload
      <2>2. \A n \in late : n \in [tab : AllIds(store) \cup {None}, path : Scopes]
            BY DEF IInv, LateFits
      <2> QED BY <2>1, <2>2
<1> HIDE DEF v
<1>5. ASSUME NEW s \in DOMAIN S.groups, NEW i \in Nat, i \in DOMAIN S.groups[s].tabs,
             S.groups[s].tabs[i].id \notin F
      PROVE  LET t == S.groups[s].tabs[i]
             IN  /\ t.path.slug \in {s, None}
                 /\ \A k \in 1..Len(R[t.id].entries) : R[t.id].entries[k].slug \in {s, None}
                 /\ \A n \in late' : n.tab = t.id => n.path.slug = s
      <2> DEFINE t == S.groups[s].tabs[i]
                 u == store.groups[s].tabs[i]
      <2>1. /\ s \in DOMAIN store.groups /\ i \in DOMAIN store.groups[s].tabs
            /\ t = IF u.id = v THEN tab ELSE u
            BY <1>3, <1>5 DEF Updates
      <2>2. u.id \in AllIds(store) /\ u.id \in Ids /\ u.id # None /\ TabOf(store, u.id) = u
            BY <1>1, <2>1, TabIsTabOf, NoneIsNoTab DEF IInv
      <2>3. /\ u.path.slug \in {s, None}
            /\ \A k \in 1..Len(router[u.id].entries) : router[u.id].entries[k].slug \in {s, None}
            /\ \A n \in late : n.tab = u.id => n.path.slug = s
            <3>1. u.id = t.id
                  BY <1>3, <2>1, <2>2
            <3> QED BY <1>5, <2>1, <3>1 DEF Stays, Within
      <2> HIDE DEF t, u
      <2>4. \A n \in late' : n.tab = u.id => n.path.slug = s
            BY <1>4, <2>2, <2>3
      <2>5. CASE u.id = v
            <3>1. t.id = u.id /\ t.path = u.path
                  BY <1>3, <2>1, <2>2, <2>5
            <3>2. R[u.id] = NewRouter(u.path)
                  BY <1>3, <2>2, <2>5
            <3>3. Len(R[u.id].entries) = 1 /\ R[u.id].entries[1] = u.path
                  BY <3>2 DEF NewRouter
            <3> QED BY <2>3, <2>4, <3>1, <3>3 DEF t
      <2>6. CASE u.id # v
            BY <1>3, <2>1, <2>2, <2>3, <2>4, <2>6 DEF t
      <2> QED BY <2>5, <2>6
<1>6. Within(S, R, late', F)
      BY <1>5 DEF Within
<1> QED BY <1>3, <1>6, CommitStays DEF Stays

\* A restart loads pages of the right workspace only.
LEMMA RestartStays ==
  ASSUME IInv, Restart, NEW F
  PROVE  Within(store', router', late', F)
<1>1. Good(store') /\ AllIds(store') \subseteq Ids /\ late' = {}
      BY RestartIs DEF GoodStore, Restart
<1>2. ASSUME NEW s \in DOMAIN store'.groups, NEW i \in Nat, i \in DOMAIN store'.groups[s].tabs,
             store'.groups[s].tabs[i].id \notin F
      PROVE  LET t == store'.groups[s].tabs[i]
             IN  /\ t.path.slug \in {s, None}
                 /\ \A k \in 1..Len(router'[t.id].entries) : router'[t.id].entries[k].slug \in {s, None}
      <2> DEFINE t == store'.groups[s].tabs[i]
      <2>1. t.path.slug = s
            BY <1>2, RestartIs
      <2>2. t.id \in AllIds(store') /\ TabOf(store', t.id) = t
            BY <1>1, <1>2, TabIsTabOf
      <2>3. router'[t.id] = NewRouter(t.path)
            BY <1>1, <2>2, RestartIs
      <2> HIDE DEF t
      <2>4. Len(router'[t.id].entries) = 1 /\ router'[t.id].entries[1] = t.path
            BY <2>3 DEF NewRouter
      <2>5. \A k \in 1..Len(router'[t.id].entries) : router'[t.id].entries[k].slug \in {s, None}
            BY <2>1, <2>4
      <2> QED BY <2>1, <2>5 DEF t
<1> QED BY <1>1, <1>2 DEF Stays, Within

\* A page sends its request, and goes back to a list of its own workspace, which is
\* the shown one unless its tab is one of F.
LEMMA RequestStays ==
  ASSUME IInv, NEW F, Stays(F), StartRequest
  PROVE  Within(store', router', late', F)
<1> DEFINE v == Visible(store)
           page == Location(router[v])
<1>1. Good(store) /\ v # None /\ page # Root
      BY DEF IInv, GoodStore, StartRequest
<1>2. /\ store' = store /\ router' = router
      /\ late' = late \cup {[tab |-> v, path |-> DefaultPath(page.slug)]}
      BY DEF StartRequest
<1>3. v \in AllIds(store) /\ GoodRouter(router[v])
      BY VisibleIsOpen DEF StartRequest, IInv, GoodStore, RoutersFit
<1>4. page \in Scopes /\ page.slug # None
      BY <1>1, <1>3, TabAssumption DEF Location, GoodRouter, Router, Path
<1>5. \E k \in 1..Len(router[v].entries) : page = router[v].entries[k]
      BY <1>3 DEF Location, GoodRouter
<1> HIDE DEF v, page
<1>6. ASSUME NEW s \in DOMAIN store.groups, NEW i \in Nat, i \in DOMAIN store.groups[s].tabs,
             store.groups[s].tabs[i].id \notin F,
             NEW n \in late', n.tab = store.groups[s].tabs[i].id
      PROVE  n.path.slug = s
      <2>1. CASE n \in late
            BY <1>6, <2>1 DEF Stays, Within
      <2>2. CASE n = [tab |-> v, path |-> DefaultPath(page.slug)]
            <3>1. store.groups[s].tabs[i].id = v
                  BY <1>6, <2>2
            <3>2. \A k \in 1..Len(router[v].entries) : router[v].entries[k].slug \in {s, None}
                  BY <1>6, <3>1 DEF Stays, Within
            <3>3. page.slug = s
                  BY <1>4, <1>5, <3>2
            <3> QED BY <2>2, <3>3, DefaultPathIn
      <2> QED BY <1>2, <2>1, <2>2
<1> QED BY <1>2, <1>6 DEF Stays, Within

\* Every step but a link to another workspace leaves a tab, its history and its late
\* answers in the tab's workspace, whatever the tabs F do.
LEMMA StaysStep ==
  ASSUME IInv, NEW F, Stays(F), [Next]_vars, ~LinkElsewhere
  PROVE  Within(store', router', late', F)
<1>1. CASE Becomes
      <2>1. PICK S, slug, path : \E id \in NewIds, L \in SUBSET late :
              /\ Good(S) /\ Comes(store, S, slug, path, id) /\ StoreBecomes(S, L)
              /\ path.slug = slug
            BY <1>1 DEF Becomes
      <2> QED BY <2>1, StoreBecomesStays
<1>2. CASE Drops
      BY <1>2 DEF Drops, Stays, Within
<1> QED BY <1>1, <1>2, MovesStays, EscapesStays, ReloadStays, RestartStays, RequestStays,
           StepKinds DEF Kinds

\* Whether or not documents link to other workspaces: a link that does is the only step
\* after which a further tab shows a page of a workspace other than its group's, or may
\* come to by going back or forward or by a late answer.
THEOREM StrangersOnlyByLink == Spec => StrangersComeByLink
<1>1. ASSUME IInv, IInv', [Next]_vars, ~LinkElsewhere
      PROVE  Strangers' \subseteq Strangers
      <2> SUFFICES ASSUME NEW F, F = Strangers
                   PROVE  Strangers' \subseteq F
          OBVIOUS
      <2>1. \A n \in late : n.path.slug \in Slugs
            BY <1>1, TabAssumption DEF IInv, LateFits
      <2>2. Stays(F)
            <3> SUFFICES ASSUME NEW s \in DOMAIN store.groups, NEW i \in Nat,
                                i \in DOMAIN store.groups[s].tabs,
                                store.groups[s].tabs[i].id \notin Strangers
                         PROVE  ~LeadsElsewhere(s, store.groups[s].tabs[i])
                <4>1. \A s \in DOMAIN store.groups : \A i \in DOMAIN store.groups[s].tabs :
                        DOMAIN router[store.groups[s].tabs[i].id].entries
                          = 1..Len(router[store.groups[s].tabs[i].id].entries)
                      BY <1>1, TabIsTabOf DEF IInv, GoodStore, RoutersFit, GoodRouter, Router
                <4> QED BY <4>1 DEF Stays, Within, LeadsElsewhere
            <3>1. store.groups[s].tabs[i].id \in Ids
                  BY <1>1, TabIsTabOf DEF IInv, GoodStore
            <3> QED BY <3>1 DEF Strangers
      <2>3. Within(store', router', late', F)
            BY <1>1, <2>2, StaysStep
      <2> SUFFICES ASSUME NEW id \in Strangers' PROVE id \in F
          OBVIOUS
      <2>4. PICK s \in DOMAIN store'.groups : \E i \in DOMAIN store'.groups[s].tabs :
              LET tab == store'.groups[s].tabs[i]
              IN  /\ tab.id = id
                  /\ \/ tab.path.slug \notin {s, None}
                     \/ \E k \in DOMAIN router'[tab.id].entries :
                          router'[tab.id].entries[k].slug \notin {s, None}
                     \/ \E n \in late' : n.tab = tab.id /\ n.path.slug # s
            BY DEF Strangers, LeadsElsewhere
      <2>5. PICK i \in DOMAIN store'.groups[s].tabs :
              LET tab == store'.groups[s].tabs[i]
              IN  /\ tab.id = id
                  /\ \/ tab.path.slug \notin {s, None}
                     \/ \E k \in DOMAIN router'[tab.id].entries :
                          router'[tab.id].entries[k].slug \notin {s, None}
                     \/ \E n \in late' : n.tab = tab.id /\ n.path.slug # s
            BY <2>4
      <2>6. Good(store') /\ i \in Nat
            BY <1>1 DEF IInv, GoodStore, Good, GoodGroup, GoodTabs
      <2>7. GoodRouter(router'[id])
            BY <1>1, <2>5, <2>6, TabIsTabOf DEF IInv, RoutersFit
      <2>8. DOMAIN router'[id].entries = 1..Len(router'[id].entries)
            BY <2>7 DEF GoodRouter, Router
      <2> QED BY <2>3, <2>5, <2>6, <2>8 DEF Within
<1> QED BY <1>1, TabsInvariant, PTL DEF Spec, StrangersComeByLink
=============================================================================
