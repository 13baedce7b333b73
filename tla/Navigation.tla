----------------------------- MODULE Navigation -----------------------------
(***************************************************************************)
(* MainWindow and the managers of stacked pages: which page is shown,      *)
(* which item of the sidebar is marked, and which lists go on refreshing   *)
(* themselves.  The lists of nodes, containers and backups ask the server  *)
(* again every minute: a manager starts the timer of the list it shows,    *)
(* and changePage has to stop those that are left.  Each list has a search *)
(* line too, whose own timer runs for 200 ms after every change; and the   *)
(* page of backups refreshes its list, wherever the user is by then, when  *)
(* the reply to a change of them comes.                                    *)
(*                                                                         *)
(* What the lists show, and the other calls, are left to their modules.    *)
(***************************************************************************)
EXTENDS FiniteSets, Naturals

CONSTANTS
  Roles,      \* those who may have logged in
  MaxChanges  \* bound on the changes of backups under way

Home == "outline"
PagesOf(r) ==
  {Home} \cup (IF r = "sysadm" THEN {"nodes", "images", "containers", "templates"}
               ELSE IF r = "secadm" THEN {"approval", "switch"}
               ELSE {"warnings", "logs"})
Pages == UNION {PagesOf(r) : r \in Roles}

\* The row of the sidebar that folds the rows of its sub pages
Group == "group"
SubPages == {"containers", "templates", "approval", "switch", "warnings", "logs"}

\* The lists with a refresh timer; "containers" and "backups" have one manager.
Timed == {"nodes", "containers", "backups"}

ASSUME NavigationAssumption ==
  /\ Roles \subseteq {"sysadm", "secadm", "audadm"} /\ Roles # {}
  /\ MaxChanges \in Nat

VARIABLES
  role,       \* m_userName
  shown,      \* the current page of m_stackedWidget
  info,       \* the manager shown has its info page on top
  subject,    \* m_infoMap of the container info page has been set
  current,    \* the current row of the sidebar
  marked,     \* the items drawn as selected
  title,      \* lab_page_name
  folded,     \* the group is folded
  timers,     \* the refresh timers that run
  typed,      \* the lists with a text in the search line
  searching,  \* the search timers that run
  changes,    \* how many changes of backups are under way
  late        \* history: timers started, by a search or the reply to a change,
              \* when their list had been left

sidebar == <<current, marked, title, folded>>
lists   == <<timers, typed, searching, late>>
vars    == <<role, shown, info, subject, sidebar, lists, changes>>

TypeOK ==
  /\ role \in Roles /\ shown \in PagesOf(role)
  /\ info \in BOOLEAN /\ subject \in BOOLEAN
  /\ current \in PagesOf(role) \cup {Group} /\ marked \subseteq PagesOf(role)
  /\ title \in PagesOf(role) /\ folded \in BOOLEAN
  /\ timers \subseteq Timed /\ typed \subseteq Timed /\ searching \subseteq Timed
  /\ changes \in 0..MaxChanges /\ late \subseteq timers

Init ==
  /\ role \in Roles /\ shown = Home /\ info = FALSE /\ subject = FALSE
  /\ current = Home /\ marked = {Home} /\ title = Home /\ folded = FALSE
  /\ timers = {} /\ typed = {} /\ searching = {} /\ changes = 0 /\ late = {}

-----------------------------------------------------------------------------
(* The lists.                                                              *)

\* A list the user can see and use.
OnTop(l) ==
  IF l = "backups" THEN shown = "containers" /\ info ELSE shown = l /\ ~info

\* updateInfo of some lists, others being told to exit.  To clear the search
\* line starts its timer, if there was a text.
Update(started, stopped) ==
  /\ timers' = (timers \cup started) \ stopped
  /\ typed' = typed \ started
  /\ searching' = searching \cup (typed \cap started)
  /\ late' = (late \ started) \ stopped

\* What updateInfo of a page updates: the manager of containers has its info
\* page, behind the list, update the backups of the last container visited.
ListsOf(p) ==
  {l \in Timed : l = p \/ (l = "backups" /\ p = "containers" /\ subject)}

MutLeft(p) == (IF p = "containers" THEN {} ELSE {"containers", "backups"})
              \cup (IF p = shown THEN {} ELSE {"nodes"})

\* changePage: the managers that are not the page shown exit.
Left(p) == (IF p = "containers" THEN {} ELSE {"containers", "backups"})
           \cup (IF p = "nodes" THEN {} ELSE {"nodes"})

\* updateInfo of the page, then setCurrentWidget, which calls changePage if
\* the page is another.  Either way its manager shows its list.
ShowPage(p) ==
  /\ shown' = p /\ info' = FALSE
  /\ Update(ListsOf(p), IF p = shown THEN {} ELSE Left(p))
  /\ UNCHANGED <<role, subject, changes>>

MutOpened == {"backups"}

\* What the managers leave, and what they start, when a name is clicked.
Opened == IF shown = "containers" THEN {"backups"} ELSE {}

\* onNodeNameClicked, onNameClicked
OpenInfo ==
  /\ shown \in {"nodes", "containers"} /\ ~info
  /\ info' = TRUE
  /\ subject' = (subject \/ shown = "containers")
  /\ Update(Opened, {shown})
  /\ UNCHANGED <<role, shown, sidebar, changes>>

\* A click on the tab of the backups
ClickTab ==
  /\ OnTop("backups")
  /\ Update({"backups"}, {})
  /\ UNCHANGED <<role, shown, info, subject, sidebar, changes>>

Refresh(l) ==
  /\ OnTop(l)
  /\ Update({l}, {})
  /\ UNCHANGED <<role, shown, info, subject, sidebar, changes>>

TypeText(l, empty) ==
  /\ OnTop(l)
  /\ typed' = IF empty THEN typed \ {l} ELSE typed \cup {l}
  /\ searching' = searching \cup {l}
  /\ UNCHANGED <<role, shown, info, subject, sidebar, timers, changes, late>>

\* search(): to look for nothing is to refresh.
Search(l) ==
  /\ OnTop(l)
  /\ IF l \in typed THEN UNCHANGED lists ELSE Update({l}, {})
  /\ UNCHANGED <<role, shown, info, subject, sidebar, changes>>

\* The timer of a list is started, whether the list has been left or not.
Belated(l) == late' = IF OnTop(l) THEN late \ {l} ELSE late \cup ({l} \ timers)

\* 200 ms after the last change, on whatever page the user is by then.
SearchTimeout(l) ==
  /\ l \in searching
  /\ searching' = searching \ {l}
  /\ IF l \in typed
     THEN UNCHANGED <<timers, late>>
     ELSE timers' = timers \cup {l} /\ Belated(l)
  /\ UNCHANGED <<role, shown, info, subject, sidebar, changes, typed>>

\* clearText: the search timer runs if there was a text.
ClearText(l) == typed' = typed \ {l} /\ searching' = searching \cup (typed \cap {l})

RefreshTimeout(l) ==
  /\ l \in timers
  /\ ClearText(l)
  /\ UNCHANGED <<role, shown, info, subject, sidebar, timers, changes, late>>

\* A backup is created, edited, resumed, exported or removed.
ChangeBackups ==
  /\ OnTop("backups") /\ changes < MaxChanges
  /\ changes' = changes + 1
  /\ UNCHANGED <<role, shown, info, subject, sidebar, lists>>

\* The replies: done, the page updates itself, whether it is shown or not.
BackupsChanged ==
  /\ changes > 0
  /\ changes' = changes - 1
  /\ \/ /\ timers' = timers \cup {"backups"} /\ Belated("backups")
        /\ ClearText("backups")
     \/ UNCHANGED lists
  /\ UNCHANGED <<role, shown, info, subject, sidebar>>

-----------------------------------------------------------------------------
(* The sidebar, the cells of the outline and the buttons with a badge.     *)

\* onItemClicked, of a page
ClickPage(p) ==
  /\ p \in PagesOf(role) /\ (p \in SubPages => ~folded)
  /\ marked' = {p} /\ title' = p /\ current' = p
  /\ ShowPage(p)
  /\ UNCHANGED folded

\* onItemClicked, of the group: its row is the current one then.
ClickGroup ==
  /\ folded' = ~folded
  /\ current' = Group
  /\ UNCHANGED <<role, shown, info, subject, marked, title, changes, lists>>

Unfolded(p) == folded /\ p \notin SubPages

MutUnmarked(unmarked, p) == (marked \ unmarked) \cup {p}

\* outlinePageChange unmarks every other item, whichever was unmarked before.
Unmarked(unmarked, p) == {p}

\* m_pageMap[str]
HasPage(p) == p \in PagesOf(role)

\* outlinePageChange
OutlinePageChange(p, unmarked) ==
  /\ HasPage(p)
  /\ title' = p /\ current' = p
  /\ marked' = Unmarked(unmarked, p)
  /\ folded' = Unfolded(p)
  /\ ShowPage(p)

\* outlineJumpPage, from a cell of the outline
OutlineJumpPage(p) ==
  shown = Home /\ p \in {"nodes", "containers", "images", "templates", "approval", "warnings"}
  /\ OutlinePageChange(p, {Home})

\* onApprovalPage, onWarningPage: from any page, the item of the current row
\* is unmarked, which may be the group.
JumpFromBadge(p) ==
  p \in {"approval", "warnings"} /\ OutlinePageChange(p, {Home, current})

Next ==
  \/ \E p \in Pages : ClickPage(p) \/ OutlineJumpPage(p) \/ JumpFromBadge(p)
  \/ ClickGroup \/ OpenInfo \/ ClickTab \/ ChangeBackups \/ BackupsChanged
  \/ \E l \in Timed :
       \/ Refresh(l) \/ Search(l) \/ SearchTimeout(l) \/ RefreshTimeout(l)
       \/ \E empty \in BOOLEAN : TypeText(l, empty)

Spec == Init /\ [][Next]_vars

-----------------------------------------------------------------------------

\* The item marked in the sidebar, the name above the page and the page are
\* one, whether it was reached from the sidebar, a cell of the outline or a
\* badge, and wherever the current row is (onItemClicked, outlinePageChange).
MarkedIsShown == marked = {shown} /\ title = shown

\* A list on the screen goes on refreshing itself, in whatever order lists,
\* info pages and others are visited: no exit meant for another page stops
\* it (changePage, onNodeNameClicked, onNameClicked).
ShownRefreshes == \A l \in Timed : OnTop(l) => l \in timers

\* Leaving a list stops its refresh ("stop the timed refresh of the list",
\* node-page-manager.cpp:51), wherever the user goes from it: the lists off the
\* screen whose timers run are those started again since they were left, by a
\* search line emptied just before (table-page.cpp:39) or by the reply to a
\* change of backups (container-backup-page.cpp:336).  These ask on, unseen,
\* until the next page is left.  The backups stop with the pages of containers.
LeftRests ==
  \A l \in timers \ late : OnTop(l) \/ (l = "backups" /\ shown = "containers")

\* A page of the group is only ever shown with the group unfolded.
ShownIsListed == [][shown' # shown /\ shown' \in SubPages => ~folded']_vars
=============================================================================
