------------------------------ MODULE ListPages ------------------------------
(***************************************************************************)
(* The list pages other than that of the containers: nodes, templates,     *)
(* virtual interfaces, images, images waiting for approval, backups of a   *)
(* container, applications of a container.  All are TablePages that list,  *)
(* change and remove items of the server through InfoWorker, whose calls   *)
(* answer in any order; each decides for itself whether it masks itself    *)
(* while it waits, when it reads the row of a click, what a reply does to  *)
(* its buttons, and which window a reply closes.  kind is the page of a    *)
(* behaviour; pages ignore the replies of others, but for the one of the   *)
(* applications.                                                           *)
(*                                                                         *)
(* The search line is that of ContainerList and is left empty here.        *)
(* Transfers of images and backups are in Transfer, the window that edits  *)
(* a template in Settings.                                                 *)
(***************************************************************************)
EXTENDS TablePage, FiniteSets

CONSTANTS
  Pages,     \* the kinds of page there are
  Calls,     \* slots for calls in flight
  Subjects,  \* nodes with interfaces, containers with backups or applications
  SubjectOf, \* the one an item belongs to
  Gui        \* the applications that run in a terminal of their own

ASSUME ItemsAssumption ==
  IsFiniteSet(Ids) /\ SubjectOf \in [Ids -> Subjects] /\ Gui \subseteq Ids

VARIABLES
  kind,          \* the page
  shown,         \* it is on the screen
  single,        \* the buttons that need no checked row are enabled
  refreshTimer,  \* m_timer is active
  busy,          \* the mask is visible
  subject,       \* m_nodeId, or m_containerId
  window,        \* the window or the question open over the page
  proc,          \* m_proc: the terminal of an application
  appRow,        \* m_runningAppRow; 0 before it is set
  calls,         \* the calls in flight
  present,       \* server: the items that exist
  crashed        \* a null pointer was followed, or a list read past its end

page   == <<kind, shown, single, refreshTimer, busy, subject>>
app    == <<proc, appRow>>
vars   == <<table, page, window, app, calls, present, crashed>>

-----------------------------------------------------------------------------
(* What the pages ask of the server.                                       *)

NodeOps     == {"list", "create", "update", "remove"}
TemplateOps == {"list", "remove"}
NetworkOps  == {"list", "create", "update", "remove"}
ImageOps    == {"list", "remove"}
ReviewOps   == {"list", "decide"}
BackupOps   == {"list", "create", "update", "remove", "resume"}
AppOps      == {"list", "create", "update", "remove", "run"}

OpsOf == [nodes |-> NodeOps, templates |-> TemplateOps, virt |-> NetworkOps,
          images |-> ImageOps, review |-> ReviewOps, backups |-> BackupOps,
          apps |-> AppOps]
Kinds == DOMAIN OpsOf

ASSUME PagesAssumption == Pages \subseteq Kinds
Ops   == {"none"} \cup UNION {OpsOf[k] : k \in Kinds}

(* What their buttons and the actions of their rows offer.  removeRow reads   *)
(* the row before the question, removeLate after it; removeNow asks nothing.  *)

NodesOffer     == {"create", "remove", "edit"}
TemplatesOffer == {"remove", "removeRow"}
NetworkOffer   == {"create", "removeNow", "removeLate", "edit"}
ImagesOffer    == {"remove"}
ReviewOffer    == {"decide"}
BackupsOffer   == {"create", "remove", "removeRow", "edit", "resume"}
AppsOffer      == {"create", "remove", "removeLate", "edit", "run"}

Offered == [nodes |-> NodesOffer, templates |-> TemplatesOffer, virt |-> NetworkOffer,
            images |-> ImagesOffer, review |-> ReviewOffer, backups |-> BackupsOffer,
            apps |-> AppsOffer]
Offers(operation) == operation \in Offered[kind]

Masks     == {"nodes", "templates", "images", "review", "backups"} \* call setBusy
Timed     == {"nodes", "backups"}                   \* list every 60 s
OfSubject == {"virt", "backups", "apps"}            \* list the items of one subject
Single    == {"virt", "images", "review", "backups"} \* setTableSingleChoose
Forms     == {"create", "edit"}

\* ids: the items that a removal, a decision or a resumption is about.  asked:
\* those the user was asked about before.  mine: objId is that of the page
\* on the screen.
Call == [op : Ops, ids : SUBSET Ids, asked : SUBSET Ids, subject : Subjects,
         mine : BOOLEAN, stage : {"free", "sent", "ok", "denied", "failed"},
         list : Seq(Listing)]
NoCall == [op |-> "none", ids |-> {}, asked |-> {}, subject |-> CHOOSE s \in Subjects : TRUE,
           mine |-> FALSE, stage |-> "free", list |-> <<>>]
NewCall(op, ids, asked) ==
  [op |-> op, ids |-> ids, asked |-> asked, subject |-> subject,
   mine |-> TRUE, stage |-> "sent", list |-> <<>>]

Window   == [is : {"none", "create", "edit", "remove", "removeRow", "resume"},
             ids : SUBSET Ids, row : Nat]
NoWindow == [is |-> "none", ids |-> {}, row |-> 0]
Show(is, ids, row) == window' = [is |-> is, ids |-> ids, row |-> row]

WellFormed(call) ==
  /\ call.op = "none" <=> call.stage = "free"
  /\ call.op \in OpsOf[kind] \cup {"none"}
  /\ call.list # <<>> => call.op = "list" /\ call.stage = "ok"

TypeOK ==
  /\ TableTypeOK
  /\ kind \in Pages /\ shown \in BOOLEAN /\ single \in BOOLEAN
  /\ refreshTimer \in BOOLEAN /\ busy \in BOOLEAN /\ subject \in Subjects
  /\ window \in Window
  /\ proc \in {"off", "starting", "on"} /\ appRow \in Nat
  /\ calls \in [Calls -> Call] /\ \A c \in Calls : WellFormed(calls[c])
  /\ present \subseteq Ids
  /\ crashed \in BOOLEAN

\* setHeaderCheckable(false) of the pages that choose one row.
Fresh ==
  /\ rows = <<>>
  /\ box = FALSE /\ headCheckable = FALSE /\ boxShown = (kind \notin Single)
  /\ batch = FALSE /\ delete = FALSE
  /\ text = NoText /\ searchTimer = FALSE

Init ==
  /\ kind \in Pages /\ Fresh
  /\ shown = FALSE /\ single = FALSE /\ refreshTimer = FALSE /\ busy = FALSE
  /\ subject \in Subjects /\ (kind \notin OfSubject => subject = NoCall.subject)
  /\ window = NoWindow /\ proc = "off" /\ appRow = 0
  /\ calls = [c \in Calls |-> NoCall]
  /\ present \in SUBSET Ids
  /\ crashed = FALSE

-----------------------------------------------------------------------------
(* Calls.                                                                  *)

Begin(c, op, ids, asked) ==
  /\ calls[c] = NoCall
  /\ calls' = [calls EXCEPT ![c] = NewCall(op, ids, asked)]

\* A slot that asks for a listing: in the place of the call it ends.
Again(c, s) == calls' = [calls EXCEPT ![c] = [NewCall("list", {}, {}) EXCEPT !.subject = s]]
Drop(c)  == calls' = [calls EXCEPT ![c] = NoCall]

Mask == busy' = (busy \/ kind \in Masks)

MutUpdating ==
  /\ Mask /\ UNCHANGED refreshTimer
  /\ IF kind \in {"nodes", "virt", "apps"} THEN UNCHANGED marks ELSE ClearCheckState
\* What updateInfo does besides the call: the mask, the timer, the boxes.
Updating ==
  /\ Mask
  /\ refreshTimer' = (refreshTimer \/ kind \in Timed)
  /\ IF kind \in {"nodes", "virt", "apps"} THEN UNCHANGED marks ELSE ClearCheckState

NodesUpdateInfo(c)     == kind = "nodes" /\ Begin(c, "list", {}, {}) /\ Updating
TemplatesUpdateInfo(c) == kind = "templates" /\ Begin(c, "list", {}, {}) /\ Updating
NetworkUpdateInfo(c)   == kind = "virt" /\ Begin(c, "list", {}, {}) /\ Updating
ImagesUpdateInfo(c)    == kind \in {"images", "review"} /\ Begin(c, "list", {}, {}) /\ Updating
BackupsUpdateInfo(c)   == kind = "backups" /\ Begin(c, "list", {}, {}) /\ Updating
AppsUpdateInfo(c)      == kind = "apps" /\ Begin(c, "list", {}, {}) /\ Updating

UpdateInfo(c) ==
  \/ NodesUpdateInfo(c) \/ TemplatesUpdateInfo(c) \/ NetworkUpdateInfo(c)
  \/ ImagesUpdateInfo(c) \/ BackupsUpdateInfo(c) \/ AppsUpdateInfo(c)

-----------------------------------------------------------------------------
(* The user.  Windows are modal, but the form of an application.           *)

Free     == ~crashed /\ (window = NoWindow \/ (kind = "apps" /\ window.is \in Forms))
CanClick == shown /\ ~busy /\ Free

\* The page is chosen, maybe again, or for another node or container.
Enter(c, s) ==
  /\ kind # "apps" /\ Free
  /\ subject' = IF kind \in OfSubject THEN s ELSE subject
  /\ calls[c] = NoCall /\ Again(c, subject')
  /\ Updating
  /\ shown' = TRUE
  /\ UNCHANGED <<text, searchTimer, kind, single, window, app, present, crashed>>

\* ContainerAppDialog: a new page, with an objId of its own.
OpenApps(c, s) ==
  /\ kind = "apps" /\ ~shown /\ ~crashed
  /\ subject' = s /\ shown' = TRUE /\ single' = FALSE
  /\ calls[c] = NoCall
  /\ calls' = [d \in Calls |-> IF d = c THEN [NewCall("list", {}, {}) EXCEPT !.subject = s]
                               ELSE [calls[d] EXCEPT !.mine = FALSE]]
  /\ rows' = <<>> /\ box' = FALSE /\ headCheckable' = FALSE /\ boxShown' = TRUE
  /\ batch' = FALSE /\ delete' = FALSE
  /\ proc' = "off" /\ appRow' = 0
  /\ UNCHANGED <<text, searchTimer, kind, refreshTimer, busy, window, present, crashed>>

\* updateInfo("exitTimedRefresh").
Leave ==
  /\ kind # "apps" /\ Free
  /\ shown' = FALSE /\ refreshTimer' = FALSE
  /\ IF kind \in {"virt", "backups"} THEN UNCHANGED marks ELSE ClearCheckState
  /\ UNCHANGED <<text, searchTimer, kind, single, busy, subject, window, app, calls, present, crashed>>

\* The dialog of the applications is closed, with its form and its terminal.
CloseApps ==
  /\ kind = "apps" /\ shown /\ Free
  /\ shown' = FALSE /\ window' = NoWindow /\ proc' = "off"
  /\ UNCHANGED <<table, kind, single, refreshTimer, busy, subject, appRow, calls, present, crashed>>

MutChooseRow(i) == CheckRow(i)
\* onItemChecked where one row at most is chosen: checking a row unchecks
\* the others, each of which runs the slot again.
ChooseRow(i) ==
  /\ rows' = [j \in DOMAIN rows |->
       [rows[j] EXCEPT !.checked = IF j = i THEN ~@ ELSE @ /\ rows[i].checked]]
  /\ Recount
  /\ UNCHANGED <<headCheckable, boxShown, text, searchTimer>>

ClickBox(i) ==
  /\ CanClick
  /\ IF kind \in Single THEN ChooseRow(i) ELSE CheckRow(i)
  /\ UNCHANGED <<page, window, app, calls, present, crashed>>

\* onHeaderCkbTog asks the container's status only: of applications Delete
\* follows onItemChecked, which runs for each row.
ClickHeader ==
  /\ CanClick /\ boxShown
  /\ rows' = [i \in DOMAIN rows |-> [rows[i] EXCEPT !.checked = ~box]]
  /\ batch' = ~box /\ box' = ~box
  /\ delete' = (~box /\ ~HasRunning(rows'))
  /\ UNCHANGED <<headCheckable, boxShown, text, searchTimer, page, window, app, calls, present, crashed>>

\* The refresh button, or Return in the empty search line.
Refresh(c) ==
  /\ CanClick /\ kind # "apps"
  /\ UpdateInfo(c)
  /\ UNCHANGED <<text, searchTimer, kind, shown, single, subject, window, app, present, crashed>>

CheckedIds == {rows[i].id : i \in Checked(rows)}

\* if (!ids.empty())
Named(ids) == ids # {}

\* onRemoveNode, onRemoveTemplate, onBtnRemove, onRemoveBackupBtn, onDelete of
\* the batch button: what is checked is read, then the question asked.
AskRemove ==
  /\ CanClick /\ Offers("remove") /\ delete /\ Named(CheckedIds)
  /\ window.is = "none"
  /\ Show("remove", CheckedIds, 0)
  /\ UNCHANGED <<table, page, app, calls, present, crashed>>

\* The action of a row: templates and backups read the row before the
\* question, interfaces and applications after it.
AskRemoveRow(i) ==
  /\ CanClick /\ window.is = "none"
  /\ \/ Offers("removeRow") /\ Show("remove", {rows[i].id}, 0)
     \/ Offers("removeLate") /\ Show("removeRow", {rows[i].id}, i)
  /\ UNCHANGED <<table, page, app, calls, present, crashed>>

AskResume(i) ==
  /\ CanClick /\ Offers("resume") /\ Show("resume", {rows[i].id}, 0)
  /\ UNCHANGED <<table, page, app, calls, present, crashed>>

\* onRemoveVirtIfs: no question, and no look at whether a row is checked.
RemoveVirtIfs(c) ==
  /\ CanClick /\ Offers("removeNow") /\ batch
  /\ IF CheckedIds = {} THEN crashed' = TRUE /\ UNCHANGED calls
     ELSE Begin(c, "remove", CheckedIds, CheckedIds) /\ UNCHANGED crashed
  /\ UNCHANGED <<table, page, window, app, present>>

\* onBtnPass, onBtnRefuse and the actions of a row: the decision, then at
\* once a listing.
Decide(c, d, i) ==
  /\ CanClick /\ Offers("decide") /\ c # d
  /\ calls[c] = NoCall /\ calls[d] = NoCall
  /\ calls' = [calls EXCEPT ![c] = NewCall("decide", {rows[i].id}, {rows[i].id}),
                            ![d] = NewCall("list", {}, {})]
  /\ Updating
  /\ UNCHANGED <<text, searchTimer, kind, shown, single, subject, window, app, present, crashed>>

MutAnswerYes(c) ==
  /\ window.is \in {"remove", "resume"}
  /\ Begin(c, window.is, IF window.is = "remove" THEN CheckedIds ELSE window.ids, window.ids)
  /\ UNCHANGED crashed
\* The answer is yes.
AnswerYes(c) ==
  /\ window.is \in {"remove", "resume"}
  /\ Begin(c, window.is, window.ids, window.ids)
  /\ UNCHANGED crashed

\* removeVirtIfs, onDelete(row): the row as it is by now.
AnswerYesRow(c) ==
  /\ window.is = "removeRow"
  /\ IF window.row \in DOMAIN rows
     THEN Begin(c, "remove", {rows[window.row].id}, window.ids) /\ UNCHANGED crashed
     ELSE crashed' = TRUE /\ UNCHANGED calls

Confirm(c) ==
  /\ ~crashed
  /\ AnswerYes(c) \/ AnswerYesRow(c)
  /\ window' = NoWindow
  /\ UNCHANGED <<table, page, app, present>>

\* The answer is no, or the window is closed.
CloseWindow ==
  /\ window # NoWindow /\ ~crashed
  /\ window' = NoWindow
  /\ UNCHANGED <<table, page, app, calls, present, crashed>>

\* onCreateNode, onCreateVirtIfs, onCreateBackupBtn, onCreate.  A form that is
\* there is shown again.
OpenCreate ==
  /\ CanClick /\ single /\ Offers("create")
  /\ IF window.is = "none" THEN Show("create", {}, 0) ELSE UNCHANGED window
  /\ UNCHANGED <<table, page, app, calls, present, crashed>>

\* onEdit, onEditVirtIfs, onUpdateBackup; an application that runs is refused.
OpenEdit(i) ==
  /\ CanClick /\ Offers("edit") /\ ~rows[i].running
  /\ IF window.is = "none" THEN Show("edit", {}, 0) ELSE UNCHANGED window
  /\ UNCHANGED <<table, page, app, calls, present, crashed>>

\* What the form asks for; an empty name is refused by the form itself.
Saved == IF window.is = "create" THEN "create" ELSE "update"

\* The forms of a node, a backup and an application wait for the reply, that
\* of an interface closes at once.
SaveNode(c)    == kind = "nodes" /\ Begin(c, Saved, {}, {}) /\ UNCHANGED window
SaveBackup(c)  == kind = "backups" /\ Begin(c, Saved, {}, {}) /\ UNCHANGED window
SaveApp(c)     == kind = "apps" /\ Begin(c, Saved, {}, {}) /\ UNCHANGED window
SaveNetwork(c) == kind = "virt" /\ Begin(c, Saved, {}, {}) /\ window' = NoWindow

Save(c) ==
  /\ ~crashed /\ window.is \in Forms
  /\ SaveNode(c) \/ SaveBackup(c) \/ SaveApp(c) \/ SaveNetwork(c)
  /\ UNCHANGED <<table, page, app, present, crashed>>

\* sigUpdateTemplate: ContainerSetting has saved a template.
TemplateUpdated(c) ==
  /\ Free /\ kind = "templates"
  /\ Begin(c, "list", {}, {}) /\ Mask
  /\ UNCHANGED <<table, kind, shown, single, refreshTimer, subject, window, app, present, crashed>>

-----------------------------------------------------------------------------
(* Running applications.                                                   *)

\* onRun of an application with a window: not if it runs, nor if the terminal
\* does; while the terminal starts only m_runningAppRow changes.
RunGui(i) ==
  /\ CanClick /\ Offers("run") /\ rows[i].id \in Gui
  /\ ~rows[i].running /\ proc # "on"
  /\ appRow' = i
  /\ proc' = "starting"
  /\ UNCHANGED <<table, page, window, calls, present, crashed>>

\* onRun, onStop of an application without one.
RunApp(c, i) ==
  /\ CanClick /\ Offers("run") /\ rows[i].id \notin Gui
  /\ Begin(c, "run", {}, {})
  /\ UNCHANGED <<table, page, window, app, present, crashed>>

\* guiAppStatus: the row of the click, whatever it shows by now.
GuiAppStatus(running) ==
  IF appRow \in DOMAIN rows
  THEN /\ rows' = [rows EXCEPT ![appRow].running = running]
       /\ UNCHANGED <<box, headCheckable, boxShown, batch, delete, crashed>>
  ELSE crashed' = TRUE /\ UNCHANGED marks

\* The terminal comes up, or ends, by itself or by onStop.
ProcChanged ==
  /\ kind = "apps" /\ shown /\ ~crashed
  /\ \/ proc = "starting" /\ proc' = "on"
     \/ proc # "off" /\ proc' = "off"
  /\ GuiAppStatus(proc' = "on")
  /\ UNCHANGED <<text, searchTimer, page, window, appRow, calls, present>>

-----------------------------------------------------------------------------
(* The refresh timer, which also fires inside a modal window.              *)

RefreshTimeout(c) ==
  /\ refreshTimer /\ ~crashed
  /\ UpdateInfo(c)
  /\ UNCHANGED <<text, searchTimer, kind, shown, single, subject, window, app, present, crashed>>

-----------------------------------------------------------------------------
(* The server.                                                             *)

Answered(c, stage, list) ==
  calls' = [calls EXCEPT ![c].stage = stage, ![c].list = list]

Remove(S) == present' = present \ S

Listings(S) ==
  {l \in [1..Cardinality(S) -> Listing] :
     /\ \A k \in S : \E i \in DOMAIN l : l[i].id = k
     /\ \A i \in DOMAIN l : l[i].running => kind = "apps" /\ l[i].id \notin Gui}

Listed(s) == IF kind \in OfSubject THEN {k \in present : SubjectOf[k] = s} ELSE present

ServeList(c) ==
  /\ calls[c].op = "list" /\ calls[c].stage = "sent"
  /\ \E l \in Listings(Listed(calls[c].subject)) : Answered(c, "ok", l)
  /\ UNCHANGED <<table, page, window, app, present, crashed>>

ServeOperation(c) ==
  /\ calls[c].op # "list" /\ calls[c].stage = "sent"
  /\ IF calls[c].op \in {"remove", "decide"} THEN Remove(calls[c].ids) ELSE UNCHANGED present
  /\ Answered(c, "ok", <<>>)
  /\ UNCHANGED <<table, page, window, app, crashed>>

\* Refused, or failed when some of it was done, or not answered in time.  Only
\* the slots of listings tell a refusal (ErrPermissionDenied) from the others.
Fail(c) ==
  /\ calls[c].stage = "sent"
  /\ \E stage \in {"denied", "failed"} :
       /\ stage = "denied" => calls[c].op = "list"
       /\ Answered(c, stage, <<>>)
  /\ \/ UNCHANGED present
     \/ calls[c].op \in {"remove", "decide"} /\ Remove(calls[c].ids)
  /\ UNCHANGED <<table, page, window, app, crashed>>

Others ==
  /\ \E k \in Ids : present' \in {present \ {k}, present \cup {k}}
  /\ UNCHANGED <<table, page, window, app, calls, crashed>>

-----------------------------------------------------------------------------
(* The slots of the listings.                                              *)

Answer(c)  == ~crashed /\ calls[c].mine /\ calls[c].stage \in {"ok", "denied", "failed"}
Back(c)    == Answer(c) /\ calls[c].op = "list"
Ok(c)      == calls[c].stage = "ok"
Tolerated(c) == calls[c].stage \in {"ok", "denied"}

MutUnmask == busy' \in {busy, FALSE}
Unmask == busy' = FALSE

RowsOf(list) == [i \in DOMAIN list |-> [id |-> list[i].id, running |-> list[i].running,
                                        checked |-> FALSE, hidden |-> FALSE]]

\* Each check box that is put into the table runs onItemChecked; without rows
\* the buttons stay as they are.
Fill(list) ==
  /\ rows' = RowsOf(list)
  /\ IF list = <<>> THEN UNCHANGED <<batch, delete, box>>
     ELSE batch' = FALSE /\ delete' = FALSE /\ box' = FALSE
  /\ UNCHANGED <<headCheckable, boxShown, text, searchTimer>>

\* getListResult of the nodes
NodesListed(c) ==
  /\ kind = "nodes" /\ Back(c)
  /\ Unmask /\ Refill(calls[c].list) /\ single' = Tolerated(c)

\* getListTemplateFinishResult
TemplatesListed(c) ==
  /\ kind = "templates" /\ Back(c)
  /\ Unmask /\ Refill(calls[c].list) /\ single' = Tolerated(c)

\* getListResult of the interfaces: a failure leaves the table.
NetworkListed(c) ==
  /\ kind = "virt" /\ Back(c)
  /\ single' = Ok(c)
  /\ IF Ok(c) THEN Fill(calls[c].list) ELSE UNCHANGED table
  /\ UNCHANGED busy

\* getListDBResult: what setDelRow names is left out; the buttons go off when
\* it was all there was.
ImagesListed(c) ==
  /\ kind \in {"images", "review"} /\ Back(c)
  /\ Unmask
  /\ rows' = RowsOf(calls[c].list) /\ DisableBatch
  /\ box' = (box /\ calls[c].list = <<>>)
  /\ \/ single' = Ok(c)
     \/ kind = "review" /\ calls[c].list = <<>> /\ single' = FALSE
  /\ UNCHANGED <<headCheckable, boxShown, text, searchTimer>>

\* getListBackupFinished
BackupsListed(c) ==
  /\ kind = "backups" /\ Back(c)
  /\ Unmask /\ Fill(calls[c].list) /\ single' = Tolerated(c)

\* getListAppEntryFinished: its own failures change the buttons only.
AppsListed(c) ==
  /\ kind = "apps" /\ shown /\ Back(c)
  /\ Unmask
  /\ IF Ok(c) THEN Refill(calls[c].list) /\ single' = TRUE
     ELSE DisableBatch /\ UNCHANGED <<rows, box, headCheckable, boxShown, text, searchTimer, single>>

\* The else of getListAppEntryFinished: the listing of a dialog that was
\* closed empties the table of the next.
AppsListedForAnother(c) ==
  /\ kind = "apps" /\ shown /\ ~crashed
  /\ ~calls[c].mine /\ calls[c].op = "list" /\ calls[c].stage \in {"ok", "denied", "failed"}
  /\ single' = (calls[c].stage = "denied")
  /\ rows' = <<>> /\ headCheckable' = FALSE /\ boxShown' = FALSE
  /\ UNCHANGED <<box, batch, delete, text, searchTimer, busy>>

HandleList(c) ==
  /\ \/ NodesListed(c) \/ TemplatesListed(c) \/ NetworkListed(c) \/ ImagesListed(c)
     \/ BackupsListed(c) \/ AppsListed(c) \/ AppsListedForAnother(c)
  /\ Drop(c)
  /\ UNCHANGED <<kind, shown, refreshTimer, subject, window, app, present, crashed>>

-----------------------------------------------------------------------------
(* The slots of the operations.                                            *)

MutCloses(c, is) == IF window.is = is THEN window' = NoWindow /\ UNCHANGED crashed
                    ELSE crashed' = TRUE /\ UNCHANGED window
\* if (m_nodeAddition) m_nodeAddition->close(): the form on the screen, be it
\* that of the reply or a later one.
Closes(c, is) ==
  /\ window' = IF window.is = is THEN NoWindow ELSE window
  /\ UNCHANGED crashed

\* getCreateResult, getUpdateResult, getRemoveResult of the nodes, ok
NodesChanged(c) ==
  /\ kind = "nodes" /\ Again(c, subject) /\ Mask
  /\ \/ calls[c].op = "create" /\ Closes(c, "create")
     \/ calls[c].op = "update" /\ Closes(c, "edit")
     \/ calls[c].op = "remove" /\ UNCHANGED <<window, crashed>>
  /\ UNCHANGED <<table, refreshTimer, subject>>

\* getRemoveTemplateFinishResult
TemplatesChanged(c) ==
  /\ kind = "templates" /\ Again(c, subject) /\ Mask
  /\ UNCHANGED <<table, refreshTimer, subject, window, crashed>>

\* getCreateResult, getRemoveResult, getUpdateResult of the interfaces
NetworkChanged(c) ==
  /\ kind = "virt" /\ Again(c, subject)
  /\ UNCHANGED <<table, busy, refreshTimer, subject, window, crashed>>

\* getRemoveResult of the images; getCheckResult, whose two listings are one
\* here, and which lists after a failure too.
ImagesChanged(c) ==
  /\ kind \in {"images", "review"} /\ Again(c, subject) /\ Mask
  /\ UNCHANGED <<table, refreshTimer, subject, window, crashed>>

\* getResumeBackupFinished takes the container of the reply; the others that
\* of the page.
Resumed(c) == IF calls[c].op = "resume" THEN calls[c].subject ELSE subject
BackupsChanged(c) ==
  /\ kind = "backups" /\ Again(c, Resumed(c)) /\ Updating
  /\ subject' = Resumed(c)
  /\ \/ calls[c].op = "create" /\ Closes(c, "create")
     \/ calls[c].op = "update" /\ Closes(c, "edit")
     \/ calls[c].op \in {"remove", "resume"} /\ UNCHANGED <<window, crashed>>
  /\ UNCHANGED <<text, searchTimer>>

\* getAddAppEntryFinished, getUpdateAppEntryFinished close the form without a
\* look; the others list.
AppsChanged(c) ==
  /\ kind = "apps" /\ shown /\ Again(c, subject)
  /\ IF calls[c].op \in {"create", "update"}
     THEN /\ window' = IF window.is \in Forms THEN NoWindow ELSE window
          /\ crashed' = (window.is \notin Forms)
     ELSE UNCHANGED <<window, crashed>>
  /\ UNCHANGED <<table, busy, refreshTimer, subject>>

HandleOk(c) ==
  /\ Answer(c) /\ calls[c].op # "list"
  /\ Ok(c) \/ calls[c].op = "decide"
  /\ \/ NodesChanged(c) \/ TemplatesChanged(c) \/ NetworkChanged(c)
     \/ ImagesChanged(c) \/ BackupsChanged(c) \/ AppsChanged(c)
  /\ UNCHANGED <<kind, shown, single, app, present>>

HandleFailed(c) ==
  /\ Answer(c) /\ calls[c].op \notin {"list", "decide"} /\ ~Ok(c)
  /\ kind = "apps" => shown
  /\ Drop(c)
  /\ UNCHANGED <<table, page, window, app, present, crashed>>

\* A reply for an operation of a dialog that was closed.
Ignore(c) ==
  /\ kind = "apps" /\ calls[c].stage \in {"ok", "denied", "failed"}
  /\ ~shown \/ (~calls[c].mine /\ calls[c].op # "list")
  /\ Drop(c)
  /\ UNCHANGED <<table, page, window, app, present, crashed>>

-----------------------------------------------------------------------------
RowStep(i) ==
  \/ ClickBox(i) \/ AskRemoveRow(i) \/ AskResume(i) \/ OpenEdit(i) \/ RunGui(i)
  \/ \E c \in Calls : RunApp(c, i) \/ \E d \in Calls : Decide(c, d, i)

UserStep ==
  \/ \E i \in DOMAIN rows : RowStep(i)
  \/ \E c \in Calls :
       \/ \E s \in Subjects : Enter(c, s) \/ OpenApps(c, s)
       \/ Refresh(c) \/ RemoveVirtIfs(c) \/ Confirm(c) \/ Save(c) \/ TemplateUpdated(c)
  \/ Leave \/ CloseApps \/ ClickHeader \/ AskRemove \/ CloseWindow \/ OpenCreate

ServerStep(c) == ServeList(c) \/ ServeOperation(c) \/ Fail(c)
SlotStep(c)   == HandleList(c) \/ HandleOk(c) \/ HandleFailed(c) \/ Ignore(c)

Next ==
  \/ UserStep \/ Others \/ ProcChanged
  \/ \E c \in Calls : ServerStep(c) \/ SlotStep(c) \/ RefreshTimeout(c)

Spec == Init /\ [][Next]_vars

\* Calls have a deadline, the event loop delivers replies and timers; the
\* timer waits for a free slot only because the slots are bounded.
FairSpec ==
  /\ Spec
  /\ \A c \in Calls : WF_vars(ServerStep(c)) /\ WF_vars(SlotStep(c))
  /\ SF_vars(\E c \in Calls : RefreshTimeout(c))

-----------------------------------------------------------------------------
(* Properties.                                                             *)

\* The batch buttons are enabled only while a row is checked, but on the pages
\* whose reply does not disable them: when the last interface or backup is
\* removed Remove stays enabled over an empty table (network-list-page.cpp:137,
\* container-backup-page.cpp:268), and the listing of another dialog empties
\* the applications (container-app-page.cpp:307).
BatchHasRows == batch /\ kind \notin {"virt", "backups", "apps"} => Checked(rows) # {}

\* Where one row at most may be chosen no more are checked, and the operation
\* on "the" chosen row means it (table-page.cpp:769, image-list-page.cpp:231).
OneChosen == kind \in Single => Cardinality(Checked(rows)) <= 1

\* A removal names the items the user was asked about, though the table is
\* refilled while the question is open; but interfaces and applications are
\* read after it (network-list-page.cpp:69, container-app-page.cpp:200).
RemovesAsked == \A c \in Calls :
  calls[c].op \in {"remove", "resume"} /\ kind \notin {"virt", "apps"} =>
    calls[c].ids = calls[c].asked

\* No removal goes out without an item: an enabled button over an empty table
\* does nothing (container-backup-page.cpp:117, container-app-page.cpp:175).
RemovalNamesItems == \A c \in Calls : calls[c].op = "remove" => calls[c].ids # {}

\* No late reply and no order of clicks makes a page follow a null pointer or
\* read past a list: the forms are looked at before they are closed.  The
\* pages of interfaces and of applications do not look
\* (network-list-page.cpp:60, container-app-page.cpp:343).
Survives == crashed => kind \in {"virt", "apps"}

\* The page keeps the promise of Mask: the mask goes up with a listing only,
\* and comes down with the reply of one (node-list-page.cpp:180, page.cpp:33).
Masked == INSTANCE Mask WITH waiting <- {c \in Calls : calls[c].op = "list"}
MaskSpec == Masked!Spec

\* The mask goes away (page.cpp:33).
MaskLifts == busy ~> ~busy

\* The backups of another container, brought by a reply that was overtaken,
\* leave the page (container-backup-page.cpp:54).
BackupsSettle ==
  \A s \in Subjects :
    (kind = "backups" /\ shown /\ subject = s /\ \E i \in DOMAIN rows : SubjectOf[rows[i].id] # s)
      ~> (~shown \/ subject # s \/ \A i \in DOMAIN rows : SubjectOf[rows[i].id] = s)
=============================================================================
