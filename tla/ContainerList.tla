---------------------------- MODULE ContainerList ----------------------------
(***************************************************************************)
(* ContainerListPage: the table of containers, its refresh timer, the mask *)
(* over the page while a call runs, the batch operations, and the calls of *)
(* InfoWorker that answer in any order.  The server is external: it knows  *)
(* which containers exist; whether one runs may change at any time, so a   *)
(* listing says what it likes about that.                                  *)
(*                                                                         *)
(* The create menu, the windows of one container and the message boxes of  *)
(* failed operations are left out.                                         *)
(***************************************************************************)
EXTENDS TablePage, FiniteSets

CONSTANT Calls  \* slots for calls in flight

ASSUME IdsAssumption == IsFiniteSet(Ids)

VARIABLES
  shown,         \* the page is the one on the screen
  refreshTimer,  \* m_timer is active
  busy,          \* the mask is visible
  confirm,       \* the containers the open question of Delete is about
  calls,         \* the calls in flight
  present,       \* server: the containers that exist
  gone           \* server: those that were removed

page   == <<shown, refreshTimer, busy, confirm>>
server == <<present, gone>>
vars   == <<table, page, calls, server>>

Call   == [op : {"none", "list", "operate", "remove"}, ids : SUBSET Ids,
           stage : {"free", "sent", "ok", "failed"}, list : Seq(Listing)]
NoCall == [op |-> "none", ids |-> {}, stage |-> "free", list |-> <<>>]
NewCall(op, ids) == [op |-> op, ids |-> ids, stage |-> "sent", list |-> <<>>]

\* A free slot holds nothing of the call that left it; only a listing that
\* came back carries rows, only a removal carries containers.
WellFormed(call) ==
  /\ call.op = "none" <=> call.stage = "free"
  /\ call.list # <<>> => call.op = "list" /\ call.stage = "ok"
  /\ call.ids # {} => call.op = "remove"

TypeOK ==
  /\ TableTypeOK
  /\ shown \in BOOLEAN /\ refreshTimer \in BOOLEAN /\ busy \in BOOLEAN
  /\ confirm \subseteq Ids
  /\ calls \in [Calls -> Call] /\ \A c \in Calls : WellFormed(calls[c])
  /\ present \subseteq Ids /\ gone \subseteq Ids

Init ==
  /\ TableInit
  /\ shown = FALSE /\ refreshTimer = FALSE /\ busy = FALSE
  /\ confirm = {}
  /\ calls = [c \in Calls |-> NoCall]
  /\ present \in SUBSET Ids /\ gone = {}

-----------------------------------------------------------------------------
(* The calls.                                                              *)

Begin(c, op, ids) ==
  /\ calls[c] = NoCall
  /\ calls' = [calls EXCEPT ![c] = NewCall(op, ids)]
  /\ busy' = TRUE

\* getContainerList
GetContainerList(c) == Begin(c, "list", {})

MutTimedRefresh == UNCHANGED refreshTimer
\* timedRefresh(true)
TimedRefresh == refreshTimer' = TRUE

\* updateInfo without a keyword, its clearText apart.
UpdateInfo(c) == GetContainerList(c) /\ TimedRefresh

\* updateInfo("exitTimedRefresh")
ExitTimedRefresh == refreshTimer' = FALSE /\ ClearCheckState

-----------------------------------------------------------------------------
(* The user.  The question of Delete is modal; the mask takes the mouse    *)
(* from the page, not from the menu beside it nor the keyboard.            *)

NoDialog == confirm = {}
CanClick == shown /\ ~busy /\ NoDialog

\* The page is chosen, maybe again.
Enter(c) ==
  /\ NoDialog
  /\ UpdateInfo(c) /\ Write(NoText)
  /\ shown' = TRUE
  /\ UNCHANGED <<marks, confirm, server>>

\* Another page is chosen, or the page of one container is opened.
Leave ==
  /\ NoDialog
  /\ ExitTimedRefresh
  /\ shown' = FALSE
  /\ UNCHANGED <<text, searchTimer, busy, confirm, calls, server>>

TypeText(t) ==
  /\ shown /\ NoDialog /\ t # text
  /\ Write(t)
  /\ UNCHANGED <<marks, page, calls, server>>

ClickBox(i) ==
  /\ CanClick /\ ~rows[i].hidden
  /\ CheckRow(i)
  /\ UNCHANGED <<page, calls, server>>

ClickHeader ==
  /\ CanClick /\ boxShown
  /\ CheckAll(~box)
  /\ UNCHANGED <<text, searchTimer, page, calls, server>>

\* The refresh button.
Refresh(c) ==
  /\ CanClick
  /\ UpdateInfo(c) /\ Write(NoText)
  /\ UNCHANGED <<marks, shown, confirm, server>>

\* A click on the header of a sortable column; the rows keep their boxes, and
\* stay hidden if they were.
Sort ==
  /\ CanClick
  /\ Reorder
  /\ UNCHANGED <<text, searchTimer, page, calls, server>>

\* search(): updateInfo when the line is empty.
Search(c) ==
  \/ text = NoText /\ UpdateInfo(c) /\ UNCHANGED <<marks, shown, confirm, server>>
  \/ text # NoText /\ Filter /\ UNCHANGED <<page, calls, server>>

\* The search button, or Return.
SearchNow(c) == CanClick /\ Search(c) /\ UNCHANGED <<text, searchTimer>>

CheckedIds == {rows[i].id : i \in Checked(rows)}

\* onBtnRun, onBtnStop, onBtnRestart, for the checked rows or, from the menu
\* of a row, for that row.
Operate(c) ==
  /\ CanClick
  /\ rows # <<>>
  /\ Begin(c, "operate", {})
  /\ UNCHANGED <<table, shown, refreshTimer, confirm, server>>

\* onBtnDelete: the containers are those checked now, whatever the table
\* shows by the time of the answer.
AskRemove ==
  /\ CanClick /\ delete /\ CheckedIds # {}
  /\ confirm' = CheckedIds
  /\ UNCHANGED <<table, shown, refreshTimer, busy, calls, server>>

ConfirmRemove(c) ==
  /\ confirm # {} /\ confirm' = {}
  /\ Begin(c, "remove", confirm)
  /\ UNCHANGED <<table, shown, refreshTimer, server>>

KeepContainers ==
  /\ confirm # {} /\ confirm' = {}
  /\ UNCHANGED <<table, shown, refreshTimer, busy, calls, server>>

\* ContainerSetting, a window of its own, has created or changed a container.
ContainerUpdated(c) ==
  /\ NoDialog
  /\ GetContainerList(c)
  /\ UNCHANGED <<table, shown, refreshTimer, confirm, server>>

-----------------------------------------------------------------------------
(* The timers of the page; they also fire inside a modal dialog.           *)

\* 200 ms after the last key, whichever page is on the screen by then.
SearchTimeout(c) ==
  /\ searchTimer /\ searchTimer' = FALSE
  /\ Search(c)
  /\ UNCHANGED text

\* Every 60 s.
RefreshTimeout(c) ==
  /\ refreshTimer
  /\ UpdateInfo(c) /\ Write(NoText)
  /\ UNCHANGED <<marks, shown, confirm, server>>

-----------------------------------------------------------------------------
(* The server, and the deadline of 8 s.                                    *)

Answered(c, stage, list) ==
  calls' = [calls EXCEPT ![c].stage = stage, ![c].list = list]

Remove(S) ==
  /\ present' = present \ S
  /\ gone' = gone \cup (S \cap present)

\* All containers of S, each once, in any order and any state.
Listings(S) == {l \in [1..Cardinality(S) -> Listing] : \A k \in S : \E i \in DOMAIN l : l[i].id = k}

ServeList(c) ==
  /\ calls[c].op = "list" /\ calls[c].stage = "sent"
  /\ \E l \in Listings(present) : Answered(c, "ok", l)
  /\ UNCHANGED <<table, page, server>>

ServeOperation(c) ==
  /\ calls[c].op \in {"operate", "remove"} /\ calls[c].stage = "sent"
  /\ Remove(calls[c].ids)
  /\ Answered(c, "ok", <<>>)
  /\ UNCHANGED <<table, page>>

\* The call is refused, or fails when some of it is done, or its answer is
\* lost.
Fail(c) ==
  /\ calls[c].stage = "sent"
  /\ \E S \in SUBSET calls[c].ids : Remove(S)
  /\ Answered(c, "failed", <<>>)
  /\ UNCHANGED <<table, page>>

\* Other administrators create and remove containers.
Others ==
  /\ \/ \E k \in present : Remove({k})
     \/ \E k \in Ids \ (present \cup gone) : present' = present \cup {k} /\ UNCHANGED gone
  /\ UNCHANGED <<table, page, calls>>

-----------------------------------------------------------------------------
(* The slots of the replies.                                               *)

\* The watcher of the call has finished.
Drop(c) == calls' = [calls EXCEPT ![c] = NoCall]

MutUnmask == UNCHANGED busy
\* setBusy(false), though other calls may be in flight.
Unmask == busy' = FALSE

\* getContainerListResult
HandleList(c) ==
  /\ calls[c].op = "list" /\ calls[c].stage \in {"ok", "failed"}
  /\ Unmask /\ Refill(calls[c].list) /\ Drop(c)
  /\ UNCHANGED <<shown, refreshTimer, confirm, server>>

\* getContainerStartResult and its like, ok: setBusy(false), then
\* getContainerList, here in the slot of the call that ends.
HandleOk(c) ==
  /\ calls[c].op \in {"operate", "remove"} /\ calls[c].stage = "ok"
  /\ busy' = TRUE
  /\ calls' = [calls EXCEPT ![c] = NewCall("list", {})]
  /\ UNCHANGED <<table, shown, refreshTimer, confirm, server>>

HandleFailed(c) ==
  /\ calls[c].op \in {"operate", "remove"} /\ calls[c].stage = "failed"
  /\ Unmask /\ Drop(c)
  /\ UNCHANGED <<table, shown, refreshTimer, confirm, server>>

-----------------------------------------------------------------------------
UserStep ==
  \/ \E c \in Calls :
       \/ Enter(c) \/ Refresh(c) \/ SearchNow(c) \/ Operate(c)
       \/ ConfirmRemove(c) \/ ContainerUpdated(c)
  \/ \E i \in DOMAIN rows : ClickBox(i)
  \/ \E t \in Texts : TypeText(t)
  \/ Leave \/ ClickHeader \/ Sort \/ AskRemove \/ KeepContainers

ServerStep(c) == ServeList(c) \/ ServeOperation(c) \/ Fail(c)
SlotStep(c)   == HandleList(c) \/ HandleOk(c) \/ HandleFailed(c)
TimerStep(c)  == SearchTimeout(c) \/ RefreshTimeout(c)

Next ==
  \/ UserStep \/ Others
  \/ \E c \in Calls : ServerStep(c) \/ SlotStep(c) \/ TimerStep(c)

Spec == Init /\ [][Next]_vars

\* Calls have a deadline, the event loop delivers replies and timers.  The
\* timer waits for a free slot only because the slots are bounded here.
FairSpec ==
  /\ Spec
  /\ \A c \in Calls : WF_vars(ServerStep(c)) /\ WF_vars(SlotStep(c))
  /\ SF_vars(\E c \in Calls : RefreshTimeout(c))

-----------------------------------------------------------------------------
(* Properties.                                                             *)

\* Delete is never enabled while a container that the table shows running is
\* checked, whichever boxes were set in which way, one by one or all at once
\* (container-list-page.cpp:642).
DeleteIsSafe == delete => \A i \in Checked(rows) : ~rows[i].running

\* Run, Stop and Restart are enabled only while a row is checked: neither a
\* refresh nor a search leaves them on for nothing (table-page.cpp:785-797).
BatchHasRows == batch => Checked(rows) # {}

\* The box in the header is set just when all rows are checked, after any
\* mixture of refreshes, searches and clicks (table-page.cpp:789-796).
BoxMeansAll == rows # <<>> => (box <=> \A i \in DOMAIN rows : rows[i].checked)

\* The mask is up only while a call is in flight whose reply takes it down:
\* the page is never locked for good (container-list-page.cpp:761, 337).
MaskHasCall == busy => \E c \in Calls : calls[c] # NoCall

\* The page keeps the promise of Mask for all of its calls, the listing that
\* follows an operation in its slot included: whichever replies overtake one
\* another, and whatever the timers send under the mask
\* (container-list-page.cpp:337, 761).
Masked == INSTANCE Mask WITH waiting <- {c \in Calls : calls[c] # NoCall}
MaskSpec == Masked!Spec

\* A page that was left has no checked row, so that a batch operation after
\* coming back never acts on a choice made before (container-list-page.cpp:835).
LeftUnchecked == ~shown => Checked(rows) = {}

\* A container that was removed leaves the table, whatever stale listings are
\* on their way, unless the page is left (container-list-page.cpp:812).
RemovedDisappear ==
  \A k \in Ids :
    (k \in gone /\ \E i \in DOMAIN rows : rows[i].id = k)
      ~> (~shown \/ \A i \in DOMAIN rows : rows[i].id # k)
=============================================================================
