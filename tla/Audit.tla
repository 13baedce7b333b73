-------------------------------- MODULE Audit --------------------------------
(***************************************************************************)
(* A tab of the audit: the logs (LogListView) or the warnings              *)
(* (WarningListView), a TablePage whose listings come page by page.  The   *)
(* number of the page is kept twice, in the view and in the line that      *)
(* shows it, and the tab bar and the keyboard reach the view while it is   *)
(* masked, so that several listings are in flight.  A view of warnings     *)
(* connects its slot again at each listing: each reply is handled as often *)
(* as it was connected when the reply came.                                *)
(***************************************************************************)
EXTENDS TablePage, Integers, FiniteSets

CONSTANTS
  Calls,           \* slots for calls in flight
  Views,           \* the kinds of view there are
  Typed,           \* numbers a user may type into the page line
  MaxPages,        \* bound on the pages of the server
  MaxConnections   \* bound on the connections counted

ASSUME AuditAssumption ==
  /\ Views \subseteq {"logs", "warnings"}
  /\ Typed \subseteq Int
  /\ MaxPages \in Nat \ {0} /\ MaxConnections \in Nat \ {0}

VARIABLES
  kind,         \* the view
  busy,         \* the mask is visible
  single,       \* the date buttons are enabled
  key,          \* m_searchKey
  pageOn,       \* m_pageOn
  pageEdit,     \* the number in the page line
  typing,       \* it was typed, and Return not pressed
  totalPages,   \* m_totalPages of TablePage
  paging,       \* the widgets of the page line are visible
  connections,  \* of loggingListWarnFinished to getListWarning
  calls         \* the calls in flight

turning == <<pageOn, pageEdit, typing>>
extent  == <<totalPages, paging>>
vars == <<table, kind, busy, single, key, turning, extent, connections, calls>>

\* page: the one asked for.  total, list: the reply.  copies: how often its
\* slot is still to run.
Call == [op : {"none", "list", "read"}, stage : {"free", "sent", "ok", "failed"},
         page : Int, total : 0..MaxPages, list : Seq(Listing), copies : 0..MaxConnections]
NoCall == [op |-> "none", stage |-> "free", page |-> 0, total |-> 0, list |-> <<>>, copies |-> 0]
NewCall(op, page) == [NoCall EXCEPT !.op = op, !.stage = "sent", !.page = page]

WellFormed(call) ==
  /\ call.op = "none" <=> call.stage = "free"
  /\ call.copies > 0 <=> call.stage \in {"ok", "failed"}
  /\ call.list # <<>> => call.stage = "ok" /\ call.page \in 1..call.total

TypeOK ==
  /\ TableTypeOK
  /\ kind \in Views /\ busy \in BOOLEAN /\ single \in BOOLEAN /\ key \in Texts
  /\ pageOn \in Int /\ pageEdit \in Int /\ typing \in BOOLEAN
  /\ totalPages \in 0..MaxPages /\ paging \in BOOLEAN
  /\ connections \in 1..MaxConnections
  /\ calls \in [Calls -> Call] /\ \A c \in Calls : WellFormed(calls[c])

Init ==
  /\ kind \in Views
  /\ rows = <<>>
  /\ box = FALSE /\ headCheckable = FALSE /\ boxShown = (kind = "warnings")
  /\ batch = FALSE /\ delete = FALSE
  /\ text = NoText /\ searchTimer = FALSE
  /\ busy = FALSE /\ single = TRUE /\ key = NoText
  /\ pageOn = 1 /\ pageEdit = 1 /\ typing = FALSE
  /\ totalPages = 1 /\ paging = TRUE
  /\ connections = 1
  /\ calls = [c \in Calls |-> NoCall]

-----------------------------------------------------------------------------
(* Listings.                                                               *)

\* getLogList, getWarningList
GetList(c, page) ==
  /\ calls[c] = NoCall
  /\ calls' = [calls EXCEPT ![c] = NewCall("list", page)]
  /\ busy' = TRUE

\* LogListView::updateInfo empties the search line and keeps the key.
UpdateLogs(c) ==
  /\ kind = "logs"
  /\ text' = NoText
  /\ GetList(c, pageOn)
  /\ UNCHANGED <<marks, connections>>

Connect == connections' = IF connections < MaxConnections THEN connections + 1 ELSE connections

\* WarningListView::updateInfo
UpdateWarnings(c, page) ==
  /\ kind = "warnings"
  /\ text' = NoText /\ ClearCheckState
  /\ Connect
  /\ GetList(c, page)

UpdateInfo(c) == UpdateLogs(c) \/ UpdateWarnings(c, pageOn)

\* updatePagingInfo
UpdatePagingInfo(c, page) ==
  /\ pageOn' = page
  /\ \/ kind = "logs" /\ GetList(c, page) /\ UNCHANGED <<marks, text, connections>>
     \/ UpdateWarnings(c, page)

-----------------------------------------------------------------------------
(* The user.  The mask takes the mouse from the view, not from the tab bar *)
(* nor the keyboard.                                                       *)

CanClick == ~busy

\* The audit is opened, or a tab clicked: always this view's updateInfo.
ClickTab(c) ==
  /\ UpdateInfo(c)
  /\ UNCHANGED <<searchTimer, kind, single, key, turning, extent>>

\* applyDatePicker
ApplyDatePicker(c) ==
  /\ CanClick /\ kind = "logs"
  /\ UpdateInfo(c)
  /\ UNCHANGED <<searchTimer, kind, single, key, turning, extent>>

\* refresh(): sigRefreshSearchResult first.
Refresh(c) ==
  /\ CanClick
  /\ key' = NoText
  /\ UpdateInfo(c)
  /\ UNCHANGED <<searchTimer, kind, single, turning, extent>>

\* With pages no timer searches while the user types.
TypeText(t) ==
  /\ kind = "logs" /\ t # text
  /\ text' = t
  /\ UNCHANGED <<marks, searchTimer, kind, busy, single, key, turning, extent, connections, calls>>

\* search(), searchClicked: at the page that is on, be it beyond the hits.
Search(c) ==
  /\ kind = "logs"
  /\ key' = text
  /\ GetList(c, pageOn)
  /\ UNCHANGED <<table, kind, single, turning, extent, connections>>

\* The line has no validator.
TypePage(n) ==
  /\ paging
  /\ pageEdit' = n /\ typing' = TRUE
  /\ UNCHANGED <<table, kind, busy, single, key, pageOn, extent, connections, calls>>

MutTurn(c, page) ==
  /\ UpdatePagingInfo(c, page)
  /\ typing' = FALSE
  /\ UNCHANGED <<pageEdit, searchTimer, kind, single, key, extent>>
\* sigUpdatePaging, and the number is written into the line.
Turn(c, page) ==
  /\ UpdatePagingInfo(c, page)
  /\ pageEdit' = page /\ typing' = FALSE
  /\ UNCHANGED <<searchTimer, kind, single, key, extent>>

LastBtnClick(c) == CanClick /\ paging /\ pageEdit > 1 /\ Turn(c, pageEdit - 1)
NextBtnClick(c) == CanClick /\ paging /\ pageEdit + 1 <= totalPages /\ Turn(c, pageEdit + 1)

\* pageEditChage, Return in the page line: to the last page if there is no
\* such page.
PageEditChange(c) ==
  /\ paging
  /\ Turn(c, IF pageEdit \in 1..totalPages THEN pageEdit ELSE totalPages)

\* onItemChecked, onHeaderCkbTog; the boxes of logs cannot be checked.
ClickBox ==
  /\ CanClick /\ kind = "warnings"
  /\ \/ \E i \in DOMAIN rows : CheckRow(i)
     \/ boxShown /\ CheckAll(~box) /\ UNCHANGED <<text, searchTimer>>
  /\ UNCHANGED <<kind, busy, single, key, turning, extent, connections, calls>>

\* getReadWarn and at once updateInfo: two calls, whose order is that of the
\* threads that make them.
ReadThenList(c, d) ==
  /\ c # d /\ calls[c] = NoCall /\ calls[d] = NoCall
  /\ calls' = [calls EXCEPT ![c] = NewCall("read", 0), ![d] = NewCall("list", pageOn)]
  /\ busy' = TRUE /\ text' = NoText
  /\ ClearCheckState /\ Connect
  /\ UNCHANGED <<searchTimer, kind, single, key, turning, extent>>

\* onBtnRead
ReadChecked(c, d) == CanClick /\ kind = "warnings" /\ batch /\ Checked(rows) # {} /\ ReadThenList(c, d)
\* onBtnReadLabel
ReadRow(c, d) == CanClick /\ kind = "warnings" /\ rows # <<>> /\ ReadThenList(c, d)

-----------------------------------------------------------------------------
(* The server: a page has rows if it is one of the pages there are.        *)

Lists(page, total) ==
  IF page \in 1..total
  THEN UNION {[1..n -> {[id |-> k, running |-> FALSE] : k \in Ids}] : n \in 1..Cardinality(Ids)}
  ELSE {<<>>}

ServeList(c) ==
  /\ calls[c].op = "list" /\ calls[c].stage = "sent"
  /\ \/ \E total \in 0..MaxPages : \E list \in Lists(calls[c].page, total) :
          calls' = [calls EXCEPT ![c].stage = "ok", ![c].total = total, ![c].list = list,
                                 ![c].copies = connections]
     \/ calls' = [calls EXCEPT ![c].stage = "failed", ![c].copies = connections]
  /\ UNCHANGED <<table, kind, busy, single, key, turning, extent, connections>>

\* readWarnLogging: no slot waits for its reply.
ServeRead(c) ==
  /\ calls[c].op = "read" /\ calls[c].stage = "sent"
  /\ calls' = [calls EXCEPT ![c] = NoCall]
  /\ UNCHANGED <<table, kind, busy, single, key, turning, extent, connections>>

-----------------------------------------------------------------------------
(* The slots of the listings.                                              *)

OnceLess(call) == [call EXCEPT !.copies = @ - 1]

\* One of the connections has run its slot.
Handled(c) ==
  calls' = [calls EXCEPT ![c] = IF @.copies = 1 THEN NoCall ELSE OnceLess(@)]

MutUnmask == busy' = FALSE \/ UNCHANGED busy
Unmask == busy' = FALSE

MutSetPaging(total) == totalPages' = total /\ paging' = (total # 1)
\* setPaging, by sigOpenPaging
SetPaging(total) == totalPages' = total /\ paging' = (total > 1)

RowsOf(list) == [i \in DOMAIN list |-> [id |-> list[i].id, running |-> FALSE,
                                        checked |-> FALSE, hidden |-> FALSE]]

\* getListRuntime, ok; setSeachPageNone when a search found nothing.
LogsListed(list) ==
  /\ kind = "logs"
  /\ rows' = RowsOf(list)
  /\ IF list = <<>> /\ key # NoText THEN NothingFound
     ELSE DisableBatch /\ UNCHANGED boxShown
  /\ UNCHANGED <<box, headCheckable, text, searchTimer>>

\* getListWarning, ok
WarningsListed(list) == kind = "warnings" /\ Refill(list)

ListOk(c) ==
  /\ calls[c].stage = "ok"
  /\ SetPaging(calls[c].total)
  /\ LogsListed(calls[c].list) \/ WarningsListed(calls[c].list)
  /\ single' = TRUE

\* The page line and the box in the header stay.
ListFailed(c) ==
  /\ calls[c].stage = "failed"
  /\ rows' = <<>> /\ DisableBatch
  /\ single' = FALSE
  /\ UNCHANGED <<box, headCheckable, boxShown, text, searchTimer, extent>>

Deliver(c) ==
  /\ calls[c].copies > 0
  /\ Unmask
  /\ ListOk(c) \/ ListFailed(c)
  /\ Handled(c)
  /\ UNCHANGED <<kind, key, turning, connections>>

-----------------------------------------------------------------------------
UserStep ==
  \/ \E c \in Calls :
       \/ ClickTab(c) \/ ApplyDatePicker(c) \/ Refresh(c) \/ Search(c)
       \/ LastBtnClick(c) \/ NextBtnClick(c) \/ PageEditChange(c)
       \/ \E d \in Calls : ReadChecked(c, d) \/ ReadRow(c, d)
  \/ \E t \in Texts : TypeText(t)
  \/ \E n \in Typed : TypePage(n)
  \/ ClickBox

Next == UserStep \/ \E c \in Calls : ServeList(c) \/ ServeRead(c) \/ Deliver(c)

Spec == Init /\ [][Next]_vars

\* Calls have a deadline, and the event loop delivers replies.
-----------------------------------------------------------------------------
(* Properties.                                                             *)

\* The view keeps the promise of Mask, though a reply is handled several times
\* and listings overtake each other (warning-list-view.cpp:40, 158).
Masked == INSTANCE Mask WITH waiting <- {c \in Calls : calls[c].op = "list"}
MaskSpec == Masked!Spec

\* Where there are warnings the button that marks them as read is enabled only
\* while one is checked, whichever copy of whichever reply came last
\* (warning-list-view.cpp:159, table-page.cpp:780).  Over an empty table a
\* click on the header enables it: a failed listing leaves the box there
\* (warning-list-view.cpp:236).
BatchHasRows == batch => kind = "warnings" /\ (rows = <<>> \/ Checked(rows) # {})

\* The two numbers of the page agree but while one is being typed: the next
\* click turns to the page beside the one that is listed (table-page.cpp:343,
\* 853, log-list-view.cpp:357).
EditNamesPage == ~typing => pageEdit = pageOn

\* The two buttons and Return turn to a page there is, whatever was typed and
\* whatever total the last reply brought (table-page.cpp:320, 853-887), but from
\* a number past both ends: below 0 the next page, and more than one beyond the
\* last page the page before, are no pages either.
TurnsToAPage ==
  [][pageOn' # pageOn =>
       pageOn' \in 1..totalPages \/ pageEdit \notin 0..(totalPages + 1)]_vars
=============================================================================
