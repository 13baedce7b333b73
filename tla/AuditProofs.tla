----------------------------- MODULE AuditProofs -----------------------------
(***************************************************************************)
(* The invariants of Audit, and that it implements Mask, for any number of *)
(* pages, of rows, of calls in flight and of connections.                  *)
(***************************************************************************)
EXTENDS Audit, TablePageProofs

\* The answer of a call that marks warnings as read frees it at once.
ReadsAreSilent == \A c \in Calls : calls[c].op = "read" => calls[c].stage = "sent"

\* The page line is there only over pages.
PageLineHasPages == paging => totalPages >= 1

IInv == TypeOK /\ ReadsAreSilent /\ BatchHasRows /\ PageLineHasPages

-----------------------------------------------------------------------------
(* The slots of calls.                                                     *)

CallsOK == calls \in [Calls -> Call] /\ (\A c \in Calls : WellFormed(calls[c])) /\ ReadsAreSilent

LEMMA NoCallOK == NoCall \in Call /\ WellFormed(NoCall)
  BY AuditAssumption, EmptySeq DEF NoCall, Call, WellFormed

LEMMA NewCallOK ==
  ASSUME NEW op \in {"list", "read"}, NEW page \in Int
  PROVE  NewCall(op, page) \in Call /\ WellFormed(NewCall(op, page))
         /\ NewCall(op, page).op = op /\ NewCall(op, page).stage = "sent"
  BY NoCallOK, AuditAssumption DEF NewCall, NoCall, Call, WellFormed

\* The same call, with its reply; refused.
WithReply(call, total, list, copies) ==
  [call EXCEPT !.stage = "ok", !.total = total, !.list = list, !.copies = copies]
WithFailure(call, copies) == [call EXCEPT !.stage = "failed", !.copies = copies]

LEMMA AnswerOK ==
  ASSUME NEW call \in Call, WellFormed(call), call.stage = "sent",
         NEW total \in 0..MaxPages, NEW list \in Seq(Listing),
         NEW copies \in 1..MaxConnections, list # <<>> => call.page \in 1..total
  PROVE  /\ WithReply(call, total, list, copies) \in Call
         /\ WellFormed(WithReply(call, total, list, copies))
         /\ WithReply(call, total, list, copies).op = call.op
  <1> DEFINE r == WithReply(call, total, list, copies)
  <1>1. copies \in 0..MaxConnections /\ copies > 0
    BY AuditAssumption
  <1>2. r \in Call
    BY <1>1 DEF Call, WithReply
  <1>3. /\ r.op = call.op /\ r.stage = "ok" /\ r.page = call.page /\ r.total = total
        /\ r.list = list /\ r.copies = copies
    BY DEF Call, WithReply
  <1> HIDE DEF r
  <1>4. WellFormed(r)
    BY <1>1, <1>3 DEF WellFormed
  <1> QED BY <1>2, <1>3, <1>4 DEF r

LEMMA FailureOK ==
  ASSUME NEW call \in Call, WellFormed(call), call.stage = "sent",
         NEW copies \in 1..MaxConnections
  PROVE  /\ WithFailure(call, copies) \in Call
         /\ WellFormed(WithFailure(call, copies))
         /\ WithFailure(call, copies).op = call.op
  <1> DEFINE r == WithFailure(call, copies)
  <1>1. copies \in 0..MaxConnections /\ copies > 0
    BY AuditAssumption
  <1>2. r \in Call
    BY <1>1 DEF Call, WithFailure
  <1>3. /\ r.op = call.op /\ r.stage = "failed" /\ r.list = call.list /\ r.copies = copies
    BY DEF Call, WithFailure
  <1> HIDE DEF r
  <1>4. WellFormed(r)
    BY <1>1, <1>3 DEF WellFormed
  <1> QED BY <1>2, <1>3, <1>4 DEF r

LEMMA OnceMoreOK ==
  ASSUME NEW call \in Call, WellFormed(call), call.copies > 0, call.copies # 1
  PROVE  /\ OnceLess(call) \in Call
         /\ WellFormed(OnceLess(call))
         /\ OnceLess(call).op = call.op
  BY AuditAssumption DEF OnceLess, Call, WellFormed

LEMMA PutKeeps ==
  ASSUME CallsOK, NEW c \in Calls, NEW call \in Call, WellFormed(call),
         call.op = "read" => call.stage = "sent",
         calls' = [calls EXCEPT ![c] = call]
  PROVE  CallsOK'
  BY DEF CallsOK, ReadsAreSilent

LEMMA ReadThenListKeeps ==
  ASSUME CallsOK, NEW c \in Calls, NEW d \in Calls, pageOn \in Int, ReadThenList(c, d)
  PROVE  CallsOK'
  <1>1. calls' = [calls EXCEPT ![c] = NewCall("read", 0), ![d] = NewCall("list", pageOn)]
    BY DEF ReadThenList
  <1>2. 0 \in Int
    OBVIOUS
  <1> QED BY <1>1, <1>2, NewCallOK DEF CallsOK, ReadsAreSilent

LEMMA GetListKeeps ==
  ASSUME CallsOK, NEW c \in Calls, NEW page \in Int, GetList(c, page)
  PROVE  CallsOK' /\ busy' = TRUE
  BY NewCallOK, PutKeeps DEF GetList

LEMMA EmptyIsSeq == \A S : <<>> \in Seq(S)
  OBVIOUS

LEMMA ListsOK ==
  ASSUME NEW page, NEW total, NEW list \in Lists(page, total)
  PROVE  list \in Seq(Listing) /\ (list # <<>> => page \in 1..total)
  <1>1. CASE page \in 1..total
    <2>1. PICK n \in 1..Cardinality(Ids) :
            list \in [1..n -> {[id |-> k, running |-> FALSE] : k \in Ids}]
      BY <1>1 DEF Lists
    <2>2. \A k \in Ids : [id |-> k, running |-> FALSE] \in Listing
      BY DEF Listing
    <2>3. n \in Nat /\ list \in [1..n -> Listing]
      BY <2>1, <2>2
    <2> QED BY <1>1, <2>3, FunctionIsSeq
  <1>2. CASE page \notin 1..total
    <2>1. list = <<>>
      BY <1>2 DEF Lists
    <2> QED BY <2>1, EmptyIsSeq
  <1> QED BY <1>1, <1>2

\* A listing answered, well or not, keeps its slot.
LEMMA ServeListKeeps ==
  ASSUME CallsOK, connections \in 1..MaxConnections, NEW c \in Calls, ServeList(c)
  PROVE  CallsOK' /\ UNCHANGED <<table, kind, busy, single, key, turning, extent, connections>>
  <1> USE AuditAssumption
  <1>1. /\ calls[c] \in Call /\ WellFormed(calls[c])
        /\ calls[c].op = "list" /\ calls[c].stage = "sent"
    BY DEF CallsOK, ServeList
  <1>2. ASSUME NEW total \in 0..MaxPages, NEW list \in Lists(calls[c].page, total),
               calls' = [calls EXCEPT ![c].stage = "ok", ![c].total = total, ![c].list = list,
                                      ![c].copies = connections]
        PROVE  CallsOK'
    <2> DEFINE reply == WithReply(calls[c], total, list, connections)
    <2>1. list \in Seq(Listing) /\ (list # <<>> => calls[c].page \in 1..total)
      BY ListsOK
    <2>2. reply \in Call /\ WellFormed(reply) /\ reply.op = calls[c].op
      BY <1>1, <2>1, AnswerOK
    <2>3. calls' = [calls EXCEPT ![c] = reply]
      BY <1>2 DEF WithReply
    <2> HIDE DEF reply
    <2> QED BY <1>1, <2>2, <2>3, PutKeeps
  <1>3. ASSUME calls' = [calls EXCEPT ![c].stage = "failed", ![c].copies = connections]
        PROVE  CallsOK'
    <2> DEFINE reply == WithFailure(calls[c], connections)
    <2>1. reply \in Call /\ WellFormed(reply) /\ reply.op = calls[c].op
      BY <1>1, FailureOK
    <2>2. calls' = [calls EXCEPT ![c] = reply]
      BY <1>3 DEF WithFailure
    <2> HIDE DEF reply
    <2> QED BY <1>1, <2>1, <2>2, PutKeeps
  <1> QED BY <1>2, <1>3 DEF ServeList

\* The slot of a reply has run once more.
LEMMA HandledKeeps ==
  ASSUME CallsOK, NEW c \in Calls, calls[c].copies > 0, Handled(c)
  PROVE  CallsOK'
  <1>1. calls[c] \in Call /\ WellFormed(calls[c]) /\ calls[c].op # "read"
    BY DEF CallsOK, ReadsAreSilent, WellFormed
  <1>2. CASE calls[c].copies = 1
    BY <1>2, NoCallOK, PutKeeps DEF Handled, NoCall
  <1>3. CASE calls[c].copies # 1
    <2> DEFINE rest == OnceLess(calls[c])
    <2>1. rest \in Call /\ WellFormed(rest) /\ rest.op = calls[c].op
      BY <1>1, <1>3, OnceMoreOK
    <2>2. calls' = [calls EXCEPT ![c] = rest]
      BY <1>3 DEF Handled
    <2> HIDE DEF rest
    <2> QED BY <1>1, <2>1, <2>2, PutKeeps
  <1> QED BY <1>2, <1>3

-----------------------------------------------------------------------------
(* The view.                                                               *)

ViewOK ==
  /\ kind \in Views /\ busy \in BOOLEAN /\ single \in BOOLEAN /\ key \in Texts
  /\ pageOn \in Int /\ pageEdit \in Int /\ typing \in BOOLEAN
  /\ totalPages \in 0..MaxPages /\ paging \in BOOLEAN
  /\ connections \in 1..MaxConnections

LEMMA Parts ==
  IInv <=> TableTypeOK /\ ViewOK /\ CallsOK /\ BatchHasRows /\ PageLineHasPages
  BY DEF IInv, TypeOK, ViewOK, CallsOK

LEMMA ConnectKeeps ==
  ASSUME connections \in 1..MaxConnections, Connect
  PROVE  connections' \in 1..MaxConnections
  BY AuditAssumption DEF Connect

\* clearCheckState, and an empty search line, for the listing that begins.
LEMMA ClearedKeeps ==
  ASSUME TableTypeOK, BatchHasRows, ClearCheckState, text' = NoText,
         UNCHANGED <<searchTimer, kind>>
  PROVE  TableTypeOK' /\ BatchHasRows'
  <1>1. text' \in Texts /\ searchTimer' \in BOOLEAN
    BY TextsAssumption DEF TableTypeOK
  <1>2. /\ TableTypeOK' /\ (rows' = <<>> <=> rows = <<>>)
        /\ \/ rows' = rows /\ batch' = batch
           \/ Checked(rows') = {} /\ ~batch'
    BY <1>1, CheckStateCleared
  <1> QED BY <1>2 DEF BatchHasRows

\* A listing begins: for logs the table waits as it is, for warnings without
\* check marks.
LEMMA ListBegins ==
  ASSUME IInv, NEW c \in Calls, NEW page \in Int,
         \/ kind = "logs" /\ GetList(c, page) /\ text' \in Texts /\ UNCHANGED <<marks, connections>>
         \/ UpdateWarnings(c, page),
         UNCHANGED <<searchTimer, kind>>
  PROVE  TableTypeOK' /\ BatchHasRows' /\ CallsOK' /\ busy' \in BOOLEAN
         /\ connections' \in 1..MaxConnections
  <1>1. GetList(c, page)
    BY DEF UpdateWarnings
  <1>2. CallsOK' /\ busy' \in BOOLEAN
    BY <1>1, Parts, GetListKeeps
  <1>3. CASE text' \in Texts /\ UNCHANGED <<marks, connections>>
    BY <1>2, <1>3, Parts DEF TableTypeOK, BatchHasRows, marks, ViewOK
  <1>4. CASE UpdateWarnings(c, page)
    BY <1>2, <1>4, Parts, ClearedKeeps, ConnectKeeps DEF UpdateWarnings, ViewOK
  <1> QED BY <1>3, <1>4

LEMMA UpdateInfoKeeps ==
  ASSUME IInv, NEW c \in Calls, UpdateInfo(c), key' \in Texts,
         UNCHANGED <<searchTimer, kind, single, turning, extent>>
  PROVE  IInv'
  <1>1. pageOn \in Int
    BY Parts DEF ViewOK
  <1>2. TableTypeOK' /\ BatchHasRows' /\ CallsOK' /\ busy' \in BOOLEAN
        /\ connections' \in 1..MaxConnections
    BY <1>1, ListBegins, TextsAssumption DEF UpdateInfo, UpdateLogs
  <1>3. ViewOK' /\ PageLineHasPages'
    BY <1>2, Parts DEF ViewOK, PageLineHasPages, turning, extent
  <1> QED BY <1>2, <1>3 DEF IInv, TypeOK, ViewOK, CallsOK

LEMMA TurnKeeps ==
  ASSUME IInv, NEW c \in Calls, NEW page \in Int, Turn(c, page)
  PROVE  IInv'
  <1> USE DEF Turn
  <1>1. TableTypeOK' /\ BatchHasRows' /\ CallsOK' /\ busy' \in BOOLEAN
        /\ connections' \in 1..MaxConnections
    <2>1. UpdatePagingInfo(c, page) /\ UNCHANGED <<searchTimer, kind>>
      OBVIOUS
    <2>2. text \in Texts
      BY Parts DEF TableTypeOK
    <2> QED BY <2>1, <2>2, ListBegins DEF UpdatePagingInfo
  <1>2. ViewOK' /\ PageLineHasPages'
    BY <1>1, Parts DEF UpdatePagingInfo, ViewOK, PageLineHasPages, extent
  <1> QED BY <1>1, <1>2 DEF IInv, TypeOK, ViewOK, CallsOK

LEMMA SearchKeeps == ASSUME IInv, NEW c \in Calls, Search(c) PROVE IInv'
  <1> USE DEF Search
  <1>1. CallsOK' /\ busy' = TRUE
    BY Parts, GetListKeeps DEF ViewOK
  <1>2. TableTypeOK' /\ BatchHasRows'
    BY Parts DEF TableTypeOK, BatchHasRows, table, marks
  <1>3. ViewOK' /\ PageLineHasPages'
    BY <1>1, Parts DEF ViewOK, PageLineHasPages, TableTypeOK, turning, extent
  <1> QED BY <1>1, <1>2, <1>3 DEF IInv, TypeOK, ViewOK, CallsOK

LEMMA TypeTextKeeps == ASSUME IInv, NEW t \in Texts, TypeText(t) PROVE IInv'
  <1> USE DEF TypeText
  <1>1. TableTypeOK' /\ BatchHasRows'
    BY Parts DEF TableTypeOK, BatchHasRows, marks
  <1>2. ViewOK' /\ PageLineHasPages' /\ CallsOK'
    BY Parts DEF ViewOK, PageLineHasPages, turning, extent, CallsOK, ReadsAreSilent
  <1> QED BY <1>1, <1>2 DEF IInv, TypeOK, ViewOK, CallsOK

LEMMA TypePageKeeps == ASSUME IInv, NEW n \in Typed, TypePage(n) PROVE IInv'
  <1> USE AuditAssumption DEF TypePage
  <1>1. TableTypeOK' /\ BatchHasRows'
    BY Parts DEF TableTypeOK, BatchHasRows, table, marks
  <1>2. ViewOK' /\ PageLineHasPages' /\ CallsOK'
    BY Parts DEF ViewOK, PageLineHasPages, extent, CallsOK, ReadsAreSilent
  <1> QED BY <1>1, <1>2 DEF IInv, TypeOK, ViewOK, CallsOK

LEMMA ClickBoxKeeps == ASSUME IInv, ClickBox PROVE IInv'
  <1> USE DEF ClickBox
  <1>1. kind = "warnings" /\ UNCHANGED <<kind, busy, single, key, turning, extent, connections, calls>>
    OBVIOUS
  <1>2. TableTypeOK' /\ BatchHasRows'
    <2>1. CASE \E i \in DOMAIN rows : CheckRow(i)
      BY <1>1, <2>1, Parts, RowChecked DEF BatchHasRows
    <2>2. CASE CheckAll(~box) /\ UNCHANGED <<text, searchTimer>>
      <3>1. PICK on \in BOOLEAN : CheckAll(on)
        <4>1. CASE box
          <5>1. (~box) = FALSE
            BY <4>1
          <5> QED BY <2>2, <5>1
        <4>2. CASE ~box
          <5>1. (~box) = TRUE
            BY <4>2
          <5> QED BY <2>2, <5>1
        <4> QED BY <4>1, <4>2
      <3>2. TableTypeOK' /\ DOMAIN rows' = DOMAIN rows /\ (rows' = <<>> <=> rows = <<>>)
            /\ Checked(rows') = (IF on THEN DOMAIN rows ELSE {}) /\ batch' = on
        BY <2>2, <3>1, Parts, AllRowsChecked
      <3>3. rows = <<>> \/ DOMAIN rows # {}
        BY Parts, EmptySeq DEF TableTypeOK
      <3> QED BY <1>1, <3>2, <3>3 DEF BatchHasRows
    <2> QED BY <2>1, <2>2
  <1>3. ViewOK' /\ PageLineHasPages' /\ CallsOK'
    BY <1>1, Parts DEF ViewOK, PageLineHasPages, turning, extent, CallsOK, ReadsAreSilent
  <1> QED BY <1>2, <1>3 DEF IInv, TypeOK, ViewOK, CallsOK

LEMMA ReadKeeps ==
  ASSUME IInv, NEW c \in Calls, NEW d \in Calls, ReadThenList(c, d)
  PROVE  IInv'
  <1>1. CallsOK'
    BY Parts, ReadThenListKeeps DEF ViewOK
  <1> USE DEF ReadThenList
  <1>2. TableTypeOK' /\ BatchHasRows'
    BY Parts, ClearedKeeps
  <1>3. ViewOK' /\ PageLineHasPages'
    BY Parts, ConnectKeeps DEF ViewOK, PageLineHasPages, turning, extent
  <1> QED BY <1>1, <1>2, <1>3 DEF IInv, TypeOK, ViewOK, CallsOK

-----------------------------------------------------------------------------
(* The server and the slots.                                               *)

LEMMA ServerKeeps ==
  ASSUME IInv, NEW c \in Calls, ServeList(c) \/ ServeRead(c)
  PROVE  IInv'
  <1>1. UNCHANGED <<table, kind, busy, single, key, turning, extent, connections>>
    BY DEF ServeList, ServeRead
  <1>2. ASSUME ServeList(c) PROVE CallsOK'
    BY <1>2, Parts, ServeListKeeps DEF ViewOK
  <1>3. ASSUME ServeRead(c) PROVE CallsOK'
    <2>1. calls' = [calls EXCEPT ![c] = NoCall] /\ NoCall.op # "read"
      BY <1>3 DEF ServeRead, NoCall
    <2> QED BY <2>1, NoCallOK, PutKeeps, Parts
  <1>4. CallsOK'
    BY <1>2, <1>3
  <1>5. TableTypeOK' /\ BatchHasRows'
    BY <1>1, Parts DEF TableTypeOK, BatchHasRows, table, marks
  <1>6. ViewOK' /\ PageLineHasPages'
    BY <1>1, Parts DEF ViewOK, PageLineHasPages, turning, extent
  <1> QED BY <1>4, <1>5, <1>6 DEF IInv, TypeOK, ViewOK, CallsOK

\* The rows of the logs, which have no check marks.
LEMMA LogsListedKeeps ==
  ASSUME TableTypeOK, NEW list \in Seq(Listing), LogsListed(list), UNCHANGED kind
  PROVE  TableTypeOK' /\ BatchHasRows'
  <1> USE DEF LogsListed
  <1>1. \A i \in DOMAIN list : list[i] \in Listing
    BY EmptySeq
  <1>2. /\ rows' = [i \in DOMAIN list |-> rows'[i]]
        /\ \A i \in DOMAIN list : rows'[i] \in Row /\ ~rows'[i].checked
    BY <1>1 DEF RowsOf, Row, Listing
  <1>3. rows' \in Seq(Row)
    BY <1>2, ListingIsTable
  <1>4. batch' = FALSE /\ delete' = FALSE /\ boxShown' \in BOOLEAN
    BY DEF NothingFound, DisableBatch, TableTypeOK
  <1> QED BY <1>3, <1>4 DEF TableTypeOK, BatchHasRows

LEMMA DeliverKeeps ==
  ASSUME IInv, NEW c \in Calls, Deliver(c)
  PROVE  IInv'
  <1> USE DEF Deliver
  <1>1. CallsOK'
    BY Parts, HandledKeeps
  <1>2. UNCHANGED <<kind, key, turning, connections>> /\ busy' = FALSE
    BY DEF Unmask
  <1>3. CASE ListOk(c)
    <2> USE <1>3 DEF ListOk
    <2>1. calls[c] \in Call
      BY Parts DEF CallsOK
    <2>2. calls[c].list \in Seq(Listing) /\ calls[c].total \in 0..MaxPages
      BY <2>1 DEF Call
    <2>3. TableTypeOK' /\ BatchHasRows'
      BY <1>2, <2>2, Parts, LogsListedKeeps, Refilled DEF WarningsListed, BatchHasRows
    <2>4. ViewOK' /\ PageLineHasPages'
      <3>1. /\ totalPages' = calls[c].total /\ paging' = (calls[c].total > 1)
            /\ calls[c].total \in Nat /\ single' = TRUE
        BY <2>2 DEF SetPaging
      <3>2. totalPages' \in 0..MaxPages
        BY <2>2, <3>1
      <3>3. paging' \in BOOLEAN /\ (paging' => totalPages' >= 1)
        <4> DEFINE several == calls[c].total > 1
        <4>1. several \in BOOLEAN /\ (several => calls[c].total >= 1)
          BY <3>1
        <4>2. paging' = several
          BY <3>1, Zenon
        <4> HIDE DEF several
        <4> QED BY <3>1, <4>1, <4>2
      <3> QED BY <1>2, <3>1, <3>2, <3>3, Parts DEF ViewOK, PageLineHasPages, turning
    <2> QED BY <1>1, <2>3, <2>4 DEF IInv, TypeOK, ViewOK, CallsOK
  <1>4. CASE ListFailed(c)
    <2> USE <1>4 DEF ListFailed
    <2>1. TableTypeOK' /\ BatchHasRows'
      BY <1>2, Parts, EmptyIsSeq DEF DisableBatch, TableTypeOK, BatchHasRows
    <2>2. ViewOK' /\ PageLineHasPages'
      BY <1>2, Parts DEF ViewOK, PageLineHasPages, turning, extent
    <2> QED BY <1>1, <2>1, <2>2 DEF IInv, TypeOK, ViewOK, CallsOK
  <1> QED BY <1>3, <1>4

-----------------------------------------------------------------------------
LEMMA Starts == Init => IInv
  <1> SUFFICES ASSUME Init PROVE IInv
    OBVIOUS
  <1>1. TableTypeOK /\ BatchHasRows
    BY TextsAssumption, EmptyIsSeq DEF Init, TableTypeOK, BatchHasRows
  <1>2. ViewOK /\ PageLineHasPages
    <2>1. 1 \in 0..MaxPages /\ 1 \in 1..MaxConnections /\ 1 >= 1 /\ 1 \in Int
      BY AuditAssumption
    <2>2. /\ kind \in Views /\ busy = FALSE /\ single = TRUE /\ key = NoText
          /\ pageOn = 1 /\ pageEdit = 1 /\ typing = FALSE
          /\ totalPages = 1 /\ paging = TRUE /\ connections = 1
      BY DEF Init
    <2> QED BY <2>1, <2>2, TextsAssumption DEF ViewOK, PageLineHasPages
  <1>3. CallsOK
    BY NoCallOK DEF Init, CallsOK, ReadsAreSilent, NoCall
  <1> QED BY <1>1, <1>2, <1>3, Parts

LEMMA UserKeeps == ASSUME IInv, UserStep PROVE IInv'
  <1>1. ASSUME NEW c \in Calls, ClickTab(c) \/ ApplyDatePicker(c) \/ Refresh(c)
        PROVE  IInv'
    <2>1. key' \in Texts
      BY <1>1, Parts, TextsAssumption DEF ClickTab, ApplyDatePicker, Refresh, ViewOK
    <2> QED BY <1>1, <2>1, UpdateInfoKeeps DEF ClickTab, ApplyDatePicker, Refresh
  <1>2. ASSUME NEW c \in Calls, LastBtnClick(c) \/ NextBtnClick(c) \/ PageEditChange(c)
        PROVE  IInv'
    <2>1. pageEdit \in Int /\ totalPages \in Int
      BY Parts DEF ViewOK
    <2>2. PICK page \in Int : Turn(c, page)
      BY <1>2, <2>1 DEF LastBtnClick, NextBtnClick, PageEditChange
    <2> QED BY <2>2, TurnKeeps
  <1>3. ASSUME NEW c \in Calls, NEW d \in Calls, ReadChecked(c, d) \/ ReadRow(c, d)
        PROVE  IInv'
    BY <1>3, ReadKeeps DEF ReadChecked, ReadRow
  <1> QED BY <1>1, <1>2, <1>3, SearchKeeps, TypeTextKeeps, TypePageKeeps, ClickBoxKeeps DEF UserStep

LEMMA Step == IInv /\ [Next]_vars => IInv'
  <1> SUFFICES ASSUME IInv, [Next]_vars PROVE IInv'
    OBVIOUS
  <1>1. CASE UserStep
    BY <1>1, UserKeeps
  <1>2. CASE \E c \in Calls : ServeList(c) \/ ServeRead(c) \/ Deliver(c)
    BY <1>2, ServerKeeps, DeliverKeeps
  <1>3. CASE UNCHANGED vars
    <2>1. TableTypeOK' /\ BatchHasRows'
      BY <1>3, Parts DEF vars, TableTypeOK, BatchHasRows, table, marks
    <2>2. ViewOK' /\ PageLineHasPages' /\ CallsOK'
      BY <1>3, Parts DEF vars, ViewOK, PageLineHasPages, turning, extent, CallsOK, ReadsAreSilent
    <2> QED BY <2>1, <2>2 DEF IInv, TypeOK, ViewOK, CallsOK
  <1> QED BY <1>1, <1>2, <1>3 DEF Next

-----------------------------------------------------------------------------
(* Theorems.                                                               *)

\* The inductive invariant of the views of the audit.
THEOREM Invariance == Spec => []IInv
  BY Starts, Step, PTL DEF Spec

\* Every variable has its type, and every reply as many slots to run as were
\* connected when it came.
THEOREM TypeCorrect == Spec => []TypeOK
  BY Invariance, PTL DEF IInv

\* The button that marks warnings as read has a checked row, or no row.
THEOREM ButtonHasRows == Spec => []BatchHasRows
  BY Invariance, PTL DEF IInv

\* The number in the line is the page that is on, unless one is being typed.
THEOREM EditIsOn == Spec => []EditNamesPage
  <1>1. Init => EditNamesPage
    BY DEF Init, EditNamesPage
  <1>2. EditNamesPage /\ [Next]_vars => EditNamesPage'
    <2> SUFFICES ASSUME EditNamesPage, [Next]_vars PROVE EditNamesPage'
      OBVIOUS
    <2>1. CASE UNCHANGED turning
      BY <2>1 DEF EditNamesPage, turning
    <2>2. CASE \E n \in Typed : TypePage(n)
      BY <2>2 DEF TypePage, EditNamesPage
    <2>3. CASE \E c \in Calls : \E page : Turn(c, page)
      BY <2>3 DEF Turn, UpdatePagingInfo, EditNamesPage
    <2> QED
      BY <2>1, <2>2, <2>3 DEF Next, UserStep, ClickTab, ApplyDatePicker, Refresh, Search,
         LastBtnClick, NextBtnClick, PageEditChange, ReadChecked, ReadRow, ReadThenList,
         TypeText, ClickBox, ServeList, ServeRead, Deliver, vars
  <1> QED BY <1>1, <1>2, PTL DEF Spec

\* The page line is there only over pages, so that its buttons and Return turn
\* to one of them, unless the number in it is past both ends.
THEOREM TurnsAreToPages == Spec => TurnsToAPage
  <1> DEFINE Good == pageOn' \in 1..totalPages \/ pageEdit \notin 0..(totalPages + 1)
  <1>1. ASSUME IInv, NEW c \in Calls,
               LastBtnClick(c) \/ NextBtnClick(c) \/ PageEditChange(c)
        PROVE  Good
    <2>1. /\ pageEdit \in Int /\ totalPages \in Nat /\ totalPages >= 1
      BY <1>1, AuditAssumption
         DEF IInv, TypeOK, PageLineHasPages, LastBtnClick, NextBtnClick, PageEditChange
    <2>2. CASE LastBtnClick(c)
      BY <2>1, <2>2 DEF LastBtnClick, Turn, UpdatePagingInfo
    <2>3. CASE NextBtnClick(c)
      BY <2>1, <2>3 DEF NextBtnClick, Turn, UpdatePagingInfo
    <2>4. CASE PageEditChange(c)
      BY <2>1, <2>4 DEF PageEditChange, Turn, UpdatePagingInfo
    <2> QED BY <1>1, <2>2, <2>3, <2>4
  <1>2. IInv /\ [Next]_vars => [pageOn' # pageOn => Good]_vars
    <2> SUFFICES ASSUME IInv, Next, pageOn' # pageOn PROVE Good
      OBVIOUS
    <2>1. \E c \in Calls : LastBtnClick(c) \/ NextBtnClick(c) \/ PageEditChange(c)
      BY DEF Next, UserStep, ClickTab, ApplyDatePicker, Refresh, Search, ReadChecked, ReadRow,
             ReadThenList, TypeText, TypePage, ClickBox, ServeList, ServeRead, Deliver, turning
    <2> QED BY <1>1, <2>1
  <1> QED BY <1>2, Invariance, PTL DEF Spec, TurnsToAPage

-----------------------------------------------------------------------------
(* Audit implements Mask.                                                  *)

Waiting == {c \in Calls : calls[c].op = "list"}

\* A step that begins a listing asks, one that brings its reply answers.
LEMMA MaskStep == IInv /\ [Next]_vars => [Masked!Next]_(Masked!vars)
  <1> SUFFICES ASSUME IInv, [Next]_vars PROVE [Masked!Next]_(Masked!vars)
    OBVIOUS
  <1> USE DEF Waiting
  <1>1. ASSUME NEW c \in Calls, NEW page \in Int, GetList(c, page)
        PROVE  Masked!Ask(c)
    <2>1. NewCall("list", page).op = "list"
      BY NewCallOK
    <2>2. Waiting' = Waiting \cup {c}
      BY <1>1, <2>1, Parts DEF GetList, CallsOK
    <2> QED BY <1>1, <2>2 DEF GetList, Masked!Ask
  <1>2. ASSUME NEW c \in Calls, NEW d \in Calls, ReadThenList(c, d)
        PROVE  Masked!Ask(d)
    <2>1. NewCall("list", pageOn).op = "list" /\ NewCall("read", 0).op = "read"
      BY DEF NewCall, NoCall
    <2>2. Waiting' = Waiting \cup {d}
      BY <1>2, <2>1, Parts DEF ReadThenList, CallsOK, NoCall
    <2> QED BY <1>2, <2>2 DEF ReadThenList, Masked!Ask
  <1>3. ASSUME NEW c \in Calls, Deliver(c)
        PROVE  Masked!Answer(c)
    <2>1. calls[c].op = "list"
      BY <1>3, Parts DEF CallsOK, WellFormed, ReadsAreSilent, Deliver, Call
    <2>2. c \in Waiting /\ Waiting' \in {Waiting, Waiting \ {c}}
      BY <1>3, <2>1, Parts DEF Deliver, Handled, OnceLess, CallsOK, NoCall, Call
    <2> QED BY <1>3, <2>2 DEF Deliver, Unmask, Masked!Answer
  <1>4. ASSUME NEW c \in Calls, ServeList(c) \/ ServeRead(c)
        PROVE  UNCHANGED Masked!vars
    <2>1. \A d \in Calls : calls'[d].op = "list" <=> calls[d].op = "list"
      <3>1. CASE ServeRead(c)
        BY <3>1, Parts DEF ServeRead, CallsOK, NoCall
      <3>2. CASE ServeList(c)
        <4>1. /\ calls \in [Calls -> Call] /\ calls[c] \in Call
              /\ calls[c].op = "list"
          BY <3>2, Parts DEF ServeList, CallsOK
        <4>2. ASSUME NEW total, NEW list,
                     calls' = [calls EXCEPT ![c].stage = "ok", ![c].total = total,
                                            ![c].list = list, ![c].copies = connections]
              PROVE  calls'[c].op = "list" /\ \A d \in Calls \ {c} : calls'[d] = calls[d]
          <5> DEFINE reply == WithReply(calls[c], total, list, connections)
          <5>1. reply.op = "list"
            BY <4>1 DEF WithReply, Call
          <5>2. calls' = [calls EXCEPT ![c] = reply]
            BY <4>2 DEF WithReply
          <5> HIDE DEF reply
          <5> QED BY <4>1, <5>1, <5>2
        <4>3. ASSUME calls' = [calls EXCEPT ![c].stage = "failed", ![c].copies = connections]
              PROVE  calls'[c].op = "list" /\ \A d \in Calls \ {c} : calls'[d] = calls[d]
          <5> DEFINE reply == WithFailure(calls[c], connections)
          <5>1. reply.op = "list"
            BY <4>1 DEF WithFailure, Call
          <5>2. calls' = [calls EXCEPT ![c] = reply]
            BY <4>3 DEF WithFailure
          <5> HIDE DEF reply
          <5> QED BY <4>1, <5>1, <5>2
        <4>4. calls'[c].op = "list" /\ \A d \in Calls \ {c} : calls'[d] = calls[d]
          <5>1. CASE \E total \in 0..MaxPages : \E list \in Lists(calls[c].page, total) :
                       calls' = [calls EXCEPT ![c].stage = "ok", ![c].total = total,
                                              ![c].list = list, ![c].copies = connections]
            BY <4>2, <5>1, Zenon
          <5>2. CASE calls' = [calls EXCEPT ![c].stage = "failed", ![c].copies = connections]
            BY <4>3, <5>2, Zenon
          <5> QED BY <3>2, <5>1, <5>2, Zenon DEF ServeList
        <4> QED BY <4>1, <4>4
      <3> QED BY <1>4, <3>1, <3>2
    <2>2. Waiting' = Waiting
      BY <2>1
    <2> QED BY <1>4, <2>2 DEF ServeList, ServeRead, Masked!vars
  <1>5. CASE UNCHANGED <<busy, calls>>
    BY <1>5 DEF Masked!vars
  <1>6. pageOn \in Int /\ pageEdit \in Int /\ totalPages \in Int
    BY Parts DEF ViewOK
  <1>7. ASSUME NEW c \in Calls, NEW page \in Int, Turn(c, page)
        PROVE  Masked!Ask(c)
    BY <1>1, <1>7 DEF Turn, UpdatePagingInfo, UpdateWarnings
  <1>8. ASSUME NEW c \in Calls, UpdateInfo(c) \/ Search(c)
        PROVE  Masked!Ask(c)
    BY <1>1, <1>6, <1>8 DEF UpdateInfo, UpdateLogs, UpdateWarnings, Search
  <1>9. CASE \E c \in Calls : Masked!Ask(c) \/ Masked!Answer(c)
    BY <1>9 DEF Masked!Next
  <1>10. ASSUME NEW c \in Calls, \/ ClickTab(c) \/ ApplyDatePicker(c) \/ Refresh(c) \/ Search(c)
                                 \/ LastBtnClick(c) \/ NextBtnClick(c) \/ PageEditChange(c)
         PROVE  Masked!Ask(c)
    <2>1. pageEdit - 1 \in Int /\ pageEdit + 1 \in Int
      BY <1>6
    <2> QED BY <1>6, <1>7, <1>8, <1>10, <2>1 DEF ClickTab, ApplyDatePicker, Refresh, LastBtnClick,
            NextBtnClick, PageEditChange
  <1>11. ASSUME NEW c \in Calls, NEW d \in Calls, ReadChecked(c, d) \/ ReadRow(c, d)
         PROVE  Masked!Ask(d)
    BY <1>2, <1>11 DEF ReadChecked, ReadRow
  <1>12. CASE UserStep
    <2>1. CASE (\E t \in Texts : TypeText(t)) \/ (\E n \in Typed : TypePage(n)) \/ ClickBox
      BY <1>5, <2>1 DEF TypeText, TypePage, ClickBox
    <2> QED BY <1>9, <1>10, <1>11, <1>12, <2>1 DEF UserStep
  <1>13. CASE \E c \in Calls : ServeList(c) \/ ServeRead(c) \/ Deliver(c)
    BY <1>3, <1>4, <1>9, <1>13
  <1>14. CASE UNCHANGED vars
    BY <1>5, <1>14 DEF vars
  <1> QED BY <1>12, <1>13, <1>14 DEF Next

\* The views keep the promise of Mask, though listings overtake one another
\* and each reply is handled several times.
THEOREM Refinement == Spec => MaskSpec
  <1>1. Init => Masked!Init
    BY DEF Init, Masked!Init, NoCall
  <1> QED BY <1>1, Invariance, MaskStep, PTL DEF Spec, MaskSpec, Masked!Spec

\* What Mask promises: it is up only while a reply that takes it down is to come.
LEMMA MaskPromises == MaskSpec => []Masked!Owned
  <1>1. Masked!Init => Masked!Owned
    BY DEF Masked!Init, Masked!Owned
  <1>2. Masked!Owned /\ [Masked!Next]_(Masked!vars) => Masked!Owned'
    BY DEF Masked!Owned, Masked!Next, Masked!Ask, Masked!Answer, Masked!vars
  <1> QED BY <1>1, <1>2, PTL DEF MaskSpec, Masked!Spec

\* No page is locked for good: under its mask a listing is in flight, whose
\* reply takes the mask down.
THEOREM MaskIsOwned == Spec => []Masked!Owned
  BY Refinement, MaskPromises, PTL
=============================================================================
