--------------------------- MODULE ListPagesProofs ---------------------------
(***************************************************************************)
(* The invariants of ListPages, and that its pages implement Mask, for any *)
(* number of items, of subjects and of calls in flight.                    *)
(***************************************************************************)
EXTENDS ListPages, TablePageProofs, FiniteSetTheorems

-----------------------------------------------------------------------------
(* The invariant, in parts.                                                *)

CallsOK ==
  /\ calls \in [Calls -> Call] /\ (\A c \in Calls : WellFormed(calls[c]))
  /\ RemovesAsked /\ RemovalNamesItems

\* A question is asked only by a page that may do what it is about, and about
\* something.
WindowOK ==
  /\ window \in Window
  /\ window.is \in {"remove", "removeRow"} => "remove" \in OpsOf[kind]
  /\ window.is = "resume" => "resume" \in OpsOf[kind]
  /\ window.is = "remove" => window.ids # {}
  /\ window.is = "removeRow" => kind \in {"virt", "apps"}

PageOK ==
  /\ kind \in Pages /\ shown \in BOOLEAN /\ single \in BOOLEAN
  /\ refreshTimer \in BOOLEAN /\ busy \in BOOLEAN /\ subject \in Subjects
  /\ proc \in {"off", "starting", "on"} /\ appRow \in Nat
  /\ present \subseteq Ids
  /\ crashed \in BOOLEAN /\ Survives
  /\ busy => kind \in Masks

ChosenOne == kind \in Single => \A i, j \in Checked(rows) : i = j

\* The header has no box where one row is chosen; that of the nodes and the
\* templates cannot be clicked before the first listing.
HeaderOf ==
  /\ kind \in Single => ~boxShown /\ ~headCheckable
  /\ kind \in {"nodes", "templates"} /\ boxShown /\ rows = <<>> => busy \/ ~shown

TableOK == TableTypeOK /\ BatchHasRows /\ ChosenOne /\ HeaderOf

IInv == CallsOK /\ WindowOK /\ PageOK /\ TableOK

-----------------------------------------------------------------------------
(* What the pages may do.                                                  *)

LEMMA OpsOfKind ==
  ASSUME kind \in Pages
  PROVE  /\ kind \in {"nodes", "templates", "virt", "images", "review", "backups", "apps"}
         /\ OpsOf[kind] \subseteq Ops \ {"none"} /\ "list" \in OpsOf[kind]
         /\ kind \in {"nodes", "virt", "backups", "apps"} => {"create", "update"} \subseteq OpsOf[kind]
         /\ Offers("remove") \/ Offers("removeRow") \/ Offers("removeLate") => "remove" \in OpsOf[kind]
         /\ Offers("removeLate") => kind \in {"virt", "apps"}
         /\ Offers("removeNow") => kind = "virt" /\ "remove" \in OpsOf[kind]
         /\ Offers("resume") => "resume" \in OpsOf[kind]
         /\ Offers("decide") => kind = "review" /\ "decide" \in OpsOf[kind]
         /\ Offers("run") => kind = "apps" /\ "run" \in OpsOf[kind]
  <1>1. kind \in {"nodes", "templates", "virt", "images", "review", "backups", "apps"}
    BY PagesAssumption DEF Kinds, OpsOf
  <1>2. OpsOf[kind] \subseteq Ops \ {"none"}
    BY <1>1 DEF Ops, Kinds, OpsOf, NodeOps, TemplateOps, NetworkOps, ImageOps, ReviewOps,
           BackupOps, AppOps
  <1>3. CASE kind \in {"nodes", "templates"}
    BY <1>2, <1>3 DEF OpsOf, NodeOps, TemplateOps, Offers, Offered, NodesOffer, TemplatesOffer
  <1>4. CASE kind \in {"virt", "images"}
    BY <1>2, <1>4 DEF OpsOf, NetworkOps, ImageOps, Offers, Offered, NetworkOffer, ImagesOffer
  <1>5. CASE kind \in {"review", "backups"}
    BY <1>2, <1>5 DEF OpsOf, ReviewOps, BackupOps, Offers, Offered, ReviewOffer, BackupsOffer
  <1>6. CASE kind = "apps"
    BY <1>2, <1>6 DEF OpsOf, AppOps, Offers, Offered, AppsOffer
  <1> QED BY <1>1, <1>3, <1>4, <1>5, <1>6

-----------------------------------------------------------------------------
(* The slots of calls.                                                     *)

LEMMA EmptyIsSeq == \A S : <<>> \in Seq(S)
  OBVIOUS

LEMMA NewCallOK ==
  ASSUME kind \in Pages, subject \in Subjects, NEW op \in OpsOf[kind],
         NEW ids \in SUBSET Ids, NEW asked \in SUBSET Ids
  PROVE  NewCall(op, ids, asked) \in Call /\ WellFormed(NewCall(op, ids, asked))
  <1>1. op \in Ops /\ op # "none"
    BY OpsOfKind
  <1> QED BY <1>1, EmptyIsSeq DEF NewCall, Call, WellFormed

LEMMA NoCallOK ==
  ASSUME kind \in Pages, subject \in Subjects
  PROVE  NoCall \in Call /\ WellFormed(NoCall) /\ NoCall.op = "none" /\ NoCall.stage = "free"
  <1>1. "none" \in Ops
    BY DEF Ops
  <1>2. (CHOOSE s \in Subjects : TRUE) \in Subjects
    OBVIOUS
  <1> HIDE DEF Ops
  <1> QED BY <1>1, <1>2, EmptyIsSeq DEF NoCall, Call, WellFormed

\* A slot is given a call that keeps what the calls promise.
LEMMA PutKeeps ==
  ASSUME CallsOK, UNCHANGED kind, NEW c \in Calls, NEW call \in Call, WellFormed(call),
         calls' = [calls EXCEPT ![c] = call],
         call.op \in {"remove", "resume"} /\ kind \notin {"virt", "apps"} => call.ids = call.asked,
         call.op = "remove" => call.ids # {}
  PROVE  CallsOK'
  <1>1. calls' \in [Calls -> Call]
    BY DEF CallsOK
  <1>2. \A d \in Calls : calls'[d] = IF d = c THEN call ELSE calls[d]
    BY DEF CallsOK
  <1>3. \A d \in Calls : WellFormed(calls'[d])
    BY <1>2 DEF CallsOK
  <1>4. (\A d \in Calls : WellFormed(calls[d]))'
    BY <1>3 DEF WellFormed
  <1>5. RemovesAsked' /\ RemovalNamesItems'
    BY <1>2 DEF CallsOK, RemovesAsked, RemovalNamesItems
  <1> QED BY <1>1, <1>4, <1>5 DEF CallsOK

LEMMA BeginKeeps ==
  ASSUME CallsOK, kind \in Pages, subject \in Subjects, UNCHANGED kind,
         NEW c \in Calls, NEW op \in OpsOf[kind], NEW ids \in SUBSET Ids, NEW asked \in SUBSET Ids,
         Begin(c, op, ids, asked),
         op \in {"remove", "resume"} /\ kind \notin {"virt", "apps"} => ids = asked,
         op = "remove" => ids # {}
  PROVE  CallsOK'
  <1> DEFINE call == NewCall(op, ids, asked)
  <1>1. call \in Call /\ WellFormed(call)
    BY NewCallOK
  <1>2. call.op = op /\ call.ids = ids /\ call.asked = asked
    BY DEF NewCall
  <1>3. calls' = [calls EXCEPT ![c] = call]
    BY DEF Begin
  <1> HIDE DEF call
  <1> QED BY <1>1, <1>2, <1>3, PutKeeps

\* The listing of some subject.
ListOf(s) == [NewCall("list", {}, {}) EXCEPT !.subject = s]

LEMMA ListOfOK ==
  ASSUME kind \in Pages, subject \in Subjects, NEW s \in Subjects
  PROVE  ListOf(s) \in Call /\ WellFormed(ListOf(s)) /\ ListOf(s).op = "list"
  <1>1. "list" \in OpsOf[kind] /\ OpsOf[kind] \subseteq Ops
    BY OpsOfKind
  <1> QED BY <1>1, EmptyIsSeq DEF ListOf, NewCall, Call, WellFormed

LEMMA AgainKeeps ==
  ASSUME CallsOK, kind \in Pages, subject \in Subjects, UNCHANGED kind,
         NEW c \in Calls, NEW s \in Subjects, Again(c, s)
  PROVE  CallsOK'
  <1>1. calls' = [calls EXCEPT ![c] = ListOf(s)]
    BY DEF Again, ListOf
  <1> QED BY <1>1, ListOfOK, PutKeeps

LEMMA DropKeeps ==
  ASSUME CallsOK, kind \in Pages, subject \in Subjects, UNCHANGED kind,
         NEW c \in Calls, Drop(c)
  PROVE  CallsOK'
  BY NoCallOK, PutKeeps DEF Drop

WithAnswer(call, stage, list) == [call EXCEPT !.stage = stage, !.list = list]

LEMMA AnsweredKeeps ==
  ASSUME CallsOK, UNCHANGED kind, NEW c \in Calls, calls[c].stage = "sent",
         NEW stage \in {"ok", "denied", "failed"}, NEW list \in Seq(Listing),
         list # <<>> => calls[c].op = "list" /\ stage = "ok", Answered(c, stage, list)
  PROVE  CallsOK'
  <1> DEFINE call == WithAnswer(calls[c], stage, list)
  <1>1. calls[c] \in Call /\ WellFormed(calls[c])
    BY DEF CallsOK
  <1>2. call \in Call
    BY <1>1 DEF Call, WithAnswer
  <1>3. /\ call.op = calls[c].op /\ call.stage = stage /\ call.list = list
        /\ call.ids = calls[c].ids /\ call.asked = calls[c].asked
    BY <1>1 DEF Call, WithAnswer
  <1>4. calls' = [calls EXCEPT ![c] = call]
    BY DEF Answered, WithAnswer
  <1> HIDE DEF call
  <1>5. WellFormed(call)
    BY <1>1, <1>3 DEF WellFormed
  <1> QED BY <1>2, <1>3, <1>4, <1>5, PutKeeps DEF CallsOK, RemovesAsked, RemovalNamesItems

-----------------------------------------------------------------------------
(* The table and the page.                                                 *)

\* The value of a formula is that of any formula equal to it.
LEMMA Booleans == ASSUME NEW p \in BOOLEAN, NEW q, q = p PROVE q \in BOOLEAN
  OBVIOUS

LEMMA WindowSame ==
  ASSUME WindowOK, UNCHANGED <<kind, window>>
  PROVE  WindowOK'
  BY DEF WindowOK

LEMMA CallsSame ==
  ASSUME CallsOK, UNCHANGED <<kind, calls>>
  PROVE  CallsOK'
  <1>1. (\A c \in Calls : WellFormed(calls[c]))'
    BY DEF CallsOK, WellFormed
  <1> QED BY <1>1 DEF CallsOK, RemovesAsked, RemovalNamesItems

LEMMA TableSame ==
  ASSUME TableOK, UNCHANGED <<table, kind>>, busy => busy' \/ ~shown', shown' => shown
  PROVE  TableOK'
  <1>1. UNCHANGED <<rows, box, headCheckable, boxShown, batch, delete, text, searchTimer, kind>>
    BY DEF table, marks
  <1>2. TableTypeOK' /\ BatchHasRows' /\ ChosenOne'
    BY <1>1 DEF TableOK, TableTypeOK, BatchHasRows, ChosenOne, Checked
  <1>3. HeaderOf'
    BY <1>1 DEF TableOK, HeaderOf
  <1> QED BY <1>2, <1>3 DEF TableOK

LEMMA PageSame ==
  ASSUME PageOK, UNCHANGED <<page, app, present, crashed>>
  PROVE  PageOK'
  BY DEF PageOK, Survives, page, app

LEMMA MaskKeeps ==
  ASSUME PageOK, Mask
  PROVE  /\ busy' \in BOOLEAN /\ (busy' => kind \in Masks) /\ (busy => busy')
         /\ (kind \in {"nodes", "templates"} => busy')
  <1>1. (busy \/ kind \in Masks) \in BOOLEAN
    BY DEF PageOK
  <1>2. busy' \in BOOLEAN
    BY <1>1, Booleans DEF Mask
  <1>3. (busy \/ kind \in Masks) => kind \in Masks
    BY DEF PageOK
  <1> QED BY <1>2, <1>3 DEF Mask, Masks

\* What the listings leave of the table while they wait.
LEMMA UpdatingKeeps ==
  ASSUME PageOK, TableOK, Updating, UNCHANGED <<text, searchTimer, kind>>
  PROVE  /\ TableOK' /\ refreshTimer' \in BOOLEAN
         /\ busy' \in BOOLEAN /\ (busy' => kind \in Masks) /\ (busy => busy')
  <1>1. /\ busy' \in BOOLEAN /\ (busy' => kind \in Masks) /\ (busy => busy')
        /\ (kind \in {"nodes", "templates"} => busy')
    BY MaskKeeps DEF Updating
  <1>2. refreshTimer' \in BOOLEAN
    <2>1. (refreshTimer \/ kind \in Timed) \in BOOLEAN
      BY DEF PageOK
    <2>2. refreshTimer' = (refreshTimer \/ kind \in Timed)
      BY Zenon DEF Updating
    <2> QED BY <2>1, <2>2, Booleans
  <1>3. ASSUME UNCHANGED marks PROVE TableOK'
    BY <1>1, <1>3 DEF TableOK, TableTypeOK, BatchHasRows, ChosenOne, HeaderOf, Checked, marks, Updating
  <1>4. ASSUME ClearCheckState PROVE TableOK'
    <2>1. text' \in Texts /\ searchTimer' \in BOOLEAN
      BY DEF TableOK, TableTypeOK
    <2>2. /\ TableTypeOK' /\ DOMAIN rows' = DOMAIN rows /\ (rows' = <<>> <=> rows = <<>>)
          /\ \/ rows' = rows /\ batch' = batch
             \/ Checked(rows') = {} /\ ~batch'
      BY <1>4, <2>1, CheckStateCleared DEF TableOK
    <2>3. UNCHANGED <<headCheckable, boxShown>>
      BY <1>4 DEF ClearCheckState, CheckAll, marks
    <2>4. BatchHasRows' /\ ChosenOne'
      BY <2>2 DEF TableOK, BatchHasRows, ChosenOne
    <2>5. HeaderOf'
      BY <1>1, <2>2, <2>3 DEF TableOK, HeaderOf
    <2> QED BY <2>2, <2>4, <2>5 DEF TableOK
  <1> QED BY <1>1, <1>2, <1>3, <1>4 DEF Updating

LEMMA UpdateInfoBegins ==
  ASSUME PageOK, NEW c \in Calls, UpdateInfo(c)
  PROVE  Begin(c, "list", {}, {}) /\ Updating
  BY DEF UpdateInfo, NodesUpdateInfo, TemplatesUpdateInfo, NetworkUpdateInfo, ImagesUpdateInfo,
     BackupsUpdateInfo, AppsUpdateInfo

LEMMA ListBegins ==
  ASSUME CallsOK, PageOK, UNCHANGED kind, NEW c \in Calls, Begin(c, "list", {}, {})
  PROVE  CallsOK'
  <1>1. kind \in Pages /\ subject \in Subjects
    BY DEF PageOK
  <1> QED BY <1>1, OpsOfKind, BeginKeeps

-----------------------------------------------------------------------------
(* The user, and the timer.                                                *)

LEMMA ListingKeeps ==
  ASSUME IInv, NEW c \in Calls, Refresh(c) \/ RefreshTimeout(c)
  PROVE  IInv'
  <1>1. /\ Begin(c, "list", {}, {}) /\ Updating
        /\ UNCHANGED <<text, searchTimer, kind, shown, single, subject, window, app, present, crashed>>
    BY UpdateInfoBegins DEF Refresh, RefreshTimeout, IInv
  <1>2. CallsOK' /\ WindowOK'
    BY <1>1, ListBegins, WindowSame DEF IInv
  <1>3. /\ TableOK' /\ refreshTimer' \in BOOLEAN /\ busy' \in BOOLEAN /\ (busy' => kind \in Masks)
    BY <1>1, UpdatingKeeps DEF IInv
  <1>4. PageOK'
    BY <1>1, <1>3 DEF IInv, PageOK, Survives, app
  <1> QED BY <1>2, <1>3, <1>4 DEF IInv

LEMMA TemplateUpdatedKeeps ==
  ASSUME IInv, NEW c \in Calls, TemplateUpdated(c)
  PROVE  IInv'
  <1> USE DEF TemplateUpdated
  <1>1. CallsOK' /\ WindowOK'
    BY ListBegins, WindowSame DEF IInv
  <1>2. busy' \in BOOLEAN /\ (busy' => kind \in Masks) /\ (busy => busy')
    BY MaskKeeps DEF IInv
  <1>3. TableOK'
    BY <1>2, TableSame DEF IInv
  <1>4. PageOK'
    BY <1>2 DEF IInv, PageOK, Survives, app
  <1> QED BY <1>1, <1>3, <1>4 DEF IInv

LEMMA EnterKeeps ==
  ASSUME IInv, NEW c \in Calls, NEW s \in Subjects, Enter(c, s)
  PROVE  IInv'
  <1> USE DEF Enter
  <1>1. kind \in Pages /\ subject \in Subjects /\ subject' \in Subjects
    BY DEF IInv, PageOK
  <1>2. CallsOK'
    BY <1>1, AgainKeeps DEF IInv
  <1>3. /\ TableOK' /\ refreshTimer' \in BOOLEAN /\ busy' \in BOOLEAN /\ (busy' => kind \in Masks)
    BY UpdatingKeeps DEF IInv
  <1>4. PageOK' /\ WindowOK'
    BY <1>1, <1>3, WindowSame DEF IInv, PageOK, Survives, app
  <1> QED BY <1>2, <1>3, <1>4 DEF IInv

LEMMA LeaveKeeps == ASSUME IInv, Leave PROVE IInv'
  <1> USE DEF Leave
  <1>1. CallsOK' /\ WindowOK'
    BY CallsSame, WindowSame DEF IInv
  <1>2. PageOK'
    BY DEF IInv, PageOK, Survives, app
  <1>3. ASSUME UNCHANGED marks PROVE TableOK'
    <2>1. UNCHANGED table /\ shown' = FALSE
      BY <1>3 DEF table
    <2> QED BY <2>1, TableSame DEF IInv
  <1>4. ASSUME ClearCheckState PROVE TableOK'
    <2>1. text' \in Texts /\ searchTimer' \in BOOLEAN
      BY DEF IInv, TableOK, TableTypeOK
    <2>2. /\ TableTypeOK' /\ DOMAIN rows' = DOMAIN rows /\ (rows' = <<>> <=> rows = <<>>)
          /\ \/ rows' = rows /\ batch' = batch
             \/ Checked(rows') = {} /\ ~batch'
      BY <1>4, <2>1, CheckStateCleared DEF IInv, TableOK
    <2>3. UNCHANGED <<headCheckable, boxShown>>
      BY <1>4 DEF ClearCheckState, CheckAll, marks
    <2>4. BatchHasRows' /\ ChosenOne'
      BY <2>2 DEF IInv, TableOK, BatchHasRows, ChosenOne
    <2>5. HeaderOf'
      BY <2>2, <2>3 DEF IInv, TableOK, HeaderOf
    <2> QED BY <2>2, <2>4, <2>5 DEF TableOK
  <1> QED BY <1>1, <1>2, <1>3, <1>4 DEF IInv

LEMMA CloseAppsKeeps == ASSUME IInv, CloseApps PROVE IInv'
  <1> USE DEF CloseApps
  <1>1. CallsOK' /\ TableOK'
    BY CallsSame, TableSame DEF IInv
  <1>2. WindowOK'
    BY DEF WindowOK, NoWindow, Window
  <1>3. PageOK'
    BY DEF IInv, PageOK, Survives
  <1> QED BY <1>1, <1>2, <1>3 DEF IInv

\* A new dialog of the applications, over the calls of the last one.
LEMMA OpenAppsKeeps ==
  ASSUME IInv, NEW c \in Calls, NEW s \in Subjects, OpenApps(c, s)
  PROVE  IInv'
  <1> USE DEF OpenApps
  <1>1. kind \in Pages /\ subject \in Subjects
    BY DEF IInv, PageOK
  <1>2. CallsOK'
    <2>1. \A d \in Calls : calls'[d] = IF d = c THEN ListOf(s) ELSE [calls[d] EXCEPT !.mine = FALSE]
      BY DEF ListOf
    <2>2. \A d \in Calls : calls[d] \in Call /\ WellFormed(calls[d])
      BY DEF IInv, CallsOK
    <2>3. ASSUME NEW d \in Calls, d # c
          PROVE  /\ calls'[d] \in Call
                 /\ calls'[d].op = calls[d].op /\ calls'[d].stage = calls[d].stage
                 /\ calls'[d].list = calls[d].list /\ calls'[d].ids = calls[d].ids
                 /\ calls'[d].asked = calls[d].asked
      <3>1. calls'[d] = [calls[d] EXCEPT !.mine = FALSE]
        BY <2>1, <2>3
      <3> HIDE DEF OpenApps
      <3> QED BY <2>2, <3>1 DEF Call
    <2>4. ListOf(s) \in Call /\ WellFormed(ListOf(s)) /\ ListOf(s).op = "list"
      BY <1>1, ListOfOK
    <2>5. calls' \in [Calls -> Call]
      <3>1. \A d \in Calls : calls'[d] \in Call
        BY <2>1, <2>3, <2>4
      <3>2. calls' = [d \in Calls |-> calls'[d]]
        OBVIOUS
      <3> QED BY <3>1, <3>2
    <2>6. ASSUME NEW d \in Calls PROVE WellFormed(calls'[d])
      <3>1. CASE d = c
        BY <2>1, <2>4, <3>1
      <3>2. CASE d # c
        <4> HIDE DEF OpenApps
        <4> QED BY <2>2, <2>3, <3>2 DEF WellFormed
      <3> QED BY <3>1, <3>2
    <2>7. (\A d \in Calls : WellFormed(calls[d]))'
      BY <2>6 DEF WellFormed
    <2>8. RemovesAsked' /\ RemovalNamesItems'
      <3>1. kind' = kind /\ RemovesAsked /\ RemovalNamesItems
        BY DEF IInv, CallsOK
      <3>2. ASSUME NEW d \in Calls, calls'[d].op # "list"
            PROVE  /\ calls'[d].op = calls[d].op
                   /\ calls'[d].ids = calls[d].ids /\ calls'[d].asked = calls[d].asked
        <4> HIDE DEF OpenApps
        <4>1. d # c
          BY <2>1, <2>4, <3>2
        <4> QED BY <2>3, <4>1
      <3> HIDE DEF OpenApps
      <3>3. RemovesAsked'
        BY <3>1, <3>2 DEF RemovesAsked
      <3>4. RemovalNamesItems'
        BY <3>1, <3>2 DEF RemovalNamesItems
      <3> QED BY <3>3, <3>4
    <2> QED BY <2>5, <2>7, <2>8 DEF CallsOK
  <1>3. TableOK'
    <2>1. TableTypeOK'
      BY EmptyIsSeq DEF IInv, TableOK, TableTypeOK
    <2>2. BatchHasRows' /\ ChosenOne' /\ HeaderOf'
      BY DEF BatchHasRows, ChosenOne, HeaderOf, Single
    <2> QED BY <2>1, <2>2 DEF TableOK
  <1>4. PageOK' /\ WindowOK'
    BY WindowSame DEF IInv, PageOK, Survives
  <1> QED BY <1>2, <1>3, <1>4 DEF IInv

\* Checking a row unchecks the others.
LEMMA RowChosen ==
  ASSUME TableTypeOK, NEW i \in DOMAIN rows, ChooseRow(i)
  PROVE  /\ TableTypeOK' /\ DOMAIN rows' = DOMAIN rows
         /\ Checked(rows') \subseteq {i} \/ Checked(rows') \subseteq Checked(rows)
         /\ batch' <=> Checked(rows') # {}
  <1> USE DEF TableTypeOK, ChooseRow
  <1>1. \A j \in DOMAIN rows : rows[j] \in Row
    BY EmptySeq
  <1>2. ASSUME NEW j \in DOMAIN rows
        PROVE  /\ rows'[j] \in Row
               /\ rows'[j].checked /\ j # i => rows[j].checked /\ rows[i].checked
               /\ rows'[i].checked => ~rows[i].checked
    <2> DEFINE mark == IF j = i THEN ~rows[j].checked ELSE rows[j].checked /\ rows[i].checked
    <2>1. /\ mark \in BOOLEAN
          /\ j # i /\ mark => rows[j].checked /\ rows[i].checked
          /\ j = i /\ mark => ~rows[i].checked
      BY <1>1 DEF Row
    <2>2. rows'[j] = [rows[j] EXCEPT !.checked = mark]
      OBVIOUS
    <2>3. rows'[i].checked => ~rows[i].checked
      BY <1>1 DEF Row
    <2> HIDE DEF mark, ChooseRow
    <2> QED BY <1>1, <2>1, <2>2, <2>3 DEF Row
  <1>3. rows' = [j \in DOMAIN rows |-> rows'[j]]
    OBVIOUS
  <1>4. rows' \in Seq(Row) /\ DOMAIN rows' = DOMAIN rows
    <2>1. rows \in Seq(Row) /\ \A j \in DOMAIN rows : rows'[j] \in Row
      BY <1>2
    <2> HIDE DEF TableTypeOK, ChooseRow
    <2> QED BY <1>3, <2>1, RowByRow
  <1>5. /\ batch' \in BOOLEAN /\ delete' \in BOOLEAN /\ box' \in BOOLEAN
        /\ batch' <=> Checked(rows') # {}
    BY DEF HasRunning, AllChecked, Recount
  <1>6. Checked(rows') \subseteq {i} \/ Checked(rows') \subseteq Checked(rows)
    <2> HIDE DEF ChooseRow
    <2> QED BY <1>2, <1>4 DEF Checked
  <1> QED BY <1>4, <1>5, <1>6

LEMMA ClickBoxKeeps == ASSUME IInv, NEW i \in DOMAIN rows, ClickBox(i) PROVE IInv'
  <1> USE DEF ClickBox
  <1>1. CallsOK' /\ WindowOK' /\ PageOK'
    BY CallsSame, WindowSame, PageSame DEF IInv, page
  <1>2. UNCHANGED <<kind, busy, shown>>
    BY DEF page
  <1>3. ASSUME kind \in Single PROVE TableOK'
    <2>1. ChooseRow(i)
      BY <1>3
    <2>2. /\ TableTypeOK' /\ DOMAIN rows' = DOMAIN rows
          /\ Checked(rows') \subseteq {i} \/ Checked(rows') \subseteq Checked(rows)
          /\ batch' <=> Checked(rows') # {}
      BY <2>1, RowChosen DEF IInv, TableOK
    <2>3. BatchHasRows' /\ ChosenOne'
      BY <1>2, <2>2 DEF IInv, TableOK, BatchHasRows, ChosenOne
    <2>4. HeaderOf'
      BY <1>2, <1>3, <2>1 DEF IInv, TableOK, HeaderOf, ChooseRow, Single
    <2> QED BY <2>2, <2>3, <2>4 DEF TableOK
  <1>4. ASSUME kind \notin Single PROVE TableOK'
    <2>1. CheckRow(i)
      BY <1>4
    <2>2. /\ TableTypeOK' /\ DOMAIN rows' = DOMAIN rows
          /\ batch' <=> Checked(rows') # {}
      BY <2>1, RowChecked DEF IInv, TableOK
    <2>3. rows' # <<>>
      BY <2>2, EmptySeq DEF TableTypeOK
    <2>4. BatchHasRows' /\ ChosenOne' /\ HeaderOf'
      BY <1>2, <1>4, <2>2, <2>3 DEF BatchHasRows, ChosenOne, HeaderOf
    <2> QED BY <2>2, <2>4 DEF TableOK
  <1> QED BY <1>1, <1>3, <1>4 DEF IInv

LEMMA ClickHeaderKeeps == ASSUME IInv, ClickHeader PROVE IInv'
  <1> USE DEF ClickHeader
  <1>1. CallsOK' /\ WindowOK' /\ PageOK'
    BY CallsSame, WindowSame, PageSame DEF IInv, page
  <1>2. UNCHANGED <<kind, busy, shown, boxShown>> /\ shown /\ ~busy /\ kind \notin Single
    BY DEF page, CanClick, IInv, TableOK, HeaderOf
  <1>3. PICK on \in BOOLEAN : on = ~box
    BY DEF IInv, TableOK, TableTypeOK
  <1>4. \A j \in DOMAIN rows : rows[j] \in Row
    BY EmptySeq DEF IInv, TableOK, TableTypeOK
  <1>5. /\ rows' = [j \in DOMAIN rows |-> rows'[j]]
        /\ \A j \in DOMAIN rows : rows'[j] \in Row /\ rows'[j].checked = on
    BY <1>3, <1>4 DEF Row
  <1>6. rows' \in Seq(Row) /\ DOMAIN rows' = DOMAIN rows /\ (rows' = <<>> <=> rows = <<>>)
    BY <1>5, RowByRow DEF IInv, TableOK, TableTypeOK
  <1>7. batch' = on /\ box' = on
    BY <1>3
  <1>8. delete' \in BOOLEAN
    BY DEF HasRunning
  <1>9. TableTypeOK'
    BY <1>6, <1>7, <1>8 DEF IInv, TableOK, TableTypeOK
  <1>10. kind \in {"nodes", "templates"} => DOMAIN rows' # {}
    BY <1>2, <1>6, EmptySeq DEF IInv, TableOK, HeaderOf, TableTypeOK
  <1>11. batch' => Checked(rows') = DOMAIN rows'
    <2> HIDE DEF ClickHeader
    <2>1. on => \A j \in DOMAIN rows' : rows'[j].checked
      BY <1>5, <1>6
    <2> QED BY <1>7, <2>1 DEF Checked
  <1>12. kind \in {"nodes", "templates", "apps"}
    BY <1>2, OpsOfKind DEF IInv, PageOK, Single
  <1>13. BatchHasRows' /\ ChosenOne' /\ HeaderOf'
    BY <1>2, <1>6, <1>10, <1>11, <1>12 DEF IInv, TableOK, BatchHasRows, ChosenOne, HeaderOf, Single
  <1> QED BY <1>1, <1>9, <1>13 DEF IInv, TableOK

\* A window is opened or closed, and nothing else.
LEMMA WindowOnlyKeeps ==
  ASSUME IInv, WindowOK', UNCHANGED <<table, page, app, calls, present, crashed>>
  PROVE  IInv'
  <1>1. UNCHANGED <<kind, busy, shown>>
    BY DEF page
  <1>2. CallsOK' /\ TableOK' /\ PageOK'
    BY <1>1, CallsSame, TableSame, PageSame DEF IInv
  <1> QED BY <1>2 DEF IInv

LEMMA CheckedIdsOK == TableTypeOK => CheckedIds \in SUBSET Ids
  <1>1. ASSUME TableTypeOK PROVE \A i \in DOMAIN rows : rows[i] \in Row
    BY <1>1, EmptySeq DEF TableTypeOK
  <1> QED BY <1>1 DEF CheckedIds, Checked, Row

LEMMA RowIdOK == ASSUME TableTypeOK, NEW i \in DOMAIN rows PROVE rows[i].id \in Ids /\ i \in Nat
  <1>1. rows \in Seq(Row)
    BY DEF TableTypeOK
  <1>2. DOMAIN rows = 1..Len(rows) /\ Len(rows) \in Nat
    BY <1>1, EmptySeq
  <1>3. i \in Nat /\ rows[i] \in Row
    BY <1>1, <1>2
  <1> QED BY <1>3 DEF Row

LEMMA AskKeeps ==
  ASSUME IInv, \/ AskRemove \/ CloseWindow \/ OpenCreate
               \/ \E i \in DOMAIN rows : AskRemoveRow(i) \/ AskResume(i) \/ OpenEdit(i)
  PROVE  IInv'
  <1>1. UNCHANGED <<table, page, app, calls, present, crashed>>
    BY DEF AskRemove, CloseWindow, OpenCreate, AskRemoveRow, AskResume, OpenEdit
  <1>2. UNCHANGED kind /\ kind \in Pages /\ 0 \in Nat
    BY <1>1 DEF IInv, PageOK, page
  <1>3. CheckedIds \in SUBSET Ids
    BY CheckedIdsOK DEF IInv, TableOK
  <1>4. ASSUME AskRemove PROVE WindowOK'
    <2>1. window' = [is |-> "remove", ids |-> CheckedIds, row |-> 0]
          /\ "remove" \in OpsOf[kind] /\ CheckedIds # {}
      BY <1>2, <1>4, OpsOfKind DEF AskRemove, Show, Named
    <2> QED BY <1>2, <1>3, <2>1 DEF WindowOK, Window
  <1>5. ASSUME CloseWindow PROVE WindowOK'
    BY <1>2, <1>5 DEF CloseWindow, WindowOK, NoWindow, Window
  <1>6. ASSUME OpenCreate \/ \E i \in DOMAIN rows : OpenEdit(i) PROVE WindowOK'
    <2>1. \/ UNCHANGED window
          \/ \E is \in {"create", "edit"} : window' = [is |-> is, ids |-> {}, row |-> 0]
      BY <1>6 DEF OpenCreate, OpenEdit, Show
    <2> QED BY <1>2, <2>1 DEF IInv, WindowOK, Window
  <1>7. ASSUME NEW i \in DOMAIN rows, AskRemoveRow(i) PROVE WindowOK'
    <2>1. rows[i].id \in Ids /\ i \in Nat
      BY RowIdOK DEF IInv, TableOK
    <2>2. \/ /\ window' = [is |-> "remove", ids |-> {rows[i].id}, row |-> 0]
             /\ "remove" \in OpsOf[kind]
          \/ /\ window' = [is |-> "removeRow", ids |-> {rows[i].id}, row |-> i]
             /\ "remove" \in OpsOf[kind] /\ kind \in {"virt", "apps"}
      BY <1>2, <1>7, OpsOfKind DEF AskRemoveRow, Show
    <2> QED BY <1>2, <2>1, <2>2 DEF WindowOK, Window
  <1>8. ASSUME NEW i \in DOMAIN rows, AskResume(i) PROVE WindowOK'
    <2>1. rows[i].id \in Ids
      BY RowIdOK DEF IInv, TableOK
    <2>2. window' = [is |-> "resume", ids |-> {rows[i].id}, row |-> 0] /\ "resume" \in OpsOf[kind]
      BY <1>2, <1>8, OpsOfKind DEF AskResume, Show
    <2> QED BY <1>2, <2>1, <2>2 DEF WindowOK, Window
  <1>9. WindowOK'
    BY <1>4, <1>5, <1>6, <1>7, <1>8
  <1> QED BY <1>1, <1>9, WindowOnlyKeeps

LEMMA RemoveVirtIfsKeeps == ASSUME IInv, NEW c \in Calls, RemoveVirtIfs(c) PROVE IInv'
  <1> USE DEF RemoveVirtIfs
  <1>1. /\ UNCHANGED <<kind, busy, shown, shown, single, refreshTimer, busy, subject, app, present>>
        /\ kind \in Pages /\ subject \in Subjects
    BY DEF IInv, PageOK, page
  <1>2. kind = "virt" /\ "remove" \in OpsOf[kind]
    BY <1>1, OpsOfKind
  <1>3. TableOK' /\ WindowOK'
    BY <1>1, TableSame, WindowSame DEF IInv
  <1>4. CASE CheckedIds = {}
    <2>1. CallsOK'
      BY <1>1, <1>4, CallsSame DEF IInv
    <2>2. PageOK'
      BY <1>1, <1>2, <1>4 DEF IInv, PageOK, Survives, app
    <2> QED BY <1>3, <2>1, <2>2 DEF IInv
  <1>5. CASE CheckedIds # {}
    <2>1. CheckedIds \in SUBSET Ids /\ Begin(c, "remove", CheckedIds, CheckedIds)
      BY <1>5, CheckedIdsOK DEF IInv, TableOK
    <2>2. CallsOK'
      <3> HIDE DEF RemoveVirtIfs
      <3> QED BY <1>1, <1>2, <1>5, <2>1, BeginKeeps DEF IInv
    <2>3. PageOK'
      BY <1>1, <1>5 DEF IInv, PageOK, Survives, app
    <2> QED BY <1>3, <2>2, <2>3 DEF IInv
  <1> QED BY <1>4, <1>5

\* A decision, and at once the listing.
LEMMA DecideKeeps ==
  ASSUME IInv, NEW c \in Calls, NEW d \in Calls, NEW i \in DOMAIN rows, Decide(c, d, i)
  PROVE  IInv'
  <1> USE DEF Decide
  <1>1. /\ kind \in Pages /\ subject \in Subjects /\ rows[i].id \in Ids
        /\ UNCHANGED <<text, searchTimer, kind, shown, single, subject, window, app, present, crashed>>
    BY RowIdOK DEF IInv, PageOK, TableOK
  <1>2. "decide" \in OpsOf[kind] /\ "list" \in OpsOf[kind]
    BY <1>1, OpsOfKind
  <1>3. CallsOK'
    <2> DEFINE decision == NewCall("decide", {rows[i].id}, {rows[i].id})
               listing  == NewCall("list", {}, {})
    <2>1. /\ decision \in Call /\ WellFormed(decision) /\ listing \in Call /\ WellFormed(listing)
          /\ decision.op = "decide" /\ listing.op = "list"
      <3>1. {rows[i].id} \in SUBSET Ids
        BY <1>1
      <3>2. decision \in Call /\ WellFormed(decision) /\ listing \in Call /\ WellFormed(listing)
        BY <1>1, <1>2, <3>1, NewCallOK
      <3>3. decision.op = "decide" /\ listing.op = "list"
        BY DEF NewCall
      <3> QED BY <3>2, <3>3
    <2>2. calls' = [calls EXCEPT ![c] = decision, ![d] = listing] /\ c # d
      OBVIOUS
    <2> HIDE DEF decision, listing
    <2>3. calls \in [Calls -> Call] /\ (\A e \in Calls : WellFormed(calls[e]))
      BY DEF IInv, CallsOK
    <2>4. \A e \in Calls : calls'[e] = IF e = d THEN listing ELSE IF e = c THEN decision ELSE calls[e]
      BY <2>2, <2>3
    <2>5. calls' \in [Calls -> Call]
      BY <2>1, <2>2, <2>3
    <2>6. \A e \in Calls : WellFormed(calls'[e])
      BY <2>1, <2>3, <2>4
    <2>7. (\A e \in Calls : WellFormed(calls[e]))'
      BY <1>1, <2>6 DEF WellFormed
    <2>8. RemovesAsked' /\ RemovalNamesItems'
      BY <1>1, <2>1, <2>4 DEF IInv, CallsOK, RemovesAsked, RemovalNamesItems
    <2> QED BY <2>5, <2>7, <2>8 DEF CallsOK
  <1>4. /\ TableOK' /\ refreshTimer' \in BOOLEAN /\ busy' \in BOOLEAN /\ (busy' => kind \in Masks)
    BY UpdatingKeeps DEF IInv
  <1>5. PageOK' /\ WindowOK'
    BY <1>1, <1>4, WindowSame DEF IInv, PageOK, Survives, app
  <1> QED BY <1>3, <1>4, <1>5 DEF IInv

LEMMA ConfirmKeeps == ASSUME IInv, NEW c \in Calls, Confirm(c) PROVE IInv'
  <1> USE DEF Confirm
  <1>1. /\ UNCHANGED <<kind, busy, shown, single, refreshTimer, subject, app, present, table>>
        /\ kind \in Pages /\ subject \in Subjects
    BY DEF IInv, PageOK, page
  <1>2. TableOK' /\ WindowOK'
    BY <1>1, TableSame DEF IInv, WindowOK, NoWindow, Window
  <1>3. CASE AnswerYes(c)
    <2>1. /\ Begin(c, window.is, window.ids, window.ids) /\ window.is \in {"remove", "resume"}
          /\ crashed' = crashed /\ window.ids \in SUBSET Ids /\ window.is \in OpsOf[kind]
          /\ window.is = "remove" => window.ids # {}
      BY <1>3 DEF AnswerYes, IInv, WindowOK, Window
    <2>2. CallsOK'
      <3> HIDE DEF Confirm
      <3> QED BY <1>1, <2>1, BeginKeeps DEF IInv
    <2>3. PageOK'
      BY <1>1, <2>1 DEF IInv, PageOK, Survives, app
    <2> QED BY <1>2, <2>2, <2>3 DEF IInv
  <1>4. CASE AnswerYesRow(c)
    <2>1. /\ window.is = "removeRow" /\ "remove" \in OpsOf[kind] /\ kind \in {"virt", "apps"}
          /\ window.ids \in SUBSET Ids
      BY <1>4 DEF AnswerYesRow, IInv, WindowOK, Window
    <2>2. CASE window.row \in DOMAIN rows
      <3> DEFINE named == {rows[window.row].id}
      <3>1. named \in SUBSET Ids /\ named # {}
        BY <2>2, RowIdOK DEF IInv, TableOK
      <3>2. Begin(c, "remove", named, window.ids) /\ crashed' = crashed
        BY <1>4, <2>2 DEF AnswerYesRow
      <3> HIDE DEF named
      <3>3. CallsOK'
        <4> HIDE DEF Confirm
        <4> QED BY <1>1, <2>1, <3>1, <3>2, BeginKeeps DEF IInv
      <3>4. PageOK'
        BY <1>1, <3>2 DEF IInv, PageOK, Survives, app
      <3> QED BY <1>2, <3>3, <3>4 DEF IInv
    <2>3. CASE window.row \notin DOMAIN rows
      <3>1. crashed' = TRUE /\ calls' = calls
        BY <1>4, <2>3 DEF AnswerYesRow
      <3>2. CallsOK'
        BY <1>1, <3>1, CallsSame DEF IInv
      <3>3. PageOK'
        BY <1>1, <2>1, <3>1 DEF IInv, PageOK, Survives, app
      <3> QED BY <1>2, <3>2, <3>3 DEF IInv
    <2> QED BY <2>2, <2>3
  <1> QED BY <1>3, <1>4

LEMMA SaveKeeps == ASSUME IInv, NEW c \in Calls, Save(c) PROVE IInv'
  <1> USE DEF Save
  <1>1. /\ UNCHANGED <<kind, busy, shown, table, page, app, present, crashed>>
        /\ kind \in Pages /\ subject \in Subjects
    BY DEF IInv, PageOK, page
  <1>2. /\ Begin(c, Saved, {}, {}) /\ kind \in {"nodes", "backups", "apps", "virt"}
        /\ window' = window \/ window' = NoWindow
    BY DEF SaveNode, SaveBackup, SaveApp, SaveNetwork
  <1>3. Saved \in {"create", "update"} /\ Saved \in OpsOf[kind]
    BY <1>1, <1>2, OpsOfKind DEF Saved
  <1>4. CallsOK'
    <2> HIDE DEF Save, Saved
    <2> QED BY <1>1, <1>2, <1>3, BeginKeeps DEF IInv
  <1>5. TableOK' /\ PageOK'
    BY <1>1, TableSame, PageSame DEF IInv
  <1>6. WindowOK'
    BY <1>1, <1>2, WindowSame DEF IInv, WindowOK, NoWindow, Window
  <1> QED BY <1>4, <1>5, <1>6 DEF IInv

LEMMA RunKeeps ==
  ASSUME IInv, NEW i \in DOMAIN rows, RunGui(i) \/ \E c \in Calls : RunApp(c, i)
  PROVE  IInv'
  <1>1. /\ UNCHANGED <<kind, busy, shown, table, page, present, crashed, window>>
        /\ kind \in Pages /\ subject \in Subjects /\ i \in Nat
    BY RowIdOK DEF IInv, PageOK, page, RunGui, RunApp, TableOK
  <1>2. TableOK' /\ WindowOK'
    BY <1>1, TableSame, WindowSame DEF IInv
  <1>3. CASE RunGui(i)
    <2>1. appRow' = i /\ proc' = "starting" /\ calls' = calls
      BY <1>3 DEF RunGui
    <2>2. CallsOK' /\ PageOK'
      BY <1>1, <2>1, CallsSame DEF IInv, PageOK, Survives, page
    <2> QED BY <1>2, <2>2 DEF IInv
  <1>4. ASSUME NEW c \in Calls, RunApp(c, i) PROVE IInv'
    <2>1. Begin(c, "run", {}, {}) /\ UNCHANGED app /\ "run" \in OpsOf[kind]
      BY <1>1, <1>4, OpsOfKind DEF RunApp
    <2>2. CallsOK'
      BY <1>1, <2>1, BeginKeeps DEF IInv
    <2>3. PageOK'
      BY <1>1, <2>1, PageSame DEF IInv
    <2> QED BY <1>2, <2>2, <2>3 DEF IInv
  <1> QED BY <1>3, <1>4

\* The terminal's signal changes one row, whatever it shows by now.
LEMMA GuiAppStatusKeeps ==
  ASSUME TableOK, kind = "apps", UNCHANGED <<kind, text, searchTimer>>,
         NEW running \in BOOLEAN, GuiAppStatus(running)
  PROVE  TableOK' /\ (crashed' = crashed \/ crashed' = TRUE)
  <1> USE DEF GuiAppStatus
  <1>1. CASE appRow \in DOMAIN rows
    <2>1. \A j \in DOMAIN rows : rows[j] \in Row
      BY EmptySeq DEF TableOK, TableTypeOK
    <2>2. /\ rows' = [j \in DOMAIN rows |-> rows'[j]]
          /\ \A j \in DOMAIN rows : rows'[j] \in Row
      BY <1>1, <2>1 DEF Row
    <2>3. rows' \in Seq(Row)
      BY <2>2, RowByRow DEF TableOK, TableTypeOK
    <2>4. TableTypeOK' /\ BatchHasRows' /\ ChosenOne' /\ HeaderOf' /\ crashed' = crashed
      BY <1>1, <2>3 DEF TableOK, TableTypeOK, BatchHasRows, ChosenOne, HeaderOf, Single
    <2> QED BY <2>4 DEF TableOK
  <1>2. CASE appRow \notin DOMAIN rows
    BY <1>2 DEF TableOK, TableTypeOK, BatchHasRows, ChosenOne, HeaderOf, Single, marks
  <1> QED BY <1>1, <1>2

LEMMA ProcChangedKeeps == ASSUME IInv, ProcChanged PROVE IInv'
  <1> USE DEF ProcChanged
  <1>1. /\ UNCHANGED <<kind, busy, shown, page, calls, window, appRow, present>> /\ kind = "apps"
        /\ proc' \in {"off", "starting", "on"}
    BY DEF page
  <1>2. PICK running \in BOOLEAN : running = (proc' = "on")
    OBVIOUS
  <1>3. GuiAppStatus(running)
    BY <1>2
  <1>4. TableOK' /\ (crashed' = crashed \/ crashed' = TRUE)
    BY <1>1, <1>3, GuiAppStatusKeeps DEF IInv
  <1>5. CallsOK' /\ WindowOK'
    BY <1>1, CallsSame, WindowSame DEF IInv
  <1>6. PageOK'
    BY <1>1, <1>4 DEF IInv, PageOK, Survives, page
  <1> QED BY <1>4, <1>5, <1>6 DEF IInv

-----------------------------------------------------------------------------
(* The server.                                                             *)

LEMMA ListingsOK ==
  ASSUME NEW S, S \subseteq Ids, NEW list \in Listings(S)
  PROVE  list \in Seq(Listing)
  <1>1. IsFiniteSet(S)
    BY ItemsAssumption, FS_Subset
  <1>2. Cardinality(S) \in Nat
    BY <1>1, FS_CardinalityType
  <1>3. list \in [1..Cardinality(S) -> Listing]
    BY DEF Listings
  <1> QED BY <1>2, <1>3, FunctionIsSeq

LEMMA ServerKeeps == ASSUME IInv, NEW c \in Calls, ServerStep(c) PROVE IInv'
  <1>1. /\ UNCHANGED <<table, page, window, app, crashed, kind, busy, shown>>
        /\ present \subseteq Ids
    BY DEF ServerStep, ServeList, ServeOperation, Fail, page, IInv, PageOK
  <1>2. TableOK' /\ WindowOK'
    BY <1>1, TableSame, WindowSame DEF IInv
  <1>3. present' \subseteq Ids
    BY <1>1 DEF ServerStep, ServeList, ServeOperation, Fail, Remove
  <1>4. PageOK'
    BY <1>1, <1>3 DEF IInv, PageOK, Survives, page, app
  <1>5. calls[c].stage = "sent"
    BY DEF ServerStep, ServeList, ServeOperation, Fail
  <1>6. CASE ServeList(c)
    <2>1. Listed(calls[c].subject) \subseteq Ids
      BY <1>1 DEF Listed
    <2>2. PICK l \in Listings(Listed(calls[c].subject)) : Answered(c, "ok", l)
      BY <1>6 DEF ServeList
    <2>3. l \in Seq(Listing) /\ calls[c].op = "list"
      BY <1>6, <2>1, ListingsOK DEF ServeList
    <2>4. CallsOK'
      BY <1>1, <1>5, <2>2, <2>3, AnsweredKeeps DEF IInv
    <2> QED BY <1>2, <1>4, <2>4 DEF IInv
  <1>7. CASE ServeOperation(c) \/ Fail(c)
    <2>1. PICK stage \in {"ok", "denied", "failed"} : Answered(c, stage, <<>>)
      BY <1>7 DEF ServeOperation, Fail
    <2>2. CallsOK'
      BY <1>1, <1>5, <2>1, EmptyIsSeq, AnsweredKeeps DEF IInv
    <2> QED BY <1>2, <1>4, <2>2 DEF IInv
  <1> QED BY <1>6, <1>7 DEF ServerStep

LEMMA OthersKeeps == ASSUME IInv, Others PROVE IInv'
  <1> USE DEF Others
  <1>1. UNCHANGED <<table, page, window, app, calls, crashed, kind, busy, shown>>
    BY DEF page
  <1>2. CallsOK' /\ TableOK' /\ WindowOK'
    BY <1>1, CallsSame, TableSame, WindowSame DEF IInv
  <1>3. present' \subseteq Ids
    BY DEF IInv, PageOK
  <1>4. PageOK'
    BY <1>1, <1>3 DEF IInv, PageOK, Survives, page, app
  <1> QED BY <1>2, <1>4 DEF IInv

-----------------------------------------------------------------------------
(* The slots.                                                              *)

\* The rows of a reply come unchecked.
LEMMA RowsOfReply ==
  ASSUME NEW list \in Seq(Listing), rows' = RowsOf(list)
  PROVE  rows' \in Seq(Row) /\ Checked(rows') = {} /\ (rows' = <<>> <=> list = <<>>)
  <1>1. \A i \in DOMAIN list : list[i] \in Listing
    BY EmptySeq
  <1>2. /\ rows' = [i \in DOMAIN list |-> rows'[i]]
        /\ \A i \in DOMAIN list : rows'[i] \in Row /\ ~rows'[i].checked
    BY <1>1 DEF RowsOf, Row, Listing
  <1>3. rows' \in Seq(Row) /\ DOMAIN rows' = DOMAIN list /\ Checked(rows') = {}
    BY <1>2, ListingIsTable
  <1> QED BY <1>3, EmptySeq

LEMMA FillKeeps ==
  ASSUME TableOK, UNCHANGED kind, kind \in {"virt", "backups"},
         NEW list \in Seq(Listing), Fill(list)
  PROVE  TableOK'
  <1> USE DEF Fill
  <1>1. rows' \in Seq(Row) /\ Checked(rows') = {}
    BY RowsOfReply
  <1>2. batch' \in BOOLEAN /\ delete' \in BOOLEAN /\ box' \in BOOLEAN
    BY DEF TableOK, TableTypeOK
  <1>3. TableTypeOK'
    BY <1>1, <1>2 DEF TableOK, TableTypeOK
  <1>4. BatchHasRows' /\ ChosenOne' /\ HeaderOf'
    BY <1>1 DEF TableOK, BatchHasRows, ChosenOne, HeaderOf, Single
  <1> QED BY <1>3, <1>4 DEF TableOK

LEMMA RefillKeeps ==
  ASSUME TableOK, UNCHANGED kind, kind \in {"nodes", "templates", "apps"},
         NEW list \in Seq(Listing), Refill(list)
  PROVE  TableOK'
  <1>1. TableTypeOK' /\ DOMAIN rows' = DOMAIN list /\ Checked(rows') = {} /\ ~batch'
    BY Refilled DEF TableOK
  <1>2. rows' = <<>> => ~boxShown'
    BY <1>1, EmptySeq DEF Refill, TableTypeOK
  <1>3. BatchHasRows' /\ ChosenOne' /\ HeaderOf'
    BY <1>1, <1>2 DEF BatchHasRows, ChosenOne, HeaderOf, Single
  <1> QED BY <1>1, <1>3 DEF TableOK

\* A listing that comes back: the table it leaves, the mask and the buttons.
LEMMA ListedKeeps ==
  ASSUME IInv, NEW c \in Calls, HandleList(c)
  PROVE  TableOK' /\ single' \in BOOLEAN /\ busy' = FALSE
  <1> DEFINE list == calls[c].list
  <1>1. list \in Seq(Listing) /\ UNCHANGED <<kind, shown>>
    BY DEF IInv, CallsOK, Call, HandleList
  <1>2. Tolerated(c) \in BOOLEAN /\ Ok(c) \in BOOLEAN /\ (calls[c].stage = "denied") \in BOOLEAN
    BY DEF Tolerated, Ok
  <1>3. kind \in {"virt", "apps"} => busy = FALSE
    BY DEF IInv, PageOK, Masks
  <1>4. CASE NodesListed(c) \/ TemplatesListed(c)
    <2>1. Refill(list) /\ kind \in {"nodes", "templates"} /\ single' = Tolerated(c) /\ busy' = FALSE
      BY <1>4, Zenon DEF NodesListed, TemplatesListed, Unmask
    <2> QED BY <1>1, <1>2, <2>1, RefillKeeps, Booleans DEF IInv
  <1>5. CASE NetworkListed(c)
    <2>1. single' = Ok(c) /\ busy' = FALSE /\ kind = "virt"
      BY <1>3, <1>5, Zenon DEF NetworkListed
    <2>2. CASE Ok(c)
      BY <1>1, <1>2, <1>5, <2>1, <2>2, FillKeeps, Booleans DEF NetworkListed, IInv
    <2>3. CASE ~Ok(c)
      <3>1. UNCHANGED table
        BY <1>5, <2>3 DEF NetworkListed
      <3>2. TableOK'
        BY <1>1, <1>3, <2>1, <3>1, TableSame DEF IInv
      <3> QED BY <1>2, <2>1, <3>2, Booleans
    <2> QED BY <2>2, <2>3
  <1>6. CASE ImagesListed(c)
    <2> USE <1>6 DEF ImagesListed
    <2>1. rows' \in Seq(Row) /\ Checked(rows') = {}
      BY <1>1, RowsOfReply
    <2>2. batch' = FALSE /\ delete' = FALSE /\ busy' = FALSE /\ kind \in {"images", "review"}
      BY DEF DisableBatch, Unmask
    <2>3. single' \in BOOLEAN
      <3>1. single' = Ok(c) \/ single' = FALSE
        OBVIOUS
      <3> QED BY <1>2, <3>1, Booleans
    <2>4. box' \in BOOLEAN
      BY DEF IInv, TableOK, TableTypeOK
    <2>5. TableTypeOK'
      BY <2>1, <2>2, <2>4 DEF IInv, TableOK, TableTypeOK
    <2>6. BatchHasRows' /\ ChosenOne' /\ HeaderOf'
      BY <1>1, <2>1, <2>2 DEF IInv, TableOK, BatchHasRows, ChosenOne, HeaderOf
    <2> QED BY <2>2, <2>3, <2>5, <2>6 DEF TableOK
  <1>7. CASE BackupsListed(c)
    <2>1. Fill(list) /\ kind = "backups" /\ single' = Tolerated(c) /\ busy' = FALSE
      BY <1>7, Zenon DEF BackupsListed, Unmask
    <2> QED BY <1>1, <1>2, <2>1, FillKeeps, Booleans DEF IInv
  <1>8. CASE AppsListed(c)
    <2> USE <1>8 DEF AppsListed
    <2>1. busy' = FALSE /\ kind = "apps" /\ single \in BOOLEAN
      BY DEF Unmask, IInv, PageOK
    <2>2. CASE Ok(c)
      BY <1>1, <2>1, <2>2, RefillKeeps DEF IInv
    <2>3. CASE ~Ok(c)
      <3>1. batch' = FALSE /\ delete' = FALSE /\ single' = single
            /\ UNCHANGED <<rows, box, headCheckable, boxShown, text, searchTimer>>
        BY <2>3 DEF DisableBatch
      <3>2. TableTypeOK'
        BY <3>1 DEF IInv, TableOK, TableTypeOK
      <3>3. BatchHasRows' /\ ChosenOne' /\ HeaderOf'
        BY <1>1, <2>1, <3>1 DEF IInv, BatchHasRows, ChosenOne, HeaderOf, Single
      <3> QED BY <2>1, <3>1, <3>2, <3>3 DEF TableOK
    <2> QED BY <2>2, <2>3
  <1>9. CASE AppsListedForAnother(c)
    <2> USE <1>9 DEF AppsListedForAnother
    <2>1. busy' = FALSE /\ kind = "apps"
      BY <1>3
    <2>2. single' \in BOOLEAN
      <3>1. single' = (calls[c].stage = "denied")
        BY Zenon
      <3> QED BY <1>2, <3>1, Booleans
    <2>3. TableTypeOK'
      BY EmptyIsSeq DEF IInv, TableOK, TableTypeOK
    <2>4. BatchHasRows' /\ ChosenOne' /\ HeaderOf'
      BY <1>1, <2>1 DEF IInv, BatchHasRows, ChosenOne, HeaderOf, Single
    <2> QED BY <2>1, <2>2, <2>3, <2>4 DEF TableOK
  <1> QED BY <1>4, <1>5, <1>6, <1>7, <1>8, <1>9 DEF HandleList

LEMMA HandleListKeeps == ASSUME IInv, NEW c \in Calls, HandleList(c) PROVE IInv'
  <1>1. TableOK' /\ single' \in BOOLEAN /\ busy' = FALSE
    BY ListedKeeps
  <1>2. /\ UNCHANGED <<kind, shown, refreshTimer, subject, window, app, present, crashed>>
        /\ Drop(c) /\ kind \in Pages /\ subject \in Subjects
    BY DEF HandleList, IInv, PageOK
  <1>3. CallsOK' /\ WindowOK'
    BY <1>2, DropKeeps, WindowSame DEF IInv
  <1>4. PageOK'
    BY <1>1, <1>2 DEF IInv, PageOK, Survives, app
  <1> QED BY <1>1, <1>3, <1>4 DEF IInv

\* The slot of an operation that was done lists anew, and may close a window.
LEMMA HandleOkKeeps == ASSUME IInv, NEW c \in Calls, HandleOk(c) PROVE IInv'
  <1> DEFINE slots == \/ NodesChanged(c) \/ TemplatesChanged(c) \/ NetworkChanged(c)
                      \/ ImagesChanged(c) \/ BackupsChanged(c) \/ AppsChanged(c)
  <1>1. /\ UNCHANGED <<kind, shown, single, app, present>> /\ slots
        /\ kind \in Pages /\ subject \in Subjects
    BY DEF HandleOk, IInv, PageOK
  <1>2. \E s \in Subjects : Again(c, s)
    <2>1. calls[c].subject \in Subjects
      BY DEF IInv, CallsOK, Call
    <2>2. Resumed(c) \in Subjects
      BY <1>1, <2>1 DEF Resumed
    <2> QED BY <1>1, <2>2 DEF NodesChanged, TemplatesChanged, NetworkChanged, ImagesChanged,
            BackupsChanged, AppsChanged
  <1>3. CallsOK'
    BY <1>1, <1>2, AgainKeeps DEF IInv
  <1>4. WindowOK'
    <2>1. window' = window \/ window' = NoWindow
      BY <1>1 DEF NodesChanged, TemplatesChanged, NetworkChanged, ImagesChanged,
         BackupsChanged, AppsChanged, Closes
    <2> QED BY <1>1, <2>1, WindowSame DEF IInv, WindowOK, NoWindow, Window
  <1>5. crashed' = crashed \/ (kind = "apps" /\ crashed' \in BOOLEAN)
    BY <1>1 DEF NodesChanged, TemplatesChanged, NetworkChanged, ImagesChanged,
       BackupsChanged, AppsChanged, Closes
  <1>6. CASE NodesChanged(c) \/ TemplatesChanged(c) \/ ImagesChanged(c)
    <2>1. Mask /\ UNCHANGED <<table, refreshTimer, subject>>
      BY <1>6 DEF NodesChanged, TemplatesChanged, ImagesChanged
    <2>2. busy' \in BOOLEAN /\ (busy' => kind \in Masks) /\ (busy => busy')
      BY <2>1, MaskKeeps DEF IInv
    <2>3. TableOK'
      BY <1>1, <2>1, <2>2, TableSame DEF IInv
    <2>4. PageOK'
      BY <1>1, <1>5, <2>1, <2>2 DEF IInv, PageOK, Survives, app
    <2> QED BY <1>3, <1>4, <2>3, <2>4 DEF IInv
  <1>7. CASE NetworkChanged(c) \/ AppsChanged(c)
    <2>1. UNCHANGED <<table, busy, refreshTimer, subject>>
      BY <1>7 DEF NetworkChanged, AppsChanged
    <2>2. TableOK'
      BY <1>1, <2>1, TableSame DEF IInv
    <2>3. PageOK'
      BY <1>1, <1>5, <2>1 DEF IInv, PageOK, Survives, app
    <2> QED BY <1>3, <1>4, <2>2, <2>3 DEF IInv
  <1>8. CASE BackupsChanged(c)
    <2>1. Updating /\ UNCHANGED <<text, searchTimer, kind>> /\ subject' = Resumed(c)
      BY <1>1, <1>8 DEF BackupsChanged
    <2>2. subject' \in Subjects
      BY <1>1, <2>1 DEF Resumed, IInv, CallsOK, Call
    <2>3. /\ TableOK' /\ refreshTimer' \in BOOLEAN /\ busy' \in BOOLEAN /\ (busy' => kind \in Masks)
      BY <2>1, UpdatingKeeps DEF IInv
    <2>4. PageOK'
      BY <1>1, <1>5, <2>2, <2>3 DEF IInv, PageOK, Survives, app
    <2> QED BY <1>3, <1>4, <2>3, <2>4 DEF IInv
  <1> QED BY <1>1, <1>6, <1>7, <1>8

LEMMA EndedKeeps ==
  ASSUME IInv, NEW c \in Calls, HandleFailed(c) \/ Ignore(c)
  PROVE  IInv'
  <1>1. /\ UNCHANGED <<table, page, window, app, present, crashed, kind, busy, shown>>
        /\ Drop(c) /\ kind \in Pages /\ subject \in Subjects
    BY DEF HandleFailed, Ignore, page, IInv, PageOK
  <1>2. CallsOK' /\ TableOK' /\ WindowOK' /\ PageOK'
    BY <1>1, DropKeeps, TableSame, WindowSame, PageSame DEF IInv
  <1> QED BY <1>2 DEF IInv

-----------------------------------------------------------------------------
(* The invariant.                                                          *)

LEMMA Starts == Init => IInv
  <1> SUFFICES ASSUME Init PROVE IInv
    OBVIOUS
  <1> USE DEF Init
  <1>1. kind \in Pages /\ subject \in Subjects
    OBVIOUS
  <1>2. CallsOK
    <2>1. \A c \in Calls : calls[c] = NoCall
      OBVIOUS
    <2>2. calls \in [Calls -> Call]
      BY <1>1, NoCallOK
    <2> QED BY <1>1, <2>1, <2>2, NoCallOK DEF CallsOK, RemovesAsked, RemovalNamesItems
  <1>3. WindowOK
    BY DEF WindowOK, NoWindow, Window
  <1>4. PageOK
    BY DEF PageOK, Survives
  <1>5. TableOK
    <2>1. TableTypeOK
      <3>1. boxShown \in BOOLEAN
        <4>1. (kind \notin Single) \in BOOLEAN
          OBVIOUS
        <4>2. boxShown = (kind \notin Single)
          BY Zenon DEF Fresh
        <4> QED BY <4>1, <4>2, Booleans
      <3> QED BY <3>1, EmptyIsSeq, TextsAssumption DEF Fresh, TableTypeOK
    <2>2. BatchHasRows /\ ChosenOne /\ HeaderOf
      <3>1. rows = <<>> /\ batch = FALSE /\ headCheckable = FALSE /\ shown = FALSE
        BY DEF Fresh
      <3>2. Checked(rows) = {}
        BY <3>1 DEF Checked
      <3>3. kind \in Single => ~boxShown
        BY Zenon DEF Fresh
      <3> HIDE DEF Init
      <3> QED BY <3>1, <3>2, <3>3 DEF BatchHasRows, ChosenOne, HeaderOf
    <2> QED BY <2>1, <2>2 DEF TableOK
  <1> QED BY <1>2, <1>3, <1>4, <1>5 DEF IInv

LEMMA Stutters == IInv /\ UNCHANGED vars => IInv'
  <1> SUFFICES ASSUME IInv, UNCHANGED vars PROVE IInv'
    OBVIOUS
  <1>1. UNCHANGED <<table, page, window, app, calls, present, crashed, kind, busy, shown>>
    BY DEF vars, page
  <1>2. CallsOK' /\ TableOK' /\ WindowOK' /\ PageOK'
    BY <1>1, CallsSame, TableSame, WindowSame, PageSame DEF IInv
  <1> QED BY <1>2 DEF IInv

LEMMA Step == IInv /\ [Next]_vars => IInv'
  <1> SUFFICES ASSUME IInv, [Next]_vars PROVE IInv'
    OBVIOUS
  <1>1. ASSUME NEW i \in DOMAIN rows, RowStep(i) PROVE IInv'
    BY <1>1, ClickBoxKeeps, AskKeeps, RunKeeps, DecideKeeps DEF RowStep
  <1>2. ASSUME NEW c \in Calls,
               \/ \E s \in Subjects : Enter(c, s) \/ OpenApps(c, s)
               \/ Refresh(c) \/ RemoveVirtIfs(c) \/ Confirm(c) \/ Save(c) \/ TemplateUpdated(c)
        PROVE  IInv'
    BY <1>2, EnterKeeps, OpenAppsKeeps, ListingKeeps, RemoveVirtIfsKeeps, ConfirmKeeps, SaveKeeps,
       TemplateUpdatedKeeps
  <1>3. CASE Leave \/ CloseApps \/ ClickHeader \/ AskRemove \/ CloseWindow \/ OpenCreate
    BY <1>3, LeaveKeeps, CloseAppsKeeps, ClickHeaderKeeps, AskKeeps
  <1>4. ASSUME NEW c \in Calls, ServerStep(c) \/ SlotStep(c) \/ RefreshTimeout(c)
        PROVE  IInv'
    BY <1>4, ServerKeeps, HandleListKeeps, HandleOkKeeps, EndedKeeps, ListingKeeps DEF SlotStep
  <1>5. CASE Others \/ ProcChanged
    BY <1>5, OthersKeeps, ProcChangedKeeps
  <1>6. CASE UserStep
    BY <1>1, <1>2, <1>3, <1>6 DEF UserStep
  <1> QED BY <1>4, <1>5, <1>6, Stutters DEF Next

\* The inductive invariant of the list pages.
THEOREM Invariance == Spec => []IInv
  BY Starts, Step, PTL DEF Spec

\* Every variable has its type, and no page has a call it cannot make.
THEOREM TypeCorrect == Spec => []TypeOK
  <1>1. IInv => TypeOK
    BY DEF IInv, CallsOK, WindowOK, PageOK, TableOK, TypeOK
  <1> QED BY <1>1, Invariance, PTL

\* On four of the pages a batch button has a checked row.
THEOREM ButtonsHaveRows == Spec => []BatchHasRows
  <1>1. IInv => BatchHasRows
    BY DEF IInv, TableOK
  <1> QED BY <1>1, Invariance, PTL

\* Where one row at most may be chosen, no more are.
THEOREM ChoiceIsOne == Spec => []OneChosen
  <1>1. IInv => OneChosen
    <2> SUFFICES ASSUME ChosenOne, kind \in Single PROVE Cardinality(Checked(rows)) <= 1
      BY DEF IInv, TableOK, OneChosen
    <2>1. Checked(rows) = {} \/ \E i \in Checked(rows) : Checked(rows) = {i}
      BY DEF ChosenOne
    <2>2. Cardinality(Checked(rows)) \in {0, 1}
      BY <2>1, FS_EmptySet, FS_Singleton
    <2> QED BY <2>2
  <1> QED BY <1>1, Invariance, PTL

\* What is removed is what the user was asked about.
THEOREM RemovalIsAsked == Spec => []RemovesAsked
  <1>1. IInv => RemovesAsked
    BY DEF IInv, CallsOK
  <1> QED BY <1>1, Invariance, PTL

\* No removal goes out without an item.
THEOREM RemovalHasItems == Spec => []RemovalNamesItems
  <1>1. IInv => RemovalNamesItems
    BY DEF IInv, CallsOK
  <1> QED BY <1>1, Invariance, PTL

\* Only the pages of interfaces and of applications can follow a null pointer.
THEOREM Survival == Spec => []Survives
  <1>1. IInv => Survives
    BY DEF IInv, PageOK
  <1> QED BY <1>1, Invariance, PTL

-----------------------------------------------------------------------------
(* The promise of Mask.                                                    *)

Waiting == {c \in Calls : calls[c].op = "list"}

LEMMA AsksForList ==
  ASSUME IInv, NEW c \in Calls, NEW s, calls[c] = NoCall \/ calls[c].op # "list",
         Begin(c, "list", {}, {}) \/ Again(c, s)
  PROVE  Waiting' = Waiting \cup {c}
  <1>1. calls \in [Calls -> Call]
    BY DEF IInv, CallsOK
  <1>2. CASE Begin(c, "list", {}, {})
    <2>1. NewCall("list", {}, {}).op = "list"
      BY DEF NewCall
    <2>2. calls' = [calls EXCEPT ![c] = NewCall("list", {}, {})]
      BY <1>2 DEF Begin
    <2> QED BY <1>1, <2>1, <2>2 DEF Waiting
  <1>3. CASE Again(c, s)
    <2>1. ListOf(s).op = "list"
      BY DEF ListOf, NewCall
    <2>2. calls' = [calls EXCEPT ![c] = ListOf(s)]
      BY <1>3 DEF Again, ListOf
    <2> QED BY <1>1, <2>1, <2>2 DEF Waiting
  <1> QED BY <1>2, <1>3

\* Another call than a listing ends.
LEMMA NoListing ==
  ASSUME IInv, NEW c \in Calls, calls[c].op # "list", Drop(c)
  PROVE  Waiting' = Waiting
  <1>1. calls \in [Calls -> Call]
    BY DEF IInv, CallsOK
  <1> QED BY <1>1 DEF Drop, NoCall, Waiting

\* What a step may do to the mask and to the listings in flight.
Asks    == (\E c \in Calls : Waiting' = Waiting \cup {c}) /\ busy' \in {busy, TRUE}
Answers == (\E c \in Waiting : Waiting' = Waiting \ {c}) /\ busy' = FALSE
Stays   == Waiting' = Waiting /\ busy' = busy

LEMMA MaskAsks == ASSUME PageOK, Mask PROVE busy' \in {busy, TRUE}
  <1>1. busy' \in BOOLEAN /\ (busy => busy') /\ busy \in BOOLEAN
    BY MaskKeeps DEF PageOK
  <1> QED BY <1>1

LEMMA UserMasks ==
  ASSUME IInv, NEW c \in Calls, NEW s \in Subjects,
         \/ Refresh(c) \/ RefreshTimeout(c) \/ TemplateUpdated(c) \/ Enter(c, s) \/ OpenApps(c, s)
  PROVE  Asks
  <1>1. CASE Refresh(c) \/ RefreshTimeout(c)
    <2>1. Begin(c, "list", {}, {}) /\ Updating
      BY <1>1, UpdateInfoBegins DEF Refresh, RefreshTimeout, IInv
    <2>2. busy' \in {busy, TRUE} /\ calls[c] = NoCall
      BY <2>1, MaskAsks DEF Updating, IInv, Begin
    <2> QED BY <2>1, <2>2, AsksForList DEF Asks
  <1>2. CASE TemplateUpdated(c)
    <2>1. Begin(c, "list", {}, {}) /\ Mask /\ calls[c] = NoCall
      BY <1>2 DEF TemplateUpdated, Begin
    <2> QED BY <2>1, MaskAsks, AsksForList DEF Asks, IInv
  <1>3. CASE Enter(c, s)
    <2>1. Again(c, subject') /\ Mask /\ calls[c] = NoCall
      BY <1>3 DEF Enter, Updating
    <2> QED BY <2>1, MaskAsks, AsksForList DEF Asks, IInv
  <1>4. CASE OpenApps(c, s)
    <2>1. \A d \in Calls : calls'[d] = IF d = c THEN ListOf(s) ELSE [calls[d] EXCEPT !.mine = FALSE]
      BY <1>4 DEF OpenApps, ListOf
    <2>2. \A d \in Calls : calls[d] \in Call
      BY DEF IInv, CallsOK
    <2>3. ListOf(s).op = "list"
      BY DEF ListOf, NewCall
    <2>4. ASSUME NEW d \in Calls, d # c PROVE calls'[d].op = calls[d].op
      BY <2>1, <2>2, <2>4 DEF Call
    <2>5. Waiting' = Waiting \cup {c}
      BY <2>1, <2>3, <2>4 DEF Waiting
    <2> QED BY <1>4, <2>5 DEF OpenApps, Asks
  <1> QED BY <1>1, <1>2, <1>3, <1>4

LEMMA OperationStays ==
  ASSUME IInv, NEW c \in Calls,
         \/ RemoveVirtIfs(c) \/ Confirm(c) \/ Save(c) \/ \E i \in DOMAIN rows : RunApp(c, i)
  PROVE  Stays
  <1>1. busy' = busy /\ NoCall.op # "list"
    BY DEF RemoveVirtIfs, Confirm, Save, RunApp, page, NoCall
  <1>2. UNCHANGED calls \/ \E op \in {"remove", "resume", "create", "update", "run"} :
                           \E ids, asked : Begin(c, op, ids, asked)
    <2>1. CASE RemoveVirtIfs(c)
      BY <2>1 DEF RemoveVirtIfs
    <2>2. CASE Confirm(c)
      BY <2>2 DEF Confirm, AnswerYes, AnswerYesRow
    <2>3. CASE Save(c)
      <3>1. Saved \in {"create", "update"}
        BY DEF Saved
      <3>2. Begin(c, Saved, {}, {})
        BY <2>3 DEF Save, SaveNode, SaveBackup, SaveApp, SaveNetwork
      <3> QED BY <3>1, <3>2
    <2>4. CASE \E i \in DOMAIN rows : RunApp(c, i)
      BY <2>4 DEF RunApp
    <2> QED BY <2>1, <2>2, <2>3, <2>4
  <1>3. calls \in [Calls -> Call]
    BY DEF IInv, CallsOK
  <1>4. ASSUME NEW op \in {"remove", "resume", "create", "update", "run"}, NEW ids, NEW asked,
               Begin(c, op, ids, asked)
        PROVE  Waiting' = Waiting
    <2>1. NewCall(op, ids, asked).op # "list"
      BY DEF NewCall
    <2>2. calls' = [calls EXCEPT ![c] = NewCall(op, ids, asked)] /\ calls[c].op # "list"
      BY <1>1, <1>4 DEF Begin
    <2> QED BY <1>3, <2>1, <2>2 DEF Waiting
  <1>5. Waiting' = Waiting
    BY <1>2, <1>4 DEF Waiting
  <1> QED BY <1>1, <1>5 DEF Stays

LEMMA DecideAsks ==
  ASSUME IInv, NEW c \in Calls, NEW d \in Calls, NEW i \in DOMAIN rows, Decide(c, d, i)
  PROVE  Asks
  <1> DEFINE decision == NewCall("decide", {rows[i].id}, {rows[i].id})
             listing  == NewCall("list", {}, {})
  <1>1. decision.op = "decide" /\ listing.op = "list" /\ NoCall.op = "none"
    BY DEF NewCall, NoCall
  <1>2. /\ calls' = [calls EXCEPT ![c] = decision, ![d] = listing] /\ c # d
        /\ calls[c] = NoCall /\ calls[d] = NoCall /\ Mask
    BY DEF Decide, Updating
  <1> HIDE DEF decision, listing
  <1>3. calls \in [Calls -> Call]
    BY DEF IInv, CallsOK
  <1>4. \A e \in Calls : calls'[e] = IF e = d THEN listing ELSE IF e = c THEN decision ELSE calls[e]
    BY <1>2, <1>3
  <1>5. Waiting' = Waiting \cup {d}
    BY <1>1, <1>2, <1>4 DEF Waiting
  <1> QED BY <1>2, <1>5, MaskAsks DEF Asks, IInv

LEMMA ServerStays == ASSUME IInv, NEW c \in Calls, ServerStep(c) PROVE Stays
  <1>1. /\ busy' = busy
        /\ \E stage, list : Answered(c, stage, list)
    BY DEF ServerStep, ServeList, ServeOperation, Fail, page
  <1>2. \A d \in Calls : calls[d] \in Call
    BY DEF IInv, CallsOK
  <1>3. PICK stage, list : Answered(c, stage, list)
    BY <1>1
  <1>4. WithAnswer(calls[c], stage, list).op = calls[c].op
    BY <1>2 DEF WithAnswer, Call
  <1>5. calls' = [calls EXCEPT ![c] = WithAnswer(calls[c], stage, list)]
    BY <1>3 DEF Answered, WithAnswer
  <1>6. calls \in [Calls -> Call]
    BY DEF IInv, CallsOK
  <1>7. Waiting' = Waiting
    BY <1>4, <1>5, <1>6 DEF Waiting
  <1> QED BY <1>1, <1>7 DEF Stays

LEMMA SlotMasks == ASSUME IInv, NEW c \in Calls, SlotStep(c) PROVE Asks \/ Answers \/ Stays
  <1>1. calls \in [Calls -> Call] /\ NoCall.op # "list"
    BY DEF IInv, CallsOK, NoCall
  <1>2. ASSUME Drop(c), calls[c].op = "list", busy' = FALSE PROVE Answers
    <2>1. c \in Waiting /\ Waiting' = Waiting \ {c}
      BY <1>1, <1>2 DEF Drop, Waiting
    <2> QED BY <1>2, <2>1 DEF Answers
  <1>3. ASSUME Drop(c), calls[c].op # "list", busy' = busy PROVE Stays
    BY <1>3, NoListing DEF Stays
  <1>4. CASE HandleList(c)
    <2>1. Drop(c) /\ busy' = FALSE
      BY <1>4, ListedKeeps DEF HandleList
    <2>2. calls[c].op = "list"
      BY <1>4 DEF HandleList, NodesListed, TemplatesListed, NetworkListed, ImagesListed,
         BackupsListed, AppsListed, AppsListedForAnother, Back
    <2> QED BY <1>2, <2>1, <2>2
  <1>5. CASE HandleOk(c)
    <2>1. calls[c].op # "list" /\ \E s : Again(c, s)
      BY <1>5 DEF HandleOk, NodesChanged, TemplatesChanged, NetworkChanged, ImagesChanged,
         BackupsChanged, AppsChanged
    <2>2. Waiting' = Waiting \cup {c}
      BY <2>1, AsksForList
    <2>3. Mask \/ busy' = busy
      BY <1>5 DEF HandleOk, NodesChanged, TemplatesChanged, NetworkChanged, ImagesChanged,
         BackupsChanged, AppsChanged, Updating
    <2>4. busy' \in {busy, TRUE}
      BY <2>3, MaskAsks DEF IInv
    <2> QED BY <2>2, <2>4 DEF Asks
  <1>6. CASE HandleFailed(c)
    BY <1>3, <1>6 DEF HandleFailed, page
  <1>7. CASE Ignore(c)
    <2>1. Drop(c) /\ busy' = busy /\ kind = "apps"
      BY <1>7 DEF Ignore, page
    <2>2. busy = FALSE
      BY <2>1 DEF IInv, PageOK, Masks
    <2> QED BY <1>2, <1>3, <2>1, <2>2
  <1> QED BY <1>4, <1>5, <1>6, <1>7 DEF SlotStep

LEMMA RowMasks == ASSUME IInv, NEW i \in DOMAIN rows, RowStep(i) PROVE Asks \/ Stays
  <1>1. CASE ClickBox(i) \/ AskRemoveRow(i) \/ AskResume(i) \/ OpenEdit(i) \/ RunGui(i)
    BY <1>1 DEF ClickBox, AskRemoveRow, AskResume, OpenEdit, RunGui, page, Stays, Waiting
  <1>2. CASE \E c \in Calls : RunApp(c, i) \/ \E d \in Calls : Decide(c, d, i)
    BY <1>2, OperationStays, DecideAsks
  <1> QED BY <1>1, <1>2 DEF RowStep

LEMMA MaskStep == IInv /\ [Next]_vars => [Masked!Next]_(Masked!vars)
  <1> SUFFICES ASSUME IInv, [Next]_vars PROVE [Masked!Next]_(Masked!vars)
    OBVIOUS
  <1>1. ASSUME NEW c \in Calls,
               \/ \E s \in Subjects : Enter(c, s) \/ OpenApps(c, s)
               \/ Refresh(c) \/ RemoveVirtIfs(c) \/ Confirm(c) \/ Save(c) \/ TemplateUpdated(c)
        PROVE  Asks \/ Stays
    <2>1. \E s : s \in Subjects
      BY DEF IInv, PageOK
    <2> QED BY <1>1, <2>1, UserMasks, OperationStays
  <1>2. CASE Leave \/ CloseApps \/ ClickHeader \/ AskRemove \/ CloseWindow \/ OpenCreate
    <2>1. Stays
      BY <1>2 DEF Leave, CloseApps, ClickHeader, AskRemove, CloseWindow, OpenCreate, page,
         Stays, Waiting
    <2> QED BY <2>1 DEF Stays, Masked!vars, Waiting
  <1>3. CASE Others \/ ProcChanged \/ UNCHANGED vars
    <2>1. Stays
      BY <1>3 DEF Others, ProcChanged, vars, page, Stays, Waiting
    <2> QED BY <2>1 DEF Stays, Masked!vars, Waiting
  <1>4. ASSUME NEW c \in Calls, ServerStep(c) \/ SlotStep(c) \/ RefreshTimeout(c)
        PROVE  Asks \/ Answers \/ Stays
    <2>1. \E s : s \in Subjects
      BY DEF IInv, PageOK
    <2> QED BY <1>4, <2>1, UserMasks, ServerStays, SlotMasks
  <1>5. CASE Asks \/ Answers \/ Stays
    <2>1. ASSUME Asks PROVE Masked!Next
      BY <2>1 DEF Asks, Waiting, Masked!Next, Masked!Ask
    <2>2. ASSUME Answers PROVE Masked!Next
      <3>1. PICK c \in Calls : calls[c].op = "list" /\ Waiting' = Waiting \ {c}
        BY <2>2 DEF Answers, Waiting
      <3> QED BY <2>2, <3>1 DEF Answers, Waiting, Masked!Next, Masked!Answer
    <2>3. ASSUME Stays PROVE UNCHANGED Masked!vars
      BY <2>3 DEF Stays, Waiting, Masked!vars
    <2> QED BY <1>5, <2>1, <2>2, <2>3
  <1>6. CASE UserStep
    BY <1>1, <1>2, <1>5, <1>6, RowMasks DEF UserStep
  <1> QED BY <1>3, <1>4, <1>5, <1>6 DEF Next

\* The pages keep the promise of Mask: whatever is clicked under it, and
\* whichever replies overtake one another.
THEOREM Refinement == Spec => MaskSpec
  <1>1. Init => Masked!Init
    BY DEF Init, Masked!Init, NoCall
  <1> QED BY <1>1, Invariance, MaskStep, PTL DEF Spec, MaskSpec, Masked!Spec

\* What Mask promises: it is up only while a reply that takes it down is to come.
LEMMA MaskPromises == MaskSpec => []Masked!Owned
  <1>1. Masked!Init => Masked!Owned
    BY DEF Masked!Init, Masked!Owned
  <1>2. Masked!Owned /\ [Masked!Next]_(Masked!vars) => Masked!Owned'
    BY DEF Masked!Owned, Masked!Next, Masked!Ask, Masked!Answer, Masked!vars
  <1> QED BY <1>1, <1>2, PTL DEF MaskSpec, Masked!Spec

\* No page is locked for good: under its mask a listing is in flight, whose
\* reply takes the mask down.
THEOREM MaskIsOwned == Spec => []Masked!Owned
  BY Refinement, MaskPromises, PTL
=============================================================================
