------------------------- MODULE ContainerListProofs -------------------------
(***************************************************************************)
(* The invariants of ContainerList, and that it implements Mask, for any   *)
(* set of containers, any texts and any number of calls in flight.         *)
(*                                                                         *)
(* What the table's operators do to the check marks is stated once, as     *)
(* lemmas; the steps of the page then follow from them.                    *)
(***************************************************************************)
EXTENDS ContainerList, TablePageProofs, FiniteSetTheorems

Chosen == DeleteIsSafe /\ BatchHasRows /\ BoxMeansAll

\* The flag of the page says whether there are rows to check.
HeadIsRows == headCheckable <=> rows # <<>>

\* The box in the header of an empty table is there only before the first
\* listing has come, when nothing else was done and the page is masked.
BoxOfNothing ==
  boxShown /\ rows = <<>> =>
    /\ shown => busy
    /\ confirm = {}
    /\ \A c \in Calls : calls[c].op \in {"none", "list"}

Table == TableTypeOK /\ Chosen /\ HeadIsRows

IInv == TypeOK /\ Chosen /\ HeadIsRows /\ BoxOfNothing /\ MaskHasCall /\ LeftUnchecked

-----------------------------------------------------------------------------
(* The operators of the table.                                             *)

\* onItemChecked keeps buttons, header box and rows in agreement.
LEMMA CheckRowKeeps ==
  ASSUME Table, NEW i \in DOMAIN rows, CheckRow(i)
  PROVE  Table' /\ (rows' = <<>> <=> rows = <<>>)
  <1> USE DEF Table, TableTypeOK, CheckRow, Recount
  <1>1. \A j \in DOMAIN rows : rows[j] \in Row
    BY EmptySeq
  <1>2. /\ rows' = [j \in DOMAIN rows |-> rows'[j]]
        /\ \A j \in DOMAIN rows : rows'[j] \in Row
    BY <1>1 DEF Row
  <1>3. rows' \in Seq(Row) /\ DOMAIN rows' = DOMAIN rows /\ (rows' = <<>> <=> rows = <<>>)
    BY <1>2, RowByRow
  <1>4. batch' \in BOOLEAN /\ delete' \in BOOLEAN /\ box' \in BOOLEAN
    BY DEF HasRunning, AllChecked
  <1>5. TableTypeOK' /\ HeadIsRows'
    BY <1>3, <1>4 DEF HeadIsRows
  <1>6. DeleteIsSafe' /\ BatchHasRows'
    BY DEF DeleteIsSafe, BatchHasRows, HasRunning
  <1>7. BoxMeansAll'
    <2>1. box' <=> (Checked(rows') # {} /\ Checked(rows') = DOMAIN rows')
      BY DEF AllChecked
    <2>2. Checked(rows') = DOMAIN rows' <=> \A j \in DOMAIN rows' : rows'[j].checked
      BY DEF Checked
    <2>3. DOMAIN rows' # {}
      BY <1>3
    <2> QED BY <2>1, <2>2, <2>3 DEF BoxMeansAll
  <1> QED BY <1>3, <1>5, <1>6, <1>7 DEF Chosen

\* onHeaderCkbTog keeps it, if there are rows to check.
LEMMA CheckAllKeeps ==
  ASSUME Table, NEW on \in BOOLEAN, CheckAll(on), on => rows # <<>>,
         UNCHANGED <<text, searchTimer>>
  PROVE  Table' /\ (rows' = <<>> <=> rows = <<>>) /\ (~on => Checked(rows)' = {})
  <1> USE DEF Table, TableTypeOK, CheckAll
  <1>1. \A j \in DOMAIN rows : rows[j] \in Row
    BY EmptySeq
  <1>2. /\ rows' = [j \in DOMAIN rows |-> rows'[j]]
        /\ \A j \in DOMAIN rows : rows'[j] \in Row /\ rows'[j].checked = on
    BY <1>1 DEF Row
  <1>3. rows' \in Seq(Row) /\ DOMAIN rows' = DOMAIN rows /\ (rows' = <<>> <=> rows = <<>>)
    BY <1>2, RowByRow
  <1>4. delete' \in BOOLEAN
    BY DEF HasRunning, DeleteLeftOn
  <1>5. TableTypeOK' /\ HeadIsRows'
    BY <1>3, <1>4 DEF HeadIsRows
  <1>6. Checked(rows') = IF on THEN DOMAIN rows ELSE {}
    BY <1>2, <1>3 DEF Checked
  <1>7. rows # <<>> => DOMAIN rows # {}
    BY EmptySeq
  <1>8. DeleteIsSafe'
    BY <1>6 DEF DeleteIsSafe, HasRunning
  <1>9. BatchHasRows'
    BY <1>6, <1>7 DEF BatchHasRows
  <1>10. BoxMeansAll'
    BY <1>2, <1>3, <1>7 DEF BoxMeansAll
  <1> QED BY <1>3, <1>5, <1>6, <1>8, <1>9, <1>10 DEF Chosen

\* search() with a text hides rows and leaves every check mark.
LEMMA FilterKeeps ==
  ASSUME Table, Filter, text' \in Texts, searchTimer' \in BOOLEAN
  PROVE  /\ Table' /\ (rows' = <<>> <=> rows = <<>>) /\ Checked(rows)' = Checked(rows)
         /\ rows = <<>> /\ boxShown' => boxShown
  <1> USE DEF Table, TableTypeOK, Filter
  <1>1. \A j \in DOMAIN rows : rows[j] \in Row
    BY EmptySeq
  <1>2. /\ rows' = [j \in DOMAIN rows |-> rows'[j]]
        /\ \A j \in DOMAIN rows :
             /\ rows'[j] \in Row
             /\ rows'[j].checked = rows[j].checked /\ rows'[j].running = rows[j].running
    BY <1>1 DEF Row
  <1>3. rows' \in Seq(Row) /\ DOMAIN rows' = DOMAIN rows /\ (rows' = <<>> <=> rows = <<>>)
    BY <1>2, RowByRow
  <1>4. /\ boxShown' \in BOOLEAN
        /\ (batch' = batch /\ delete' = delete) \/ (batch' = FALSE /\ delete' = FALSE)
    BY DEF NothingFound
  <1>5. TableTypeOK' /\ HeadIsRows'
    BY <1>3, <1>4 DEF HeadIsRows
  <1>6. Checked(rows') = Checked(rows)
    BY <1>2, <1>3 DEF Checked
  <1>7. DeleteIsSafe' /\ BatchHasRows'
    BY <1>2, <1>4, <1>6 DEF Chosen, DeleteIsSafe, BatchHasRows, Checked
  <1>8. BoxMeansAll'
    BY <1>2, <1>3 DEF Chosen, BoxMeansAll
  <1>9. rows = <<>> /\ boxShown' => boxShown
    <2>1. rows = <<>> => Hits = {}
      BY EmptySeq DEF Hits
    <2> QED BY <2>1 DEF NothingFound
  <1> QED BY <1>3, <1>5, <1>6, <1>7, <1>8, <1>9 DEF Chosen

\* Sorting moves the rows with their boxes.
LEMMA ReorderKeeps ==
  ASSUME Table, Reorder, UNCHANGED <<text, searchTimer>>
  PROVE  Table' /\ (rows' = <<>> <=> rows = <<>>) /\ boxShown' = boxShown
  <1> USE DEF Table, TableTypeOK
  <1>1. PICK f \in [DOMAIN rows -> DOMAIN rows] :
          /\ \A j \in DOMAIN rows : \E i \in DOMAIN rows : f[i] = j
          /\ rows' = [i \in DOMAIN rows |-> rows[f[i]]]
    BY DEF Reorder
  <1>2. UNCHANGED <<box, headCheckable, boxShown, batch, delete>>
    BY DEF Reorder
  <1>3. \A j \in DOMAIN rows : rows[j] \in Row
    BY EmptySeq
  <1>4. rows' \in Seq(Row) /\ DOMAIN rows' = DOMAIN rows /\ (rows' = <<>> <=> rows = <<>>)
    BY <1>1, <1>3, RowByRow
  <1>5. TableTypeOK' /\ HeadIsRows'
    BY <1>2, <1>4 DEF HeadIsRows
  <1>6. DeleteIsSafe' /\ BatchHasRows' /\ BoxMeansAll'
    BY <1>1, <1>2, <1>4 DEF Chosen, DeleteIsSafe, BatchHasRows, BoxMeansAll, Checked
  <1> QED BY <1>2, <1>4, <1>5, <1>6 DEF Chosen

\* A reply of the list leaves nothing checked and no button on.
LEMMA RefillKeeps ==
  ASSUME Table, NEW list \in Seq(Listing), Refill(list)
  PROVE  Table' /\ Checked(rows)' = {} /\ (rows' = <<>> => ~boxShown')
  <1> USE DEF Table, TableTypeOK, Refill, DisableBatch
  <1>1. DOMAIN list = 1..Len(list) /\ Len(list) \in Nat /\ \A i \in DOMAIN list : list[i] \in Listing
    BY EmptySeq
  <1>2. rows' \in [1..Len(list) -> Row] /\ \A i \in DOMAIN rows' : ~rows'[i].checked
    BY <1>1 DEF Row, Listing
  <1>3. rows' \in Seq(Row) /\ DOMAIN rows' = DOMAIN list
    BY <1>1, <1>2, FunctionIsSeq
  <1>4. rows' = <<>> <=> list = <<>>
    BY <1>3, EmptySeq
  <1>5. Checked(rows') = {}
    BY <1>2 DEF Checked
  <1>6. TableTypeOK' /\ HeadIsRows'
    BY <1>3, <1>4 DEF HeadIsRows
  <1>7. DeleteIsSafe' /\ BatchHasRows'
    BY DEF DeleteIsSafe, BatchHasRows
  <1>8. BoxMeansAll'
    <2>1. rows' # <<>> => ~box' /\ DOMAIN rows' # {}
      BY <1>3, <1>4, EmptySeq
    <2> QED BY <1>2, <2>1 DEF BoxMeansAll
  <1> QED BY <1>4, <1>5, <1>6, <1>7, <1>8 DEF Chosen

-----------------------------------------------------------------------------
(* The calls and the mask.                                                 *)

CallsOK == calls \in [Calls -> Call] /\ \A c \in Calls : WellFormed(calls[c])

\* Without a step of the table the table stays as good as it was.
LEMMA MarksStay ==
  ASSUME Table, UNCHANGED marks, text' \in Texts, searchTimer' \in BOOLEAN
  PROVE  Table' /\ Checked(rows)' = Checked(rows)
  BY DEF Table, TableTypeOK, Chosen, HeadIsRows, DeleteIsSafe, BatchHasRows, BoxMeansAll,
         marks, Checked

LEMMA WriteIsTyped ==
  ASSUME NEW t \in Texts, Write(t), searchTimer \in BOOLEAN
  PROVE  text' \in Texts /\ searchTimer' \in BOOLEAN
  BY DEF Write

\* A call that begins puts the mask up and takes it down when it ends.
LEMMA BeginKeeps ==
  ASSUME CallsOK, NEW c \in Calls, NEW op \in {"list", "operate", "remove"},
         NEW ids \in SUBSET Ids, ids # {} => op = "remove", Begin(c, op, ids)
  PROVE  /\ CallsOK' /\ MaskHasCall' /\ busy' = TRUE
         /\ \A d \in Calls : calls'[d].op \in {calls[d].op, op}
  <1>1. NewCall(op, ids) \in Call /\ WellFormed(NewCall(op, ids)) /\ NewCall(op, ids) # NoCall
    BY EmptySeq DEF NewCall, Call, WellFormed, NoCall
  <1>2. /\ calls' = [calls EXCEPT ![c] = NewCall(op, ids)] /\ busy' = TRUE
        /\ NewCall(op, ids).op = op
    BY DEF Begin, NewCall
  <1>3. CallsOK' /\ \A d \in Calls : calls'[d].op \in {calls[d].op, op}
    BY <1>1, <1>2 DEF CallsOK
  <1>4. MaskHasCall'
    BY <1>1, <1>2 DEF MaskHasCall, CallsOK
  <1> QED BY <1>2, <1>3, <1>4

\* A call that ends takes the mask down.
LEMMA DropKeeps ==
  ASSUME CallsOK, NEW c \in Calls, Unmask, Drop(c)
  PROVE  /\ CallsOK' /\ MaskHasCall' /\ busy' = FALSE
         /\ \A d \in Calls : calls'[d].op \in {calls[d].op, "none"}
  <1>1. NoCall \in Call /\ WellFormed(NoCall) /\ NoCall.op = "none"
    BY EmptySeq DEF NoCall, Call, WellFormed
  <1> QED BY <1>1 DEF Unmask, Drop, CallsOK, MaskHasCall

\* An answer of the server leaves the call in its slot.
LEMMA AnsweredKeeps ==
  ASSUME CallsOK, MaskHasCall, NEW c \in Calls, calls[c].stage = "sent", busy' = busy,
         NEW stage \in {"ok", "failed"}, NEW list \in Seq(Listing),
         list # <<>> => calls[c].op = "list" /\ stage = "ok", Answered(c, stage, list)
  PROVE  CallsOK' /\ MaskHasCall' /\ \A d \in Calls : calls'[d].op = calls[d].op
  <1>1. calls' = [calls EXCEPT ![c] = [calls[c] EXCEPT !.stage = stage, !.list = list]]
    BY DEF Answered, CallsOK
  <1>2. /\ [calls[c] EXCEPT !.stage = stage, !.list = list] \in Call
        /\ WellFormed([calls[c] EXCEPT !.stage = stage, !.list = list])
        /\ [calls[c] EXCEPT !.stage = stage, !.list = list] # NoCall
        /\ [calls[c] EXCEPT !.stage = stage, !.list = list].op = calls[c].op
    BY DEF CallsOK, Call, WellFormed, NoCall
  <1>3. CallsOK' /\ \A d \in Calls : calls'[d].op = calls[d].op
    BY <1>1, <1>2 DEF CallsOK
  <1>4. MaskHasCall'
    BY <1>1, <1>2 DEF MaskHasCall, CallsOK
  <1> QED BY <1>3, <1>4

-----------------------------------------------------------------------------
(* The invariant, in the parts that the steps treat apart.                 *)

PageOK ==
  /\ shown \in BOOLEAN /\ refreshTimer \in BOOLEAN /\ busy \in BOOLEAN
  /\ confirm \subseteq Ids

ServerOK == present \subseteq Ids /\ gone \subseteq Ids

LEMMA Parts ==
  IInv <=> Table /\ CallsOK /\ PageOK /\ ServerOK /\ BoxOfNothing /\ MaskHasCall /\ LeftUnchecked
  BY DEF IInv, TypeOK, Table, CallsOK, PageOK, ServerOK

LEMMA PartsNext ==
  IInv' <=> Table' /\ CallsOK' /\ PageOK' /\ ServerOK' /\ BoxOfNothing' /\ MaskHasCall' /\ LeftUnchecked'
  BY DEF IInv, TypeOK, Table, CallsOK, PageOK, ServerOK

\* A listing is asked for; the table keeps its marks.
LEMMA ListingKeeps ==
  ASSUME IInv, NEW c \in Calls, GetContainerList(c), UNCHANGED <<marks, confirm, server>>,
         text' \in Texts, searchTimer' \in BOOLEAN, refreshTimer' \in BOOLEAN,
         shown' \in BOOLEAN, shown' = shown \/ shown' = TRUE
  PROVE  IInv'
  <1>1. /\ CallsOK' /\ MaskHasCall' /\ busy' = TRUE
        /\ \A d \in Calls : calls'[d].op \in {calls[d].op, "list"}
    <2>1. Begin(c, "list", {}) /\ CallsOK
      BY Parts DEF GetContainerList
    <2>2. {} \in SUBSET Ids /\ "list" \in {"list", "operate", "remove"}
      OBVIOUS
    <2> QED BY <2>1, <2>2, BeginKeeps
  <1>2. Table' /\ Checked(rows)' = Checked(rows)
    BY Parts, MarksStay
  <1>3. PageOK' /\ ServerOK'
    BY <1>1, Parts DEF PageOK, ServerOK, server
  <1>4. BoxOfNothing'
    BY <1>1, Parts DEF BoxOfNothing, marks
  <1>5. LeftUnchecked'
    BY <1>2, Parts DEF LeftUnchecked
  <1> QED BY <1>1, <1>2, <1>3, <1>4, <1>5, PartsNext

\* search(), from the line, the button or the timer.
LEMMA SearchKeeps ==
  ASSUME IInv, NEW c \in Calls, Search(c), text' \in Texts, searchTimer' \in BOOLEAN
  PROVE  IInv'
  <1>1. CASE UpdateInfo(c) /\ UNCHANGED <<marks, shown, confirm, server>>
    <2>1. refreshTimer' \in BOOLEAN /\ shown' \in BOOLEAN
      BY <1>1, Parts DEF UpdateInfo, TimedRefresh, PageOK
    <2> QED BY <1>1, <2>1, ListingKeeps DEF UpdateInfo
  <1>2. CASE Filter /\ UNCHANGED <<page, calls, server>>
    <2>1. /\ Table' /\ (rows' = <<>> <=> rows = <<>>) /\ Checked(rows)' = Checked(rows)
          /\ rows = <<>> /\ boxShown' => boxShown
      BY <1>2, Parts, FilterKeeps
    <2>2. CallsOK' /\ PageOK' /\ ServerOK' /\ MaskHasCall'
      BY <1>2, Parts DEF CallsOK, PageOK, ServerOK, MaskHasCall, page, server
    <2>3. BoxOfNothing' /\ LeftUnchecked'
      BY <1>2, <2>1, Parts DEF BoxOfNothing, LeftUnchecked, page
    <2> QED BY <2>1, <2>2, <2>3, PartsNext
  <1> QED BY <1>1, <1>2 DEF Search

-----------------------------------------------------------------------------
(* The user.                                                               *)

\* Steps of the user that touch neither the calls nor the mask.
LEMMA ClickKeeps ==
  ASSUME IInv,
         \/ Leave \/ ClickHeader \/ Sort \/ AskRemove \/ KeepContainers
         \/ \E i \in DOMAIN rows : ClickBox(i)
         \/ \E t \in Texts : TypeText(t)
  PROVE  IInv'
  <1> USE Parts DEF TableTypeOK, Table
  <1>1. CASE Leave
    <2>1. Table' /\ (rows' = <<>> <=> rows = <<>>) /\ Checked(rows)' = {} /\ boxShown' = boxShown
      <3>1. CASE headCheckable
        BY <1>1, <3>1, CheckAllKeeps DEF Leave, ExitTimedRefresh, ClearCheckState, CheckAll
      <3>2. CASE ~headCheckable
        <4>1. UNCHANGED marks /\ rows = <<>>
          BY <1>1, <3>2 DEF Leave, ExitTimedRefresh, ClearCheckState, HeadIsRows
        <4>2. Table' /\ Checked(rows)' = Checked(rows)
          BY <1>1, <4>1, MarksStay DEF Leave
        <4> QED BY <4>1, <4>2, EmptySeq DEF Checked, marks
      <3> QED BY <3>1, <3>2
    <2>2. CallsOK' /\ PageOK' /\ ServerOK' /\ MaskHasCall'
      BY <1>1 DEF Leave, ExitTimedRefresh, CallsOK, PageOK, ServerOK, MaskHasCall, server
    <2>3. BoxOfNothing' /\ LeftUnchecked'
      BY <1>1, <2>1 DEF Leave, BoxOfNothing, LeftUnchecked
    <2> QED BY <2>1, <2>2, <2>3, PartsNext
  <1>2. CASE ClickHeader
    <2>1. rows # <<>>
      BY <1>2 DEF ClickHeader, CanClick, BoxOfNothing
    <2>2. Table' /\ (rows' = <<>> <=> rows = <<>>)
      BY <1>2, <2>1, CheckAllKeeps DEF ClickHeader
    <2>3. CallsOK' /\ PageOK' /\ ServerOK' /\ MaskHasCall'
      BY <1>2 DEF ClickHeader, CallsOK, PageOK, ServerOK, MaskHasCall, page, server
    <2>4. BoxOfNothing' /\ LeftUnchecked'
      BY <1>2, <2>1, <2>2 DEF ClickHeader, CanClick, BoxOfNothing, LeftUnchecked, page
    <2> QED BY <2>2, <2>3, <2>4, PartsNext
  <1>3. CASE Sort
    <2>1. Table' /\ (rows' = <<>> <=> rows = <<>>) /\ boxShown' = boxShown
      BY <1>3, ReorderKeeps DEF Sort
    <2>2. CallsOK' /\ PageOK' /\ ServerOK' /\ MaskHasCall'
      BY <1>3 DEF Sort, CallsOK, PageOK, ServerOK, MaskHasCall, page, server
    <2>3. BoxOfNothing' /\ LeftUnchecked'
      BY <1>3, <2>1 DEF Sort, CanClick, BoxOfNothing, LeftUnchecked, page
    <2> QED BY <2>1, <2>2, <2>3, PartsNext
  <1>4. CASE AskRemove
    <2>1. Table' /\ Checked(rows)' = Checked(rows)
      BY <1>4, MarksStay DEF AskRemove, table
    <2>2. CheckedIds \subseteq Ids
      <3>1. rows \in Seq(Row)
        OBVIOUS
      <3>2. \A i \in DOMAIN rows : rows[i] \in Row
        BY <3>1, EmptySeq
      <3> QED BY <3>2 DEF CheckedIds, Checked, Row
    <2>3. CallsOK' /\ PageOK' /\ ServerOK' /\ MaskHasCall'
      BY <1>4, <2>2 DEF AskRemove, CallsOK, PageOK, ServerOK, MaskHasCall, server
    <2>4. rows # <<>>
      BY <1>4 DEF AskRemove, CheckedIds, Checked
    <2>5. BoxOfNothing' /\ LeftUnchecked'
      BY <1>4, <2>1, <2>4 DEF AskRemove, BoxOfNothing, LeftUnchecked, table, marks
    <2> QED BY <2>1, <2>3, <2>5, PartsNext
  <1>5. CASE KeepContainers
    <2>1. Table' /\ Checked(rows)' = Checked(rows)
      BY <1>5, MarksStay DEF KeepContainers, table
    <2>2. CallsOK' /\ PageOK' /\ ServerOK' /\ MaskHasCall'
      BY <1>5 DEF KeepContainers, CallsOK, PageOK, ServerOK, MaskHasCall, server
    <2>3. BoxOfNothing' /\ LeftUnchecked'
      BY <1>5, <2>1 DEF KeepContainers, BoxOfNothing, LeftUnchecked, table, marks
    <2> QED BY <2>1, <2>2, <2>3, PartsNext
  <1>6. ASSUME NEW i \in DOMAIN rows, ClickBox(i) PROVE IInv'
    <2>1. Table' /\ (rows' = <<>> <=> rows = <<>>)
      BY <1>6, CheckRowKeeps DEF ClickBox
    <2>2. CallsOK' /\ PageOK' /\ ServerOK' /\ MaskHasCall'
      BY <1>6 DEF ClickBox, CallsOK, PageOK, ServerOK, MaskHasCall, page, server
    <2>3. BoxOfNothing' /\ LeftUnchecked'
      BY <1>6, <2>1 DEF ClickBox, CheckRow, Recount, CanClick, BoxOfNothing, LeftUnchecked, page
    <2> QED BY <2>1, <2>2, <2>3, PartsNext
  <1>7. ASSUME NEW t \in Texts, TypeText(t) PROVE IInv'
    <2>1. Table' /\ Checked(rows)' = Checked(rows)
      BY <1>7, MarksStay, WriteIsTyped DEF TypeText
    <2>2. CallsOK' /\ PageOK' /\ ServerOK' /\ MaskHasCall'
      BY <1>7 DEF TypeText, CallsOK, PageOK, ServerOK, MaskHasCall, page, server
    <2>3. BoxOfNothing' /\ LeftUnchecked'
      BY <1>7, <2>1 DEF TypeText, BoxOfNothing, LeftUnchecked, page, marks
    <2> QED BY <2>1, <2>2, <2>3, PartsNext
  <1> QED BY <1>1, <1>2, <1>3, <1>4, <1>5, <1>6, <1>7

\* Steps of the user or of a timer that begin a call.
LEMMA BeginStepKeeps ==
  ASSUME IInv, NEW c \in Calls,
         \/ Enter(c) \/ Refresh(c) \/ SearchNow(c) \/ Operate(c)
         \/ ConfirmRemove(c) \/ ContainerUpdated(c) \/ TimerStep(c)
  PROVE  IInv'
  <1> USE Parts, TextsAssumption DEF TableTypeOK, Table, PageOK
  <1>1. CASE Enter(c)
    <2>1. text' \in Texts /\ searchTimer' \in BOOLEAN
      BY <1>1, WriteIsTyped DEF Enter
    <2>2. refreshTimer' \in BOOLEAN /\ shown' = TRUE
      BY <1>1 DEF Enter, UpdateInfo, TimedRefresh
    <2> QED BY <1>1, <2>1, <2>2, ListingKeeps DEF Enter, UpdateInfo
  <1>2. CASE Refresh(c) \/ RefreshTimeout(c)
    <2>1. text' \in Texts /\ searchTimer' \in BOOLEAN
      BY <1>2, WriteIsTyped DEF Refresh, RefreshTimeout
    <2>2. refreshTimer' \in BOOLEAN /\ shown' = shown
      BY <1>2 DEF Refresh, RefreshTimeout, UpdateInfo, TimedRefresh
    <2> QED BY <1>2, <2>1, <2>2, ListingKeeps DEF Refresh, RefreshTimeout, UpdateInfo
  <1>3. CASE SearchNow(c) \/ SearchTimeout(c)
    BY <1>3, SearchKeeps DEF SearchNow, SearchTimeout
  <1>4. CASE ContainerUpdated(c)
    BY <1>4, ListingKeeps DEF ContainerUpdated, table
  <1>5. CASE Operate(c) \/ ConfirmRemove(c)
    <2>1. PICK op \in {"operate", "remove"}, ids \in SUBSET Ids :
            Begin(c, op, ids) /\ (ids # {} => op = "remove")
      BY <1>5 DEF Operate, ConfirmRemove
    <2>2. CallsOK' /\ MaskHasCall' /\ busy' = TRUE
      BY <2>1, BeginKeeps
    <2>3. UNCHANGED <<table, shown, refreshTimer, server>> /\ (confirm' = confirm \/ confirm' = {})
      BY <1>5 DEF Operate, ConfirmRemove
    <2>4. Table' /\ Checked(rows)' = Checked(rows)
      BY <2>3, MarksStay DEF table
    <2>5. PageOK' /\ ServerOK' /\ LeftUnchecked'
      BY <2>2, <2>3, <2>4 DEF ServerOK, LeftUnchecked, server
    <2>6. ~(boxShown /\ rows = <<>>)
      BY <1>5 DEF Operate, ConfirmRemove, BoxOfNothing
    <2>7. BoxOfNothing'
      BY <2>3, <2>6 DEF BoxOfNothing, table, marks
    <2> QED BY <2>2, <2>4, <2>5, <2>7, PartsNext
  <1> QED BY <1>1, <1>2, <1>3, <1>4, <1>5 DEF TimerStep

-----------------------------------------------------------------------------
(* The server and the replies.                                             *)

LEMMA ServerKeeps ==
  ASSUME IInv, Others \/ \E c \in Calls : ServerStep(c)
  PROVE  IInv'
  <1> USE Parts DEF ServerOK
  <1>1. ASSUME UNCHANGED <<table, page>>, CallsOK', MaskHasCall', ServerOK',
               \A d \in Calls : calls'[d].op = calls[d].op
        PROVE  IInv'
    <2>1. Table' /\ Checked(rows)' = Checked(rows)
      BY <1>1, MarksStay DEF table, Table, TableTypeOK
    <2>2. PageOK' /\ BoxOfNothing' /\ LeftUnchecked'
      BY <1>1, <2>1 DEF PageOK, BoxOfNothing, LeftUnchecked, page, table, marks
    <2> QED BY <1>1, <2>1, <2>2, PartsNext
  <1>2. CASE Others
    <2>1. UNCHANGED <<table, page, calls>> /\ ServerOK'
      BY <1>2 DEF Others, Remove
    <2> QED BY <1>1, <2>1 DEF CallsOK, MaskHasCall, page
  <1>3. ASSUME NEW c \in Calls, ServerStep(c) PROVE IInv'
    <2> USE <1>3
    <2>1. UNCHANGED <<table, page>> /\ busy' = busy /\ calls[c].stage = "sent"
      BY DEF ServerStep, ServeList, ServeOperation, Fail, page
    <2>2. ServerOK'
      <3>1. calls[c].ids \subseteq Ids
        BY DEF CallsOK, Call
      <3> QED BY <3>1 DEF ServerStep, ServeList, ServeOperation, Fail, Remove, server
    <2>3. \E stage \in {"ok", "failed"}, list \in Seq(Listing) :
            /\ Answered(c, stage, list)
            /\ list # <<>> => calls[c].op = "list" /\ stage = "ok"
      <3>1. CASE ServeList(c)
        <4>1. PICK l \in Listings(present) : Answered(c, "ok", l)
          BY <3>1 DEF ServeList
        <4>2. Cardinality(present) \in Nat
          BY IdsAssumption, FS_Subset, FS_CardinalityType
        <4>3. l \in Seq(Listing)
          BY <4>1, <4>2, FunctionIsSeq DEF Listings
        <4> QED BY <3>1, <4>1, <4>3 DEF ServeList
      <3>2. CASE ServeOperation(c)
        <4>1. <<>> \in Seq(Listing)
          OBVIOUS
        <4>2. Answered(c, "ok", <<>>)
          BY <3>2 DEF ServeOperation
        <4> QED BY <4>1, <4>2
      <3>3. CASE Fail(c)
        <4>1. <<>> \in Seq(Listing)
          OBVIOUS
        <4>2. Answered(c, "failed", <<>>)
          BY <3>3 DEF Fail
        <4> QED BY <4>1, <4>2
      <3> QED BY <3>1, <3>2, <3>3 DEF ServerStep
    <2>4. CallsOK' /\ MaskHasCall' /\ \A d \in Calls : calls'[d].op = calls[d].op
      BY <2>1, <2>3, AnsweredKeeps
    <2> QED BY <1>1, <2>1, <2>2, <2>4
  <1> QED BY <1>2, <1>3

LEMMA SlotKeeps ==
  ASSUME IInv, NEW c \in Calls, SlotStep(c)
  PROVE  IInv'
  <1> USE Parts DEF Table, TableTypeOK
  <1>1. CASE HandleList(c)
    <2>1. calls[c].list \in Seq(Listing)
      BY DEF CallsOK, Call
    <2>2. Table' /\ Checked(rows)' = {} /\ (rows' = <<>> => ~boxShown')
      BY <1>1, <2>1, RefillKeeps DEF HandleList
    <2>3. CallsOK' /\ MaskHasCall' /\ busy' = FALSE
      BY <1>1, DropKeeps DEF HandleList
    <2>4. PageOK' /\ ServerOK'
      BY <1>1, <2>3 DEF HandleList, PageOK, ServerOK, server
    <2>5. BoxOfNothing' /\ LeftUnchecked'
      BY <2>2 DEF BoxOfNothing, LeftUnchecked
    <2> QED BY <2>2, <2>3, <2>4, <2>5, PartsNext
  <1>2. CASE HandleOk(c) \/ HandleFailed(c)
    <2>1. UNCHANGED <<table, shown, refreshTimer, confirm, server>>
      BY <1>2 DEF HandleOk, HandleFailed
    <2>2. CallsOK' /\ MaskHasCall' /\ busy' \in BOOLEAN
      <3>1. CASE HandleOk(c)
        <4>1. /\ NewCall("list", {}) \in Call /\ WellFormed(NewCall("list", {}))
              /\ NewCall("list", {}) # NoCall
          BY EmptySeq DEF NewCall, Call, WellFormed, NoCall
        <4> QED BY <3>1, <4>1 DEF HandleOk, CallsOK, MaskHasCall
      <3>2. CASE HandleFailed(c)
        BY <3>2, DropKeeps DEF HandleFailed
      <3> QED BY <1>2, <3>1, <3>2
    <2>3. Table' /\ Checked(rows)' = Checked(rows)
      BY <2>1, MarksStay DEF table
    <2>4. PageOK' /\ ServerOK' /\ LeftUnchecked'
      BY <2>1, <2>2, <2>3 DEF PageOK, ServerOK, LeftUnchecked, server
    <2>5. ~(boxShown /\ rows = <<>>)
      BY <1>2 DEF HandleOk, HandleFailed, BoxOfNothing
    <2>6. BoxOfNothing'
      BY <2>1, <2>5 DEF BoxOfNothing, table, marks
    <2> QED BY <2>2, <2>3, <2>4, <2>6, PartsNext
  <1> QED BY <1>1, <1>2 DEF SlotStep

-----------------------------------------------------------------------------
(* The theorems.                                                           *)

LEMMA InitIsGood == Init => IInv
  <1> SUFFICES ASSUME Init PROVE IInv
    OBVIOUS
  <1>1. rows = <<>> /\ rows \in Seq(Row) /\ DOMAIN rows = {}
    BY EmptySeq DEF Init, TableInit
  <1>2. Table
    BY <1>1, TextsAssumption DEF Init, TableInit, Table, TableTypeOK, Chosen, DeleteIsSafe,
       BatchHasRows, BoxMeansAll, HeadIsRows, Checked
  <1>3. CallsOK
    <2>1. NoCall \in Call /\ WellFormed(NoCall)
      BY EmptySeq DEF NoCall, Call, WellFormed
    <2> QED BY <2>1 DEF Init, CallsOK
  <1>4. PageOK /\ ServerOK /\ MaskHasCall /\ LeftUnchecked
    BY <1>1 DEF Init, PageOK, ServerOK, MaskHasCall, LeftUnchecked, Checked
  <1>5. BoxOfNothing
    BY DEF Init, BoxOfNothing, NoCall
  <1> QED BY <1>2, <1>3, <1>4, <1>5, Parts

\* The invariant holds in every state of every run of the page: whatever the
\* user, the timers, the server and its other clients do, and in whichever
\* order replies are handled.
THEOREM Invariance == Spec => []IInv
  <1>1. IInv /\ [Next]_vars => IInv'
    <2> SUFFICES ASSUME IInv, [Next]_vars PROVE IInv'
      OBVIOUS
    <2>1. CASE UserStep
      <3>1. CASE \E c \in Calls : Enter(c) \/ Refresh(c) \/ SearchNow(c) \/ Operate(c)
                                   \/ ConfirmRemove(c) \/ ContainerUpdated(c)
        BY <3>1, BeginStepKeeps
      <3>2. CASE ~ \E c \in Calls : Enter(c) \/ Refresh(c) \/ SearchNow(c) \/ Operate(c)
                                   \/ ConfirmRemove(c) \/ ContainerUpdated(c)
        BY <2>1, <3>2, ClickKeeps DEF UserStep
      <3> QED BY <3>1, <3>2
    <2>2. CASE \E c \in Calls : ServerStep(c) \/ SlotStep(c) \/ TimerStep(c)
      BY <2>2, ServerKeeps, SlotKeeps, BeginStepKeeps
    <2>3. CASE Others
      BY <2>3, ServerKeeps
    <2>4. CASE UNCHANGED vars
      BY <2>4 DEF IInv, TypeOK, TableTypeOK, Chosen, DeleteIsSafe, BatchHasRows, BoxMeansAll,
         HeadIsRows, BoxOfNothing, MaskHasCall, LeftUnchecked, Checked,
         vars, table, marks, page, server
    <2> QED BY <2>1, <2>2, <2>3, <2>4 DEF Next
  <1> QED BY InitIsGood, <1>1, PTL DEF Spec

\* Delete is never enabled while a running container is checked.
THEOREM DeleteSafety == Spec => []DeleteIsSafe
  BY Invariance, PTL DEF IInv, Chosen

\* The batch buttons are never on without a checked row.
THEOREM ButtonsHaveRows == Spec => []BatchHasRows
  BY Invariance, PTL DEF IInv, Chosen

\* The box in the header is set just when all rows are checked.
THEOREM BoxAgrees == Spec => []BoxMeansAll
  BY Invariance, PTL DEF IInv, Chosen

-----------------------------------------------------------------------------
(* The promise of Mask.                                                    *)

Waiting == {c \in Calls : calls[c] # NoCall}

\* What a step may do to the mask and to the calls in flight.
Asks    == (\E c \in Calls : Waiting' = Waiting \cup {c}) /\ busy' = TRUE
Answers == (\E c \in Waiting : Waiting' = Waiting \ {c}) /\ busy' = FALSE
Stays   == Waiting' = Waiting /\ busy' = busy

LEMMA BeginAsks ==
  ASSUME IInv, NEW c \in Calls, NEW op \in {"list", "operate", "remove"}, NEW ids, Begin(c, op, ids)
  PROVE  Asks
  <1>1. NewCall(op, ids) # NoCall
    BY DEF NewCall, NoCall
  <1>2. calls' = [calls EXCEPT ![c] = NewCall(op, ids)] /\ busy' = TRUE /\ calls \in [Calls -> Call]
    BY DEF Begin, IInv, TypeOK
  <1>3. Waiting' = Waiting \cup {c}
    BY <1>1, <1>2 DEF Waiting
  <1> QED BY <1>2, <1>3 DEF Asks

LEMMA MaskStep == IInv /\ [Next]_vars => [Masked!Next]_(Masked!vars)
  <1> SUFFICES ASSUME IInv, [Next]_vars PROVE [Masked!Next]_(Masked!vars)
    OBVIOUS
  <1>1. calls \in [Calls -> Call]
    BY DEF IInv, TypeOK
  <1>2. ASSUME NEW c \in Calls,
               \/ Enter(c) \/ Refresh(c) \/ Operate(c) \/ ConfirmRemove(c) \/ ContainerUpdated(c)
               \/ RefreshTimeout(c)
        PROVE  Asks
    BY <1>2, BeginAsks DEF Enter, Refresh, Operate, ConfirmRemove, ContainerUpdated, RefreshTimeout,
       UpdateInfo, GetContainerList
  <1>3. ASSUME NEW c \in Calls, SearchNow(c) \/ SearchTimeout(c)
        PROVE  Asks \/ Stays
    <2>1. CASE UpdateInfo(c)
      BY <2>1, BeginAsks DEF UpdateInfo, GetContainerList
    <2>2. CASE UNCHANGED <<page, calls>>
      BY <2>2 DEF page, Stays, Waiting
    <2> QED BY <1>3, <2>1, <2>2 DEF SearchNow, SearchTimeout, Search
  <1>4. ASSUME NEW c \in Calls, ServerStep(c)
        PROVE  Stays
    <2>1. /\ calls[c].stage = "sent" /\ busy' = busy
          /\ \E stage \in {"ok", "failed"} : \E list : Answered(c, stage, list)
      BY <1>4 DEF ServerStep, ServeList, ServeOperation, Fail, page
    <2>2. PICK stage \in {"ok", "failed"} : \E list : Answered(c, stage, list)
      BY <2>1
    <2>3. PICK list : Answered(c, stage, list)
      BY <2>2
    <2>4. calls' = [calls EXCEPT ![c] = [calls[c] EXCEPT !.stage = stage, !.list = list]]
      BY <1>1, <2>3 DEF Answered
    <2>5. calls[c] # NoCall /\ [calls[c] EXCEPT !.stage = stage, !.list = list] # NoCall
      <3>1. NoCall.stage = "free" /\ calls[c] \in Call
        BY <1>1 DEF NoCall
      <3>2. [calls[c] EXCEPT !.stage = stage, !.list = list].stage = stage
        BY <3>1 DEF Call
      <3> QED BY <2>1, <3>1, <3>2
    <2>6. Waiting' = Waiting
      BY <1>1, <2>4, <2>5 DEF Waiting
    <2> QED BY <2>1, <2>6 DEF Stays
  <1>5. ASSUME NEW c \in Calls, HandleList(c) \/ HandleFailed(c)
        PROVE  Answers
    <2>1. calls[c] # NoCall /\ busy' = FALSE /\ calls' = [calls EXCEPT ![c] = NoCall]
      BY <1>5 DEF HandleList, HandleFailed, Unmask, Drop, NoCall
    <2>2. Waiting' = Waiting \ {c} /\ c \in Waiting
      BY <1>1, <2>1 DEF Waiting
    <2> QED BY <2>1, <2>2 DEF Answers
  <1>6. ASSUME NEW c \in Calls, HandleOk(c)
        PROVE  Asks
    <2>1. busy' = TRUE /\ calls' = [calls EXCEPT ![c] = NewCall("list", {})] /\ NewCall("list", {}) # NoCall
      BY <1>6 DEF HandleOk, NewCall, NoCall
    <2>2. Waiting' = Waiting \cup {c}
      BY <1>1, <2>1 DEF Waiting
    <2> QED BY <2>1, <2>2 DEF Asks
  <1>7. ASSUME \/ \E i \in DOMAIN rows : ClickBox(i)
               \/ \E t \in Texts : TypeText(t)
               \/ Leave \/ ClickHeader \/ Sort \/ AskRemove \/ KeepContainers \/ Others \/ UNCHANGED vars
        PROVE  Stays
    BY <1>7 DEF ClickBox, TypeText, Leave, ClickHeader, Sort, AskRemove, KeepContainers, Others, vars,
       page, Stays, Waiting
  <1>8. Asks \/ Answers \/ Stays
    BY <1>2, <1>3, <1>4, <1>5, <1>6, <1>7 DEF Next, UserStep, SlotStep, TimerStep
  <1>9. ASSUME Asks PROVE Masked!Next
    BY <1>9 DEF Asks, Waiting, Masked!Next, Masked!Ask
  <1>10. ASSUME Answers PROVE Masked!Next
    <2>1. PICK c \in Calls : calls[c] # NoCall /\ Waiting' = Waiting \ {c}
      BY <1>10 DEF Answers, Waiting
    <2> QED BY <1>10, <2>1 DEF Answers, Waiting, Masked!Next, Masked!Answer
  <1>11. ASSUME Stays PROVE UNCHANGED Masked!vars
    BY <1>11 DEF Stays, Waiting, Masked!vars
  <1> QED BY <1>8, <1>9, <1>10, <1>11

\* The page keeps the promise of Mask, whichever replies overtake one another.
THEOREM Refinement == Spec => MaskSpec
  <1>1. Init => Masked!Init
    BY DEF Init, Masked!Init
  <1> QED BY <1>1, Invariance, MaskStep, PTL DEF Spec, MaskSpec, Masked!Spec

\* The mask never stays without a call that takes it down.
THEOREM MaskIsOwned == Spec => []MaskHasCall
  BY Invariance, PTL DEF IInv

\* A page that was left keeps no choice.
THEOREM NoStaleChoice == Spec => []LeftUnchecked
  BY Invariance, PTL DEF IInv

\* Every variable has its type, and no slot keeps anything of an old call.
THEOREM TypeCorrect == Spec => []TypeOK
  BY Invariance, PTL DEF IInv
=============================================================================
