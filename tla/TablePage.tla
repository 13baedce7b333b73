------------------------------ MODULE TablePage ------------------------------
(***************************************************************************)
(* TablePage and its HeaderView, the base of the list pages: rows with     *)
(* check boxes, the box in the header that checks them all, the batch      *)
(* buttons, and the search line that hides rows.  Everything here runs in  *)
(* the GUI thread; each operator is what one slot does to the table.       *)
(*                                                                         *)
(* Setting a box emits itemChanged only when the box changes, and the slot *)
(* onItemChecked then runs at once, once per row, inside the loop that set *)
(* it: the operators give the state in which such a loop ends.             *)
(***************************************************************************)
EXTENDS Naturals, Sequences

CONSTANTS
  Ids,    \* what the rows are about
  Texts,  \* what the search line may hold
  NoText, \* the empty text
  Found   \* Found[t]: the ids whose name contains t

ASSUME TextsAssumption == NoText \in Texts /\ Found \in [Texts -> SUBSET Ids]

VARIABLES
  rows,          \* m_model, row by row
  box,           \* HeaderView::m_ckbIsToggled
  headCheckable, \* TablePage::m_isHeadCheckable
  boxShown,      \* HeaderView::m_isCheckable
  batch,         \* the batch buttons but Delete are enabled
  delete,        \* Delete is enabled
  text,          \* lineEdit_search
  searchTimer    \* m_searchTimer is active

marks == <<rows, box, headCheckable, boxShown, batch, delete>>
table == <<marks, text, searchTimer>>

\* hidden: the view does not show the row; the model still has it.
Row     == [id : Ids, running : BOOLEAN, checked : BOOLEAN, hidden : BOOLEAN]
Listing == [id : Ids, running : BOOLEAN]

TableTypeOK ==
  /\ rows \in Seq(Row)
  /\ box \in BOOLEAN /\ headCheckable \in BOOLEAN /\ boxShown \in BOOLEAN
  /\ batch \in BOOLEAN /\ delete \in BOOLEAN
  /\ text \in Texts /\ searchTimer \in BOOLEAN

\* The header is built with its box shown, the page with its flag off.
TableInit ==
  /\ rows = <<>>
  /\ box = FALSE /\ headCheckable = FALSE /\ boxShown = TRUE
  /\ batch = FALSE /\ delete = FALSE
  /\ text = NoText /\ searchTimer = FALSE

-----------------------------------------------------------------------------
(* Check boxes.                                                            *)

Checked(rs) == {i \in DOMAIN rs : rs[i].checked}

MutHasRunning(rs) == \A i \in Checked(rs) : rs[i].running
\* hasRunningCtn of onItemChecked
HasRunning(rs) == \E i \in Checked(rs) : rs[i].running

MutAllChecked(rs) == Checked(rs) # {}
\* num == m_model->rowCount()
AllChecked(rs) == Checked(rs) = DOMAIN rs

\* The buttons and the box in the header follow the checked rows;
\* sigHasRunningCtn disables Delete.
Recount ==
  /\ batch' = (Checked(rows') # {})
  /\ delete' = (batch' /\ ~HasRunning(rows'))
  /\ box' = (batch' /\ AllChecked(rows'))

\* onItemChecked, for row i.
CheckRow(i) ==
  /\ rows' = [rows EXCEPT ![i].checked = ~@]
  /\ Recount
  /\ UNCHANGED <<headCheckable, boxShown, text, searchTimer>>

\* What unchecking all leaves of Delete: the last box that changes disables
\* it, and every running row from there on enables it again.
DeleteLeftOn == \E i \in DOMAIN rows :
  rows[i].running /\ \A j \in DOMAIN rows : j > i => ~rows[j].checked

\* onHeaderCkbTog: all rows, those the search hides too.
CheckAll(on) ==
  /\ rows' = [i \in DOMAIN rows |-> [rows[i] EXCEPT !.checked = on]]
  /\ batch' = on
  /\ delete' = IF on THEN ~HasRunning(rows') ELSE DeleteLeftOn
  /\ box' = on
  /\ UNCHANGED <<headCheckable, boxShown>>

MutClearCheckState == box' = FALSE /\ UNCHANGED <<rows, batch, delete, headCheckable, boxShown>>
\* clearCheckState
ClearCheckState == IF headCheckable THEN CheckAll(FALSE) ELSE UNCHANGED marks

\* HeaderView::mousePressEvent on a sortable column
Reorder ==
  /\ \E f \in [DOMAIN rows -> DOMAIN rows] :
       /\ \A j \in DOMAIN rows : \E i \in DOMAIN rows : f[i] = j
       /\ rows' = [i \in DOMAIN rows |-> rows[f[i]]]
  /\ UNCHANGED <<box, headCheckable, boxShown, batch, delete>>

-----------------------------------------------------------------------------
(* The search line.                                                        *)

\* The text of the line changes: textChanged starts the timer anew.
Write(t) ==
  /\ text' = t
  /\ searchTimer' = (searchTimer \/ t # text)

Hits == {i \in DOMAIN rows : rows[i].id \in Found[text]}

\* setSeachPageNone
NothingFound ==
  /\ batch' = FALSE /\ delete' = FALSE
  /\ boxShown' = (boxShown /\ ~headCheckable)

\* search() with a text: what does not contain it is hidden, and stays checked.
Filter ==
  /\ rows' = [i \in DOMAIN rows |-> [rows[i] EXCEPT !.hidden = i \notin Hits]]
  /\ IF Hits = {} THEN NothingFound
     ELSE boxShown' = (boxShown \/ headCheckable) /\ UNCHANGED <<batch, delete>>
  /\ UNCHANGED <<box, headCheckable>>

-----------------------------------------------------------------------------
MutDisableBatch == UNCHANGED <<batch, delete>>
\* setOpBtnEnabled(OPERATOR_BUTTON_TYPE_BATCH, false)
DisableBatch == batch' = FALSE /\ delete' = FALSE

\* The rows of a reply.  None came, or the call failed: the table is cleared
\* and the box in the header taken away, whatever it holds.
Refill(list) ==
  /\ DisableBatch
  /\ rows' = [i \in DOMAIN list |-> [id |-> list[i].id, running |-> list[i].running,
                                     checked |-> FALSE, hidden |-> FALSE]]
  /\ headCheckable' = (list # <<>>) /\ boxShown' = (list # <<>>)
  /\ box' = (list = <<>> /\ box)
  /\ UNCHANGED <<text, searchTimer>>
=============================================================================
