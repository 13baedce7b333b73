--------------------------- MODULE TablePageProofs ---------------------------
(***************************************************************************)
(* What the operators of TablePage do to any table, of any page: the       *)
(* lemmas the proofs about the list pages rest on.                         *)
(***************************************************************************)
EXTENDS TablePage, TLAPS

-----------------------------------------------------------------------------
(* Sequences.                                                              *)

LEMMA FunctionIsSeq ==
  ASSUME NEW S, NEW n \in Nat, NEW f \in [1..n -> S]
  PROVE  f \in Seq(S) /\ Len(f) = n /\ DOMAIN f = 1..n
  OBVIOUS

LEMMA EmptySeq ==
  ASSUME NEW S, NEW s \in Seq(S)
  PROVE  /\ DOMAIN s = 1..Len(s) /\ Len(s) \in Nat
         /\ s = <<>> <=> DOMAIN s = {}
         /\ s = <<>> <=> Len(s) = 0
  OBVIOUS

\* A row-by-row change of the table is a table with the same rows.
LEMMA RowByRow ==
  ASSUME rows \in Seq(Row), NEW r, r = [i \in DOMAIN rows |-> r[i]],
         \A i \in DOMAIN rows : r[i] \in Row
  PROVE  r \in Seq(Row) /\ DOMAIN r = DOMAIN rows /\ (r = <<>> <=> rows = <<>>)
  <1>1. DOMAIN rows = 1..Len(rows) /\ Len(rows) \in Nat
    BY EmptySeq
  <1>2. r \in [1..Len(rows) -> Row]
    BY <1>1
  <1>3. r \in Seq(Row) /\ DOMAIN r = DOMAIN rows
    BY <1>1, <1>2, FunctionIsSeq
  <1> QED BY <1>3, EmptySeq

\* The rows of a listing, unchecked and visible, are a table.
LEMMA ListingIsTable ==
  ASSUME NEW list \in Seq(Listing), NEW r, r = [i \in DOMAIN list |-> r[i]],
         \A i \in DOMAIN list : r[i] \in Row /\ ~r[i].checked
  PROVE  r \in Seq(Row) /\ DOMAIN r = DOMAIN list /\ Checked(r) = {}
  <1>1. DOMAIN list = 1..Len(list) /\ Len(list) \in Nat
    BY EmptySeq
  <1>2. r \in [1..Len(list) -> Row]
    BY <1>1
  <1>3. r \in Seq(Row) /\ DOMAIN r = DOMAIN list
    BY <1>1, <1>2, FunctionIsSeq
  <1> QED BY <1>3 DEF Checked

-----------------------------------------------------------------------------
(* Check boxes.                                                            *)

\* onItemChecked changes one row; the batch buttons follow the checked rows.
LEMMA RowChecked ==
  ASSUME TableTypeOK, NEW i \in DOMAIN rows, CheckRow(i)
  PROVE  /\ TableTypeOK' /\ DOMAIN rows' = DOMAIN rows
         /\ Checked(rows') \subseteq Checked(rows) \cup {i}
         /\ batch' <=> Checked(rows') # {}
  <1> USE DEF TableTypeOK, CheckRow, Recount
  <1>1. \A j \in DOMAIN rows : rows[j] \in Row
    BY EmptySeq
  <1>2. /\ rows' = [j \in DOMAIN rows |-> rows'[j]]
        /\ \A j \in DOMAIN rows : rows'[j] \in Row
    BY <1>1 DEF Row
  <1>3. rows' \in Seq(Row) /\ DOMAIN rows' = DOMAIN rows
    <2>1. rows \in Seq(Row)
      OBVIOUS
    <2> HIDE DEF TableTypeOK, CheckRow
    <2> QED BY <1>2, <2>1, RowByRow
  <1>4. batch' \in BOOLEAN /\ delete' \in BOOLEAN /\ box' \in BOOLEAN
    BY DEF HasRunning, AllChecked
  <1>5. \A j \in DOMAIN rows : j # i => rows'[j] = rows[j]
    OBVIOUS
  <1>6. Checked(rows') \subseteq Checked(rows) \cup {i}
    BY <1>3, <1>5 DEF Checked
  <1> QED BY <1>3, <1>4, <1>6

\* onHeaderCkbTog checks all rows or none.
LEMMA AllRowsChecked ==
  ASSUME TableTypeOK, NEW on \in BOOLEAN, CheckAll(on), UNCHANGED <<text, searchTimer>>
  PROVE  /\ TableTypeOK' /\ DOMAIN rows' = DOMAIN rows /\ (rows' = <<>> <=> rows = <<>>)
         /\ Checked(rows') = IF on THEN DOMAIN rows ELSE {}
         /\ batch' = on
  <1> USE DEF TableTypeOK, CheckAll
  <1>1. \A j \in DOMAIN rows : rows[j] \in Row
    BY EmptySeq
  <1>2. /\ rows' = [j \in DOMAIN rows |-> rows'[j]]
        /\ \A j \in DOMAIN rows : rows'[j] \in Row /\ rows'[j].checked = on
    BY <1>1 DEF Row
  <1>3. rows' \in Seq(Row) /\ DOMAIN rows' = DOMAIN rows /\ (rows' = <<>> <=> rows = <<>>)
    BY <1>2, RowByRow
  <1>4. delete' \in BOOLEAN
    BY DEF HasRunning, DeleteLeftOn
  <1>5. Checked(rows') = IF on THEN DOMAIN rows ELSE {}
    BY <1>2, <1>3 DEF Checked
  <1> QED BY <1>3, <1>4, <1>5

\* clearCheckState leaves no check mark, or the table as it was.
LEMMA CheckStateCleared ==
  ASSUME TableTypeOK, ClearCheckState, text' \in Texts, searchTimer' \in BOOLEAN
  PROVE  /\ TableTypeOK' /\ DOMAIN rows' = DOMAIN rows /\ (rows' = <<>> <=> rows = <<>>)
         /\ \/ rows' = rows /\ batch' = batch
            \/ Checked(rows') = {} /\ ~batch'
  <1>1. CASE headCheckable
    <2> CheckAll(FALSE)
      BY <1>1 DEF ClearCheckState
    <2> USE DEF TableTypeOK, CheckAll
    <2>1. \A j \in DOMAIN rows : rows[j] \in Row
      BY EmptySeq
    <2>2. /\ rows' = [j \in DOMAIN rows |-> rows'[j]]
          /\ \A j \in DOMAIN rows : rows'[j] \in Row /\ ~rows'[j].checked
      BY <2>1 DEF Row
    <2>3. rows' \in Seq(Row) /\ DOMAIN rows' = DOMAIN rows /\ (rows' = <<>> <=> rows = <<>>)
      BY <2>2, RowByRow
    <2>4. delete' \in BOOLEAN
      BY DEF DeleteLeftOn
    <2>5. Checked(rows') = {}
      BY <2>2, <2>3 DEF Checked
    <2> QED BY <2>3, <2>4, <2>5
  <1>2. CASE ~headCheckable
    BY <1>2 DEF TableTypeOK, ClearCheckState, marks
  <1> QED BY <1>1, <1>2

\* The rows of a reply come unchecked, with the buttons off.
LEMMA Refilled ==
  ASSUME TableTypeOK, NEW list \in Seq(Listing), Refill(list)
  PROVE  TableTypeOK' /\ DOMAIN rows' = DOMAIN list /\ Checked(rows') = {} /\ ~batch'
  <1> USE DEF TableTypeOK, Refill, DisableBatch
  <1>1. \A i \in DOMAIN list : list[i] \in Listing
    BY EmptySeq
  <1>2. /\ rows' = [i \in DOMAIN list |-> rows'[i]]
        /\ \A i \in DOMAIN list : rows'[i] \in Row /\ ~rows'[i].checked
    BY <1>1 DEF Row, Listing
  <1>3. rows' \in Seq(Row) /\ DOMAIN rows' = DOMAIN list /\ Checked(rows') = {}
    BY <1>2, ListingIsTable
  <1>4. box' \in BOOLEAN /\ headCheckable' \in BOOLEAN /\ boxShown' \in BOOLEAN
    OBVIOUS
  <1> QED BY <1>3, <1>4
=============================================================================
