--------------------------- MODULE TransferProofs ---------------------------
(***************************************************************************)
(* The invariants and the step property of Transfer, proved for every set  *)
(* of marks, threads and kinds, every folding and every length of file.    *)
(*                                                                         *)
(* No invariant of Transfer is inductive alone.  A mark is safe because    *)
(* the thread that holds it is the only one that will ever emit            *)
(* transferImageFinished for it; a row is settled because the thread that  *)
(* wrote it still has its last status to report; both need to know which   *)
(* signals a thread can be waiting in at which place.  IInv says so.       *)
(***************************************************************************)
EXTENDS Transfer, TLAPS

\* A thread with work has a key and a kind, an idle one is blank.
Assigned ==
  \A w \in Workers :
    /\ pc[w] # "idle" => key[w] \in Keys /\ kind[w] \in AllKinds
    /\ pc[w] = "idle" => /\ key[w] = NoKey /\ kind[w] = "none"
                         /\ signal[w] = "none" /\ left[w] = 0 /\ w \notin cancelled

\* Each place belongs to the functions of certain kinds.
PlaceFitsKind ==
  \A w \in Workers :
    /\ pc[w] \in {"sending", "announce", "finish", "refused"} => kind[w] \in Uploads
    /\ pc[w] = "verified" => kind[w] = "download"
    /\ pc[w] = "receiving" => kind[w] \in {"download", "export"}
    /\ pc[w] \in {"append", "open", "unlist"} => kind[w] = "export"

\* The signals a thread can be waiting in, place by place.
SignalFitsPlace ==
  \A w \in Workers :
    /\ signal[w] # "none" => mainWindow
    /\ signal[w] = "UPLOADING" => (pc[w] = "sending" /\ left[w] > 0) \/ pc[w] = "announce"
    /\ signal[w] = "DOWNLOADING" => pc[w] = "receiving"
    /\ signal[w] = "finished" =>
         /\ kind[w] # "export"
         /\ \/ pc[w] \in {"returned", "refused"}
            \/ pc[w] = "finish" /\ key[w] \in tainted

\* Without a window nothing is listed, and no thread still owns a mark.
Windowless ==
  ~mainWindow =>
    /\ pageTransfers = {} /\ listTransfers = {}
    /\ \A k \in Keys : row[k] = "none"
    /\ confirm = NoKey
    /\ \A w \in Workers : pc[w] # "idle" => key[w] \in tainted

\* The thread has an emission of transferImageFinished ahead of it.
Holds(w) == kind[w] \in AllKinds \ {"export"} /\ (InFlight(w) \/ signal[w] = "finished")

\* An untainted mark is there as long as the one thread that holds it.
MarkHeld ==
  \A w \in Workers : Holds(w) /\ key[w] \notin tainted =>
    /\ key[w] \in pageTransfers
    /\ \A v \in Workers : Holds(v) /\ key[v] = key[w] => v = w

\* A transfer of the image page that is told to stop was cancelled.
StopIsTold ==
  \A w \in Workers :
    kind[w] # "export" /\ InFlight(w) /\ stopped[key[w]] => w \in cancelled

\* The rows, the marks, and what a cancellation leaves behind.
Shown  == StoppedHasNoRow /\ RunningRowHasTask /\ TipCountsRows
Marked == MarkHasOwner /\ ExportListHasOwner /\ MarkHeld
Told   == CancelSticks /\ StopIsTold

IInv ==
  /\ TypeOK /\ Assigned /\ PlaceFitsKind /\ SignalFitsPlace /\ Windowless
  /\ Shown /\ Marked /\ Told

USE KeysAssumption, FoldAssumption, KindsAssumption, ChunksAssumption

-----------------------------------------------------------------------------
(* A step of a thread, by the place it starts from.                        *)

\* No step of _uploadImage, _updateImage, _downloadImage or _exportBackup breaks
\* the invariant.
LEMMA ThreadKeepsIInv ==
  ASSUME IInv, NEW w \in Workers, ThreadStep(w)
  PROVE  IInv'
  <1> USE DEF IInv, TypeOK, Assigned, PlaceFitsKind, SignalFitsPlace, Windowless, Shown, Marked, Told,
    StoppedHasNoRow, RunningRowHasTask, TipCountsRows, MarkHasOwner, ExportListHasOwner,
    MarkHeld, CancelSticks, StopIsTold, WillReport, Holds, InFlight, MoreChunks,
    AllKinds, Uploads, Statuses, Running, Settled, Places, gui, task
  <1>1. CASE FailEarly(w)
    BY <1>1 DEF FailEarly, At, Go, EmitEarly, Emit, OwnStep
  <1>2. CASE FirstWriteFails(w)
    BY <1>2 DEF FirstWriteFails, At, Go, EmitEarly, Emit, OwnStep
  <1>3. CASE BeginUpload(w)
    BY <1>3 DEF BeginUpload, At, Go, Silent, OwnStep
  <1>4. CASE UpdateInfoOnly(w)
    BY <1>4 DEF UpdateInfoOnly, At, Go, Silent, OwnStep
  <1>5. CASE SendStopped(w)
    BY <1>5 DEF SendStopped, At, Go, Emit, OwnStep
  <1>6. CASE SendBroken(w)
    BY <1>6 DEF SendBroken, At, Go, BrokenSignal, Emit, OwnStep
  <1>7. CASE SendChunk(w)
    BY <1>7 DEF SendChunk, At, Go, Silent, Emit, OwnStep
  <1>8. CASE Announce(w)
    BY <1>8 DEF Announce, At, Go, Emit, OwnStep
  <1>9. CASE SendEnd(w)
    BY <1>9 DEF SendEnd, At, Go, Silent, OwnStep
  <1>10. CASE FinishUpload(w)
    BY <1>10 DEF FinishUpload, At, Go, Emit, OwnStep
  <1>11. CASE BeginDownload(w)
    BY <1>11 DEF BeginDownload, At, Go, Silent, OwnStep
  <1>12. CASE DownloadStopped(w)
    BY <1>12 DEF DownloadStopped, At, Go, Emit, OwnStep
  <1>13. CASE ReceiveChunk(w)
    BY <1>13 DEF ReceiveChunk, At, Go, Silent, Emit, OwnStep
  <1>14. CASE DownloadEnd(w)
    BY <1>14 DEF DownloadEnd, At, Go, Emit, OwnStep
  <1>15. CASE DownloadFinished(w)
    BY <1>15 DEF DownloadFinished, At, Go, Emit, OwnStep
  <1>16. CASE ExportEarly(w)
    BY <1>16 DEF ExportEarly, At, Go, Silent, ExportStep
  <1>17. CASE ExportCheck(w)
    BY <1>17 DEF ExportCheck, At, Go, Silent, ExportStep
  <1>18. CASE ExportAppend(w)
    BY <1>18 DEF ExportAppend, At, Go, Silent, ExportStep
  <1>19. CASE ExportOpen(w)
    BY <1>19 DEF ExportOpen, At, Go, Silent, ExportStep
  <1>20. CASE ExportOpenFails(w)
    BY <1>20 DEF ExportOpenFails, At, Go, Silent, Delist, ExportStep
  <1>21. CASE ExportStopped(w)
    BY <1>21 DEF ExportStopped, At, Go, Silent, Delist, ExportStep
  <1>22. CASE ExportEnd(w)
    BY <1>22 DEF ExportEnd, At, Go, Emit, ExportStep
  <1>23. CASE ExportDone(w)
    BY <1>23 DEF ExportDone, At, Go, Silent, Delist, ExportStep
  <1>24. CASE Return(w)
    BY <1>24 DEF Return, At, Go, Silent
  <1> QED BY <1>1, <1>2, <1>3, <1>4, <1>5, <1>6, <1>7, <1>8, <1>9, <1>10, <1>11, <1>12, <1>13, <1>14, <1>15, <1>16, <1>17, <1>18, <1>19, <1>20, <1>21, <1>22, <1>23, <1>24 DEF ThreadStep

-----------------------------------------------------------------------------
(* A slot of the GUI thread.  A status that adds a row finds the key not   *)
(* stopped; a finished signal drops the mark of the one thread that held   *)
(* it, or a tainted one.                                                   *)

\* getTransferImageStatus and getTransferImageFinishedResult keep it.
LEMMA SlotKeepsIInv ==
  ASSUME IInv, NEW w \in Workers, SlotStep(w)
  PROVE  IInv'
  <1> USE DEF IInv, TypeOK, Assigned, PlaceFitsKind, SignalFitsPlace, Windowless, Shown, Marked, Told,
    StoppedHasNoRow, RunningRowHasTask, TipCountsRows, MarkHasOwner, ExportListHasOwner,
    MarkHeld, CancelSticks, StopIsTold, WillReport, Holds, InFlight, MoreChunks,
    AllKinds, Uploads, Statuses, Running, Settled, Places, gui, task
  <1>1. CASE HandleStatus(w)
    BY <1>1 DEF HandleStatus, AddsRow, Unblock
  <1>2. CASE HandleFinished(w)
    BY <1>2 DEF HandleFinished, Unblock
  <1> QED BY <1>1, <1>2 DEF SlotStep

-----------------------------------------------------------------------------
(* What the user does, and the end and return of the window.               *)

\* TransmissionList::deleteItem with MainWindow::onTransferItemDeleted keeps it.
LEMMA DeleteKeepsIInv ==
  ASSUME IInv, mainWindow, NEW k \in Keys, DeleteRow(k), confirm' \in Keys \cup {NoKey}
  PROVE  IInv'
  <1> USE DEF IInv, TypeOK, DeleteRow
  <1>1. Listed(k) => listTransfers' = listTransfers \ {k}
    BY DEF UnlistRow
  <1>2. (row[k] \in Running /\ Listed(k)) \/ (stopped' = stopped /\ cancelled' = cancelled)
    OBVIOUS
  <1>3. TypeOK' /\ Assigned' /\ PlaceFitsKind' /\ SignalFitsPlace' /\ Windowless'
    <2>1. cancelled' \subseteq cancelled \cup {w \in Workers : key[w] = k}
      BY <1>2
    <2>2. TypeOK' /\ PlaceFitsKind' /\ SignalFitsPlace' /\ Windowless'
      BY <1>1, <2>1 DEF PlaceFitsKind, SignalFitsPlace, Windowless, task
    <2>3. Assigned'
      BY <2>1, KeysAssumption DEF Assigned, task
    <2> QED BY <2>2, <2>3
  <1>4. Shown'
    <2>1. StoppedHasNoRow'
      BY DEF Shown, StoppedHasNoRow
    <2>2. RunningRowHasTask'
      BY DEF Shown, RunningRowHasTask, WillReport, Running, task
    <2>3. TipCountsRows'
      BY <1>1, FoldAssumption DEF Shown, TipCountsRows, Listed
    <2> QED BY <2>1, <2>2, <2>3 DEF Shown
  <1>5. Marked'
    BY DEF Marked, MarkHasOwner, ExportListHasOwner, MarkHeld, Holds, InFlight, task
  <1>6. CancelSticks' /\ StopIsTold'
    <2>1. /\ \A v \in Workers : pc[v] = "idle" => v \notin cancelled
          /\ CancelSticks /\ StopIsTold
      BY DEF Assigned, Told
    <2>2. CASE UNCHANGED <<stopped, cancelled>>
      BY <2>1, <2>2 DEF CancelSticks, StopIsTold, InFlight, task
    <2>3. CASE ~ UNCHANGED <<stopped, cancelled>>
      <3>1. /\ stopped' = [stopped EXCEPT ![k] = TRUE]
            /\ cancelled' = cancelled \cup
                 {w \in Workers : key[w] = k /\ pc[w] \notin {"returned", "refused"}}
        BY <2>3
      <3> QED BY <2>1, <3>1 DEF CancelSticks, StopIsTold, InFlight, task
    <2> QED BY <2>2, <2>3
  <1> QED BY <1>3, <1>4, <1>5, <1>6 DEF Told

\* Starts, closed rows, confirmations, the end of the window and its return
\* keep it.
LEMMA UserKeepsIInv ==
  ASSUME IInv, UserStep
  PROVE  IInv'
  <1>3. ASSUME NEW k \in Keys, CloseSettledRow(k) PROVE IInv'
    <2>1. confirm' \in Keys \cup {NoKey}
      BY <1>3 DEF CloseSettledRow, IInv, TypeOK
    <2> QED BY <1>3, <2>1, DeleteKeepsIInv DEF CloseSettledRow, UserFree
  <1>5. ASSUME NEW k \in Keys, ConfirmCancel(k) PROVE IInv'
    <2>1. mainWindow /\ confirm' \in Keys \cup {NoKey}
      BY <1>5 DEF ConfirmCancel, IInv, TypeOK, Windowless
    <2> QED BY <1>5, <2>1, DeleteKeepsIInv DEF ConfirmCancel
  <1> USE DEF IInv, TypeOK, Assigned, PlaceFitsKind, SignalFitsPlace, Windowless, Shown, Marked, Told,
    StoppedHasNoRow, RunningRowHasTask, TipCountsRows, MarkHasOwner, ExportListHasOwner,
    MarkHeld, CancelSticks, StopIsTold, WillReport, Holds, InFlight, MoreChunks,
    AllKinds, Uploads, Statuses, Running, Settled, Places, gui, task
  <1>1. ASSUME NEW w \in Workers, NEW k \in Keys, StartExport(w, k) PROVE IInv'
    BY <1>1 DEF StartExport, UserFree, Assign, Go
  <1>2. ASSUME NEW w \in Workers, NEW k \in Keys, NEW d \in Kinds, StartImage(w, k, d) PROVE IInv'
    <2>1. /\ mainWindow /\ k \notin pageTransfers /\ pc[w] = "idle" /\ d \in AllKinds \ {"export"}
          /\ pageTransfers' = pageTransfers \cup {k}
          /\ stopped' = [stopped EXCEPT ![k] = FALSE]
          /\ pc' = [pc EXCEPT ![w] = "start"]
          /\ kind' = [kind EXCEPT ![w] = d]
          /\ key' = [key EXCEPT ![w] = k]
          /\ UNCHANGED <<mainWindow, listTransfers, row, confirm, exportList,
                         left, signal, cancelled, tainted>>
      BY <1>2, KindsAssumption
      DEF StartImage, UserFree, Assign, Go, IsTransfering, ClearStop
    <2>2. TypeOK'
      BY <2>1
    <2>3. Assigned' /\ PlaceFitsKind' /\ SignalFitsPlace' /\ Windowless'
      BY <2>1
    <2>4. StoppedHasNoRow' /\ TipCountsRows'
      BY <2>1
    <2>5. RunningRowHasTask'
      BY <2>1
    <2>6. MarkHasOwner' /\ ExportListHasOwner'
      BY <2>1
    <2>7. MarkHeld'
      BY <2>1
    <2>8. CancelSticks' /\ StopIsTold'
      BY <2>1
    <2> QED BY <2>2, <2>3, <2>4, <2>5, <2>6, <2>7, <2>8
  <1>4. ASSUME NEW k \in Keys, AskToCancel(k) PROVE IInv'
    BY <1>4 DEF AskToCancel, UserFree
  <1>6. ASSUME NEW k \in Keys, KeepTransfer(k) PROVE IInv'
    BY <1>6 DEF KeepTransfer
  <1>7. CASE WindowGone
    <2>1. /\ mainWindow' = FALSE /\ confirm' = NoKey
          /\ pageTransfers' = {} /\ listTransfers' = {}
          /\ row' = [k \in Keys |-> "none"]
          /\ signal' = [v \in Workers |-> "none"]
          /\ UNCHANGED <<stopped, exportList, pc, kind, key, left, cancelled>>
      BY <1>7 DEF WindowGone, UserFree
    <2>2. /\ tainted \subseteq tainted' /\ tainted' \subseteq Keys
          /\ \A v \in Workers : pc[v] # "idle" => key[v] \in tainted'
      BY <1>7, KeysAssumption DEF WindowGone
    <2>3. TypeOK'
      BY <2>1, <2>2
    <2>a. Assigned' /\ PlaceFitsKind'
      BY <2>1
    <2>b. SignalFitsPlace' /\ Windowless'
      BY <2>1, <2>2
    <2>4. Shown'
      BY <2>1
    <2>5. MarkHasOwner' /\ ExportListHasOwner'
      BY <2>1
    <2>6. MarkHeld'
      BY <2>1, <2>2
    <2>7. CancelSticks' /\ StopIsTold'
      BY <2>1, <2>2
    <2> QED BY <2>3, <2>a, <2>b, <2>4, <2>5, <2>6, <2>7
  <1>8. CASE WindowBack
    BY <1>8 DEF WindowBack
  <1> HIDE DEF IInv
  <1> QED BY <1>1, <1>2, <1>3, <1>4, <1>5, <1>6, <1>7, <1>8 DEF UserStep

\* Every step of the threads, the slots or the user, and every stutter, keeps
\* the inductive invariant.
LEMMA NextKeepsIInv ==
  ASSUME IInv, [Next]_vars
  PROVE  IInv'
  <1>1. CASE Next
    BY <1>1, ThreadKeepsIInv, SlotKeepsIInv, UserKeepsIInv DEF Next
  <1>2. CASE UNCHANGED vars
    BY <1>2
    DEF vars, IInv, TypeOK, Assigned, PlaceFitsKind, SignalFitsPlace, Windowless, Shown, Marked, Told,
        StoppedHasNoRow, RunningRowHasTask, TipCountsRows, MarkHasOwner, ExportListHasOwner,
        MarkHeld, CancelSticks, StopIsTold, WillReport, Holds, InFlight, gui, task
  <1> QED BY <1>1, <1>2

\* The window without transfers that LoginDialog creates satisfies it.
LEMMA InitHasIInv ==
  ASSUME Init
  PROVE  IInv
  BY DEF Init, IInv, TypeOK, Assigned, PlaceFitsKind, SignalFitsPlace, Windowless, Shown, Marked, Told,
         StoppedHasNoRow, RunningRowHasTask, TipCountsRows, MarkHasOwner, ExportListHasOwner,
         MarkHeld, CancelSticks, StopIsTold, WillReport, Holds, InFlight,
         AllKinds, Uploads, Statuses, Running, Settled, Places

\* Every reachable state satisfies the inductive invariant of the transfers of
\* InfoWorker, ImageListPage and MainWindow.
THEOREM Inductive == Spec => []IInv
  BY InitHasIInv, NextKeepsIInv, PTL DEF Spec

-----------------------------------------------------------------------------
(* What follows from it.                                                   *)

\* The threads, the marks, the rows and the stop flags keep their types.
THEOREM TypeCorrect == Spec => []TypeOK
  <1>1. IInv => TypeOK
    BY DEF IInv
  <1> QED BY <1>1, Inductive, PTL

\* The mark that uploadSaveSlot, updateSaveSlot and downloadSaveSlot set and
\* check keeps two transfers of one image apart while it is not dropped early:
\* both threads hold it, and an untainted mark has one holder.
THEOREM Exclusion == Spec => []Exclusive
  <1>1. IInv => Exclusive
    <2> SUFFICES ASSUME IInv, NEW v \in Workers, NEW w \in Workers,
                        v # w, Transferring(v), Transferring(w), key[v] = key[w]
                 PROVE  key[v] \in tainted
      BY DEF Exclusive
    <2>1. Holds(v) /\ Holds(w)
      BY DEF Transferring, Holds, InFlight
    <2> QED BY <2>1 DEF IInv, Marked, MarkHeld
  <1> QED BY <1>1, Inductive, PTL

\* Every mark of m_transferImages belongs to a thread that will emit
\* transferImageFinished for it: no early return of the transfers forgets to.
THEOREM MarksHaveOwners == Spec => []MarkHasOwner
  <1>1. IInv => MarkHasOwner
    BY DEF IInv, Marked
  <1> QED BY <1>1, Inductive, PTL

\* Every name in m_exportList belongs to a thread that is still in the part of
\* _exportBackup that ends with its removal.
THEOREM ExportsHaveOwners == Spec => []ExportListHasOwner
  <1>1. IInv => ExportListHasOwner
    BY DEF IInv, Marked
  <1> QED BY <1>1, Inductive, PTL

\* A row that shows a transfer at work is the row of a thread that still has
\* its last status to report to MainWindow::getTransferImageStatus.
THEOREM RowsHaveTasks == Spec => []RunningRowHasTask
  <1>1. IInv => RunningRowHasTask
    BY DEF IInv, Shown
  <1> QED BY <1>1, Inductive, PTL

\* MainWindow's m_transferImages, whose size is the tip, is the set of keys
\* that have a row in TransmissionList.
THEOREM RowsAreCounted == Spec => []TipCountsRows
  <1>1. IInv => TipCountsRows
    BY DEF IInv, Shown
  <1> QED BY <1>1, Inductive, PTL

\* A transfer that was stopped has no row: getTransferImageStatus adds none
\* for a status that was on its way when the row was closed.
THEOREM StoppedHaveNoRow == Spec => []StoppedHasNoRow
  <1>1. IInv => StoppedHasNoRow
    BY DEF IInv, Shown
  <1> QED BY <1>1, Inductive, PTL

\* No start takes back the stop of a transfer that has not seen it yet, while
\* the mark of its image is not dropped early.
THEOREM CancellationSticks == Spec => []CancelSticks
  <1>1. IInv => CancelSticks
    BY DEF IInv, Told
  <1> QED BY <1>1, Inductive, PTL

\* stopTransfer(name, version, false) of every start works: an upload or a
\* download that finds itself stopped is one the user has cancelled.
THEOREM StopsAreTheUsers == Spec => StopIsTheUsers
  <1>1. IInv => \A w \in Workers : SendStopped(w) \/ DownloadStopped(w) => w \in cancelled
    <2> SUFFICES ASSUME IInv, NEW w \in Workers, SendStopped(w) \/ DownloadStopped(w)
                 PROVE  w \in cancelled
      OBVIOUS
    <2>1. InFlight(w) /\ stopped[key[w]]
      BY DEF SendStopped, DownloadStopped, At, InFlight
    <2>2. kind[w] # "export"
      BY DEF SendStopped, DownloadStopped, At, IInv, PlaceFitsKind, Uploads
    <2> QED BY <2>1, <2>2 DEF IInv, Told, StopIsTold
  <1> QED BY <1>1, Inductive, PTL DEF StopIsTheUsers
=============================================================================
