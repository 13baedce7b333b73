------------------------------ MODULE Transfer ------------------------------
(***************************************************************************)
(* Image transfers of the ks-scmc client: ImageListPage starts an upload,  *)
(* an update or a download, ContainerBackupPage starts an export, a thread *)
(* of the Qt pool runs InfoWorker::_uploadImage, _updateImage,             *)
(* _downloadImage or _exportBackup, and MainWindow shows one row per       *)
(* transfer, which the user may close to cancel it.                        *)
(*                                                                         *)
(* A key is the mark string name + "-" + version under which every part    *)
(* files a transfer.  transferImageStatus and transferImageFinished are    *)
(* BlockingQueued: the emitting thread stands still, its signal pending in *)
(* `signal', until the GUI thread has run the slot, or until the receiver  *)
(* is destroyed.  One action is one step of one thread.                    *)
(***************************************************************************)
EXTENDS Naturals

CONSTANTS
  Keys,      \* marks of images
  NoKey,     \* the key of an idle thread and of "no dialog"
  Fold,      \* the case folding under which MainWindow compares marks
  Workers,   \* threads of QThreadPool::globalInstance()
  Kinds,     \* the kinds of transfer the user may start
  Chunks     \* the longest file, in chunks of CHUNK_SIZE

AllKinds == {"upload", "update", "download", "export"}

ASSUME KeysAssumption   == NoKey \notin Keys
ASSUME FoldAssumption   == DOMAIN Fold = Keys
ASSUME KindsAssumption  == Kinds \subseteq AllKinds
ASSUME ChunksAssumption == Chunks \in Nat

VARIABLES
  mainWindow,     \* LoginDialog::m_mainWindow exists, its pages with it
  pageTransfers,  \* ImageListPage::m_transferImages
  listTransfers,  \* MainWindow::m_transferImages, whose size is the tip
  row,            \* TransmissionList: the status each key's row shows
  confirm,        \* the key whose row asks "Are you sure to cancel ...?"
  stopped,        \* InfoWorker::m_transferStatusMap, absent being FALSE
  exportList,     \* InfoWorker::m_exportList
  pc,             \* where each thread is in its function
  kind, key,      \* what it transfers
  left,           \* chunks still to come
  signal,         \* the blocking signal it is waiting in, or "none"
  cancelled,      \* history: threads whose transfer the user has cancelled
  tainted         \* history: keys in work whose mark may have been dropped early

gui   == <<mainWindow, pageTransfers, listTransfers, row, confirm>>
task  == <<pc, kind, key, left, signal>>
vars  == <<gui, stopped, exportList, task, cancelled, tainted>>

Uploads == {"upload", "update"}
Running == {"UPLOADING", "DOWNLOADING"}
Settled == {"UPLOADING_FAILED", "UPLOADING_SUCCESSFUL",
            "DOWNLOADING_FAILED", "DOWNLOADING_SUCCESSFUL"}
Statuses == Running \cup Settled
Places == {"idle", "start", "sending", "announce", "finish", "receiving",
           "verified", "append", "open", "unlist", "returned", "refused"}

TypeOK ==
  /\ mainWindow \in BOOLEAN
  /\ pageTransfers \subseteq Keys
  /\ listTransfers \subseteq Keys
  /\ row \in [Keys -> Statuses \cup {"none"}]
  /\ confirm \in Keys \cup {NoKey}
  /\ stopped \in [Keys -> BOOLEAN]
  /\ exportList \subseteq Keys
  /\ pc \in [Workers -> Places]
  /\ kind \in [Workers -> AllKinds \cup {"none"}]
  /\ key \in [Workers -> Keys \cup {NoKey}]
  /\ left \in [Workers -> 0..Chunks]
  /\ signal \in [Workers -> Statuses \cup {"finished", "none"}]
  /\ cancelled \subseteq Workers
  /\ tainted \subseteq Keys

Init ==
  /\ mainWindow = TRUE
  /\ pageTransfers = {} /\ listTransfers = {}
  /\ row = [k \in Keys |-> "none"]
  /\ confirm = NoKey
  /\ stopped = [k \in Keys |-> FALSE]
  /\ exportList = {}
  /\ pc = [w \in Workers |-> "idle"]
  /\ kind = [w \in Workers |-> "none"]
  /\ key = [w \in Workers |-> NoKey]
  /\ left = [w \in Workers |-> 0]
  /\ signal = [w \in Workers |-> "none"]
  /\ cancelled = {} /\ tainted = {}

-----------------------------------------------------------------------------
(* The threads.  A thread is At a place when no signal holds it there.     *)

At(w, place) == pc[w] = place /\ signal[w] = "none"
Go(w, place) == pc' = [pc EXCEPT ![w] = place]

\* An emission with no MainWindow, hence no receiver, returns at once.
Emit(w, s) == signal' = [signal EXCEPT ![w] = IF mainWindow THEN s ELSE "none"]
Silent     == UNCHANGED signal

MutEmitEarlyLost(w) == Silent
\* The transferImageFinished of every early return.
EmitEarly(w) == Emit(w, "finished")

\* while (offset < size), or one more Read
MoreChunks(w) == left[w] > 0

\* The thread changes nothing but its own state.
OwnStep == UNCHANGED <<gui, stopped, exportList, kind, key, cancelled>>

\* No channel, a file that does not open, an unusable signature, a first
\* Read that fails, or an update of the description whose Write fails.
FailEarly(w) ==
  /\ At(w, "start") /\ kind[w] # "export"
  /\ EmitEarly(w) /\ Go(w, "returned")
  /\ OwnStep /\ UNCHANGED <<left, tainted>>

\* The first Write of an upload fails: transferImageFinished is emitted, then
\* `goto finish' leads to the second emission.
FirstWriteFails(w) ==
  /\ At(w, "start") /\ kind[w] \in Uploads
  /\ EmitEarly(w) /\ Go(w, "finish")
  /\ tainted' = tainted \cup {key[w]}
  /\ OwnStep /\ UNCHANGED left

\* The first Write succeeds; the file has n chunks.
BeginUpload(w) ==
  /\ At(w, "start") /\ kind[w] \in Uploads
  /\ \E n \in 0..Chunks : left' = [left EXCEPT ![w] = n]
  /\ Go(w, "sending") /\ Silent
  /\ OwnStep /\ UNCHANGED tainted

\* An update of the description alone has no chunks to send.
UpdateInfoOnly(w) ==
  /\ At(w, "start") /\ kind[w] = "update"
  /\ Go(w, "finish") /\ Silent
  /\ OwnStep /\ UNCHANGED <<left, tainted>>

\* isTransferStoped: TryCancel, report the failure, leave the loop.
SendStopped(w) ==
  /\ At(w, "sending") /\ MoreChunks(w) /\ stopped[key[w]]
  /\ Emit(w, "UPLOADING_FAILED") /\ Go(w, "finish")
  /\ OwnStep /\ UNCHANGED <<left, tainted>>

MutBrokenSignal(w) == Silent
BrokenSignal(w) == Emit(w, "UPLOADING_FAILED")
SendBroken(w) ==
  /\ At(w, "sending") /\ MoreChunks(w) /\ ~stopped[key[w]]
  /\ BrokenSignal(w) /\ Go(w, "finish")
  /\ OwnStep /\ UNCHANGED <<left, tainted>>

\* A chunk is written.  The last one always moves the percentage, to 100.
SendChunk(w) ==
  /\ At(w, "sending") /\ MoreChunks(w) /\ ~stopped[key[w]]
  /\ left' = [left EXCEPT ![w] = @ - 1]
  /\ \/ left[w] > 1 /\ Silent /\ Go(w, "sending")
     \/ Emit(w, "UPLOADING") /\ Go(w, IF left[w] > 1 THEN "sending" ELSE "announce")
  /\ OwnStep /\ UNCHANGED tainted

\* prog == 100: the success is announced before Finish has the verdict.
Announce(w) ==
  /\ At(w, "announce")
  /\ Emit(w, "UPLOADING_SUCCESSFUL") /\ Go(w, "sending")
  /\ OwnStep /\ UNCHANGED <<left, tainted>>

SendEnd(w) ==
  /\ At(w, "sending") /\ left[w] = 0
  /\ Go(w, "finish") /\ Silent
  /\ OwnStep /\ UNCHANGED <<left, tainted>>

\* WritesDone and Finish: the server accepts or refuses.
FinishUpload(w) ==
  /\ At(w, "finish")
  /\ \E verdict \in {"returned", "refused"} : Go(w, verdict)
  /\ Emit(w, "finished")
  /\ OwnStep /\ UNCHANGED <<left, tainted>>

BeginDownload(w) ==
  /\ At(w, "start") /\ kind[w] = "download"
  /\ \E n \in 0..Chunks : left' = [left EXCEPT ![w] = n]
  /\ Go(w, "receiving") /\ Silent
  /\ OwnStep /\ UNCHANGED tainted

\* A chunk arrives and the transfer is found stopped: no status is reported.
DownloadStopped(w) ==
  /\ At(w, "receiving") /\ kind[w] = "download" /\ MoreChunks(w) /\ stopped[key[w]]
  /\ Emit(w, "finished") /\ Go(w, "returned")
  /\ OwnStep /\ UNCHANGED <<left, tainted>>

ReceiveChunk(w) ==
  /\ At(w, "receiving") /\ MoreChunks(w) /\ ~stopped[key[w]]
  /\ left' = [left EXCEPT ![w] = @ - 1]
  /\ \/ left[w] > 1 /\ Silent
     \/ Emit(w, "DOWNLOADING")
  /\ UNCHANGED <<pc, tainted>> /\ OwnStep

\* Read returns false: the stream is over, or broken.  A download compares
\* size and checksum; an export only asks whether the progress reached 100.
DownloadEnd(w) ==
  /\ At(w, "receiving") /\ kind[w] = "download"
  /\ \/ Emit(w, "DOWNLOADING_FAILED")
     \/ left[w] = 0 /\ Emit(w, "DOWNLOADING_SUCCESSFUL")
  /\ Go(w, "verified")
  /\ OwnStep /\ UNCHANGED <<left, tainted>>

DownloadFinished(w) ==
  /\ At(w, "verified")
  /\ Emit(w, "finished") /\ Go(w, "returned")
  /\ OwnStep /\ UNCHANGED <<left, tainted>>

-----------------------------------------------------------------------------
(* _exportBackup.  m_exportList is read and written without the mutex.     *)

ExportStep == UNCHANGED <<gui, stopped, kind, key, cancelled, tainted>>

\* No channel, a first Read that fails, an export to the registry, or an
\* image that m_exportList already holds.
ExportEarly(w) ==
  /\ At(w, "start") /\ kind[w] = "export"
  /\ Go(w, "returned") /\ Silent
  /\ ExportStep /\ UNCHANGED <<left, exportList>>

ExportCheck(w) ==
  /\ At(w, "start") /\ kind[w] = "export" /\ key[w] \notin exportList
  /\ Go(w, "append") /\ Silent
  /\ ExportStep /\ UNCHANGED <<left, exportList>>

ExportAppend(w) ==
  /\ At(w, "append")
  /\ exportList' = exportList \cup {key[w]}
  /\ Go(w, "open") /\ Silent
  /\ ExportStep /\ UNCHANGED left

ExportOpen(w) ==
  /\ At(w, "open")
  /\ \E n \in 0..Chunks : left' = [left EXCEPT ![w] = n]
  /\ Go(w, "receiving") /\ Silent
  /\ ExportStep /\ UNCHANGED exportList

MutDelist(k) == exportList
Delist(k) == exportList \ {k}

ExportOpenFails(w) ==
  /\ At(w, "open")
  /\ exportList' = Delist(key[w])
  /\ Go(w, "returned") /\ Silent
  /\ ExportStep /\ UNCHANGED left

ExportStopped(w) ==
  /\ At(w, "receiving") /\ kind[w] = "export" /\ MoreChunks(w) /\ stopped[key[w]]
  /\ exportList' = Delist(key[w])
  /\ Go(w, "returned") /\ Silent
  /\ ExportStep /\ UNCHANGED left

ExportEnd(w) ==
  /\ At(w, "receiving") /\ kind[w] = "export"
  /\ \E s \in {"DOWNLOADING_FAILED", "DOWNLOADING_SUCCESSFUL"} : Emit(w, s)
  /\ Go(w, "unlist")
  /\ ExportStep /\ UNCHANGED <<left, exportList>>

ExportDone(w) ==
  /\ At(w, "unlist")
  /\ exportList' = Delist(key[w])
  /\ Go(w, "returned") /\ Silent
  /\ ExportStep /\ UNCHANGED left

\* The function has returned: the future's watcher delivers the reply to the
\* page, if that page still lives, and the thread is free.
Return(w) ==
  /\ At(w, "returned") \/ At(w, "refused")
  /\ Go(w, "idle") /\ Silent
  /\ kind' = [kind EXCEPT ![w] = "none"]
  /\ key' = [key EXCEPT ![w] = NoKey]
  /\ left' = [left EXCEPT ![w] = 0]
  /\ cancelled' = cancelled \ {w}
  /\ tainted' = tainted \ {k \in {key[w]} : \A v \in Workers \ {w} : key[v] # k}
  /\ UNCHANGED <<gui, stopped, exportList>>

-----------------------------------------------------------------------------
(* The GUI thread: slots of the two signals.                               *)

Unblock(w) == signal' = [signal EXCEPT ![w] = "none"]

Listed(k) == \E t \in listTransfers : Fold[t] = Fold[k]

MutAddsRow(k) == ~Listed(k)
AddsRow(k) == ~Listed(k) /\ ~stopped[k]

\* MainWindow::getTransferImageStatus: addItem and append, or updateItem,
\* which does nothing when the key has no row.
HandleStatus(w) ==
  /\ signal[w] \in Statuses
  /\ IF AddsRow(key[w])
       THEN /\ row' = [row EXCEPT ![key[w]] = signal[w]]
            /\ listTransfers' = listTransfers \cup {key[w]}
       ELSE /\ row' = [row EXCEPT ![key[w]] = IF @ = "none" THEN @ ELSE signal[w]]
            /\ UNCHANGED listTransfers
  /\ Unblock(w)
  /\ UNCHANGED <<mainWindow, pageTransfers, confirm, stopped, exportList,
                 pc, kind, key, left, cancelled, tainted>>

\* ImageListPage::getTransferImageFinishedResult.
HandleFinished(w) ==
  /\ signal[w] = "finished"
  /\ pageTransfers' = pageTransfers \ {key[w]}
  /\ Unblock(w)
  /\ UNCHANGED <<mainWindow, listTransfers, row, confirm, stopped, exportList,
                 pc, kind, key, left, cancelled, tainted>>

-----------------------------------------------------------------------------
(* The GUI thread: what the user does.  A confirmation is modal, so no     *)
(* other action of the user happens while one is open; signals are still   *)
(* handled, in the dialog's own event loop.                                *)

UserFree == mainWindow /\ confirm = NoKey

Assign(w, k, d) ==
  /\ pc[w] = "idle" /\ Go(w, "start")
  /\ kind' = [kind EXCEPT ![w] = d]
  /\ key' = [key EXCEPT ![w] = k]
  /\ UNCHANGED <<left, signal>>

MutIsTransfering(k) == FALSE
\* ImageListPage::imageIsTransfering.
IsTransfering(k) == k \in pageTransfers

MutClearStop(k) == stopped
\* stopTransfer(name, version, false)
ClearStop(k) == [stopped EXCEPT ![k] = FALSE]

\* uploadSaveSlot, updateSaveSlot, downloadSaveSlot past the file check.
StartImage(w, k, d) ==
  /\ UserFree /\ d \in Kinds \ {"export"}
  /\ ~IsTransfering(k)
  /\ pageTransfers' = pageTransfers \cup {k}
  /\ stopped' = ClearStop(k)
  /\ Assign(w, k, d)
  /\ UNCHANGED <<mainWindow, listTransfers, row, confirm, exportList, cancelled, tainted>>

\* ContainerBackupPage::exportBackup: no mark, and no stopTransfer.
StartExport(w, k) ==
  /\ UserFree /\ "export" \in Kinds
  /\ Assign(w, k, "export")
  /\ UNCHANGED <<gui, stopped, exportList, cancelled, tainted>>

MutUnlistRow(k) == listTransfers
UnlistRow(k) == listTransfers \ {k}

\* TransmissionList::deleteItem and MainWindow::onTransferItemDeleted, with
\* the status the row shows now.
DeleteRow(k) ==
  /\ row' = [row EXCEPT ![k] = "none"]
  /\ IF Listed(k)
       THEN /\ listTransfers' = UnlistRow(k)
            /\ IF row[k] \in Running
                 THEN /\ stopped' = [stopped EXCEPT ![k] = TRUE]
                      /\ cancelled' = cancelled \cup
                           {w \in Workers : key[w] = k /\ pc[w] \notin {"returned", "refused"}}
                 ELSE UNCHANGED <<stopped, cancelled>>
       ELSE UNCHANGED <<listTransfers, stopped, cancelled>>
  /\ UNCHANGED <<mainWindow, pageTransfers, exportList, task, tainted>>

\* TransmissionItem::onItemClose.
CloseSettledRow(k) ==
  /\ UserFree /\ row[k] \in Settled
  /\ DeleteRow(k)
  /\ UNCHANGED confirm

AskToCancel(k) ==
  /\ UserFree /\ row[k] \in Running
  /\ confirm' = k
  /\ UNCHANGED <<mainWindow, pageTransfers, listTransfers, row, stopped, exportList,
                 task, cancelled, tainted>>

ConfirmCancel(k) ==
  /\ confirm = k /\ confirm' = NoKey
  /\ DeleteRow(k)

KeepTransfer(k) ==
  /\ confirm = k /\ confirm' = NoKey
  /\ UNCHANGED <<mainWindow, pageTransfers, listTransfers, row, stopped, exportList,
                 task, cancelled, tainted>>

\* LoginDialog deletes MainWindow (logout or expiry): its pages and its rows
\* go, the threads go on, those blocked in a signal are released.
WindowGone ==
  /\ UserFree
  /\ mainWindow' = FALSE
  /\ pageTransfers' = {} /\ listTransfers' = {}
  /\ row' = [k \in Keys |-> "none"]
  /\ signal' = [w \in Workers |-> "none"]
  /\ tainted' = tainted \cup ({key[w] : w \in Workers} \ {NoKey})
  /\ UNCHANGED <<confirm, stopped, exportList, pc, kind, key, left, cancelled>>

WindowBack ==
  /\ ~mainWindow
  /\ mainWindow' = TRUE
  /\ UNCHANGED <<pageTransfers, listTransfers, row, confirm, stopped, exportList,
                 task, cancelled, tainted>>

-----------------------------------------------------------------------------
ThreadStep(w) ==
  \/ FailEarly(w) \/ FirstWriteFails(w) \/ BeginUpload(w) \/ UpdateInfoOnly(w)
  \/ SendStopped(w) \/ SendBroken(w) \/ SendChunk(w) \/ Announce(w)
  \/ SendEnd(w) \/ FinishUpload(w)
  \/ BeginDownload(w) \/ DownloadStopped(w) \/ ReceiveChunk(w)
  \/ DownloadEnd(w) \/ DownloadFinished(w)
  \/ ExportEarly(w) \/ ExportCheck(w) \/ ExportAppend(w) \/ ExportOpen(w)
  \/ ExportOpenFails(w) \/ ExportStopped(w) \/ ExportEnd(w) \/ ExportDone(w)
  \/ Return(w)

SlotStep(w) == HandleStatus(w) \/ HandleFinished(w)

UserStep ==
  \/ \E w \in Workers, k \in Keys :
       StartExport(w, k) \/ \E d \in Kinds : StartImage(w, k, d)
  \/ \E k \in Keys :
       CloseSettledRow(k) \/ AskToCancel(k) \/ ConfirmCancel(k) \/ KeepTransfer(k)
  \/ WindowGone \/ WindowBack

Next == UserStep \/ \E w \in Workers : ThreadStep(w) \/ SlotStep(w)

Spec == Init /\ [][Next]_vars

\* The pool runs its threads, the event loop runs pending slots, and every
\* stream answers or breaks.  Nothing is assumed of the user.
FairSpec == Spec /\ \A w \in Workers : WF_vars(ThreadStep(w)) /\ WF_vars(SlotStep(w))

-----------------------------------------------------------------------------
(* Properties.                                                             *)

InFlight(w) == pc[w] \notin {"idle", "returned", "refused"}

\* The thread still moves or will move the bytes of an image of the page.
Transferring(w) ==
  kind[w] \in AllKinds \ {"export"} /\ pc[w] \in {"start", "sending", "announce", "receiving"}

\* The mark of ImageListPage keeps two transfers of one image apart
\* (image-list-page.cpp:261), unless the mark was dropped early: by the
\* emission before `goto finish', or because the page was destroyed.
Exclusive ==
  \A v, w \in Workers :
    v # w /\ Transferring(v) /\ Transferring(w) /\ key[v] = key[w] => key[v] \in tainted

\* A mark never outlives its transfer: every early return emits
\* transferImageFinished, so no image stays "being transferred" for ever.
MarkHasOwner ==
  \A k \in pageTransfers : \E w \in Workers :
    key[w] = k /\ kind[w] # "export" /\ (InFlight(w) \/ signal[w] = "finished")

\* The same for m_exportList: every way out of _exportBackup past the append
\* removes the name.
ExportListHasOwner ==
  \A k \in exportList : \E w \in Workers :
    key[w] = k /\ kind[w] = "export" /\ pc[w] \in {"open", "receiving", "unlist"}

\* A cancelled transfer does not come back to the list with a status that was
\* already on its way (main-window.cpp:751).
StoppedHasNoRow == \A k \in Keys : stopped[k] => row[k] = "none"

\* The thread has yet to report how its transfer ended.
WillReport(w) ==
  \/ pc[w] = "sending" /\ left[w] > 0
  \/ pc[w] \in {"announce", "receiving"}
  \/ signal[w] \in Settled

\* A row that shows a transfer at work has a thread that will settle it: no
\* failure path leaves a row "Uploading" or "Downloading" for ever.
RunningRowHasTask ==
  \A k \in Keys : row[k] \in Running => \E w \in Workers : key[w] = k /\ WillReport(w)

\* MainWindow's list of marks and the rows name the same transfers, so the
\* tip on the button counts the rows.
TipCountsRows == listTransfers = {k \in Keys : row[k] # "none"}

\* Once the user has cancelled a transfer of an image, no new start takes the
\* stop back before the transfer has seen it (image-list-page.cpp:438).
CancelSticks ==
  \A w \in cancelled : InFlight(w) =>
    stopped[key[w]] \/ kind[w] = "export" \/ key[w] \in tainted

\* An upload or a download that finds itself stopped was cancelled by the
\* user, never by what is left of an earlier cancellation of the same image.
StopIsTheUsers ==
  [][\A w \in Workers : SendStopped(w) \/ DownloadStopped(w) => w \in cancelled]_vars

\* Every image whose transfer was accepted can be transferred again.
MarkReleased == \A k \in Keys : k \in pageTransfers ~> k \notin pageTransfers

\* Every row that shows a transfer at work stops doing so.
RowSettles == \A k \in Keys : row[k] \in Running ~> row[k] \notin Running

=============================================================================
