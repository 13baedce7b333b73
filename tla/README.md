# TLA+ models of the ks-scmc client

ks-scmc-gui is the Qt client with which an administrator drives a ks-scmc
server: containers, images, nodes, templates, audits. It keeps nothing on disk
but a few settings. What is hard about it is not its data but its concurrency:
one GUI thread that runs slots, a pool of threads that run gRPC calls, one
thread that listens to the server, and modal dialogs whose own event loops let
all of it go on underneath. The models here are of that.

All paths are relative to the repository; `src/` is its source directory.

## 1. Inventory

| component | state | operations | how it meets the others |
|---|---|---|---|
| `InfoWorker` (`src/base/info-worker.cpp`), a singleton | `s_authKey`, `m_transferStatusMap` (stop flags), `m_exportList` | about sixty unary calls (`RPC_ASYNC`/`RPC_IMPL`), four streaming ones (`_uploadImage`, `_updateImage`, `_downloadImage`, `_exportBackup`), `stopTransfer`, `isTransferStoped` | started by slots of the GUI thread, runs on `QThreadPool::globalInstance()`, answers with signals: queued for replies, BlockingQueued for the two transfer signals |
| `rpc_channel.cpp` | `s_channels` under one mutex | `get_rpc_channel`, `new_rpc_channel` | called by every call, on its pool thread, holding the mutex while it waits for the connection |
| `SubscribeThread` | `m_isCanceled` | `subscribe`, `cancel` | its `QThread` is started by a login; posts `sessinoExpire` to `LoginDialog` |
| `LoginDialog` | `m_mainWindow`, `m_thread`, the licence | `onLogin`, `onLogout`, the slots of their replies, `sessionExpire`, the event filter that may refuse a close, the licence slots | creates and deletes `MainWindow` |
| `MainWindow` | `m_transferImages`, the page stack | page changes, transfer rows, logout | rows in `TransmissionList` |
| `ImageListPage` | `m_transferImages`: the marks of images in transfer | upload, update, download, approve, remove | starts transfers, is told of their end |
| `ContainerBackupPage` | the backup list, its timer | create, update, resume, remove, export | starts exports |
| `TablePage` and its `HeaderView`, `ButtonDelegate` | rows with check boxes, a search text, a page number | search, check, check all, paging, refresh | base of all list pages |
| `Page`, `StackedPage`, `TabPage` | a mask, the page on top | `setBusy`, change of page | base of all pages; a change makes `MainWindow` stop the timers of the lists left |
| list pages (containers, applications, templates, nodes, networks, images) | what `TablePage` has, timers, forms | batch operations on the checked rows, operations on one row, forms that create and change | replies of `InfoWorker` carry the page's object id |
| `LogListView`, `WarningListView` | what `TablePage` has, the page on, a search key | page by page listings, reading of warnings | reading changes the badge |
| `ContainerSetting` and its tabs | the forms of one container or template, three copies of its network cards | create, update, the replies that fill the form | several calls in flight at once, opened by lists of containers and templates |
| `OutlineView` | cells | puts several replies together | leads to pages, sets the badges of `MainWindow` |
| monitor charts, dialogs, licence (`dbus/`, `activate-page`), configuration, widgets | little | | |

The behaviours that are hard here: signals that block the emitting thread until
the GUI thread has run; replies and expiries that cross a logout or a login;
flags and marks that outlive what they were set for; early returns that must
undo what a slot has done; a stop that races the end of what it stops; calls
that were done by the server and look failed to the client. The list, each at
its line, is in `PROJECT.json` under `hazards`.

There are no tests in the repository, and few comments; what the program
promises is read from its messages and from what its handlers are written to
keep.

What makes each component correct:

- **Transfers**: one transfer of an image at a time; a mark, a name in
  `m_exportList`, a running row each belong to a transfer at work; a stop
  reaches exactly the transfer it was meant for; the tip counts the rows.
- **Session**: exactly one of dialog and window is shown; a window has a key,
  unless logins cross (section 2); only a session that is really over is ended;
  every call is answered.
- **Tables and list pages**: the batch buttons, the header box and the checked
  rows agree; an operation acts on what the user was asked about; a mask is
  taken down again; no late reply makes a page follow a pointer to a form that
  is not there.
- **Audit**: the page listed and the page shown agree; what is turned to is a
  page.
- **Container settings**: the cards are one list, kept three times; what is
  offered is that of the node chosen; what is sent is whole.
- **Window**: what is marked is what is shown; a list on the screen goes on, one
  that is left stops; a badge hides nothing that its listing knew of.

## 2. Modules

| module | models | kind |
|---|---|---|
| `Transfer` | `InfoWorker`'s four streams, `ImageListPage`, `ContainerBackupPage`, `MainWindow` and `TransmissionList` as far as they move images | specification, properties |
| `Session` | `LoginDialog`, `InfoWorker`'s unary calls, `SubscribeThread`, an external server | specification, properties |
| `TablePage` | `TablePage` and `HeaderView`: check boxes, batch buttons, search, refills | the operators of a table, shared by the list pages |
| `ContainerList` | `ContainerListPage` on `TablePage`, its calls and timers, an external server | specification, properties |
| `ListPages` | the seven other list pages on `TablePage`: nodes, templates, virtual interfaces, images, approval, backups, applications | specification, properties |
| `Audit` | logs and warnings on `TablePage`, page by page | specification, properties |
| `Mask` | the mask over a page that waits | abstract specification, implemented by `ContainerList`, `ListPages` and `Audit` |
| `Settings` | `ContainerSetting` in its kinds | specification, properties |
| `Navigation` | `MainWindow` and the page managers: pages, side bar, timers | specification, properties; abstract for `Console` |
| `Console` | the badges, the outline and the calls that set them, on `Navigation` | specification, properties; implements `Navigation` |
| `MCTransfer`, `MCContainerList`, `MCListPages`, `MCAudit`, `MCSettings` | | instances for TLC |
| `TransferProofs`, `SessionProofs`, `TablePageProofs`, `ContainerListProofs`, `ListPagesProofs`, `AuditProofs`, `SettingsProofs`, `ConsoleProofs` | | inductive invariants, lemmas and theorems |

Operators whose name begins with `Mut` are faulty variants of the definition
below them, each a bug that could be made in that place; TLC finds the property
they are listed with in `PROJECT.json` violated when one takes the place of the
right definition.

### Transfer

A *key* is the mark string `name + "-" + version`. A thread of the pool is
`idle` or at a place of one of the four functions; `left` counts the chunks
still to come and `signal` is the BlockingQueued signal the thread is standing
in. An emission is two steps: the thread raises the signal (`Emit`), later the
GUI thread runs the slot (`HandleStatus`, `HandleFinished`) and frees it. With
no main window there is no receiver and the emission returns at once; the
destruction of the window frees all that stand.

| state | code |
|---|---|
| `mainWindow`, `pageTransfers`, `listTransfers` | `LoginDialog::m_mainWindow`, `ImageListPage::m_transferImages`, `MainWindow::m_transferImages` |
| `row` | `TransmissionList::m_transfersItems`, at most one row per key (`addItem` is called for a key not listed; `TipCountsRows`) |
| `confirm` | the modal "Are you sure to cancel the transmission?" of `TransmissionItem::onItemClose` |
| `stopped`, `exportList` | `m_transferStatusMap` (absent is `FALSE`), `m_exportList` |
| `pc`, `kind`, `key`, `left`, `signal` | a pool thread |
| `cancelled`, `tainted` | history only: threads whose transfer the user cancelled; keys whose mark may be dropped early (see `Exclusive`) |

Percentages are abstracted to "has moved or not", with what the code makes
certain: the last chunk of an upload moves it, to 100. Chunks stand for any
number of `CHUNK_SIZE` blocks; at a chunk the stream may break, the server may
refuse, files may fail. `m_exportList` and `m_transferStatusMap` are read
without their mutex: each access is one atomic step and the steps of threads
interleave. `MainWindow` compares marks without case (`Fold`), everything else
with case, as the code does.

### Session

The n-th session the server opens has key n, key 0 is the empty `s_authKey`.
The steps of a call are those at which another thread can come between:

| `pc` | the call | next |
|---|---|---|
| `queued` | is in the queue of the pool | `Send`: takes the key of this moment |
| `wire` | is under way | the server's step and the answer: `LoginOk`, `LogoutLost`, ... |
| `back` | its thread has the answer, and has something to do about it | `WriteKey`, `ClearKey` or `EmitExpire` |
| `done` | has nothing left but the reply | `Post` |
| `answered` | its reply is in the queue of the GUI thread | a slot of `LoginDialog` |

Replies and expiries of all threads reach the GUI thread through the one queue
of posted events (`events`), in posting order. The server is external: it may
drop a session at any time, and a call may fail before or after the server has
done it (`LoginLost`, `LogoutLost`).

`s_authKey` is written by the threads of logins and logouts in any order, and
the login button stays enabled while a login is under way. So *a window always
has a key, or its logout is on its way* is **not** true of this program. Two
logins are started by a double click, the first opens the window, the user logs
out; the thread of the second login writes its key, that of the logout clears it
and posts its reply, the second login's reply comes last and opens a window
without a key. Nor are keys in the order the server gave them: two logins may
write theirs the other way round. `crossed`, history, says that the last login
was started with a login or a logout under way; `WindowHasKey` and the second
half of `OnlyStaleEnds` are claimed without it, and again from the next login
that is started alone. TLC finds both violated as soon as that condition is
taken away.

### Container list

`TablePage` holds the state of a table and, as operators, what each of its
slots does to it; `ContainerList` extends it and says when they run. All of it
is in the GUI thread, so that an action is a whole slot. Setting a check box
emits `itemChanged` only if the box changes, and `onItemChecked` then runs at
once inside the loop that sets the boxes: an operator gives the state in which
the loop ends, and in that of `CheckAll` it depends on the order of the rows.

| state | code |
|---|---|
| `rows` | `TablePage::m_model`: id, whether its status is running, check box, hidden by the search |
| `box`, `boxShown` | `HeaderView::m_ckbIsToggled`, `HeaderView::m_isCheckable` |
| `headCheckable` | `TablePage::m_isHeadCheckable` |
| `batch`, `delete` | the enabled state of the batch buttons and, apart, of Delete |
| `text`, `searchTimer` | the search line, `m_searchTimer` (200 ms) |
| `shown`, `refreshTimer` | the page in the stack, `ContainerListPage::m_timer` (60 s) |
| `busy` | the mask of `Page::setBusy` |
| `confirm` | the containers named by the question `onBtnDelete` asks |
| `calls` | calls in flight, from `RPC_ASYNC` to the slot of the reply |
| `present`, `gone` | the server: what exists, what was removed (external) |

Which containers run is not kept: a listing holds the containers that exist, in
any order, each in any state. Calls are answered, and their slots run, in any
order. A failed call may have done part of its work. The menu of a row is
modelled as an operation on a row as it is at the click; the code keeps a
`QModelIndex` while the menu is open (hazard).

### List pages

`kind` is the page of a behaviour. The seven pages differ in what they may do
(`OpsOf`), in what they offer on buttons and in rows (`Offered`), in whether
they mask themselves (`Masks`), list every minute (`Timed`), show what belongs
to one node or container (`OfSubject`), let one row be chosen (`Single`), and in
the slots of their replies, which are actions of their own: `NodesListed`,
`TemplatesListed`, `NetworkListed`, `ImagesListed`, `BackupsListed`,
`AppsListed`, and those named `...Changed`.

| state | code |
|---|---|
| `shown`, `subject` | the page on top; `m_nodeId` or `m_containerId` |
| `single`, `batch`, `rows`, `box` ... | as in `TablePage`; `single` is the enabled state of the buttons that need no row |
| `window` | the form (`create`, `edit`) or question (`remove`, `removeRow`, `resume`) that is open, with the ids it is about, or the row |
| `proc`, `appRow` | `ContainerAppPage::m_proc`, `m_runningAppRow` |
| `calls` | calls in flight: what each is about, what the user was asked about before (history), the subject it was sent for, whether its object id is that of the page |
| `crashed` | a null form was closed, or a row read of an empty list |

What distinguishes the pages is when they read the row: before the question
(`removeRow` of backups and templates), after it (`removeLate` of interfaces and
applications, whose table may have been refilled below the question), or without
one (`removeNow`). Two pages have flaws the others have not, and the properties
say so where they leave them out: applications take any page's listing for a
failure of their own (`AppsListedForAnother`), and interfaces and applications
do not look before they follow a pointer (`Survives`).

### Audit

A view of `kind` logs or warnings. `pageOn` is `m_pageOn` of the view,
`pageEdit` the number in the page line, `totalPages` and `paging` are
`m_totalPages` and whether the line is visible. The page line is reached by
three handlers (`LastBtnClick`, `NextBtnClick`, `PageEditChange`), which read
back the number a user may have typed, negative or too large: `TurnsToAPage`
says which pages they turn to, and excepts the two ways in which it is no page
(the next page from below 0, the page before from far beyond the end). The tab
bar and the keyboard reach the view under its mask, so that several listings are
in flight. Every `updateInfo` of the warnings connects the slot again
(`connections`), and each reply is handled that often (`copies`).

### Settings

`kind` is `m_type`. The window asks for the nodes and inspects its subject; both
replies come in any order, while the user works. The network cards are kept as
rows of a list, as pages of a stack and in `m_netWorkPages`, `m_netWorkCount`
counts them: `rows`, `stack`, `pages`, `count`. What a card shows is whose
network it is and which node's networks it offers (`content`). Of the other tabs
it is kept which are filled in wrongly (`wrong`); `Written` and `ConfirmUpdate`
give what is sent then, part by part. The two ways the loops of
`getInspectTemplateFinishResult` end badly are values of `life`.

### Navigation and Console

`Navigation` has the page shown, the item marked, the title, the group of the
side bar, and of the three lists with a refresh timer which run (`timers`),
which have a text in the search line, and whose search timer runs. `changes`
counts the changes of backups under way: the reply to one makes the page of
backups update itself, its timer included, wherever the user is by then
(`BackupsChanged`); no reply on the two other lists starts a timer. `late` is
history: timers started by a search line or by such a reply after the list was
left. A list in it asks on, off the screen, until the next page is left; this is
what the program does, and `LeftRests` claims only that to leave a list stops
its refresh, and that nothing but these two starts it again.

`Console` adds what the badges show (`tips`), what waits at the server, and the
listings of images and nodes in flight, from the outline or from a page, as a
bag; its steps are steps of `Navigation` with the calls that the visited page
sends, or leave `Navigation` alone. Of the image page it has the mask, because
the mask keeps the user from sending decisions. Two histories say what a badge
can know: `news` counts, for each badge, how often something new has come to the
server to wait, and `seen` is the value it had when the listing was answered
that the badge shows. `BadgesHideNone` is about badges that have seen all. An
older listing that comes after a newer one takes a badge back to what was before
an arrival, and then hides what came, until the next listing: the program does
not order its listings, and the property claims nothing of such a badge.

### Mask

`busy` and the calls whose reply takes the mask down. It promises that the mask
goes up with such a call only, comes down with its reply, and never stays
without one. `ContainerList` implements it with all its calls as `waiting`,
`ListPages` and `Audit` with their listings; both directions of difference between the pages fit it: pages that
list without masking themselves, and replies that are handled twice.

## 3. Runs

| run | bounds | shows |
|---|---|---|
| `transfer_images` | 2 images whose marks differ in case only, 2 threads, uploads, downloads and exports, 2 chunks | mutual exclusion by the mark, owners of marks, export names and rows, no row for a stopped transfer, the tip, cancellation sticks, and stops only what the user stopped |
| `transfer_live` | 1 image, 2 threads, updates, downloads and exports, 2 chunks, fairness | marks are released, rows settle |
| `session` | 2 sessions, 2 calls in flight, fairness | real expiries; unless logins cross, a key behind every window, and only stale answers end a valid session; calls are answered, expiries shown |
| `container_list` | 2 containers, 2 calls in flight, texts: none, one that finds a container, one that finds nothing | batch buttons, Delete, header box and check marks agree; the mask as `Mask` promises |
| `container_live` | 1 container, 2 calls, the same texts, fairness | a removed container leaves the table |
| `list_pages` | all seven pages, 2 items of 2 subjects, 2 calls in flight | one row where one is chosen, removals of what was asked only, no null form; the mask as `Mask` promises |
| `list_pages_live` | the backups, 1 item, 2 subjects, 2 calls, fairness | the mask is lifted; backups of another container leave the page |
| `audit` | both views, 2 rows, up to 2 pages, 2 calls, 2 connections, numbers -1, 0 and 3 typed beside those of the buttons | the two page numbers agree, what is turned to is a page, the mask as `Mask` promises |
| `settings` | five kinds, 2 nodes, 2 templates of 1 and 2 networks, 3 cards, 2 calls, one tab that may be wrong | cards agree, one is left; what is shown and offered is that of subject and node; a container from a template is on the node of that |
| `console` | three roles, 3 calls in flight, one image and one warning that wait, one arrival for each badge, one change of backups under way | marks and timers agree with what is shown, badges with what their listing knew |

Two threads are enough for what a mark, a flag or a row can get wrong: every
hazard is between two transfers of one image, or one transfer and the GUI; a
third thread adds only repetitions. The second image differs from the first in
case only, so that `MainWindow` takes one for the other. An update does all an
upload does and may be of the description alone; the smaller run has it, the
larger one the upload. With two chunks a stream has a first chunk, a last one
and a break between them. Two sessions let the answer to a call of the first
come into the second; two calls let two logins cross. Two items are the fewest with "some but not all checked"
and "one of the checked runs"; two calls are enough for a stale listing to come
after a newer one, or for a mask to be taken down by the wrong reply. Two pages
let a total shrink below the page on; the numbers 0 and 3 are the nearest on
both sides that are not pages, and -1 is one from which the next page is none. Two connections are enough for a reply to be
handled again after a later one. Three cards let a template add, delete and keep
one. Three calls are those of one visit to the outline; one arrival can come
between the answers of two of them, and one change of backups can be answered
after its page was left, again and again. For more of any of these
there are the theorems.

These two runs find what the program says and does not keep (`findings` in
`PROJECT.json` has the lines):

| run | what the program says | what happens |
|---|---|---|
| `subscription_dead` | the subscription of 1.1 | never listens again after the first cancel |
| `template_cards` | "number to create - m_netWorkPages.size()" | the loop compares a shrinking rest with a growing counter and stops half way; the networks left read past the list of pages |

Deadlock is checked where the program cannot stop: in `Transfer`,
`ContainerList`, `Audit` and `Console`. A client whose window is closed has
stopped (`Session`, `Settings`), and so has a page that crashed (`ListPages`).

**Fairness.** `Transfer!FairSpec`: weak fairness of each thread and of each
pending slot. The pool runs the function it was given, the event loop delivers
queued events in order, also inside modal dialogs. It includes that a stream
answers or breaks; the code sets no deadline on the four streams, so that this
is an assumption about the network and not about the code (hazard). Nothing is
assumed of the user. `Session!FairSpec`: weak fairness of each call, which has a
deadline of 8 s, of the event loop, and of the start of the thread.
`ContainerList!FairSpec` and `ListPages!FairSpec`: weak fairness of each call
(the same deadline) and of each slot, strong fairness of the refresh timer: the
timer of the program never waits for a free slot, but here slots are a bound,
and without it calls begun by the user could take every slot just before the
timer fires.

## 4. Proofs

Everything below holds for every value of the constants, from the assumptions
each module states of them (`KeysAssumption`, `FoldAssumption`,
`KindsAssumption`, `ChunksAssumption`; `SessionsAssumption`; `TextsAssumption`,
`IdsAssumption`; `ItemsAssumption`, `PagesAssumption`; `AuditAssumption`;
`SettingsAssumption`; `NavigationAssumption`, `ConsoleAssumption`): types,
finiteness of the sets of rows, that an empty name is no name, that the two calls
of a constructor are within the bound of calls. Of the
invariants the runs check only `NodeFollowsTemplate` is inductive alone; each module has an `IInv`, and a lemma for each
action or group of actions that keeps it.

The type invariants of all modules (`TypeOK`, in `Console` `BadgesOK`, by
`BadgesAreTyped`), and `OneWindow` of `Session`, `BatchHasRows`
of `ListPages` and `Audit`, `ShownIsListed` of `Audit`, `RemovalNamesItems` of
`ListPages` and `UpdateIsWhole` of `Settings` are proved for every value of the
constants; the runs leave them out, and have the other properties.

`TransferProofs` proves all invariants of `transfer_images` and the action
property `StopIsTheUsers`. `IInv` adds: which kinds a place belongs to
(`PlaceFitsKind`); which signals a thread can stand in at which place, and that
none stands without a window (`SignalFitsPlace`); that without a window nothing
is listed and every key at work is tainted (`Windowless`); that an untainted mark
is held by exactly one thread with an emission of `transferImageFinished` ahead
of it (`MarkHeld`, which gives `Exclusive`); and that a stopped image transfer
is a cancelled one (`StopIsTold`).

`SessionProofs` proves all safety properties of `session`, the action property
`OnlyStaleEnds` too, for any number of calls and any order of their threads'
steps. `IInv` has three parts. `Base`: types, `OneWindow`, what a call at each
stage knows (`Stages`), and that each answered call has its reply once
(`RepliesMatch`). `KeysOK`: no key is anywhere that the server has not handed
out, and an answer that says so is about a session that is over; both hold
however logins cross, because they compare keys with what the server did and not
with `s_authKey`. And, unless `crossed`, `Alone`: a login under way is the only
one, with no logout and no window beside it, so that its key is the last one
handed out and in `s_authKey` before its reply is posted (`LoginAlone`); a window
has that key, or the logout that emptied it on its way (`WindowKeyed`). A login
started alone makes `Alone` true whatever was before, which is why the invariant
can take it up again.

Two theorems there go beyond the runs. `OneReplyEach`: while a call is answered
its reply, with its name and its key, waits exactly once among the events, so
that a slot handles no reply twice, for another call, or for one that was not
made; this is the safe half of `CallAnswered`. `SilentForGood` says how far the
finding of `subscription_dead` reaches: after the first expiry it hears, the
first break of its stream, or the first time it is stopped (a close that was
refused does it), the program never listens to a subscription again, whoever
logs in. It rests on `CanceledIsSilent`: no loop runs in a thread that was
started since a cancellation.

`TablePageProofs` has lemmas only: what `CheckRow`, `CheckAll`, `Filter`,
`Reorder` and `Refill` do to rows, marks and buttons of any table. Three modules
rest on it.

`ContainerListProofs` proves all properties of `container_list`. `IInv` adds
`HeadIsRows`: the flag `m_isHeadCheckable` says whether the table has rows,
without which `clearCheckState` could skip a checked row; and `BoxOfNothing`: an
empty table shows a header box only before the first listing, masked, with no
operation under way, for a click on it there would enable the batch buttons. It
proves the refinement of `Mask` as well: an operation that ends well is followed
by a listing in its own slot, which is no answer of `Mask` but another question.

`ListPagesProofs` proves all properties of `list_pages`. `IInv` adds what a
question knows (`WindowOK`: a removal asked for is one of the page, and of
something), what the pages of one choice keep (`ChosenOne`, and `HeaderOf`: they
have no box in the header, by which several rows could be checked at once), and
that only masking pages are masked. `OneChosen` follows by counting. The theorem
`Refinement` shows that each step is a step of `Mask` on `busy` and the listings
in flight, or leaves both alone; it needs the invariant, for a page that does
not call `setBusy` answers listings as well.

`AuditProofs` proves all safety properties of `audit` and the refinement of
`Mask`, with `ReadsAreSilent`: a call that reads warnings is answered and gone
in one step, so that no copies of its reply come. `TurnsAreToPages` is proved of
any number of pages and any typed integer; it needs, from the invariant, that the
page line is there only over pages, since the reply of a failed listing hides it.

In `ListPagesProofs` and `AuditProofs` the lemma `MaskPromises` shows that
whatever keeps the steps of `Mask` has a call under way while it is masked
(`Mask!Owned`), and `MaskIsOwned` concludes it for the pages from the
refinement; `ContainerListProofs` has it in its invariant. It is what liveness
rests on: with fair calls no page is locked for good (`MaskLifts`).

`SettingsProofs` proves all properties of `settings`, and has two inductive
invariants. `IInv` is of the calls. For `UpdateIsWhole` it has `NoMessage`: the
window that edits a container never has a message open that is followed by a
request. For `ImagesOfNode`, `ImagesFollow`: the list of nodes is asked for once,
and until the user chooses a node every listing of images under way is of the
one it brought. The lemma `Removed` says what is left of the calls when one is
taken out of their middle.

`FormOK`, inductive given `IInv`, is of the cards. `ListOK`: the rows are a list
without repetition and never none; without the first, "the page of a row" would
be several pages, and without the second a deletion could leave nothing.
`AskedOK`: a window asks once for its subject and never after it was shown, and
the window that creates from a template asks for templates only. `Pristine`:
until then, or until the user adds one, there is the card of the constructor
only; with it the number of cards after the reply is the number of networks
(`ShowsInspected`), whichever loop of the two slots adds them. `AskedOK` follows
each call in flight back to the step before (`Follows`: an injection from the
places of the calls after a step to those before, apart from the new ones).

What the loops over cards leave is counted, not run: a new page takes the i-th
free address, a deletion keeps the i-th row that stays. `NthIsRanked` shows that
a finite set of numbers has an i-th smallest for every i up to its size, without
induction: the rank is an injection of the set into `1..Cardinality(S)`, both
have the same size, so it is onto. From it follow `FreshOK` (new cards are not
in the list, nor equal) and `WithoutOK` (what is left is without repetition,
and as much shorter as was deleted), and from these what the two operators of
the code keep (`CreateKeeps`, `DeleteKeeps`). `SurplusOK` says that the reply of
a template deletes rows that there are, and never all.

`TwoNetworksHavePages` draws the line of what `template_cards` finds: with no
more than two networks to a template the loop that stops half way does not.
`NodeIsTemplates` needs no more than its own property.

`ConsoleProofs` proves the properties of `Navigation` and that `Console`
implements it, by which they are properties of `Console` too (`Refinement`,
`MarkIsShown`, `ShownGoesOn`, `LeftStops`). Then it proves `BadgesHideNone`, for
any number of arrivals. The invariant of that one (`AnswersHideNone`) follows
every listing that is answered and not yet shown: it knows of no more than has
come, and if it knows of all, what it brings is at least what waits, because
between arrivals what waits only shrinks. So such listings may overtake one
another.

Model-checked only: liveness (`MarkReleased`, `RowSettles`, `ExpiryShowsLogin`,
`CallAnswered`, `RemovedDisappear`, `MaskLifts`, `BackupsSettle`), which is out
of the prover's reach. Every other property of a passing run is a theorem.

## 5. Not modelled

Left out of the modules above, on purpose:

- crashes by undefined behaviour (a session that expires while the question of
  a row is open, a null channel in `subscribe`, a read error taken for a
  length); those that can bite are hazards with a note;
- `rpc_channel.cpp`: one lock around a cache. A caller waits as long as another
  one connects, also the GUI thread when it waits for the subscription thread
  (`login-dialog.cpp:559`); every wait is bounded by the timeout of a connection;
- the menu that creates containers, with its templates and networks, the
  monitor and terminal of a row, and the index that the menu of a row keeps
  while it is open (hazard);
- the tabs of `ContainerSetting` other than the network cards: each reads and
  writes the fields of one form, and the window asks of it only whether the
  input is refused. Conversions of units, addresses and paths are texts here;
- charts: `MonitorContent` draws what the last reply brought (hazard);
- the cells of the outline that show a number and lead nowhere, the physical
  interfaces, which have no operation, and the configuration page of a node;
- the password form, the address of the server, the licence with its D-Bus
  service, the settings file, the security switch: synchronous, one call or one
  file each, with no state between two of them;
- widgets and assets.

Transfers and the lists they start from are in two modules: a removal does not
ask whether the image is in transfer (hazard), and apart from that the two meet
only in the marks, which are in `Transfer`.
