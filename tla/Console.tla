------------------------------ MODULE Console ------------------------------
(***************************************************************************)
(* The badges of MainWindow: how many images wait for approval, how many   *)
(* warnings are unread.  Whatever lists images or nodes for another        *)
(* purpose sets them too: the cells of the outline, the list of images and *)
(* the list of those to approve, each with replies that come in any order. *)
(* Approving and reading change the numbers at the server while listings   *)
(* are under way.  Pages are reached as Navigation says.                   *)
(*                                                                         *)
(* The other cells of the outline only show what came last.                *)
(***************************************************************************)
EXTENDS Navigation, Integers, Bags

CONSTANTS
  Counted,   \* the roles whose calls are followed
  MaxCount,  \* bound on what waits at the server
  MaxCalls,  \* bound on the calls in flight
  MaxNews    \* bound on what comes to the server, for each badge

ASSUME ConsoleAssumption ==
  Counted \subseteq Roles /\ MaxCount \in Nat /\ MaxCalls \in Nat /\ MaxNews \in Nat

Badges == {"approval", "warning"}

Never == -1  \* as if listed before anything came

VARIABLES
  calls,    \* bag of the calls in flight
  busy,     \* the page of images is masked
  waiting,  \* at the server: images to approve, warnings unread
  tips,     \* what the badges show
  news,     \* history: how often something new has come to the server to wait
  seen      \* history: the news the listing shown knew of

badges == <<calls, busy, waiting, tips, news, seen>>
all == <<vars, badges>>

\* From "page" are the calls of the page of images, from Home the outline's.
Call(op, from) == [op |-> op, from |-> from, stage |-> "sent", count |-> 0, news |-> 0]
AllCalls ==
  [op : {"images", "nodes", "check", "read"}, from : {Home, "page"},
   stage : {"sent", "ok", "none", "failed"}, count : 0..MaxCount, news : 0..MaxNews]

BadgesOK ==
  /\ BagToSet(calls) \subseteq AllCalls /\ busy \in BOOLEAN
  /\ waiting \in [Badges -> 0..MaxCount] /\ tips \in [Badges -> 0..MaxCount]
  /\ news \in [Badges -> 0..MaxNews] /\ seen \in [Badges -> Never..MaxNews]

One(call) == SetToBag({call})
ListImages == One(Call("images", Home))
GetWarnNums == One(Call("nodes", Home))
\* OutlineView::updateInfo lists the nodes twice, for two cells.
UpdateOutline == ListImages (+) GetWarnNums (+) GetWarnNums
UpdateImages == One(Call("images", "page"))

\* What updateInfo of a page asks for
AskedBy(p) ==
  IF p = Home THEN UpdateOutline
  ELSE IF p \in {"images", "approval"} THEN UpdateImages ELSE EmptyBag

Ask(asked) ==
  /\ calls' = IF role \in Counted THEN calls (+) asked ELSE calls
  /\ BagCardinality(calls') <= MaxCalls

ConsoleInit ==
  /\ Init
  /\ calls = IF role \in Counted THEN UpdateOutline ELSE EmptyBag
  /\ busy = FALSE
  /\ waiting \in [Badges -> 0..MaxCount] /\ tips = [b \in Badges |-> 0]
  /\ news = [b \in Badges |-> 0] /\ seen = [b \in Badges |-> Never]

-----------------------------------------------------------------------------
(* The user.                                                               *)

Masked(p) == role \in Counted /\ p \in {"images", "approval"}

Visit(p) ==
  /\ ClickPage(p) \/ OutlineJumpPage(p) \/ JumpFromBadge(p)
  /\ Ask(AskedBy(p))
  /\ busy' = (busy \/ Masked(p))
  /\ UNCHANGED <<waiting, tips, news, seen>>

\* What Navigation does besides, no page being updated by it that asks for
\* images or nodes.
Stay ==
  /\ \/ ClickGroup \/ OpenInfo \/ ClickTab \/ ChangeBackups \/ BackupsChanged
     \/ \E l \in Timed :
          \/ Refresh(l) \/ Search(l) \/ SearchTimeout(l) \/ RefreshTimeout(l)
          \/ \E empty \in BOOLEAN : TypeText(l, empty)
  /\ UNCHANGED badges

\* Refresh, or the tab of the images that wait
RefreshImages ==
  /\ shown \in {"images", "approval"} /\ ~busy /\ role \in Counted
  /\ Ask(UpdateImages)
  /\ busy' = TRUE
  /\ UNCHANGED <<vars, waiting, tips, news, seen>>

\* checkSaveSlot does not wait for the answer before it lists.
Decide ==
  /\ shown = "approval" /\ ~busy /\ role \in Counted
  /\ Ask(One(Call("check", "page")) (+) UpdateImages)
  /\ busy' = TRUE
  /\ UNCHANGED <<vars, waiting, tips, news, seen>>

\* onBtnRead, onBtnReadLabel: nor does onUpdateWarnTipsSums.
Read ==
  /\ shown = "warnings" /\ role \in Counted
  /\ Ask(One(Call("read", "page")) (+) GetWarnNums)
  /\ UNCHANGED <<vars, busy, waiting, tips, news, seen>>

-----------------------------------------------------------------------------
(* The server and its other clients.                                       *)

Replace(call, by) == calls' = (calls (-) One(call)) (+) by
Fewer(b) == \E n \in 0..waiting[b] : waiting' = [waiting EXCEPT ![b] = n]

\* The answer counts what waits by then.
Listed(call, b) ==
  Replace(call, One([call EXCEPT !.stage = "ok", !.count = waiting[b], !.news = news[b]]))
Reply(call, stage) == Replace(call, One([call EXCEPT !.stage = stage]))

ServeList(call) ==
  /\ \/ call.op = "images" /\ Listed(call, "approval")
     \/ call.op = "nodes" /\ Listed(call, "warning")
     \/ call.op = "nodes" /\ waiting["warning"] = 0 /\ Reply(call, "none")
     \/ call.op \in {"images", "nodes"} /\ Reply(call, "failed")
  /\ UNCHANGED waiting

\* A refused or overdue call may have been done; the answer of read has no
\* part in the badges.
ServeChange(call) ==
  \/ call.op = "check" /\ Fewer("approval")
     /\ \E stage \in {"ok", "failed"} : Reply(call, stage)
  \/ call.op = "read" /\ Fewer("warning") /\ Replace(call, EmptyBag)

Serve(call) ==
  /\ call.stage = "sent" /\ (ServeList(call) \/ ServeChange(call))
  /\ UNCHANGED <<vars, busy, tips, news, seen>>

Others(b) ==
  /\ \/ Fewer(b) /\ UNCHANGED news
     \/ /\ waiting[b] < MaxCount /\ waiting' = [waiting EXCEPT ![b] = @ + 1]
        /\ news[b] < MaxNews /\ news' = [news EXCEPT ![b] = @ + 1]
  /\ UNCHANGED <<vars, calls, busy, tips, seen>>

-----------------------------------------------------------------------------
(* Replies.                                                                *)

SetTip(b, count, known) ==
  tips' = [tips EXCEPT ![b] = count] /\ seen' = [seen EXCEPT ![b] = known]

Show(b, call) == SetTip(b, call.count, call.news)

MutNoImages == SetTip("approval", 0, seen["approval"])

\* A failed listing of images leaves the badge alone.
NoImages == UNCHANGED <<tips, seen>>

\* getOutlineCellImageNums, getListDBResult: those not yet decided on
ImagesListed(call) ==
  /\ call.op = "images"
  /\ \/ call.stage = "ok" /\ Show("approval", call)
     \/ call.stage = "failed" /\ NoImages
  /\ Replace(call, EmptyBag)
  /\ busy' = (busy /\ call.from = Home)

NodesFailed == SetTip("warning", 0, Never)

\* getOutlineCellWarningNums: no nodes, nothing done; failed, no warnings.
NodesListed(call) ==
  /\ call.op = "nodes"
  /\ \/ call.stage = "ok" /\ Show("warning", call)
     \/ call.stage = "none" /\ UNCHANGED <<tips, seen>>
     \/ call.stage = "failed" /\ NodesFailed
  /\ Replace(call, EmptyBag)
  /\ UNCHANGED busy

\* getCheckResult: sigUpdateAuditInfo updates the page, which lists, and a
\* success lists again.
Checked(call) ==
  /\ call.op = "check" /\ call.stage # "sent"
  /\ Replace(call, IF call.stage = "ok" THEN UpdateImages (+) UpdateImages ELSE UpdateImages)
  /\ BagCardinality(calls') <= MaxCalls
  /\ busy' = TRUE
  /\ UNCHANGED <<tips, seen>>

Deliver(call) ==
  /\ ImagesListed(call) \/ NodesListed(call) \/ Checked(call)
  /\ UNCHANGED <<vars, waiting, news>>

ConsoleNext ==
  \/ \E p \in Pages : Visit(p)
  \/ Stay \/ RefreshImages \/ Decide \/ Read
  \/ \E b \in Badges : Others(b)
  \/ \E call \in BagToSet(calls) : Serve(call) \/ Deliver(call)

ConsoleSpec == ConsoleInit /\ [][ConsoleNext]_all

-----------------------------------------------------------------------------

\* A badge that a listing has set, knowing of all that has come to the server,
\* hides nothing: it shows at least as much as waits, in whatever order the
\* listings that know as much come in, those sent before a decision was done
\* among them, and whichever fail.  What it does not know of may be hidden: what
\* came after the listing was answered; what came before, once an older listing
\* overtaken by a newer has been shown; warnings, after a failed listing of the
\* nodes (getListDBResult, getOutlineCellExamineNums, getOutlineCellWarningNums).
BadgesHideNone == \A b \in Badges : seen[b] = news[b] => tips[b] >= waiting[b]
=============================================================================
