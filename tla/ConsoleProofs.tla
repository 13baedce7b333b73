---------------------------- MODULE ConsoleProofs ----------------------------
(***************************************************************************)
(* The invariants of Navigation, for any choice of roles; that Console,    *)
(* which adds the badges, walks through pages only as Navigation says; and *)
(* that badges hide nothing their listings knew of, for any bound on what  *)
(* waits, on what comes and on the calls in flight.                        *)
(***************************************************************************)
EXTENDS Console, TLAPS

\* Only managers that have an info page are on it.
InfoHasManager == info => shown \in {"nodes", "containers"}

IInv == TypeOK /\ InfoHasManager /\ MarkedIsShown /\ ShownRefreshes /\ LeftRests

-----------------------------------------------------------------------------
(* Navigation.                                                             *)

LEMMA PageFacts ==
  ASSUME NEW r \in Roles
  PROVE  /\ Home \in PagesOf(r)
         /\ Group \notin PagesOf(r)
  BY NavigationAssumption DEF PagesOf, Home, Group

LEMMA Starts == Init => IInv
  <1> SUFFICES ASSUME Init PROVE IInv
    OBVIOUS
  <1> USE DEF Init
  <1>1. TypeOK
    <2>1. 0 \in 0..MaxChanges
      BY NavigationAssumption
    <2> QED BY PageFacts, <2>1 DEF TypeOK
  <1>2. InfoHasManager /\ MarkedIsShown
    BY DEF InfoHasManager, MarkedIsShown
  <1>3. ShownRefreshes /\ LeftRests
    BY DEF ShownRefreshes, LeftRests, OnTop, Timed, Home
  <1> QED BY <1>1, <1>2, <1>3 DEF IInv

\* updateInfo keeps the types of the lists, whatever it starts and stops.
LEMMA UpdateKeepsTypes ==
  ASSUME TypeOK, NEW started \in SUBSET Timed, NEW stopped \in SUBSET Timed,
         Update(started, stopped)
  PROVE  timers' \subseteq Timed /\ typed' \subseteq Timed
         /\ searching' \subseteq Timed /\ late' \subseteq timers'
  BY DEF TypeOK, Update

\* To show a page is to refresh its list and to stop those that are left.
LEMMA ShowPageKeeps ==
  ASSUME IInv, NEW p \in PagesOf(role), ShowPage(p),
         current' \in PagesOf(role) \cup {Group}, folded' \in BOOLEAN,
         title' = p, marked' = {p}
  PROVE  IInv'
  <1> USE DEF ShowPage
  <1>1. ListsOf(p) \in SUBSET Timed /\ (IF p = shown THEN {} ELSE Left(p)) \in SUBSET Timed
    BY DEF ListsOf, Left, Timed
  <1>2. TypeOK'
    BY <1>1, UpdateKeepsTypes DEF IInv, TypeOK
  <1>3. InfoHasManager' /\ MarkedIsShown'
    BY DEF InfoHasManager, MarkedIsShown
  <1>4. ShownRefreshes'
    BY DEF IInv, ShownRefreshes, OnTop, Timed, Update, ListsOf, Left
  <1>5. ASSUME NEW l \in timers' \ late'
        PROVE  l = p \/ (l = "backups" /\ p = "containers")
    <2>1. l \in Timed
      BY <1>2 DEF TypeOK
    <2>2. CASE l \in ListsOf(p)
      BY <2>2 DEF ListsOf
    <2>3. CASE l \notin ListsOf(p)
      <3>1. l \in timers \ late /\ (p = shown \/ l \notin Left(p))
        BY <2>3, <1>5 DEF Update
      <3>2. CASE p = shown
        BY <3>1, <3>2 DEF IInv, LeftRests, OnTop
      <3>3. CASE l \notin Left(p)
        BY <2>1, <3>3 DEF Left, Timed
      <3> QED BY <3>1, <3>2, <3>3
    <2> QED BY <2>2, <2>3
  <1>6. LeftRests'
    <2>1. shown' = p /\ info' = FALSE
      OBVIOUS
    <2>2. LeftRests' <=> \A l \in timers' \ late' :
                           OnTop(l)' \/ (l = "backups" /\ shown' = "containers")
      BY DEF LeftRests
    <2>3. \A l : l # "backups" => (OnTop(l)' <=> l = p)
      BY <2>1 DEF OnTop
    <2>4. p # "backups"
      BY NavigationAssumption DEF IInv, TypeOK, PagesOf, Home
    <2> QED BY <1>5, <2>1, <2>2, <2>3, <2>4
  <1> QED BY <1>2, <1>3, <1>4, <1>6 DEF IInv

\* The steps of a list that is on the screen, or of its timers.
LEMMA ListStepKeeps ==
  ASSUME IInv, NEW l \in Timed,
         \/ Refresh(l) \/ Search(l) \/ SearchTimeout(l) \/ RefreshTimeout(l)
         \/ \E empty \in BOOLEAN : TypeText(l, empty)
  PROVE  IInv'
  <1>1. UNCHANGED <<role, shown, info, subject, sidebar, changes>>
    BY DEF Refresh, Search, SearchTimeout, RefreshTimeout, TypeText
  <1>2. TypeOK'
    BY <1>1 DEF IInv, TypeOK, sidebar, Refresh, Search, SearchTimeout, RefreshTimeout,
                TypeText, ClearText, Belated, Update, lists
  <1>3. InfoHasManager' /\ MarkedIsShown'
    BY <1>1 DEF IInv, InfoHasManager, MarkedIsShown, sidebar
  <1>4. timers \subseteq timers'
    BY DEF Refresh, Search, SearchTimeout, RefreshTimeout, TypeText, Update, lists
  <1>5. timers' \ late' \subseteq (timers \ late) \cup {k \in {l} : OnTop(k)}
    BY DEF IInv, TypeOK, Refresh, Search, SearchTimeout, RefreshTimeout, TypeText, Belated, Update, lists
  <1>6. ShownRefreshes'
    BY <1>1, <1>4 DEF IInv, ShownRefreshes, OnTop
  <1>7. LeftRests'
    BY <1>1, <1>5 DEF IInv, LeftRests, OnTop
  <1> QED BY <1>2, <1>3, <1>6, <1>7 DEF IInv

\* The reply to a change of backups, wherever it finds the user.
LEMMA ReplyKeeps == ASSUME IInv, BackupsChanged PROVE IInv'
  <1> USE DEF BackupsChanged
  <1>1. UNCHANGED <<role, shown, info, subject, sidebar>> /\ changes' \in 0..MaxChanges
    BY NavigationAssumption DEF IInv, TypeOK
  <1>2. TypeOK'
    BY <1>1 DEF IInv, TypeOK, sidebar, ClearText, Belated, Timed, lists
  <1>3. InfoHasManager' /\ MarkedIsShown'
    BY <1>1 DEF IInv, InfoHasManager, MarkedIsShown, sidebar
  <1>4. timers \subseteq timers'
    BY DEF lists
  <1>5. timers' \ late' \subseteq (timers \ late) \cup {k \in {"backups"} : OnTop(k)}
    BY DEF IInv, TypeOK, Belated, lists
  <1>6. ShownRefreshes'
    BY <1>1, <1>4 DEF IInv, ShownRefreshes, OnTop
  <1>7. LeftRests'
    BY <1>1, <1>5 DEF IInv, LeftRests, OnTop
  <1> QED BY <1>2, <1>3, <1>6, <1>7 DEF IInv

LEMMA NavigationStep == IInv /\ [Next]_vars => IInv'
  <1> SUFFICES ASSUME IInv, [Next]_vars PROVE IInv'
    OBVIOUS
  <1>1. CASE \E p \in Pages : ClickPage(p)
    <2> PICK p \in Pages : ClickPage(p)
      BY <1>1
    <2>1. ShowPage(p) /\ p \in PagesOf(role)
      BY DEF ClickPage
    <2> QED BY <2>1, ShowPageKeeps DEF ClickPage, IInv, TypeOK
  <1>2. CASE \E p \in Pages : OutlineJumpPage(p) \/ JumpFromBadge(p)
    <2> PICK p \in Pages, unmarked \in SUBSET {Home, current} : OutlinePageChange(p, unmarked)
      BY <1>2 DEF OutlineJumpPage, JumpFromBadge
    <2>1. ShowPage(p) /\ p \in PagesOf(role)
      BY DEF OutlinePageChange, HasPage
    <2>2. folded' \in BOOLEAN
      BY DEF OutlinePageChange, Unfolded, IInv, TypeOK
    <2> QED BY <2>1, <2>2, ShowPageKeeps DEF OutlinePageChange, Unmarked
  <1>3. CASE ClickGroup
    BY <1>3 DEF ClickGroup, lists, IInv, TypeOK, InfoHasManager, MarkedIsShown,
                ShownRefreshes, LeftRests, OnTop
  <1>4. CASE OpenInfo
    <2> USE <1>4 DEF OpenInfo
    <2>1. Opened \in SUBSET Timed /\ {shown} \in SUBSET Timed
      BY DEF Opened, Timed
    <2>2. TypeOK'
      BY <2>1, UpdateKeepsTypes DEF IInv, TypeOK, sidebar
    <2>3. InfoHasManager' /\ MarkedIsShown'
      BY DEF IInv, InfoHasManager, MarkedIsShown, sidebar
    <2>4. ShownRefreshes'
      BY DEF ShownRefreshes, OnTop, Timed, Update, Opened
    <2>5. LeftRests'
      BY DEF IInv, TypeOK, LeftRests, OnTop, Timed, Update, Opened
    <2> QED BY <2>2, <2>3, <2>4, <2>5 DEF IInv
  <1>5. CASE ClickTab
    BY <1>5, ListStepKeeps DEF ClickTab, Refresh, Timed
  <1>6. CASE \E l \in Timed :
               \/ Refresh(l) \/ Search(l) \/ SearchTimeout(l) \/ RefreshTimeout(l)
               \/ \E empty \in BOOLEAN : TypeText(l, empty)
    BY <1>6, ListStepKeeps
  <1>7. CASE ChangeBackups
    BY <1>7, NavigationAssumption
       DEF ChangeBackups, sidebar, lists, IInv, TypeOK, InfoHasManager, MarkedIsShown,
           ShownRefreshes, LeftRests, OnTop
  <1>8. CASE BackupsChanged
    BY <1>8, ReplyKeeps
  <1>9. CASE UNCHANGED vars
    BY <1>9 DEF vars, sidebar, lists, IInv, TypeOK, InfoHasManager, MarkedIsShown,
                ShownRefreshes, LeftRests, OnTop
  <1> QED BY <1>1, <1>2, <1>3, <1>4, <1>5, <1>6, <1>7, <1>8, <1>9 DEF Next

\* The inductive invariant of the main window's pages and timers.
THEOREM Walks == Spec => []IInv
  BY Starts, NavigationStep, PTL DEF Spec

\* Every variable of the pages has its type, whoever logs in.
THEOREM TypeCorrect == Spec => []TypeOK
  BY Walks, PTL DEF IInv

\* A page of the group is shown with the group unfolded, from wherever it is
\* reached: sidebar, outline or badge.
THEOREM GroupUnfolds == Spec => ShownIsListed
  <1>1. [Next]_vars => [shown' # shown /\ shown' \in SubPages => ~folded']_vars
    <2> SUFFICES ASSUME Next, shown' # shown, shown' \in SubPages PROVE ~folded'
      OBVIOUS
    <2>1. CASE \E p \in Pages : ClickPage(p)
      BY <2>1 DEF ClickPage, ShowPage
    <2>2. CASE \E p \in Pages : OutlineJumpPage(p) \/ JumpFromBadge(p)
      BY <2>2 DEF OutlineJumpPage, JumpFromBadge, OutlinePageChange, Unfolded, ShowPage
    <2>3. CASE ~\E p \in Pages : ClickPage(p) \/ OutlineJumpPage(p) \/ JumpFromBadge(p)
      BY <2>3 DEF Next, ClickGroup, OpenInfo, ClickTab, Refresh, Search, SearchTimeout,
                  RefreshTimeout, TypeText, ChangeBackups, BackupsChanged
    <2> QED BY <2>1, <2>2, <2>3
  <1> QED BY <1>1, PTL DEF Spec, ShownIsListed

-----------------------------------------------------------------------------
(* Console implements Navigation.                                          *)

LEMMA ConsoleStep == [ConsoleNext]_all => [Next]_vars
  <1> SUFFICES ASSUME [ConsoleNext]_all PROVE [Next]_vars
    OBVIOUS
  <1>1. CASE \E p \in Pages : Visit(p)
    BY <1>1 DEF Visit, Next
  <1>2. CASE Stay
    BY <1>2 DEF Stay, Next
  <1>3. CASE RefreshImages \/ Decide \/ Read \/ \E b \in Badges : Others(b)
    BY <1>3 DEF RefreshImages, Decide, Read, Others
  <1>4. CASE \E call \in BagToSet(calls) : Serve(call) \/ Deliver(call)
    BY <1>4 DEF Serve, Deliver
  <1>5. CASE UNCHANGED all
    BY <1>5 DEF all
  <1> QED BY <1>1, <1>2, <1>3, <1>4, <1>5 DEF ConsoleNext

\* Whatever the badges do, the pages are walked as Navigation says.
THEOREM Refinement == ConsoleSpec => Spec
  <1>1. ConsoleInit => Init
    BY DEF ConsoleInit
  <1> QED BY <1>1, ConsoleStep, PTL DEF ConsoleSpec, Spec

\* The item marked in the sidebar, the title and the page are one.
THEOREM MarkIsShown == ConsoleSpec => []MarkedIsShown
  BY Refinement, Walks, PTL DEF IInv

\* The list on the screen goes on refreshing itself.
THEOREM ShownGoesOn == ConsoleSpec => []ShownRefreshes
  BY Refinement, Walks, PTL DEF IInv

\* To leave a list stops its refresh; off the screen ask only those that a
\* search line or the reply to a change of backups has started since.
THEOREM LeftStops == ConsoleSpec => []LeftRests
  BY Refinement, Walks, PTL DEF IInv

-----------------------------------------------------------------------------
(* The badges.                                                             *)

\* What a bag of calls holds after one is answered.
LEMMA Replaced ==
  ASSUME NEW call, NEW by, Replace(call, by)
  PROVE  BagToSet(calls') \subseteq BagToSet(calls) \cup BagToSet(by)
  BY DEF Replace, BagToSet, One, SetToBag, (+), (-)

LEMMA SetOfOne == ASSUME NEW call PROVE BagToSet(One(call)) = {call}
  BY DEF One, BagToSet, SetToBag

LEMMA SetOfNone == BagToSet(EmptyBag) = {}
  BY DEF EmptyBag, BagToSet, SetToBag

LEMMA SetOfUnion == ASSUME NEW A, NEW B PROVE BagToSet(A (+) B) = BagToSet(A) \cup BagToSet(B)
  BY DEF BagToSet, (+)

\* What is asked for has not been answered yet.
Unanswered(asked) ==
  \A call \in BagToSet(asked) : call \in AllCalls /\ call.stage = "sent"

LEMMA AskedIsUnanswered ==
  /\ Unanswered(EmptyBag) /\ Unanswered(UpdateOutline) /\ Unanswered(UpdateImages)
  /\ Unanswered(UpdateImages (+) UpdateImages)
  /\ Unanswered(One(Call("check", "page")) (+) UpdateImages)
  /\ Unanswered(One(Call("read", "page")) (+) GetWarnNums)
  /\ \A p \in Pages : Unanswered(AskedBy(p))
  <1>1. \A op \in {"images", "nodes", "check", "read"}, from \in {Home, "page"} :
          Unanswered(One(Call(op, from)))
    BY SetOfOne, ConsoleAssumption DEF Unanswered, Call, AllCalls
  <1>2. \A A, B : Unanswered(A) /\ Unanswered(B) => Unanswered(A (+) B)
    BY SetOfUnion DEF Unanswered
  <1>3. Unanswered(EmptyBag)
    BY SetOfNone DEF Unanswered
  <1>4. Unanswered(ListImages) /\ Unanswered(GetWarnNums) /\ Unanswered(UpdateImages)
    BY <1>1 DEF ListImages, GetWarnNums, UpdateImages
  <1>5. Unanswered(UpdateOutline)
    BY <1>2, <1>4 DEF UpdateOutline
  <1>6. \A p \in Pages : Unanswered(AskedBy(p))
    BY <1>3, <1>4, <1>5 DEF AskedBy
  <1> QED BY <1>1, <1>2, <1>3, <1>4, <1>5, <1>6

\* The types of the badges; of the mask see below.
Typed ==
  /\ BagToSet(calls) \subseteq AllCalls
  /\ waiting \in [Badges -> 0..MaxCount] /\ tips \in [Badges -> 0..MaxCount]
  /\ news \in [Badges -> 0..MaxNews] /\ seen \in [Badges -> Never..MaxNews]

Of(b) == IF b = "approval" THEN "images" ELSE "nodes"

\* A listing that has been answered, and is still to be shown, knew of no more
\* than has come; if it knew of all, it counted at least what waits now.
AnswersHideNone ==
  \A call \in BagToSet(calls), b \in Badges :
    call.stage = "ok" /\ call.op = Of(b) =>
      call.news <= news[b] /\ (call.news = news[b] => call.count >= waiting[b])

\* Nor did the listing that a badge shows.
SeenIsPast == \A b \in Badges : seen[b] <= news[b]

BInv == Typed /\ AnswersHideNone /\ SeenIsPast /\ BadgesHideNone

\* Calls that were asked for, and no more, keep it: none has an answer.
LEMMA UnansweredKeep ==
  ASSUME BInv, NEW asked, Unanswered(asked),
         BagToSet(calls') \subseteq BagToSet(calls) \cup BagToSet(asked),
         UNCHANGED <<waiting, tips, news, seen>>
  PROVE  BInv'
  BY DEF BInv, Typed, AnswersHideNone, SeenIsPast, BadgesHideNone, Unanswered

LEMMA AskKeeps ==
  ASSUME BInv, NEW asked, Unanswered(asked), Ask(asked), UNCHANGED <<waiting, tips, news, seen>>
  PROVE  BInv'
  <1>1. BagToSet(calls') \subseteq BagToSet(calls) \cup BagToSet(asked)
    BY SetOfUnion DEF Ask
  <1> QED BY <1>1, UnansweredKeep

\* What waits becomes less: every answer, every badge counts enough still.
LEMMA FewerKeeps ==
  ASSUME BInv, NEW b \in Badges, Fewer(b), UNCHANGED <<tips, news, seen>>,
         NEW by, BagToSet(calls') \subseteq BagToSet(calls) \cup BagToSet(by),
         \A call \in BagToSet(by) : call \in AllCalls /\ call.op \notin {"images", "nodes"}
  PROVE  BInv'
  <1> USE ConsoleAssumption
  <1>1. PICK n \in 0..waiting[b] : waiting' = [waiting EXCEPT ![b] = n]
    BY DEF Fewer
  <1>2. waiting[b] \in 0..MaxCount
    BY DEF BInv, Typed
  <1>3. waiting' \in [Badges -> 0..MaxCount]
    BY <1>1, <1>2 DEF BInv, Typed
  <1>4. \A a \in Badges : waiting'[a] <= waiting[a] /\ waiting[a] \in Nat /\ waiting'[a] \in Nat
                            /\ tips[a] \in Nat
    BY <1>1, <1>2, <1>3 DEF BInv, Typed
  <1>5. Typed'
    BY <1>3 DEF BInv, Typed
  <1>6. AnswersHideNone'
    <2> SUFFICES ASSUME NEW call \in BagToSet(calls'), NEW a \in Badges,
                        call.stage = "ok", call.op = Of(a)
                 PROVE  /\ call.news <= news[a]
                        /\ call.news = news[a] => call.count >= waiting'[a]
      BY DEF AnswersHideNone
    <2>1. call \in BagToSet(calls)
      BY DEF Of
    <2>2. call.count \in Nat
      BY <2>1 DEF BInv, Typed, AllCalls
    <2>3. call.news <= news[a] /\ (call.news = news[a] => call.count >= waiting[a])
      BY <2>1 DEF BInv, AnswersHideNone
    <2> QED BY <2>2, <2>3, <1>4
  <1>7. SeenIsPast' /\ BadgesHideNone'
    BY <1>4 DEF BInv, SeenIsPast, BadgesHideNone
  <1> QED BY <1>5, <1>6, <1>7 DEF BInv

\* The answer of a listing counts what waits at that moment, and knows of all
\* that has come.
LEMMA ServeListKeeps ==
  ASSUME BInv, NEW call \in BagToSet(calls), call.stage = "sent", ServeList(call),
         UNCHANGED <<tips, news, seen>>
  PROVE  BInv'
  <1> USE ConsoleAssumption
  <1>1. call \in AllCalls /\ UNCHANGED waiting
    BY DEF BInv, Typed, ServeList
  <1>2. PICK reply \in AllCalls :
          /\ Replace(call, One(reply)) /\ reply.op = call.op
          /\ reply.stage = "ok" => \A b \in Badges : reply.op = Of(b) =>
                                     reply.count = waiting[b] /\ reply.news = news[b]
    <2>1. CASE \E b \in Badges : call.op = Of(b) /\ Listed(call, b)
      <3>1. PICK b \in Badges : call.op = Of(b) /\ Listed(call, b)
        BY <2>1
      <3> DEFINE reply == [call EXCEPT !.stage = "ok", !.count = waiting[b], !.news = news[b]]
      <3>2. waiting[b] \in 0..MaxCount /\ news[b] \in 0..MaxNews
        BY DEF BInv, Typed
      <3>3. reply \in AllCalls /\ reply.op = call.op
            /\ reply.count = waiting[b] /\ reply.news = news[b]
        BY <1>1, <3>2 DEF AllCalls
      <3>4. Replace(call, One(reply))
        BY <3>1 DEF Listed
      <3>5. \A a \in Badges : call.op = Of(a) => a = b
        BY <3>1 DEF Badges, Of
      <3> HIDE DEF reply
      <3> QED BY <3>3, <3>4, <3>5
    <2>2. CASE \E stage \in {"none", "failed"} : Reply(call, stage)
      <3>1. PICK stage \in {"none", "failed"} : Reply(call, stage)
        BY <2>2
      <3> DEFINE reply == [call EXCEPT !.stage = stage]
      <3>2. reply \in AllCalls /\ reply.op = call.op /\ reply.stage = stage
        BY <1>1 DEF AllCalls
      <3>3. Replace(call, One(reply))
        BY <3>1 DEF Reply
      <3> HIDE DEF reply
      <3> QED BY <3>2, <3>3
    <2> QED BY <2>1, <2>2 DEF ServeList, Badges, Of
  <1>3. BagToSet(calls') \subseteq BagToSet(calls) \cup {reply}
    BY <1>2, Replaced, SetOfOne
  <1>4. Typed' /\ SeenIsPast' /\ BadgesHideNone'
    BY <1>1, <1>3 DEF BInv, Typed, SeenIsPast, BadgesHideNone
  <1>5. AnswersHideNone'
    <2> SUFFICES ASSUME NEW c \in BagToSet(calls'), NEW a \in Badges,
                        c.stage = "ok", c.op = Of(a)
                 PROVE  c.news <= news[a] /\ (c.news = news[a] => c.count >= waiting[a])
      BY <1>1 DEF AnswersHideNone
    <2>1. CASE c \in BagToSet(calls)
      BY <2>1 DEF BInv, AnswersHideNone
    <2>2. CASE c = reply
      <3>1. reply.count = waiting[a] /\ reply.news = news[a]
        BY <1>2, <2>2
      <3>2. waiting[a] \in 0..MaxCount /\ news[a] \in 0..MaxNews
        BY DEF BInv, Typed
      <3> QED BY <2>2, <3>1, <3>2
    <2> QED BY <1>3, <2>1, <2>2
  <1> QED BY <1>4, <1>5 DEF BInv

LEMMA ServeKeeps ==
  ASSUME BInv, NEW call \in BagToSet(calls), Serve(call)
  PROVE  BInv'
  <1> USE DEF Serve
  <1>1. CASE ServeList(call)
    BY <1>1, ServeListKeeps
  <1>2. CASE call.op = "check" /\ Fewer("approval")
             /\ \E stage \in {"ok", "failed"} : Reply(call, stage)
    <2>1. PICK stage \in {"ok", "failed"} : Reply(call, stage)
      BY <1>2
    <2> DEFINE reply == [call EXCEPT !.stage = stage]
    <2>2. call \in AllCalls
      BY DEF BInv, Typed
    <2>3. call.op = "check" /\ Fewer("approval")
      BY <1>2
    <2>4. reply \in AllCalls /\ reply.op = "check"
      BY <2>2, <2>3 DEF AllCalls
    <2>5. BagToSet(calls') \subseteq BagToSet(calls) \cup BagToSet(One(reply))
      BY <2>1, Replaced DEF Reply
    <2> HIDE DEF reply
    <2>6. \A c \in BagToSet(One(reply)) : c \in AllCalls /\ c.op \notin {"images", "nodes"}
      BY <2>4, SetOfOne
    <2>7. "approval" \in Badges /\ UNCHANGED <<tips, news, seen>>
      BY DEF Badges
    <2> QED BY <2>3, <2>5, <2>6, <2>7, FewerKeeps
  <1>3. CASE call.op = "read" /\ Fewer("warning") /\ Replace(call, EmptyBag)
    BY <1>3, Replaced, SetOfNone, FewerKeeps DEF Badges
  <1> QED BY <1>1, <1>2, <1>3 DEF ServeChange

LEMMA OthersKeep ==
  ASSUME BInv, NEW b \in Badges, Others(b)
  PROVE  BInv'
  <1> USE ConsoleAssumption DEF Others
  <1>1. CASE Fewer(b) /\ UNCHANGED news
    BY <1>1, SetOfNone, FewerKeeps
  <1>2. CASE /\ waiting[b] < MaxCount /\ waiting' = [waiting EXCEPT ![b] = @ + 1]
             /\ news[b] < MaxNews /\ news' = [news EXCEPT ![b] = @ + 1]
    <2>1. Typed'
      BY <1>2 DEF BInv, Typed
    <2>2. news'[b] = news[b] + 1 /\ news[b] \in Nat
      BY <1>2 DEF BInv, Typed
    <2>3. \A a \in Badges \ {b} : news'[a] = news[a] /\ waiting'[a] = waiting[a]
      BY <1>2 DEF BInv, Typed
    <2>4. \A a \in Badges : seen[a] \in Int
      BY DEF BInv, Typed, Never
    <2>5. \A call \in BagToSet(calls) : call.news \in Nat
      BY DEF BInv, Typed, AllCalls
    <2>6. SeenIsPast' /\ BadgesHideNone'
      BY <2>2, <2>3, <2>4 DEF BInv, SeenIsPast, BadgesHideNone
    <2>7. AnswersHideNone'
      BY <2>2, <2>3, <2>5 DEF BInv, AnswersHideNone
    <2> QED BY <2>1, <2>6, <2>7 DEF BInv
  <1> QED BY <1>1, <1>2

-----------------------------------------------------------------------------
(* The slots.                                                              *)

\* A listing that is shown counted enough, if it knew of all.
LEMMA ShownKeeps ==
  ASSUME BInv, NEW call \in BagToSet(calls), NEW b \in Badges, call.op = Of(b),
         call.stage = "ok", Show(b, call), UNCHANGED <<waiting, news>>,
         BagToSet(calls') \subseteq BagToSet(calls)
  PROVE  BInv'
  <1> USE ConsoleAssumption DEF Show, SetTip
  <1>1. call.count \in 0..MaxCount /\ call.news \in 0..MaxNews
    BY DEF BInv, Typed, AllCalls
  <1>2. Typed'
    BY <1>1 DEF BInv, Typed, Never
  <1>3. /\ seen'[b] = call.news /\ tips'[b] = call.count
        /\ \A a \in Badges \ {b} : seen'[a] = seen[a] /\ tips'[a] = tips[a]
    BY DEF BInv, Typed
  <1>4. AnswersHideNone'
    BY DEF BInv, AnswersHideNone
  <1>5. SeenIsPast' /\ BadgesHideNone'
    BY <1>3 DEF BInv, AnswersHideNone, SeenIsPast, BadgesHideNone
  <1> QED BY <1>2, <1>4, <1>5 DEF BInv

\* A badge that a failed listing of nodes has reset promises nothing.
LEMMA FailedKeeps ==
  ASSUME BInv, NodesFailed, UNCHANGED <<waiting, news>>,
         BagToSet(calls') \subseteq BagToSet(calls)
  PROVE  BInv'
  <1> USE ConsoleAssumption DEF NodesFailed, SetTip
  <1>1. Typed'
    BY DEF BInv, Typed, Badges, Never
  <1>2. /\ seen'["warning"] = Never
        /\ \A a \in Badges \ {"warning"} : seen'[a] = seen[a] /\ tips'[a] = tips[a]
    BY DEF BInv, Typed, Badges
  <1>3. \A a \in Badges : news[a] \in Nat
    BY DEF BInv, Typed
  <1>4. AnswersHideNone'
    BY DEF BInv, AnswersHideNone
  <1>5. SeenIsPast' /\ BadgesHideNone'
    BY <1>2, <1>3 DEF BInv, SeenIsPast, BadgesHideNone, Never
  <1> QED BY <1>1, <1>4, <1>5 DEF BInv

LEMMA DeliverKeeps ==
  ASSUME BInv, NEW call \in BagToSet(calls), Deliver(call)
  PROVE  BInv'
  <1>1. UNCHANGED <<waiting, news>>
    BY DEF Deliver
  <1>2. CASE ImagesListed(call)
    <2>1. BagToSet(calls') \subseteq BagToSet(calls)
      BY <1>2, Replaced, SetOfNone DEF ImagesListed
    <2>2. CASE call.stage = "ok"
      BY <1>1, <1>2, <2>1, <2>2, ShownKeeps DEF ImagesListed, Badges, Of
    <2>3. CASE call.stage = "failed"
      BY <1>1, <1>2, <2>1, <2>3, UnansweredKeep, SetOfNone, AskedIsUnanswered DEF ImagesListed, NoImages
    <2> QED BY <1>2, <2>2, <2>3 DEF ImagesListed
  <1>3. CASE NodesListed(call)
    <2>1. BagToSet(calls') \subseteq BagToSet(calls)
      BY <1>3, Replaced, SetOfNone DEF NodesListed
    <2>2. CASE call.stage = "ok"
      BY <1>1, <1>3, <2>1, <2>2, ShownKeeps DEF NodesListed, Badges, Of
    <2>3. CASE call.stage = "none"
      BY <1>1, <1>3, <2>1, <2>3, UnansweredKeep, SetOfNone, AskedIsUnanswered DEF NodesListed
    <2>4. CASE call.stage = "failed"
      BY <1>1, <1>3, <2>1, <2>4, FailedKeeps DEF NodesListed
    <2> QED BY <1>3, <2>2, <2>3, <2>4 DEF NodesListed
  <1>4. CASE Checked(call)
    <2>1. PICK asked \in {UpdateImages, UpdateImages (+) UpdateImages} : Replace(call, asked)
      BY <1>4 DEF Checked
    <2>2. Unanswered(asked)
      BY AskedIsUnanswered
    <2> QED BY <1>1, <1>4, <2>1, <2>2, Replaced, UnansweredKeep DEF Checked
  <1> QED BY <1>2, <1>3, <1>4 DEF Deliver

-----------------------------------------------------------------------------
LEMMA BadgesStart == ConsoleInit => BInv
  <1> SUFFICES ASSUME ConsoleInit PROVE BInv
    OBVIOUS
  <1>1. \A call \in BagToSet(calls) : call \in AllCalls /\ call.stage = "sent"
    BY AskedIsUnanswered DEF ConsoleInit, Unanswered
  <1>2. Typed
    BY <1>1, ConsoleAssumption DEF ConsoleInit, Typed, Never
  <1> QED BY <1>1, <1>2 DEF ConsoleInit, BInv, AnswersHideNone, SeenIsPast, BadgesHideNone, Never

LEMMA BadgesStep == BInv /\ [ConsoleNext]_all => BInv'
  <1> SUFFICES ASSUME BInv, [ConsoleNext]_all PROVE BInv'
    OBVIOUS
  <1>1. CASE \E p \in Pages : Visit(p)
    BY <1>1, AskKeeps, AskedIsUnanswered DEF Visit
  <1>2. CASE RefreshImages
    BY <1>2, AskKeeps, AskedIsUnanswered DEF RefreshImages
  <1>3. CASE Decide
    BY <1>3, AskKeeps, AskedIsUnanswered DEF Decide
  <1>4. CASE Read
    BY <1>4, AskKeeps, AskedIsUnanswered DEF Read
  <1>5. CASE \E b \in Badges : Others(b)
    BY <1>5, OthersKeep
  <1>6. CASE \E call \in BagToSet(calls) : Serve(call) \/ Deliver(call)
    BY <1>6, ServeKeeps, DeliverKeeps
  <1>7. CASE UNCHANGED badges
    BY <1>7 DEF badges, BInv, Typed, AnswersHideNone, SeenIsPast, BadgesHideNone
  <1> QED BY <1>1, <1>2, <1>3, <1>4, <1>5, <1>6, <1>7 DEF ConsoleNext, Stay, all

\* A badge set by a listing that knew of all that has come hides nothing of
\* what waits, whichever such listings overtake one another, are answered before
\* a decision is done, or fail.
THEOREM NothingHidden == ConsoleSpec => []BadgesHideNone
  <1>1. BInv => BadgesHideNone
    BY DEF BInv
  <1> QED BY BadgesStart, BadgesStep, <1>1, PTL DEF ConsoleSpec

MaskOK == busy \in BOOLEAN

\* Calls, mask, badges and what waits keep their types.
THEOREM BadgesAreTyped == ConsoleSpec => []BadgesOK
  <1>1. ConsoleInit => MaskOK
    BY DEF ConsoleInit, MaskOK
  <1>2. MaskOK /\ [ConsoleNext]_all => MaskOK'
    <2> SUFFICES ASSUME busy \in BOOLEAN, [ConsoleNext]_all PROVE busy' \in BOOLEAN
      BY DEF MaskOK
    <2>1. CASE \E p \in Pages : Visit(p)
      BY <2>1 DEF Visit
    <2>2. CASE Stay \/ RefreshImages \/ Decide \/ Read
      BY <2>2 DEF Stay, RefreshImages, Decide, Read, badges
    <2>3. CASE \E b \in Badges : Others(b)
      BY <2>3 DEF Others
    <2>4. CASE \E call \in BagToSet(calls) : Serve(call) \/ Deliver(call)
      BY <2>4 DEF Serve, Deliver, ImagesListed, NodesListed, Checked
    <2>5. CASE UNCHANGED all
      BY <2>5 DEF all, badges
    <2> QED BY <2>1, <2>2, <2>3, <2>4, <2>5 DEF ConsoleNext
  <1>3. BInv /\ MaskOK => BadgesOK
    BY DEF MaskOK, BInv, Typed, BadgesOK
  <1> QED BY BadgesStart, BadgesStep, <1>1, <1>2, <1>3, PTL DEF ConsoleSpec
=============================================================================
