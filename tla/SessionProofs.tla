---------------------------- MODULE SessionProofs ----------------------------
(***************************************************************************)
(* The invariants and the step property of Session, for any number of      *)
(* calls in flight and of sessions.                                        *)
(*                                                                         *)
(* They rest on two orders.  The server hands keys out in increasing       *)
(* order, so that a session that is over is none opened since; and what a  *)
(* login started alone does comes in the order of its thread's steps, so   *)
(* that its key is in s_authKey before its window is up.  Logins that      *)
(* cross keep the first order only.                                        *)
(*                                                                         *)
(* Two results beside them: each call has exactly one reply, and how much  *)
(* is lost when a subscription ends.                                       *)
(***************************************************************************)
EXTENDS Session, TLAPS

\* A slot in use says for which call, and one that is back with what answer.
Stages ==
  \A c \in Calls :
    /\ pc[c] = "free" <=> call[c] = "none"
    /\ pc[c] \in {"free", "queued", "wire"} <=> answer[c] = "none"
    /\ pc[c] = "back" => HasMore(c, answer[c])

\* No key is anywhere that the server has not handed out.
KeysGiven ==
  /\ authKey <= opened /\ subKey <= opened
  /\ \A c \in Calls : key[c] <= opened
  /\ \A i \in 1..Len(events) : events[i].type = "expire" => events[i].key <= opened

\* The answer of c is about a session that is over.
Over(c) == Expires(c, answer[c]) \/ (call[c] = "logout" /\ answer[c] \in {"ok", "unauthenticated"})

\* A session that is over does not come back.
SessionsOver ==
  /\ \A c \in Calls : Over(c) => key[c] \notin valid
  /\ ExpiryIsReal

\* A logout has emptied s_authKey, and its reply is not handled yet.
LogoutDone(c) == call[c] = "logout" /\ answer[c] = "ok" /\ pc[c] \in {"done", "answered"}

\* A login is the only one under way and there is no logout, and no window; the
\* key that comes back is the last one handed out, and s_authKey has it before
\* the reply is posted.
LoginAlone ==
  \A c \in Calls : call[c] = "login" =>
    /\ ~mainWindow
    /\ \A d \in Calls : d # c => call[d] \notin {"login", "logout"}
    /\ answer[c] = "ok" => key[c] = opened /\ opened # 0
    /\ answer[c] = "ok" /\ pc[c] # "back" => authKey = opened

\* A window has the last key handed out, or is about to close.
WindowKeyed ==
  mainWindow =>
    \/ authKey = opened /\ opened # 0
    \/ authKey = 0 /\ \E c \in Calls : LogoutDone(c)

\* Each reply among the events es is that of an answered call, with its name
\* and its key; each answered call has one, and one only.
Replies(es, p, cl, an, ky) ==
  /\ \A i \in 1..Len(es) : es[i].type = "reply" =>
       /\ es[i].from \in Calls /\ p[es[i].from] = "answered"
       /\ es[i].name = cl[es[i].from] /\ es[i].answer = an[es[i].from]
       /\ es[i].key = ky[es[i].from]
  /\ \A i, j \in 1..Len(es) :
       es[i].type = "reply" /\ es[j].type = "reply" /\ es[i].from = es[j].from => i = j
  /\ \A c \in Calls : p[c] = "answered" =>
       \E i \in 1..Len(es) : es[i].type = "reply" /\ es[i].from = c

RepliesMatch == Replies(events, pc, call, answer, key)

Base   == TypeOK /\ OneWindow /\ Stages /\ RepliesMatch
KeysOK == KeysGiven /\ SessionsOver
Alone  == LoginAlone /\ WindowKeyed

IInv == Base /\ KeysOK /\ (~crossed => Alone)

-----------------------------------------------------------------------------
(* The queue of events.                                                    *)

LEMMA Posted ==
  ASSUME NEW S, NEW s \in Seq(S), NEW e \in S
  PROVE  /\ Append(s, e) \in Seq(S) /\ Len(Append(s, e)) = Len(s) + 1 /\ Len(s) \in Nat
         /\ \A i \in 1..Len(s) : Append(s, e)[i] = s[i]
         /\ Append(s, e)[Len(s) + 1] = e
  OBVIOUS

LEMMA Taken ==
  ASSUME NEW S, NEW s \in Seq(S), s # <<>>
  PROVE  /\ Head(s) = s[1] /\ Head(s) \in S /\ 1 \in 1..Len(s)
         /\ Tail(s) \in Seq(S) /\ Len(Tail(s)) = Len(s) - 1 /\ Len(s) \in Nat \ {0}
         /\ \A i \in 1..Len(Tail(s)) : Tail(s)[i] = s[i + 1] /\ i + 1 \in 1..Len(s)
  OBVIOUS

\* The calls that are not answered do not matter.
LEMMA RepliesFrame ==
  ASSUME NEW es, NEW p, NEW cl, NEW an, NEW ky, Replies(es, p, cl, an, ky),
         NEW p2, NEW cl2, NEW an2, NEW ky2,
         \A c \in Calls : /\ p2[c] = "answered" <=> p[c] = "answered"
                          /\ p[c] = "answered" => cl2[c] = cl[c] /\ an2[c] = an[c] /\ ky2[c] = ky[c]
  PROVE  Replies(es, p2, cl2, an2, ky2)
  BY DEF Replies

\* An expiry is posted.
LEMMA ExpiryPosted ==
  ASSUME NEW es \in Seq(Event), NEW p, NEW cl, NEW an, NEW ky, Replies(es, p, cl, an, ky),
         NEW e \in Event, e.type = "expire"
  PROVE  Replies(Append(es, e), p, cl, an, ky)
  <1> DEFINE fs == Append(es, e)
  <1>1. /\ Len(fs) = Len(es) + 1 /\ Len(es) \in Nat
        /\ \A i \in 1..Len(es) : fs[i] = es[i]
        /\ fs[Len(es) + 1].type # "reply"
    BY Posted
  <1> HIDE DEF fs
  <1>2. \A i \in 1..Len(fs) : fs[i].type = "reply" => i \in 1..Len(es) /\ fs[i] = es[i]
    BY <1>1
  <1>3. \A i \in 1..Len(es) : i \in 1..Len(fs) /\ fs[i] = es[i]
    BY <1>1
  <1>4. Replies(fs, p, cl, an, ky)
    BY <1>2, <1>3 DEF Replies
  <1> QED BY <1>4 DEF fs

\* The reply of a call that was not answered yet is posted.
LEMMA ReplyPosted ==
  ASSUME NEW es \in Seq(Event), NEW p, NEW cl, NEW an, NEW ky, Replies(es, p, cl, an, ky),
         NEW c \in Calls, p[c] # "answered",
         NEW e \in Event, e.type = "reply", e.from = c, e.name = cl[c], e.answer = an[c],
         e.key = ky[c],
         NEW p2, \A d \in Calls : p2[d] = "answered" <=> d = c \/ p[d] = "answered"
  PROVE  Replies(Append(es, e), p2, cl, an, ky)
  <1> DEFINE fs == Append(es, e)
             n  == Len(es) + 1
  <1>1. Len(fs) = n /\ Len(es) \in Nat /\ fs[n] = e /\ \A i \in 1..Len(es) : fs[i] = es[i]
    BY Posted
  <1> HIDE DEF fs
  <1>2. \A i \in 1..Len(fs) : i = n \/ (i \in 1..Len(es) /\ fs[i] = es[i])
    BY <1>1
  <1>3. n \in 1..Len(fs) /\ \A i \in 1..Len(es) : i \in 1..Len(fs) /\ fs[i] = es[i] /\ i # n
    BY <1>1
  <1>4. \A i \in 1..Len(es) : es[i].type = "reply" => es[i].from # c
    BY DEF Replies
  <1> HIDE DEF n
  <1>5. \A i \in 1..Len(fs) : fs[i].type = "reply" =>
          /\ fs[i].from \in Calls /\ p2[fs[i].from] = "answered"
          /\ fs[i].name = cl[fs[i].from] /\ fs[i].answer = an[fs[i].from]
          /\ fs[i].key = ky[fs[i].from]
    BY <1>1, <1>2 DEF Replies
  <1>6. \A i, j \in 1..Len(fs) :
          fs[i].type = "reply" /\ fs[j].type = "reply" /\ fs[i].from = fs[j].from => i = j
    BY <1>1, <1>2, <1>4 DEF Replies
  <1>7. \A d \in Calls : p2[d] = "answered" =>
          \E i \in 1..Len(fs) : fs[i].type = "reply" /\ fs[i].from = d
    BY <1>1, <1>3 DEF Replies
  <1>8. Replies(fs, p2, cl, an, ky)
    BY <1>5, <1>6, <1>7 DEF Replies
  <1> QED BY <1>8 DEF fs

\* The oldest event is taken, and with a reply its call.
LEMMA EventTaken ==
  ASSUME NEW es \in Seq(Event), es # <<>>, NEW p, NEW cl, NEW an, NEW ky, Replies(es, p,
         cl, an, ky),
         NEW p2, NEW cl2, NEW an2, NEW ky2,
         \A d \in Calls : p2[d] = "answered" <=>
           /\ p[d] = "answered" /\ ~(Head(es).type = "reply" /\ Head(es).from = d),
         \A d \in Calls : p2[d] = "answered" => cl2[d] = cl[d] /\ an2[d] = an[d] /\ ky2[d] = ky[d]
  PROVE  Replies(Tail(es), p2, cl2, an2, ky2)
  <1> DEFINE fs == Tail(es)
  <1>1. /\ Head(es) = es[1] /\ 1 \in 1..Len(es) /\ Len(es) \in Nat \ {0} /\ Len(fs) = Len(es) - 1
        /\ \A i \in 1..Len(fs) : fs[i] = es[i + 1] /\ i + 1 \in 1..Len(es)
    BY Taken
  <1> HIDE DEF fs
  <1>2. \A i \in 1..Len(fs) : fs[i].type = "reply" =>
          /\ fs[i].from \in Calls /\ p2[fs[i].from] = "answered"
          /\ fs[i].name = cl2[fs[i].from] /\ fs[i].answer = an2[fs[i].from]
          /\ fs[i].key = ky2[fs[i].from]
    <2> SUFFICES ASSUME NEW i \in 1..Len(fs), fs[i].type = "reply"
                 PROVE  /\ fs[i].from \in Calls /\ p2[fs[i].from] = "answered"
                        /\ fs[i].name = cl2[fs[i].from] /\ fs[i].answer = an2[fs[i].from]
                        /\ fs[i].key = ky2[fs[i].from]
      OBVIOUS
    <2>1. fs[i] = es[i + 1] /\ i + 1 \in 1..Len(es) /\ i + 1 # 1
      BY <1>1
    <2>2. ~(es[1].type = "reply" /\ es[1].from = fs[i].from)
      BY <1>1, <2>1 DEF Replies
    <2>3. /\ fs[i].from \in Calls /\ p[fs[i].from] = "answered"
          /\ fs[i].name = cl[fs[i].from] /\ fs[i].answer = an[fs[i].from]
          /\ fs[i].key = ky[fs[i].from]
      BY <2>1 DEF Replies
    <2> QED BY <1>1, <2>2, <2>3
  <1>3. \A i, j \in 1..Len(fs) :
          fs[i].type = "reply" /\ fs[j].type = "reply" /\ fs[i].from = fs[j].from => i = j
    <2> SUFFICES ASSUME NEW i \in 1..Len(fs), NEW j \in 1..Len(fs), fs[i].type = "reply",
                        fs[j].type = "reply", fs[i].from = fs[j].from
                 PROVE  i = j
      OBVIOUS
    <2>1. fs[i] = es[i + 1] /\ fs[j] = es[j + 1] /\ i + 1 \in 1..Len(es) /\ j + 1 \in 1..Len(es)
      BY <1>1
    <2>2. \A k, l \in 1..Len(es) :
            es[k].type = "reply" /\ es[l].type = "reply" /\ es[k].from = es[l].from => k = l
      BY DEF Replies
    <2>3. i + 1 = j + 1
      BY <2>1, <2>2
    <2> QED BY <2>3
  <1>4. ASSUME NEW d \in Calls, p2[d] = "answered"
        PROVE  \E i \in 1..Len(fs) : fs[i].type = "reply" /\ fs[i].from = d
    <2>1. PICK i \in 1..Len(es) : es[i].type = "reply" /\ es[i].from = d
      BY <1>4 DEF Replies
    <2>2. i # 1
      BY <1>1, <1>4, <2>1
    <2>3. i - 1 \in 1..Len(fs) /\ fs[i - 1] = es[i]
      BY <1>1, <2>2
    <2> QED BY <2>1, <2>3
  <1>5. Replies(fs, p2, cl2, an2, ky2)
    BY <1>2, <1>3, <1>4 DEF Replies
  <1> QED BY <1>5 DEF fs

-----------------------------------------------------------------------------
(* The steps, as the invariant sees them.                                  *)

LEMMA Ranges ==
  ASSUME Base
  PROVE  /\ authKey \in Nat /\ subKey \in Nat /\ opened \in Nat
         /\ Keys = {k \in Nat : k <= MaxSessions} /\ MaxSessions \in Nat
         /\ \A c \in Calls : key[c] \in Nat /\ key[c] \in Keys
         /\ \A k \in valid : k \in Nat /\ k <= opened /\ k # 0
  <1>1. Keys = {k \in Nat : k <= MaxSessions} /\ MaxSessions \in Nat
    BY SessionsAssumption DEF Keys
  <1>2. /\ authKey \in Nat /\ subKey \in Nat /\ opened \in Nat
        /\ \A c \in Calls : key[c] \in Nat /\ key[c] \in Keys
    BY <1>1 DEF Base, TypeOK
  <1>3. \A k \in valid : k \in Nat /\ k <= opened /\ k # 0
    BY <1>2 DEF Base, TypeOK
  <1> QED BY <1>1, <1>2, <1>3

LEMMA EventKeys ==
  ASSUME Base, NEW i \in 1..Len(events)
  PROVE  events[i] \in Event /\ events[i].key \in Nat
  <1>1. events[i] \in Event
    BY DEF Base, TypeOK
  <1>2. events[i].key \in Keys
    BY <1>1 DEF Event
  <1> QED BY <1>1, <1>2, Ranges

\* What the server may answer to c: a refusal or nothing at all, a session
\* opened, or a session closed.
Served(c, ans, k) ==
  \/ /\ UNCHANGED server /\ k = key[c]
     /\ ans = "ok" => call[c] = "page"
     /\ ans = "unauthenticated" => key[c] \notin valid
  \/ /\ call[c] = "login" /\ OpenSession
     /\ \/ ans = "ok" /\ k = opened + 1
        \/ ans = "error" /\ k = key[c]
  \/ /\ call[c] = "logout" /\ valid' = valid \ {key[c]} /\ UNCHANGED opened /\ k = key[c]

LEMMA CallForms ==
  ASSUME Base, NEW c \in Calls, CallStep(c)
  PROVE  \/ Send(c) \/ WriteKey(c) \/ ClearKey(c) \/ EmitExpire(c) \/ Post(c)
         \/ \E ans \in Answers, k \in Keys :
              pc[c] \in {"queued", "wire"} /\ Return(c, ans, k) /\ Served(c, ans, k)
  <1> USE Ranges
  <1> DEFINE Back(ans, k) == pc[c] \in {"queued", "wire"} /\ Return(c, ans, k) /\ Served(c, ans, k)
  <1>1. key[c] \in Keys /\ Answers = {"ok", "unauthenticated", "error"}
    BY DEF Answers
  <1>2. CASE CallFails(c)
    <2>1. Back("error", key[c])
      BY <1>2 DEF CallFails, Served
    <2> QED BY <1>1, <2>1
  <1>3. CASE LoginOk(c)
    <2>1. Back("ok", opened + 1) /\ opened + 1 \in Keys
      BY <1>3 DEF LoginOk, Served, OpenSession
    <2> QED BY <1>1, <2>1
  <1>4. CASE LoginLost(c)
    <2>1. Back("error", key[c])
      BY <1>4 DEF LoginLost, Served
    <2> QED BY <1>1, <2>1
  <1>5. CASE LogoutOk(c) \/ LogoutLost(c)
    <2>1. Back("ok", key[c]) \/ Back("error", key[c])
      BY <1>5 DEF LogoutOk, LogoutLost, LogoutServed, Served
    <2> QED BY <1>1, <2>1
  <1>6. CASE LogoutUnauthenticated(c) \/ PageUnauthenticated(c)
    <2>1. Back("unauthenticated", key[c])
      BY <1>6 DEF LogoutUnauthenticated, PageUnauthenticated, Refused, Served
    <2> QED BY <1>1, <2>1
  <1>7. CASE PageOk(c)
    <2>1. Back("ok", key[c])
      BY <1>7 DEF PageOk, Served
    <2> QED BY <1>1, <2>1
  <1> QED BY <1>2, <1>3, <1>4, <1>5, <1>6, <1>7 DEF CallStep

LEMMA Opening ==
  ASSUME Base, OpenSession
  PROVE  /\ opened' = opened + 1 /\ opened' \in Keys /\ valid' \subseteq 1..opened'
         /\ \A k \in valid' : k \in valid \/ k > opened
  <1>1. opened' = opened + 1 /\ opened' \in Keys /\ valid' = valid \cup {opened + 1}
    BY Ranges DEF OpenSession
  <1>2. opened \in Nat /\ \A k \in valid : k \in Nat /\ k <= opened /\ k # 0
    BY Ranges
  <1>3. valid' \subseteq 1..opened'
    BY <1>1, <1>2
  <1> QED BY <1>1, <1>2, <1>3

\* Sessions over stay over, whatever a call, or the time, does to them.
LEMMA ServerSteps ==
  ASSUME Base, NEW c \in Calls, NEW ans, NEW k, Served(c, ans, k)
  PROVE  /\ opened' \in Nat /\ opened <= opened' /\ opened' \in Keys /\ valid' \subseteq 1..opened'
         /\ \A v \in valid' : v \in valid \/ v > opened
  <1>1. CASE OpenSession
    BY <1>1, Opening, Ranges
  <1>2. CASE opened' = opened /\ valid' \subseteq valid
    BY <1>2, Ranges DEF Base, TypeOK
  <1> QED BY <1>1, <1>2 DEF Served, server

\* The reply of c is the oldest event.
Heard(c) == Head(events).type = "reply" /\ Head(events).from = c

\* Its slot is free again, the others stay.
LEMMA TakeCalls ==
  ASSUME Base, events # <<>>, Take, NEW c \in Calls
  PROVE  /\ Heard(c) => pc'[c] = "free" /\ call'[c] = "none" /\ answer'[c] = "none" /\ key'[c] = 0
         /\ ~Heard(c) =>
              pc'[c] = pc[c] /\ call'[c] = call[c] /\ answer'[c] = answer[c] /\ key'[c] = key[c]
  BY DEF Base, TypeOK, Take, Heard, calls

LEMMA TakeTypes ==
  ASSUME Base, events # <<>>, Take
  PROVE  /\ events' \in Seq(Event) /\ events' = Tail(events)
         /\ pc' \in [Calls -> {"free", "queued", "wire", "back", "done", "answered"}]
         /\ call' \in [Calls -> Names \cup {"none"}]
         /\ key' \in [Calls -> Keys]
         /\ answer' \in [Calls -> Answers \cup {"none"}]
         /\ UNCHANGED <<authKey, valid, opened, exited, crossed>>
  <1>1. events' \in Seq(Event) /\ events' = Tail(events)
    BY Taken DEF Base, TypeOK, Take
  <1>2. UNCHANGED <<authKey, valid, opened, exited, crossed>>
    BY DEF Take, server
  <1>3. 0 \in Keys
    BY Ranges
  <1>4. CASE Head(events).type = "reply"
    <2>1. PICK c : /\ pc' = [pc EXCEPT ![c] = "free"] /\ call' = [call EXCEPT ![c] = "none"]
                   /\ key' = [key EXCEPT ![c] = 0] /\ answer' = [answer EXCEPT ![c] = "none"]
      BY <1>4 DEF Take
    <2> QED BY <1>1, <1>2, <1>3, <2>1 DEF Base, TypeOK
  <1>5. CASE Head(events).type # "reply"
    BY <1>1, <1>2, <1>5 DEF Take, calls, Base, TypeOK
  <1> QED BY <1>4, <1>5

\* A reply that is heard says what its call was answered.
LEMMA HeardCall ==
  ASSUME Base, events # <<>>, Head(events).type = "reply"
  PROVE  LET c == Head(events).from IN
         /\ c \in Calls /\ Heard(c) /\ pc[c] = "answered"
         /\ Head(events).name = call[c] /\ Head(events).answer = answer[c]
         /\ Head(events).key = key[c]
  <1>1. Head(events) = events[1] /\ 1 \in 1..Len(events)
    BY Taken DEF Base, TypeOK
  <1> QED BY <1>1 DEF Base, RepliesMatch, Replies, Heard

\* A slot takes the oldest event.
LEMMA SlotTakes ==
  ASSUME Slot
  PROVE  events # <<>> /\ Take
  BY DEF Slot, LoginSucceeded, LoggedOut, OtherReply, SessionExpire, Next1

-----------------------------------------------------------------------------
(* Types, the one window, the stages and the replies.                      *)

LEMMA CallBase ==
  ASSUME Base, NEW c \in Calls, CallStep(c)
  PROVE  Base'
  <1>0. /\ events \in Seq(Event)
        /\ pc \in [Calls -> {"free", "queued", "wire", "back", "done", "answered"}]
        /\ call \in [Calls -> Names \cup {"none"}]
        /\ key \in [Calls -> Keys] /\ answer \in [Calls -> Answers \cup {"none"}]
        /\ authKey \in Keys
    BY DEF Base, TypeOK
  <1>a. 0 \in Keys
    BY Ranges
  <1>1. CASE Send(c)
    <2>1. TypeOK' /\ OneWindow'
      BY <1>0, <1>a, <1>1 DEF Send, Base, TypeOK, OneWindow, client, server
    <2>2. Stages'
      BY <1>0, <1>1 DEF Send, Base, Stages, HasMore, Expires
    <2>3. \A d \in Calls : /\ pc'[d] = "answered" <=> pc[d] = "answered"
                           /\ pc[d] = "answered" =>
                                call'[d] = call[d] /\ answer'[d] = answer[d] /\ key'[d] = key[d]
      BY <1>0, <1>1 DEF Send
    <2>4. events' = events
      BY <1>1 DEF Send
    <2> QED BY <2>1, <2>2, <2>3, <2>4, RepliesFrame DEF Base, RepliesMatch
  <1>2. ASSUME NEW ans \in Answers, NEW k \in Keys,
               pc[c] \in {"queued", "wire"}, Return(c, ans, k), Served(c, ans, k)
        PROVE  Base'
    <2>1. TypeOK' /\ OneWindow'
      <3>1. /\ key' \in [Calls -> Keys] /\ answer' \in [Calls -> Answers \cup {"none"}]
            /\ pc' \in [Calls -> {"free", "queued", "wire", "back", "done", "answered"}]
        BY <1>0, <1>a, <1>2 DEF Return
      <3>2. opened' \in Keys /\ valid' \subseteq 1..opened'
        BY <1>2, ServerSteps
      <3>3. UNCHANGED <<client, authKey, events, call, crossed>>
        BY <1>2 DEF Return
      <3> QED BY <3>1, <3>2, <3>3 DEF Base, TypeOK, OneWindow, client
    <2>2. Stages'
      BY <1>0, <1>2 DEF Return, Base, Stages, Answers, HasMore, Expires
    <2>3. \A d \in Calls : /\ pc'[d] = "answered" <=> pc[d] = "answered"
                           /\ pc[d] = "answered" =>
                                call'[d] = call[d] /\ answer'[d] = answer[d] /\ key'[d] = key[d]
      BY <1>0, <1>2 DEF Return
    <2>4. events' = events
      BY <1>2 DEF Return
    <2> QED BY <2>1, <2>2, <2>3, <2>4, RepliesFrame DEF Base, RepliesMatch
  <1>3. ASSUME NEW n, HandleBack(c, n), authKey' \in Keys, events' \in Seq(Event),
               Replies(events', pc, call, answer, key)
        PROVE  Base'
    <2>1. TypeOK' /\ OneWindow'
      BY <1>0, <1>3 DEF HandleBack, Base, TypeOK, OneWindow, client, server
    <2>2. Stages'
      BY <1>0, <1>3 DEF HandleBack, Base, Stages, HasMore, Expires
    <2>3. \A d \in Calls : /\ pc'[d] = "answered" <=> pc[d] = "answered"
                           /\ pc[d] = "answered" =>
                                call'[d] = call[d] /\ answer'[d] = answer[d] /\ key'[d] = key[d]
      BY <1>0, <1>3 DEF HandleBack
    <2> QED BY <1>3, <2>1, <2>2, <2>3, RepliesFrame DEF Base, RepliesMatch
  <1>4. CASE WriteKey(c)
    BY <1>0, <1>3, <1>4 DEF WriteKey, Base, RepliesMatch
  <1>5. CASE ClearKey(c)
    BY <1>0, <1>a, <1>3, <1>5 DEF ClearKey, Base, RepliesMatch
  <1>6. CASE EmitExpire(c)
    <2> DEFINE e == Expire(c, key[c])
    <2>1. e \in Event /\ e.type = "expire" /\ events' = Append(events, e)
      BY <1>0, <1>6 DEF EmitExpire, Expire, Event
    <2> HIDE DEF e
    <2>2. events' \in Seq(Event) /\ Replies(events', pc, call, answer, key)
      BY <1>0, <2>1, Posted, ExpiryPosted DEF Base, RepliesMatch
    <2> QED BY <1>0, <1>3, <1>6, <2>2 DEF EmitExpire
  <1>7. CASE Post(c)
    <2> DEFINE e == Reply(c, call[c], answer[c], key[c])
    <2>1. call[c] \in Names /\ answer[c] \in Answers /\ pc[c] = "done"
      BY <1>0, <1>7 DEF Post, Base, Stages
    <2>2. /\ e \in Event /\ e.type = "reply" /\ e.from = c
          /\ e.name = call[c] /\ e.answer = answer[c] /\ e.key = key[c]
      BY <1>0, <2>1 DEF Reply, Event
    <2>3. /\ events' = Append(events, e) /\ pc' = [pc EXCEPT ![c] = "answered"]
          /\ UNCHANGED <<client, authKey, call, key, answer, server, crossed>>
      BY <1>7 DEF Post
    <2> HIDE DEF e
    <2>4. events' \in Seq(Event)
      BY <1>0, <2>2, <2>3, Posted
    <2>5. TypeOK' /\ OneWindow'
      BY <1>0, <2>3, <2>4 DEF Base, TypeOK, OneWindow, client, server
    <2>6. Stages'
      BY <1>0, <2>1, <2>3 DEF Base, Stages, HasMore, Expires
    <2>7. \A d \in Calls : pc'[d] = "answered" <=> d = c \/ pc[d] = "answered"
      BY <1>0, <2>3
    <2>8. Replies(events', pc', call, answer, key)
      <3>1. Replies(events, pc, call, answer, key) /\ pc[c] # "answered"
        BY <2>1 DEF Base, RepliesMatch
      <3>2. Replies(Append(events, e), pc', call, answer, key)
        BY <1>0, <2>2, <2>7, <3>1, ReplyPosted
      <3> QED BY <2>3, <3>2
    <2> QED BY <2>3, <2>5, <2>6, <2>8 DEF Base, RepliesMatch
  <1> QED BY <1>1, <1>2, <1>4, <1>5, <1>6, <1>7, CallForms

LEMMA SlotBase ==
  ASSUME Base, Slot
  PROVE  Base'
  <1> USE SlotTakes, TakeCalls, TakeTypes
  <1>0. /\ mainWindow \in BOOLEAN /\ loginShown = ~mainWindow
        /\ thread \in {"off", "started", "subscribing", "deaf", "looping"}
        /\ isCanceled \in BOOLEAN /\ subKey \in Keys
    BY DEF Base, TypeOK, OneWindow
  <1>a. 0 \in Keys
    BY Ranges
  <1>1. /\ mainWindow' \in BOOLEAN /\ loginShown' = ~mainWindow'
        /\ thread' \in {"off", "started", "subscribing", "deaf", "looping"}
        /\ isCanceled' \in BOOLEAN /\ subKey' \in Keys
    <2>1. CASE LoginSucceeded
      BY <1>0, <2>1 DEF LoginSucceeded, StartThread
    <2>2. CASE LoggedOut
      BY <1>0, <2>2 DEF LoggedOut, ShowLogin
    <2>3. CASE OtherReply
      BY <1>0, <2>3 DEF OtherReply
    <2>4. CASE SessionExpire
      BY <1>0, <1>a, <2>4 DEF SessionExpire, ShowLogin, StopThread
    <2> QED BY <2>1, <2>2, <2>3, <2>4 DEF Slot
  <1>2. TypeOK' /\ OneWindow'
    BY <1>1 DEF Base, TypeOK, OneWindow
  <1>3. Stages'
    BY DEF Base, Stages, HasMore, Expires
  <1>4. \A d \in Calls : /\ pc'[d] = "answered" <=> pc[d] = "answered" /\ ~Heard(d)
                         /\ pc'[d] = "answered" =>
                              call'[d] = call[d] /\ answer'[d] = answer[d] /\ key'[d] = key[d]
    OBVIOUS
  <1>5. Replies(events, pc, call, answer, key) /\ events \in Seq(Event)
    BY DEF Base, RepliesMatch, TypeOK
  <1>6. Replies(Tail(events), pc', call', answer', key')
    BY <1>4, <1>5, EventTaken DEF Heard
  <1> QED BY <1>2, <1>3, <1>6 DEF Base, RepliesMatch

LEMMA OtherBase ==
  ASSUME Base,
         UserStep \/ Subscribe \/ SubscriptionExpires \/ SubscriptionBreaks \/ ServerExpires
  PROVE  Base'
  <1>a. 0 \in Keys /\ authKey \in Keys
    BY Ranges DEF Base, TypeOK
  <1>1. ASSUME NEW c \in Calls, NEW n \in Names, Start(c, n), crossed' \in BOOLEAN PROVE Base'
    <2>1. TypeOK' /\ OneWindow'
      BY <1>1 DEF Start, Base, TypeOK, OneWindow, client, server
    <2>2. Stages'
      BY <1>1 DEF Start, Base, TypeOK, Stages, Names, HasMore, Expires
    <2>3. \A d \in Calls : /\ pc'[d] = "answered" <=> pc[d] = "answered"
                           /\ pc[d] = "answered" =>
                                call'[d] = call[d] /\ answer'[d] = answer[d] /\ key'[d] = key[d]
      BY <1>1 DEF Start, Base, TypeOK
    <2>4. events' = events
      BY <1>1 DEF Start
    <2> QED BY <2>1, <2>2, <2>3, <2>4, RepliesFrame DEF Base, RepliesMatch
  <1>2. CASE \E c \in Calls : OnLogin(c) \/ OnLogout(c) \/ OnPage(c)
    BY <1>1, <1>2 DEF OnLogin, OnLogout, OnPage, Names, Base, TypeOK
  <1>3. CASE CloseMainWindow
    <2>1. /\ thread' \in {"off", "started", "subscribing", "deaf", "looping"}
          /\ isCanceled' \in BOOLEAN /\ subKey' \in Keys
      BY <1>a, <1>3 DEF CloseMainWindow, StopThread, Base, TypeOK
    <2>2. /\ UNCHANGED <<mainWindow, loginShown, authKey, events, calls, server, crossed>>
          /\ exited' \in BOOLEAN
      BY <1>3 DEF CloseMainWindow
    <2> QED BY <2>1, <2>2
               DEF Base, TypeOK, OneWindow, Stages, HasMore, Expires, RepliesMatch, calls, server
  <1>4. CASE Subscribe \/ SubscriptionBreaks
    <2>1. /\ thread' \in {"subscribing", "deaf", "looping"} /\ subKey' \in Keys
          /\ UNCHANGED <<mainWindow, loginShown, exited, isCanceled, authKey, events,
                         calls, server, crossed>>
      BY <1>a, <1>4 DEF Subscribe, SubscriptionBreaks, AfterStart, Base, TypeOK
    <2> QED BY <2>1
               DEF Base, TypeOK, OneWindow, Stages, HasMore, Expires, RepliesMatch, calls, server
  <1>5. CASE SubscriptionExpires
    <2> DEFINE e == Expire(SUB, subKey)
    <2>1. e \in Event /\ e.type = "expire" /\ events \in Seq(Event)
      BY DEF Expire, Event, Base, TypeOK
    <2>2. /\ events' = Append(events, e) /\ thread' = "looping" /\ subKey' = 0
          /\ UNCHANGED <<mainWindow, loginShown, exited, isCanceled, authKey, calls,
                         server, crossed>>
      BY <1>5 DEF SubscriptionExpires
    <2> HIDE DEF e
    <2>3. events' \in Seq(Event) /\ Replies(events', pc, call, answer, key)
      BY <2>1, <2>2, Posted, ExpiryPosted DEF Base, RepliesMatch
    <2>4. TypeOK'
      BY <1>a, <2>2, <2>3 DEF Base, TypeOK, calls, server
    <2> QED BY <2>2, <2>3, <2>4
               DEF Base, OneWindow, Stages, HasMore, Expires, RepliesMatch, calls, server
  <1>6. CASE ServerExpires
    <2>1. valid' \subseteq valid /\ UNCHANGED <<client, authKey, events, calls, opened, crossed>>
      BY <1>6 DEF ServerExpires
    <2> QED BY <2>1
               DEF Base, TypeOK, OneWindow, Stages, HasMore, Expires, RepliesMatch, calls, client
  <1> QED BY <1>2, <1>3, <1>4, <1>5, <1>6 DEF UserStep

-----------------------------------------------------------------------------
(* The keys.                                                               *)

\* The server only closes sessions, and opens newer ones.
LEMMA KeysFrame ==
  ASSUME Base, KeysOK, opened' \in Nat, opened <= opened',
         \A v \in valid' : v \in valid \/ v > opened,
         authKey' \in Nat, authKey' <= opened', subKey' \in {subKey, 0},
         \A c \in Calls : /\ key'[c] \in Nat /\ key'[c] <= opened'
                          /\ Over(c)' => key'[c] \notin valid',
         events' = events
  PROVE  KeysOK'
  <1>1. KeysGiven'
    BY Ranges, EventKeys DEF KeysOK, KeysGiven
  <1>2. ExpiryIsReal'
    BY Ranges, EventKeys DEF KeysOK, KeysGiven, SessionsOver, ExpiryIsReal
  <1> QED BY <1>1, <1>2 DEF KeysOK, SessionsOver

\* An event is posted; if it is an expiry, of a session that is over.
LEMMA KeysPosted ==
  ASSUME Base, KeysOK, NEW e \in Event, events' = Append(events, e),
         e.type = "expire" => e.key <= opened /\ e.key \notin valid,
         UNCHANGED <<authKey, call, key, answer, valid, opened>>, subKey' \in {subKey, 0}
  PROVE  KeysOK'
  <1>1. \A i \in 1..Len(events') :
          (i \in 1..Len(events) /\ events'[i] = events[i]) \/ events'[i] = e
    BY Posted DEF Base, TypeOK
  <1>2. KeysGiven'
    BY <1>1, Ranges DEF KeysOK, KeysGiven
  <1>3. ExpiryIsReal'
    BY <1>1 DEF KeysOK, SessionsOver, ExpiryIsReal
  <1> QED BY <1>2, <1>3 DEF KeysOK, SessionsOver, Over, Expires

LEMMA CallKeys ==
  ASSUME Base, KeysOK, NEW c \in Calls, CallStep(c)
  PROVE  KeysOK'
  <1>0. /\ \A d \in Calls : key[d] <= opened /\ (Over(d) => key[d] \notin valid)
        /\ authKey <= opened /\ authKey \in Nat /\ opened \in Nat
        /\ events \in Seq(Event) /\ key \in [Calls -> Keys]
        /\ \A d \in Calls : key[d] \in Nat
        /\ answer \in [Calls -> Answers \cup {"none"}]
    BY Ranges DEF KeysOK, KeysGiven, SessionsOver, Base, TypeOK
  <1>1. CASE Send(c)
    <2>1. answer[c] = "none" /\ ~Over(c)'
      BY <1>1 DEF Send, Base, Stages, Over, Expires
    <2>2. \A d \in Calls : d # c => key'[d] = key[d] /\ (Over(d)' <=> Over(d))
      BY <1>0, <1>1 DEF Send, Over, Expires
    <2>3. key'[c] \in {0, authKey}
      BY <1>0, <1>1 DEF Send
    <2>4. UNCHANGED <<authKey, subKey, events, valid, opened>>
      BY <1>1 DEF Send, client, server
    <2> QED BY <1>0, <2>1, <2>2, <2>3, <2>4, KeysFrame
  <1>2. ASSUME NEW ans \in Answers, NEW k \in Keys,
               pc[c] \in {"queued", "wire"}, Return(c, ans, k), Served(c, ans, k)
        PROVE  KeysOK'
    <2>1. UNCHANGED <<authKey, subKey, events, call>>
      BY <1>2 DEF Return, client
    <2>2. /\ opened' \in Nat /\ opened <= opened'
          /\ \A v \in valid' : v \in valid \/ v > opened
      BY <1>2, ServerSteps
    <2>3. \A d \in Calls : d # c => key'[d] = key[d] /\ (Over(d)' <=> Over(d))
      BY <1>0, <1>2 DEF Return, Over, Expires
    <2>4. key'[c] \in {0, k} /\ answer'[c] = ans /\ k \in Nat /\ k <= opened'
      BY <1>0, <1>2, Ranges, Opening DEF Return, Served, server
    <2>5. Over(c)' => k \notin valid' /\ key'[c] = k
      <3>1. Over(c)' => /\ (call[c] = "page" /\ ans = "unauthenticated")
                           \/ (call[c] = "logout" /\ ans \in {"ok", "unauthenticated"})
                        /\ key'[c] = k
        BY <1>0, <1>2, <2>1, <2>4 DEF Return, Over, Expires
      <3> QED BY <1>2, <3>1 DEF Served, server
    <2>6. ASSUME NEW d \in Calls
          PROVE  /\ key'[d] \in Nat /\ key'[d] <= opened'
                 /\ Over(d)' => key'[d] \notin valid'
      <3>1. CASE d = c
        BY <1>0, <2>2, <2>4, <2>5, <3>1
      <3>2. CASE d # c
        BY <1>0, <2>2, <2>3, <3>2
      <3> QED BY <3>1, <3>2
    <2>7. authKey' \in Nat /\ authKey' <= opened'
      BY <1>0, <2>1, <2>2
    <2> QED BY <2>1, <2>2, <2>6, <2>7, KeysFrame
  <1>3. CASE WriteKey(c) \/ ClearKey(c)
    <2>1. /\ UNCHANGED <<subKey, events, call, key, answer, valid, opened>>
          /\ authKey' \in {key[c], 0}
      BY <1>3 DEF WriteKey, ClearKey, HandleBack, client, server
    <2>2. \A d \in Calls : Over(d)' <=> Over(d)
      BY <2>1 DEF Over, Expires
    <2> QED BY <1>0, <2>1, <2>2, KeysFrame
  <1>4. CASE EmitExpire(c)
    <2> DEFINE e == Expire(c, key[c])
    <2>1. e \in Event /\ e.key = key[c] /\ events' = Append(events, e)
      BY <1>0, <1>4 DEF EmitExpire, Expire, Event
    <2>2. Over(c)
      <3>1. pc[c] = "back" /\ call[c] = "page"
        BY <1>4 DEF EmitExpire, HandleBack
      <3> QED BY <3>1 DEF Over, Base, Stages, HasMore
    <2>3. UNCHANGED <<subKey, authKey, call, key, answer, valid, opened>>
      BY <1>4 DEF EmitExpire, HandleBack, client, server
    <2> QED BY <1>0, <2>1, <2>2, <2>3, KeysPosted
  <1>5. CASE Post(c)
    <2> DEFINE e == Reply(c, call[c], answer[c], key[c])
    <2>1. call[c] \in Names /\ answer[c] \in Answers
      BY <1>0, <1>5 DEF Post, Base, TypeOK, Stages
    <2>2. e \in Event /\ e.type = "reply" /\ events' = Append(events, e)
      BY <1>0, <1>5, <2>1 DEF Post, Reply, Event
    <2>3. UNCHANGED <<subKey, authKey, call, key, answer, valid, opened>>
      BY <1>5 DEF Post, client, server
    <2> QED BY <2>2, <2>3, KeysPosted
  <1> QED BY <1>1, <1>2, <1>3, <1>4, <1>5, CallForms

LEMMA SlotKeys ==
  ASSUME Base, KeysOK, Slot
  PROVE  KeysOK'
  <1>1. events \in Seq(Event) /\ events # <<>> /\ events' = Tail(events)
    BY SlotTakes, TakeTypes DEF Base, TypeOK
  <1>2. \A i \in 1..Len(events') : i + 1 \in 1..Len(events) /\ events'[i] = events[i + 1]
    BY <1>1, Taken
  <1>3. /\ subKey' \in {subKey, 0}
        /\ UNCHANGED <<authKey, valid, opened>>
    BY SlotTakes, TakeTypes
       DEF Slot, LoginSucceeded, LoggedOut, OtherReply, SessionExpire, StopThread
  <1>4. \A c \in Calls : key'[c] \in {key[c], 0} /\ (Over(c)' => Over(c) /\ key'[c] = key[c])
    BY SlotTakes, TakeCalls DEF Over, Expires
  <1>5. KeysGiven'
    <2>1. \A i \in 1..Len(events') : events'[i].type = "expire" => events'[i].key <= opened'
      BY <1>2, <1>3 DEF KeysOK, KeysGiven
    <2>2. authKey' <= opened' /\ subKey' <= opened' /\ \A c \in Calls : key'[c] <= opened'
      BY <1>3, <1>4, Ranges DEF KeysOK, KeysGiven
    <2> QED BY <2>1, <2>2 DEF KeysGiven
  <1>6. ExpiryIsReal'
    BY <1>2, <1>3 DEF KeysOK, SessionsOver, ExpiryIsReal
  <1> QED BY <1>3, <1>4, <1>5, <1>6 DEF KeysOK, SessionsOver

LEMMA OtherKeys ==
  ASSUME Base, KeysOK,
         UserStep \/ Subscribe \/ SubscriptionExpires \/ SubscriptionBreaks \/ ServerExpires
  PROVE  KeysOK'
  <1>0. /\ \A d \in Calls : key[d] \in Nat /\ key[d] <= opened /\ (Over(d) => key[d] \notin valid)
        /\ authKey <= opened /\ authKey \in Nat /\ subKey <= opened /\ opened \in Nat
    BY Ranges DEF KeysOK, KeysGiven, SessionsOver
  <1>1. ASSUME NEW c \in Calls, NEW n \in Names, Start(c, n) PROVE KeysOK'
    <2>1. UNCHANGED <<authKey, subKey, events, key, answer, valid, opened>>
      BY <1>1 DEF Start, client, server
    <2>2. \A d \in Calls : Over(d)' => Over(d)
      BY <1>1, <2>1 DEF Start, Base, TypeOK, Stages, Over, Expires
    <2> QED BY <1>0, <2>1, <2>2, KeysFrame
  <1>2. CASE \E c \in Calls : OnLogin(c) \/ OnLogout(c) \/ OnPage(c)
    BY <1>1, <1>2 DEF OnLogin, OnLogout, OnPage, Names
  <1>3. CASE CloseMainWindow \/ SubscriptionBreaks
    <2>1. /\ UNCHANGED <<authKey, events, call, key, answer, valid, opened>>
          /\ subKey' \in {subKey, 0}
      BY <1>3 DEF CloseMainWindow, StopThread, SubscriptionBreaks, calls, server
    <2>2. \A d \in Calls : Over(d)' <=> Over(d)
      BY <2>1 DEF Over, Expires
    <2> QED BY <1>0, <2>1, <2>2, KeysFrame
  <1>4. CASE Subscribe
    <2>1. /\ UNCHANGED <<authKey, events, call, key, answer, valid, opened>>
          /\ subKey' \in {authKey, 0}
      BY <1>4 DEF Subscribe, calls, server
    <2>2. KeysGiven'
      BY <1>0, <2>1 DEF KeysOK, KeysGiven
    <2> QED BY <2>1, <2>2 DEF KeysOK, SessionsOver, ExpiryIsReal, Over, Expires
  <1>5. CASE SubscriptionExpires
    <2> DEFINE e == Expire(SUB, subKey)
    <2>1. e \in Event /\ e.key = subKey
      BY DEF Expire, Event, Base, TypeOK
    <2>2. /\ events' = Append(events, e) /\ subKey \notin valid /\ subKey' = 0
          /\ UNCHANGED <<authKey, call, key, answer, valid, opened>>
      BY <1>5 DEF SubscriptionExpires, calls, server
    <2> HIDE DEF e
    <2> QED BY <1>0, <2>1, <2>2, KeysPosted
  <1>6. CASE ServerExpires
    <2>1. valid' \subseteq valid /\ UNCHANGED <<authKey, subKey, events, call, key,
                                                answer, opened>>
      BY <1>6 DEF ServerExpires, client, calls
    <2>2. \A d \in Calls : Over(d)' <=> Over(d)
      BY <2>1 DEF Over, Expires
    <2> QED BY <1>0, <2>1, <2>2, KeysFrame
  <1> QED BY <1>2, <1>3, <1>4, <1>5, <1>6 DEF UserStep

-----------------------------------------------------------------------------
(* A login alone.                                                          *)

LEMMA CallAlone ==
  ASSUME Base, KeysOK, Alone, NEW c \in Calls, CallStep(c)
  PROVE  Alone'
  <1>0. /\ pc \in [Calls -> {"free", "queued", "wire", "back", "done", "answered"}]
        /\ answer \in [Calls -> Answers \cup {"none"}] /\ key \in [Calls -> Keys]
        /\ opened \in Nat
        /\ pc[c] = "free" <=> call[c] = "none"
        /\ pc[c] \in {"free", "queued", "wire"} <=> answer[c] = "none"
        /\ pc[c] = "back" => HasMore(c, answer[c])
    BY Ranges DEF Base, TypeOK, Stages
  <1>a. mainWindow' = mainWindow /\ call' = call
    BY DEF CallStep, Send, CallFails, LoginOk, LoginLost, LogoutOk, LogoutLost, LogoutServed,
           LogoutUnauthenticated, PageOk, PageUnauthenticated, WriteKey, ClearKey, EmitExpire,
           HandleBack, Post, Return, client
  <1>1. CASE Send(c) \/ Post(c) \/ EmitExpire(c)
    <2>1. /\ UNCHANGED <<authKey, opened, answer>>
          /\ \A d \in Calls : /\ d # c => key'[d] = key[d] /\ pc'[d] = pc[d]
                              /\ answer[c] = "ok" /\ call[c] = "login" =>
                                   key'[c] = key[c] /\ (pc[c] = "back" <=> pc'[c] = "back")
                              /\ LogoutDone(d) => LogoutDone(d)'
      <3>1. UNCHANGED <<authKey, opened, answer>>
        BY <1>1 DEF Send, Post, EmitExpire, HandleBack, server
      <3>2. \A d \in Calls : d # c => key'[d] = key[d] /\ pc'[d] = pc[d]
        BY <1>0, <1>1 DEF Send, Post, EmitExpire, HandleBack
      <3>3. answer[c] = "ok" /\ call[c] = "login" =>
              key'[c] = key[c] /\ (pc[c] = "back" <=> pc'[c] = "back")
        BY <1>0, <1>1 DEF Send, Post, EmitExpire, HandleBack
      <3>4. \A d \in Calls : LogoutDone(d) => LogoutDone(d)'
        BY <1>0, <1>a, <1>1, <3>1 DEF Send, Post, EmitExpire, HandleBack, LogoutDone
      <3> QED BY <3>1, <3>2, <3>3, <3>4
    <2>2. LoginAlone'
      BY <1>a, <2>1 DEF Alone, LoginAlone
    <2>3. WindowKeyed'
      BY <1>a, <2>1 DEF Alone, WindowKeyed
    <2> QED BY <2>2, <2>3 DEF Alone
  <1>2. ASSUME NEW ans \in Answers, NEW k \in Keys,
               pc[c] \in {"queued", "wire"}, Return(c, ans, k), Served(c, ans, k)
        PROVE  Alone'
    <2>1. /\ authKey' = authKey /\ answer'[c] = ans
          /\ \A d \in Calls : d # c => key'[d] = key[d] /\ pc'[d] = pc[d] /\ answer'[d] = answer[d]
          /\ call[c] = "login" => key'[c] = k
          /\ call[c] = "login" /\ ans = "ok" => pc'[c] = "back"
      BY <1>0, <1>2 DEF Return, HasMore
    <2>2. call[c] # "login" => opened' = opened
      BY <1>2 DEF Served, server
    <2>3. call[c] = "login" /\ ans = "ok" => k = opened' /\ opened' # 0
      BY <1>0, <1>2 DEF Served, OpenSession
    <2>4. LoginAlone'
      <3> SUFFICES ASSUME NEW d \in Calls, call[d] = "login"
                   PROVE  /\ ~mainWindow
                          /\ \A f \in Calls : f # d => call[f] \notin {"login", "logout"}
                          /\ answer'[d] = "ok" => key'[d] = opened' /\ opened' # 0
                          /\ answer'[d] = "ok" /\ pc'[d] # "back" => authKey = opened'
        BY <1>a, <2>1 DEF LoginAlone
      <3>1. /\ ~mainWindow
            /\ \A f \in Calls : f # d => call[f] \notin {"login", "logout"}
            /\ answer[d] = "ok" => key[d] = opened /\ opened # 0
            /\ answer[d] = "ok" /\ pc[d] # "back" => authKey = opened
        BY DEF Alone, LoginAlone
      <3>2. CASE d = c
        BY <2>1, <2>3, <3>1, <3>2
      <3>3. CASE d # c
        BY <2>1, <2>2, <3>1, <3>3
      <3> QED BY <3>2, <3>3
    <2>5. WindowKeyed'
      <3> SUFFICES ASSUME mainWindow
                   PROVE  \/ authKey = opened' /\ opened' # 0
                          \/ authKey = 0 /\ \E d \in Calls : LogoutDone(d)'
        BY <1>a, <2>1 DEF WindowKeyed
      <3>1. opened' = opened
        BY <2>2 DEF Alone, LoginAlone
      <3>2. \A d \in Calls : LogoutDone(d) => LogoutDone(d)'
        BY <1>a, <1>2, <2>1 DEF LogoutDone
      <3> QED BY <3>1, <3>2 DEF Alone, WindowKeyed
    <2> QED BY <2>4, <2>5 DEF Alone
  <1>3. CASE WriteKey(c)
    <2>1. /\ UNCHANGED <<opened, answer, key>> /\ authKey' = key[c]
          /\ call[c] = "login" /\ answer[c] = "ok"
      BY <1>0, <1>3 DEF WriteKey, HandleBack, HasMore, Expires, server
    <2>2. /\ ~mainWindow
          /\ \A f \in Calls : f # c => call[f] \notin {"login", "logout"}
          /\ key[c] = opened /\ opened # 0
      BY <2>1 DEF Alone, LoginAlone
    <2> QED BY <1>a, <2>1, <2>2 DEF Alone, LoginAlone, WindowKeyed
  <1>4. CASE ClearKey(c)
    <2>1. /\ UNCHANGED <<opened, answer, key>> /\ authKey' = 0
          /\ call[c] = "logout" /\ answer[c] = "ok" /\ pc'[c] = "done"
      BY <1>0, <1>4 DEF ClearKey, HandleBack, HasMore, Expires, server
    <2>2. \A d \in Calls : call[d] # "login"
      BY <2>1 DEF Alone, LoginAlone
    <2>3. LogoutDone(c)'
      BY <1>a, <2>1 DEF LogoutDone
    <2>4. LoginAlone'
      BY <1>a, <2>2 DEF LoginAlone
    <2>5. WindowKeyed'
      BY <2>1, <2>3 DEF WindowKeyed
    <2> QED BY <2>4, <2>5 DEF Alone
  <1> QED BY <1>1, <1>2, <1>3, <1>4, CallForms

\* Only the reply of a login, with its key already in s_authKey, opens a window,
\* and that of a finished logout closes it.
LEMMA SlotAlone ==
  ASSUME Base, Alone, Slot
  PROVE  Alone'
  <1> USE SlotTakes
  <1>0. UNCHANGED <<authKey, opened>>
    BY TakeTypes
  <1>1. \A d \in Calls : /\ call'[d] \in {call[d], "none"}
                         /\ call'[d] \in Names =>
                              call'[d] = call[d] /\ answer'[d] = answer[d]
                              /\ key'[d] = key[d] /\ pc'[d] = pc[d] /\ ~Heard(d)
    BY TakeCalls DEF Names
  <1>2. CASE LoginSucceeded
    <2> DEFINE c == Head(events).from
    <2>1. /\ c \in Calls /\ Heard(c) /\ pc[c] = "answered" /\ call[c] = "login" /\ answer[c] = "ok"
      BY <1>2, HeardCall DEF LoginSucceeded, Next1, Is
    <2>2. /\ \A d \in Calls : d # c => call[d] \notin {"login", "logout"}
          /\ authKey = opened /\ opened # 0
      BY <2>1 DEF Alone, LoginAlone
    <2>3. call'[c] = "none"
      BY <2>1, TakeCalls
    <2>4. \A d \in Calls : call'[d] # "login"
      BY <1>1, <2>2, <2>3
    <2> QED BY <1>0, <2>2, <2>4 DEF Alone, LoginAlone, WindowKeyed
  <1>3. ASSUME mainWindow' = FALSE PROVE Alone'
    <2>1. LoginAlone'
      BY <1>0, <1>1, <1>3 DEF Alone, LoginAlone, Names
    <2> QED BY <1>3, <2>1 DEF Alone, WindowKeyed
  <1>4. CASE OtherReply
    <2>1. mainWindow' = mainWindow
      BY <1>4 DEF OtherReply
    <2>2. ASSUME NEW d \in Calls, LogoutDone(d) PROVE LogoutDone(d)'
      <3>1. ~Heard(d)
        BY <1>4, <2>2, HeardCall DEF OtherReply, Next1, EndsSession, Is, LogoutDone, Heard
      <3> QED BY <2>2, <3>1, TakeCalls DEF LogoutDone
    <2>3. LoginAlone'
      BY <1>0, <1>1, <2>1 DEF Alone, LoginAlone, Names
    <2>4. WindowKeyed'
      BY <1>0, <2>1, <2>2 DEF Alone, WindowKeyed
    <2> QED BY <2>3, <2>4 DEF Alone
  <1> QED BY <1>2, <1>3, <1>4 DEF Slot, LoggedOut, SessionExpire, ShowLogin

\* A login that does not cross another, nor a logout, finds the login dialog.
LEMMA OtherAlone ==
  ASSUME Base, ~crossed => Alone, ~crossed',
         UserStep \/ Subscribe \/ SubscriptionExpires \/ SubscriptionBreaks \/ ServerExpires
  PROVE  Alone'
  <1>1. CASE \E c \in Calls : OnLogin(c)
    <2>1. PICK c \in Calls : OnLogin(c)
      BY <1>1
    <2>2. \A d \in Calls : call[d] \notin {"login", "logout"}
      BY <2>1 DEF OnLogin
    <2>3. /\ ~mainWindow' /\ call'[c] = "login" /\ answer'[c] = "none"
          /\ \A d \in Calls : d # c => call'[d] = call[d]
      BY <2>1 DEF OnLogin, Start, Base, TypeOK, OneWindow, Stages, client
    <2> QED BY <2>2, <2>3 DEF Alone, LoginAlone, WindowKeyed
  <1>2. CASE \E c \in Calls : OnLogout(c) \/ OnPage(c)
    <2>1. PICK c \in Calls : OnLogout(c) \/ OnPage(c)
      BY <1>2
    <2>2. Alone /\ mainWindow
      BY <2>1 DEF OnLogout, OnPage
    <2>3. /\ UNCHANGED <<mainWindow, authKey, opened, answer>>
          /\ call'[c] \in {"logout", "page"} /\ pc[c] = "free"
          /\ \A d \in Calls : d # c => call'[d] = call[d] /\ pc'[d] = pc[d]
      BY <2>1 DEF OnLogout, OnPage, Start, Base, TypeOK, client, server
    <2>4. \A d \in Calls : call'[d] # "login"
      BY <2>2, <2>3 DEF Alone, LoginAlone
    <2>5. \A d \in Calls : LogoutDone(d) => LogoutDone(d)'
      BY <2>3 DEF LogoutDone
    <2> QED BY <2>2, <2>3, <2>4, <2>5 DEF Alone, LoginAlone, WindowKeyed
  <1>3. CASE CloseMainWindow \/ Subscribe \/ SubscriptionExpires \/ SubscriptionBreaks
             \/ ServerExpires
    <2>1. UNCHANGED <<mainWindow, authKey, opened, pc, call, key, answer, crossed>>
      BY <1>3 DEF CloseMainWindow, Subscribe, SubscriptionExpires, SubscriptionBreaks,
                  ServerExpires, calls, server, client
    <2> QED BY <2>1 DEF Alone, LoginAlone, WindowKeyed, LogoutDone
  <1> QED BY <1>1, <1>2, <1>3 DEF UserStep

-----------------------------------------------------------------------------
(* The theorems.                                                           *)

LEMMA InitIsGood == Init => IInv
  <1> SUFFICES ASSUME Init PROVE IInv
    OBVIOUS
  <1>1. 0 \in Keys /\ 0 <= 0
    BY SessionsAssumption DEF Keys
  <1>2. events = <<>> /\ events \in Seq(Event) /\ Len(events) = 0
    BY DEF Init
  <1>3. TypeOK /\ OneWindow
    BY <1>1, <1>2 DEF Init, TypeOK, OneWindow
  <1>4. Stages /\ RepliesMatch
    BY <1>2 DEF Init, Stages, RepliesMatch, Replies
  <1>5. KeysGiven /\ SessionsOver
    BY <1>1, <1>2 DEF Init, KeysGiven, SessionsOver, ExpiryIsReal
  <1>6. LoginAlone /\ WindowKeyed
    BY DEF Init, LoginAlone, WindowKeyed
  <1> QED BY <1>3, <1>4, <1>5, <1>6 DEF IInv, Base, KeysOK, Alone

LEMMA StepKeeps == IInv /\ [Next]_vars => IInv'
  <1> SUFFICES ASSUME IInv, [Next]_vars PROVE IInv'
    OBVIOUS
  <1>0. Base /\ KeysOK /\ (~crossed => Alone)
    BY DEF IInv
  <1> SUFFICES Base' /\ KeysOK' /\ (~crossed' => Alone')
    BY DEF IInv
  <1>1. CASE UNCHANGED vars
    <2>1. UNCHANGED <<mainWindow, loginShown, exited, authKey, thread, isCanceled, subKey, events,
                      pc, call, key, answer, valid, opened, crossed>>
      BY <1>1 DEF vars, client, calls, server
    <2>2. Base'
      BY <1>0, <2>1 DEF Base, TypeOK, OneWindow, Stages, HasMore, Expires, RepliesMatch
    <2>3. KeysOK'
      BY <1>0, <2>1 DEF KeysOK, KeysGiven, SessionsOver, ExpiryIsReal, Over, Expires
    <2>4. crossed' = crossed /\ (Alone => Alone')
      BY <2>1 DEF Alone, LoginAlone, WindowKeyed, LogoutDone
    <2> QED BY <1>0, <2>2, <2>3, <2>4
  <1>2. CASE \E c \in Calls : CallStep(c)
    <2>1. crossed' = crossed
      BY <1>2
         DEF CallStep, Send, CallFails, LoginOk, LoginLost, LogoutOk, LogoutLost, LogoutServed,
                  LogoutUnauthenticated, PageOk, PageUnauthenticated, WriteKey, ClearKey,
                  EmitExpire, HandleBack, Post, Return
    <2> QED BY <1>0, <1>2, <2>1, CallBase, CallKeys, CallAlone
  <1>3. CASE Slot
    <2>1. crossed' = crossed
      BY <1>0, <1>3, SlotTakes, TakeTypes
    <2> QED BY <1>0, <1>3, <2>1, SlotBase, SlotKeys, SlotAlone
  <1>4. CASE UserStep \/ Subscribe \/ SubscriptionExpires \/ SubscriptionBreaks \/ ServerExpires
    BY <1>0, <1>4, OtherBase, OtherKeys, OtherAlone
  <1> QED BY <1>1, <1>2, <1>3, <1>4 DEF Next

\* The invariant holds in every state: whatever replies and expiries cross,
\* whatever is lost, however the threads' writes of s_authKey mix
\* (info-worker.cpp:1307 and 1334), and however many sessions come one after
\* another.
THEOREM Invariance == Spec => []IInv
  BY InitIsGood, StepKeeps, PTL DEF Spec

\* Every variable has its type.
THEOREM TypeCorrect == Spec => []TypeOK
  BY Invariance, PTL DEF IInv, Base

\* Exactly one of the login dialog and the main window is there.
THEOREM WindowIsOne == Spec => []OneWindow
  BY Invariance, PTL DEF IInv, Base

\* A main window without a key is about to be closed by the reply of the logout
\* that emptied it, unless the last login was started with another login or a
\* logout under way.
THEOREM WindowIsKeyed == Spec => []WindowHasKey
  <1>1. IInv => WindowHasKey
    BY DEF IInv, Alone, WindowKeyed, WindowHasKey, LogoutDone
  <1> QED BY <1>1, Invariance, PTL

\* No expiry on its way is that of a session the server still honours.
THEOREM ExpiriesAreReal == Spec => []ExpiryIsReal
  <1>1. IInv => ExpiryIsReal
    BY DEF IInv, KeysOK, SessionsOver
  <1> QED BY <1>1, Invariance, PTL

\* A session the server honours is ended by no answer about its own key,
\* and, unless logins have crossed, its window only by an answer about an older
\* one.
THEOREM StaleEndsOnly == Spec => OnlyStaleEnds
  <1> DEFINE E == Head(events)
  <1>1. ASSUME IInv, SessionExpire \/ LoggedOut, authKey \in valid
        PROVE  E.key # authKey /\ (mainWindow /\ ~crossed => E.key < authKey)
    <2>1. events # <<>> /\ E = events[1] /\ 1 \in 1..Len(events) /\ Base
      BY <1>1, Taken DEF SessionExpire, LoggedOut, Next1, IInv, Base, TypeOK
    <2>2. E.key \notin valid /\ E.key \in Nat /\ E.key <= opened
      <3>1. CASE SessionExpire
        BY <1>1, <2>1, <3>1, EventKeys
           DEF SessionExpire, Next1, IInv, KeysOK, KeysGiven, SessionsOver, ExpiryIsReal
      <3>2. CASE LoggedOut
        <4> DEFINE c == E.from
        <4>1. /\ c \in Calls /\ call[c] = "logout" /\ answer[c] \in {"ok", "unauthenticated"}
              /\ E.key = key[c]
          BY <2>1, <3>2, HeardCall DEF LoggedOut, Next1, EndsSession, Is
        <4>2. Over(c)
          BY <4>1 DEF Over
        <4> QED BY <1>1, <2>1, <4>1, <4>2, Ranges DEF IInv, KeysOK, KeysGiven, SessionsOver
      <3> QED BY <1>1, <3>1, <3>2
    <2>3. mainWindow /\ ~crossed => authKey = opened
      BY <1>1, <2>1, Ranges DEF IInv, Alone, WindowKeyed
    <2>4. authKey \in Nat /\ opened \in Nat
      BY <2>1, Ranges
    <2> QED BY <1>1, <2>2, <2>3, <2>4
  <1>2. IInv /\ [Next]_vars =>
          [(SessionExpire \/ LoggedOut) /\ authKey \in valid =>
             /\ E.key # authKey
             /\ mainWindow /\ ~crossed => E.key < authKey]_vars
    BY <1>1
  <1> QED BY <1>2, Invariance, PTL DEF Spec, OnlyStaleEnds

\* Each call has one reply: while it is answered its reply, with its name, its
\* answer and its key, waits once among the events (info-worker.cpp:18-26), so
\* that no reply is handled twice, for another call, or for one that was not
\* made.
THEOREM OneReplyEach == Spec => []RepliesMatch
  BY Invariance, PTL DEF IInv, Base

-----------------------------------------------------------------------------
(* How much is lost with a subscription.                                   *)

\* The subscription was stopped, has heard an expiry, or has lost its stream.
Silent == isCanceled \/ thread \in {"looping", "deaf"}

\* No loop runs in a thread that was started since a cancellation.
CanceledIsSilent == isCanceled => thread \notin {"subscribing", "deaf"}

LEMMA CallIsNoThread ==
  ASSUME NEW c \in Calls, CallStep(c)
  PROVE  UNCHANGED <<thread, isCanceled>>
  BY DEF CallStep, Send, CallFails, LoginOk, LoginLost, LogoutOk, LogoutLost, LogoutServed,
         LogoutUnauthenticated, PageOk, PageUnauthenticated, WriteKey, ClearKey, EmitExpire,
         HandleBack, Post, Return, client

\* After the first expiry it hears, the first break of its stream or the first
\* time it is stopped, a close that was refused included, the program never
\* listens to a subscription again, whoever logs in (subscribe-thread.cpp:38,
\* login-dialog.cpp:128 and 490).
THEOREM SilentForGood ==
  Spec => [][Silent => Silent' /\ thread' # "subscribing"]_vars
  <1>1. Init => CanceledIsSilent
    BY DEF Init, CanceledIsSilent
  <1> DEFINE Same == UNCHANGED <<thread, isCanceled>>
  <1>2. ASSUME [Next]_vars
        PROVE  \/ Same
               \/ StartThread /\ UNCHANGED isCanceled
               \/ StopThread
               \/ thread = "started" /\ thread' = AfterStart /\ UNCHANGED isCanceled
               \/ /\ thread = "subscribing" /\ thread' \in {"looping", "deaf"}
                  /\ UNCHANGED isCanceled
    <2>1. CASE UNCHANGED vars
      BY <2>1 DEF vars, client
    <2>2. CASE \E c \in Calls : CallStep(c)
      BY <2>2, CallIsNoThread
    <2>3. CASE UserStep
      BY <2>3 DEF UserStep, OnLogin, OnLogout, OnPage, Start, CloseMainWindow, client
    <2>4. CASE Slot
      BY <2>4 DEF Slot, LoginSucceeded, LoggedOut, OtherReply, SessionExpire
    <2>5. CASE Subscribe
      BY <2>5 DEF Subscribe
    <2>6. CASE SubscriptionExpires \/ SubscriptionBreaks
      BY <2>6 DEF SubscriptionExpires, SubscriptionBreaks
    <2>7. CASE ServerExpires
      BY <2>7 DEF ServerExpires, client
    <2> QED BY <1>2, <2>1, <2>2, <2>3, <2>4, <2>5, <2>6, <2>7 DEF Next
  <1>3. CanceledIsSilent /\ [Next]_vars => CanceledIsSilent'
    BY <1>2 DEF CanceledIsSilent, StartThread, StopThread, AfterStart
  <1>4. CanceledIsSilent /\ [Next]_vars => [Silent => Silent' /\ thread' # "subscribing"]_vars
    BY <1>2 DEF CanceledIsSilent, Silent, StartThread, StopThread, AfterStart
  <1> QED BY <1>1, <1>3, <1>4, PTL DEF Spec
=============================================================================
