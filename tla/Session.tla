------------------------------- MODULE Session -------------------------------
(***************************************************************************)
(* The life of a login: LoginDialog (the GUI thread), the calls that       *)
(* InfoWorker runs on threads of the Qt pool, SubscribeThread, and the     *)
(* server, which is external.                                              *)
(*                                                                         *)
(* The n-th session the server opens has key n; key 0 is the empty         *)
(* s_authKey.  Whatever another thread sends the GUI thread, signals and   *)
(* finished futures alike, goes through its one queue of posted events.    *)
(***************************************************************************)
EXTENDS Naturals, Sequences

CONSTANTS
  Calls,       \* slots for calls in flight
  MaxSessions  \* bound: sessions the server opens

ASSUME SessionsAssumption == MaxSessions \in Nat

VARIABLES
  mainWindow,  \* LoginDialog::m_mainWindow is not null
  loginShown,  \* the login dialog is visible
  exited,      \* the main window's close was accepted
  authKey,     \* s_authKey
  thread,      \* m_thread, and where SubscribeThread::subscribe is in it
  isCanceled,  \* SubscribeThread::m_isCanceled
  subKey,      \* the key the subscription's stream was opened with, while there is one
  events,      \* the events posted to the GUI thread, oldest first
  pc,          \* each call: in the pool's queue, on the wire, back at its thread,
               \* done but for its reply, answered
  call,        \* which of the client's calls it is
  key,         \* the key it carries, then the one its answer is about
  answer,      \* what came back
  valid,       \* server: the sessions it honours
  opened,      \* server: how many sessions it has opened
  crossed      \* history: the last login was started with a login or a logout
               \* under way

server == <<valid, opened>>
client == <<mainWindow, loginShown, exited, thread, isCanceled, subKey>>
calls  == <<pc, call, key, answer>>
vars   == <<client, authKey, events, calls, server, crossed>>

Keys    == 0..MaxSessions
Names   == {"login", "logout", "page"}
Answers == {"ok", "unauthenticated", "error"}
SUB     == "subscription"  \* the sender of the subscription's events

Expire(from, k)     == [type |-> "expire", from |-> from, name |-> "", answer |-> "", key |-> k]
Reply(c, n, ans, k) == [type |-> "reply", from |-> c, name |-> n, answer |-> ans, key |-> k]

Event == [type : {"expire", "reply"}, from : Calls \cup {SUB}, name : Names \cup {""},
          answer : Answers \cup {""}, key : Keys]

TypeOK ==
  /\ mainWindow \in BOOLEAN /\ loginShown \in BOOLEAN /\ exited \in BOOLEAN
  /\ authKey \in Keys /\ subKey \in Keys
  /\ thread \in {"off", "started", "subscribing", "deaf", "looping"}
  /\ isCanceled \in BOOLEAN
  /\ events \in Seq(Event)
  /\ pc \in [Calls -> {"free", "queued", "wire", "back", "done", "answered"}]
  /\ call \in [Calls -> Names \cup {"none"}]
  /\ key \in [Calls -> Keys]
  /\ answer \in [Calls -> Answers \cup {"none"}]
  /\ valid \subseteq 1..opened
  /\ opened \in Keys
  /\ crossed \in BOOLEAN

Init ==
  /\ mainWindow = FALSE /\ loginShown = TRUE /\ exited = FALSE
  /\ authKey = 0 /\ subKey = 0
  /\ thread = "off" /\ isCanceled = FALSE
  /\ events = <<>>
  /\ pc = [c \in Calls |-> "free"]
  /\ call = [c \in Calls |-> "none"]
  /\ key = [c \in Calls |-> 0]
  /\ answer = [c \in Calls |-> "none"]
  /\ valid = {} /\ opened = 0
  /\ crossed = FALSE

-----------------------------------------------------------------------------
(* Starting a call: RPC_ASYNC hands it to the pool.                        *)

Start(c, n) ==
  /\ pc[c] = "free" /\ ~exited
  /\ pc' = [pc EXCEPT ![c] = "queued"]
  /\ call' = [call EXCEPT ![c] = n]
  /\ UNCHANGED <<client, authKey, events, key, answer, server>>

\* LoginDialog::onLogin, the licence being active and the fields filled in.
\* The button stays enabled: a second click starts a second login.
OnLogin(c) ==
  /\ loginShown /\ Start(c, "login")
  /\ crossed' = (\E d \in Calls : call[d] \in {"login", "logout"})

\* LoginDialog::onLogout, from the menu or after a change of password.
OnLogout(c) == mainWindow /\ Start(c, "logout") /\ UNCHANGED crossed

\* Any other call: a button of a page or its refresh timer.
OnPage(c) == mainWindow /\ Start(c, "page") /\ UNCHANGED crossed

-----------------------------------------------------------------------------
(* A call on its pool thread.  Between any two of its steps other threads  *)
(* read and write s_authKey, and the GUI thread turns.                     *)

\* get_rpc_channel succeeded; the call takes the key of this moment.  Login
\* adds no key.
Send(c) ==
  /\ pc[c] = "queued"
  /\ pc' = [pc EXCEPT ![c] = "wire"]
  /\ key' = [key EXCEPT ![c] = IF call[c] = "login" THEN 0 ELSE authKey]
  /\ UNCHANGED <<client, authKey, events, call, answer, server, crossed>>

MutExpires(c, ans) == call[c] = "page" /\ ans # "ok"
\* RPC_IMPL: of all the codes only ErrUnauthenticated is an expiry.
Expires(c, ans) == call[c] = "page" /\ ans = "unauthenticated"

\* The thread has something to do before it ends with this answer: s_authKey
\* to write, or sessinoExpire to emit.
HasMore(c, ans) == (call[c] \in {"login", "logout"} /\ ans = "ok") \/ Expires(c, ans)

\* The call returns to its thread with ans, which is about the key k.  That of
\* a page that does not expire is of no more interest.
Return(c, ans, k) ==
  /\ pc' = [pc EXCEPT ![c] = IF HasMore(c, ans) THEN "back" ELSE "done"]
  /\ answer' = [answer EXCEPT ![c] = ans]
  /\ key' = [key EXCEPT ![c] = IF call[c] = "page" /\ ~Expires(c, ans) THEN 0 ELSE k]
  /\ UNCHANGED <<client, authKey, events, call, crossed>>

\* No channel, a deadline or another failure.
CallFails(c) ==
  /\ pc[c] \in {"queued", "wire"}
  /\ Return(c, "error", key[c])
  /\ UNCHANGED server

\* The server opens one session more.
OpenSession ==
  /\ opened < MaxSessions /\ opened' = opened + 1
  /\ valid' = valid \cup {opened + 1}

\* _login: the server opens a session.
LoginOk(c) ==
  /\ pc[c] = "wire" /\ call[c] = "login"
  /\ OpenSession
  /\ Return(c, "ok", opened + 1)

\* The server did it, the client only sees the deadline pass.
LoginLost(c) ==
  /\ pc[c] = "wire" /\ call[c] = "login"
  /\ OpenSession
  /\ Return(c, "error", key[c])

\* _logout: the server closes the session of the key that was sent.
LogoutServed(c, ans) ==
  /\ pc[c] = "wire" /\ call[c] = "logout" /\ key[c] \in valid
  /\ valid' = valid \ {key[c]}
  /\ Return(c, ans, key[c])
  /\ UNCHANGED opened

LogoutOk(c)   == LogoutServed(c, "ok")
LogoutLost(c) == LogoutServed(c, "error")

\* The server answers ErrUnauthenticated to a key it does not honour.
Refused(c) == key[c] \notin valid

LogoutUnauthenticated(c) ==
  /\ pc[c] = "wire" /\ call[c] = "logout" /\ Refused(c)
  /\ Return(c, "unauthenticated", key[c])
  /\ UNCHANGED server

PageOk(c) ==
  /\ pc[c] = "wire" /\ call[c] = "page" /\ ~Refused(c)
  /\ Return(c, "ok", key[c])
  /\ UNCHANGED server

PageUnauthenticated(c) ==
  /\ pc[c] = "wire" /\ call[c] = "page" /\ Refused(c)
  /\ Return(c, "unauthenticated", key[c])
  /\ UNCHANGED server

\* What the thread does with the answer, before its reply.
HandleBack(c, name) ==
  /\ pc[c] = "back" /\ call[c] = name
  /\ pc' = [pc EXCEPT ![c] = "done"]
  /\ UNCHANGED <<client, call, key, answer, server, crossed>>

\* _login: s_authKey takes the key that came back, whichever key it holds by now.
WriteKey(c) ==
  /\ HandleBack(c, "login")
  /\ authKey' = key[c]
  /\ UNCHANGED events

\* _logout: s_authKey is emptied, whichever key it holds by now.
ClearKey(c) ==
  /\ HandleBack(c, "logout")
  /\ authKey' = 0
  /\ UNCHANGED events

\* sessinoExpire is emitted; the signal says nothing of the key.
EmitExpire(c) ==
  /\ HandleBack(c, "page")
  /\ events' = Append(events, Expire(c, key[c]))
  /\ UNCHANGED authKey

MutPost(c) ==
  /\ pc[c] = "done"
  /\ pc' = [pc EXCEPT ![c] = "answered"]
  /\ events' = IF answer[c] = "error" THEN events
               ELSE Append(events, Reply(c, call[c], answer[c], key[c]))
  /\ UNCHANGED <<client, authKey, call, key, answer, server, crossed>>
\* The future is finished, and its watcher told.
Post(c) ==
  /\ pc[c] = "done"
  /\ pc' = [pc EXCEPT ![c] = "answered"]
  /\ events' = Append(events, Reply(c, call[c], answer[c], key[c]))
  /\ UNCHANGED <<client, authKey, call, key, answer, server, crossed>>

-----------------------------------------------------------------------------
(* SubscribeThread.                                                        *)

\* The loop runs unless it is already canceled; then the thread is left in
\* its event loop.
AfterStart == IF isCanceled THEN "looping" ELSE "subscribing"

Subscribe ==
  /\ thread = "started"
  /\ thread' = AfterStart
  /\ subKey' = IF isCanceled THEN 0 ELSE authKey
  /\ UNCHANGED <<mainWindow, loginShown, exited, isCanceled, authKey, events,
                 calls, server, crossed>>

\* UserSessionExpire arrives: the signal is posted, the loop is left, and the
\* thread goes on in its event loop.
SubscriptionExpires ==
  /\ thread = "subscribing" /\ subKey \notin valid
  /\ events' = Append(events, Expire(SUB, subKey))
  /\ thread' = "looping" /\ subKey' = 0
  /\ UNCHANGED <<mainWindow, loginShown, exited, isCanceled, authKey,
                 calls, server, crossed>>

\* The stream breaks: the loop spins on, and hears nothing any more.
SubscriptionBreaks ==
  /\ thread = "subscribing"
  /\ thread' = "deaf" /\ subKey' = 0
  /\ UNCHANGED <<mainWindow, loginShown, exited, isCanceled, authKey, events,
                 calls, server, crossed>>

-----------------------------------------------------------------------------
(* Slots of LoginDialog, run for the oldest posted event.                  *)

Next1(type) == events # <<>> /\ ~exited /\ Head(events).type = type

\* A reply also ends its call.
Take ==
  /\ events' = Tail(events)
  /\ LET c == Head(events).from IN
     IF Head(events).type = "reply"
       THEN /\ pc' = [pc EXCEPT ![c] = "free"]
            /\ call' = [call EXCEPT ![c] = "none"]
            /\ key' = [key EXCEPT ![c] = 0]
            /\ answer' = [answer EXCEPT ![c] = "none"]
       ELSE UNCHANGED calls
  /\ UNCHANGED <<authKey, server, exited, crossed>>

Is(name, answers) == Head(events).name = name /\ Head(events).answer \in answers

\* QThread::start does nothing for a thread that runs.
StartThread == thread' = IF thread = "off" THEN "started" ELSE thread

\* if (m_thread->isRunning()) { cancel(); quit(); wait(); }
StopThread ==
  IF thread = "off" THEN UNCHANGED <<thread, isCanceled, subKey>>
  ELSE thread' = "off" /\ isCanceled' = TRUE /\ subKey' = 0

MutShowLogin == mainWindow' = FALSE /\ UNCHANGED loginShown
ShowLogin == mainWindow' = FALSE /\ loginShown' = TRUE

\* getLoginResult, ok.
LoginSucceeded ==
  /\ Next1("reply") /\ Is("login", {"ok"})
  /\ StartThread /\ UNCHANGED <<isCanceled, subKey>>
  /\ mainWindow' = TRUE
  /\ loginShown' = (loginShown /\ mainWindow)
  /\ Take

MutEndsSession == Is("logout", {"unauthenticated"})
\* getLogoutResult: ok and UNAUTHENTICATED both end the session.
EndsSession == Is("logout", {"ok", "unauthenticated"})

LoggedOut ==
  /\ Next1("reply") /\ EndsSession
  /\ ShowLogin
  /\ UNCHANGED <<thread, isCanceled, subKey>>
  /\ Take

\* A failed login or logout, or the reply to a page.
OtherReply ==
  /\ Next1("reply") /\ ~Is("login", {"ok"}) /\ ~EndsSession
  /\ UNCHANGED <<mainWindow, loginShown, thread, isCanceled, subKey>>
  /\ Take

\* sessionExpire.
SessionExpire ==
  /\ Next1("expire")
  /\ ShowLogin
  /\ StopThread
  /\ Take

\* eventFilter, QEvent::Close of the main window: the subscription is stopped
\* first, then the close is refused while the pool has an active thread.
CloseMainWindow ==
  /\ mainWindow /\ ~exited
  /\ StopThread
  /\ exited' = (\A c \in Calls : pc[c] \in {"free", "answered"})
  /\ UNCHANGED <<mainWindow, loginShown, authKey, events, calls, server, crossed>>

-----------------------------------------------------------------------------
\* The server drops a session.
ServerExpires ==
  /\ \E k \in valid : valid' = valid \ {k}
  /\ UNCHANGED <<client, authKey, events, calls, opened, crossed>>

CallStep(c) ==
  \/ Send(c) \/ CallFails(c) \/ LoginOk(c) \/ LoginLost(c)
  \/ LogoutOk(c) \/ LogoutLost(c) \/ LogoutUnauthenticated(c)
  \/ PageOk(c) \/ PageUnauthenticated(c)
  \/ WriteKey(c) \/ ClearKey(c) \/ EmitExpire(c) \/ Post(c)

Slot == LoginSucceeded \/ LoggedOut \/ OtherReply \/ SessionExpire

UserStep ==
  \/ \E c \in Calls : OnLogin(c) \/ OnLogout(c) \/ OnPage(c)
  \/ CloseMainWindow

Next ==
  \/ UserStep \/ Slot
  \/ \E c \in Calls : CallStep(c)
  \/ Subscribe \/ SubscriptionExpires \/ SubscriptionBreaks
  \/ ServerExpires

Spec == Init /\ [][Next]_vars

\* Calls have a deadline, the event loop turns, the thread that was started
\* runs.  Nothing is assumed of the user or of the server's sessions.
FairSpec ==
  /\ Spec
  /\ \A c \in Calls : WF_vars(CallStep(c))
  /\ WF_vars(Slot) /\ WF_vars(Subscribe)

-----------------------------------------------------------------------------
(* Properties.                                                             *)

\* The login dialog and the main window are never both on the screen, nor
\* both gone, whatever replies and expiries cross (login-dialog.cpp:480-566).
OneWindow == loginShown <=> ~mainWindow

\* A main window without a key is about to close: the reply of the logout
\* that emptied s_authKey is not handled yet.  It may fail once a login has been
\* started with another login or a logout under way: of two logins and a logout
\* the logout's thread may clear s_authKey before the second login's reply
\* opens a window.  It holds again from the next login started alone.
WindowHasKey ==
  mainWindow /\ authKey = 0 /\ ~crossed =>
    \E c \in Calls : call[c] = "logout" /\ answer[c] = "ok" /\ pc[c] \in {"done", "answered"}

\* Every session expiry on its way to LoginDialog is that of a key the server
\* no longer honours: a failed or late call never passes for an expiry.
ExpiryIsReal ==
  \A i \in 1..Len(events) : events[i].type = "expire" => events[i].key \notin valid

\* A session the server still honours, with its key in s_authKey, is ended by
\* no answer to a call that carried that key; and unless logins have crossed,
\* the window is closed over it only by the late answer to a call of an
\* earlier session.
OnlyStaleEnds ==
  [][(SessionExpire \/ LoggedOut) /\ authKey \in valid =>
       /\ Head(events).key # authKey
       /\ mainWindow /\ ~crossed => Head(events).key < authKey]_vars

\* An expiry that was posted brings the login dialog back.
ExpiryShowsLogin ==
  (\E i \in 1..Len(events) : events[i].type = "expire") ~> (loginShown \/ exited)

\* Every login, logout or page call is answered in the GUI thread, so that the
\* wait cursor of onLogin and onLogout goes away.
CallAnswered == \A c \in Calls : pc[c] = "queued" ~> (pc[c] = "free" \/ exited)

-----------------------------------------------------------------------------
(* What comments and messages of the program say and the code does not     *)
(* keep.                                                                   *)

\* getLoginResult starts m_thread for "the subscription function"
\* (login-dialog.cpp:489): a started subscription listens.
SubscriptionListens == [][Subscribe => thread' = "subscribing"]_vars
=============================================================================
