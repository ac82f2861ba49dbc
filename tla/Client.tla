------------------------------ MODULE Client ------------------------------
(***************************************************************************)
(* cim::core::Client (core/client.cpp) on top of TcpClient: login, logout,  *)
(* send, the callbacks of the event loop and the one-second timer.          *)
(*                                                                         *)
(* Two threads run this code on the same objects without a lock: the        *)
(* application's (login, logout, sending) and the event loop's (onConnect,  *)
(* onRead, onTimer and all they call).  Here they take turns: a call of the *)
(* application and a callback of the loop run one after the other, so a     *)
(* step may be several lines of a thread's code.  pc is where a thread is;  *)
(* ret is where it goes on once the logout() or the send() it is in has     *)
(* returned.  ClientThreads is the same code when they do not take turns,   *)
(* in steps of one access to what they share; it uses the actions of this   *)
(* module that are such steps, with Serialised FALSE.                       *)
(*                                                                         *)
(* The n-th call of login is attempt n; its TcpClient, its callbacks and    *)
(* its credentials are all named n.                                         *)
(***************************************************************************)
EXTENDS TcpClient

CONSTANTS
    Serialised,      \* no thread enters the client while the other is inside;
                     \* FALSE only under ClientThreads
    Patient,         \* the application waits for the outcome of a connect and
                     \* sends only while it is logged in
    login_time_out,  \* loginConfig.login_time_out
    MaxAge           \* bound: the seconds counted since the last login

ASSUME ClientAssumption ==
    /\ Serialised \in BOOLEAN
    /\ Patient \in BOOLEAN
    /\ login_time_out \in Nat
    /\ MaxAge \in Nat

Threads == {"app", "loop"}
Answers == {"ok", "rejected"}
Results == Answers \cup {"neterr", "timeout"}
Faults  == {"null_client", "null_handle", "dangling_this",
            "assert_connected", "assert_fileno", "assert_found",
            "assert_loop", "assert_reset_len"}

VARIABLES
    login_status_,  \* "Default", "Logining" or "LoginOk"
    tcp_client_,    \* the TcpClient in use, NoConn for nullptr
    login_cb_,      \* the attempt login_cb_, login_timeout_cb_, user_name_ and
                    \* user_pwd_ are of; 0 before the first login
    login_age,      \* seconds since last_login_time_
    logins,         \* login calls the application has made
    abandoned,      \* attempts it has left by calling login or logout again
    results,        \* what each attempt's callbacks have been told
    net,            \* the network's side of each connection
    cred,           \* the attempt whose AUTH_REQ the server got on a connection
    reply,          \* the server's AUTH_RSP on it
    unread,         \* the connections whose AUTH_RSP the loop has yet to read
    pc, ret,        \* control of each thread
    self,           \* the object connect() is running on
    event,          \* the event the loop is handling
    handle,         \* the handle it is about
    held,           \* the loop's own shared_ptr to the object it found
    loop_is_run_,   \* EventLoop::loop_is_run_: its thread has begun to run
    fault           \* what the process has died of, or "none"

clientVars == <<login_status_, tcp_client_, login_cb_, login_age>>
appVars    == <<logins, abandoned, results>>
netVars    == <<net, cred, reply, unread>>
frame      == <<self, event, handle, held, loop_is_run_, fault>>
ctlVars    == <<pc, ret, frame>>
vars       == <<tcpVars, clientVars, appVars, netVars, ctlVars>>

AppPc  == {"prepare", "connect", "open", "giveup", "register"}
LoopPc == {"find", "status", "started", "shut", "notify", "auth", "answer", "done"}
Pc     == {"idle", "close", "sleep", "check", "write"} \cup AppPc \cup LoopPc
Events == {"none", "connect_ok", "connect_err", "read", "eof", "timer"}

ClientTypeOK ==
    /\ login_status_ \in {"Default", "Logining", "LoginOk"}
    /\ tcp_client_ \in Conns \cup {NoConn}
    /\ login_cb_ \in Conns \cup {0}
    /\ login_age \in 0 .. MaxAge
    /\ logins \in Conns \cup {0}
    /\ abandoned \subseteq Conns
    /\ results \in [Conns -> SUBSET Results]
    /\ net \in [Conns -> {"none", "syn", "up", "refused", "lost"}]
    /\ cred \in [Conns -> Conns \cup {0}]
    /\ reply \in [Conns -> Answers \cup {"none"}]
    /\ unread \subseteq Conns
    /\ pc \in [Threads -> Pc] /\ pc["app"] \notin LoopPc /\ pc["loop"] \notin AppPc
    /\ ret \in [Threads -> Pc] /\ ret["app"] \notin LoopPc /\ ret["loop"] \notin AppPc
    /\ self \in Conns \cup {NoConn}
    /\ event \in Events
    /\ handle \in Conns \cup {NoConn}
    /\ held \in Conns \cup {NoConn}
    /\ loop_is_run_ \in BOOLEAN
    /\ fault \in Faults \cup {"none"}

\* Every variable has its type.
TypeOK == TcpTypeOK /\ ClientTypeOK

\* Client::Client: nothing is connected, and the loop's thread has yet to begin.
ClientInit ==
    /\ TcpInit
    /\ login_status_ = "Default" /\ tcp_client_ = NoConn
    /\ login_cb_ = 0 /\ login_age = 0
    /\ logins = 0 /\ abandoned = {} /\ results = [c \in Conns |-> {}]
    /\ net = [c \in Conns |-> "none"]
    /\ cred = [c \in Conns |-> 0]
    /\ reply = [c \in Conns |-> "none"]
    /\ unread = {}
    /\ pc = [t \in Threads |-> "idle"] /\ ret = [t \in Threads |-> "idle"]
    /\ self = NoConn
    /\ event = "none" /\ handle = NoConn /\ held = NoConn
    /\ loop_is_run_ = FALSE /\ fault = "none"

Init == Serialised /\ ClientInit

-----------------------------------------------------------------------------
(* Control *)

Goto(t, p)        == pc' = [pc EXCEPT ![t] = p] /\ UNCHANGED ret
Call(t, p, after) == pc' = [pc EXCEPT ![t] = p] /\ ret' = [ret EXCEPT ![t] = after]

\* The holders of TcpClients besides the registry.
Holders == {tcp_client_, held}

\* What the application knows: the attempt it is on has been accepted, and it
\* has heard of no failure since.
LoggedIn ==
    /\ logins # 0 /\ logins \notin abandoned
    /\ "ok" \in results[logins]
    /\ results[logins] \cap {"rejected", "neterr"} = {}

\* No connect request is pending.
ConnectSettled == \A c \in Conns : uv[c] \notin {"connecting", "cancelling"}

\* What the step thread t is about to take dies of: a null or a dangling
\* pointer, or one of the assertions of tcp_client.cpp.
Broken(t) ==
    {k \in Faults :
       \/ k = "null_client" /\ pc[t] \in {"connect", "check", "write"}
            /\ tcp_client_ = NoConn
       \/ k = "assert_connected" /\ pc[t] = "write" /\ tcp_client_ # NoConn
            /\ connect_status_[tcp_client_] # "ConnectOk"
       \/ k = "dangling_this" /\ pc[t] \in {"open", "giveup", "register"}
            /\ self \notin alive
       \/ k = "null_handle" /\ pc[t] = "register" /\ self \in alive
            /\ ~tcp_handle_[self]
       \/ k = "assert_fileno" /\ pc[t] = "find" /\ ~FilenoOk(handle)
       \/ k = "assert_found" /\ pc[t] = "find" /\ event = "connect_ok"
            /\ FilenoOk(handle) /\ Found(handle) = NoConn
       \/ k = "assert_loop" /\ pc[t] = "open" /\ self \in alive /\ ~loop_is_run_}

\* Thread t is at p and its next step is well defined.
At(t, p) == pc[t] = p /\ fault = "none" /\ Broken(t) = {}

\* Thread t may enter the client; the loop calls back once it runs.
Enter(t) ==
    /\ At(t, "idle")
    /\ t = "loop" => loop_is_run_
    /\ Serialised => \A u \in Threads : pc[u] = "idle"

\* The process dies instead of taking the step.
Crash(t) ==
    /\ fault = "none"
    /\ fault' \in Broken(t)
    /\ UNCHANGED <<tcpVars, clientVars, appVars, netVars, pc, ret, self, event,
                   handle, held, loop_is_run_>>

\* The server's end that bytes written to the descriptor of object o reach: the
\* socket the kernel has under that number now, if its connection is up.
PeerOf(o) == {c \in Conns : FilenoOk(c) /\ kfd[c] = sock_fd_[o] /\ net[c] = "up"}

Peer == PeerOf(tcp_client_)

-----------------------------------------------------------------------------
(* Calls of the application *)

\* Client::login up to its call of logout().
Login ==
    /\ Enter("app") /\ logins < MaxLogins
    /\ Patient => ConnectSettled
    /\ abandoned' = IF logins = 0 THEN abandoned ELSE abandoned \cup {logins}
    /\ logins' = logins + 1
    /\ Call("app", "close", "prepare")
    /\ UNCHANGED <<tcpVars, clientVars, results, netVars, frame>>

\* Client::logout called by the application.
Logout ==
    /\ Enter("app") /\ logins # 0
    /\ Patient => ConnectSettled
    /\ abandoned' = abandoned \cup {logins}
    /\ Call("app", "close", "idle")
    /\ UNCHANGED <<tcpVars, clientVars, logins, results, netVars, frame>>

\* ChatManager::sendMessage: Client::send of a chat message.
SendMessage ==
    /\ Enter("app")
    /\ Patient => LoggedIn
    /\ Call("app", "check", "idle")
    /\ UNCHANGED <<tcpVars, clientVars, appVars, netVars, frame>>

\* Seeded fault: login keeps the callbacks it already has.
PrepareKeepsCallbacks ==
    /\ At("app", "prepare")
    /\ login_cb_' = IF login_cb_ = 0 THEN logins ELSE login_cb_
    /\ login_status_' = "Logining" /\ login_age' = 0
    /\ Construct(logins) /\ tcp_client_' = logins
    /\ Goto("app", "connect")
    /\ UNCHANGED <<appVars, netVars, frame>>

\* login, after logout: the callbacks, the status, the credentials, the object.
Prepare ==
    /\ At("app", "prepare")
    /\ login_cb_' = logins
    /\ login_status_' = "Logining"
    /\ login_age' = 0
    /\ IF tcp_client_ = NoConn
       THEN Construct(logins) /\ tcp_client_' = logins
       ELSE UNCHANGED <<tcpVars, tcp_client_>>
    /\ Goto("app", "connect")
    /\ UNCHANGED <<appVars, netVars, frame>>

\* TcpClient::connect is entered, on a plain pointer, and calls close().
Connect ==
    /\ At("app", "connect")
    /\ self' = tcp_client_
    /\ Close(tcp_client_, Holders)
    /\ Goto("app", "open")
    /\ UNCHANGED <<clientVars, appVars, netVars, event, handle, held, loop_is_run_,
                   fault>>

\* connect asserts that the loop runs; uv_tcp_connect starts a request on a
\* descriptor the kernel has free.
Open ==
    /\ At("app", "open")
    /\ \E f \in FreeFds : UvConnect(self, f)
    /\ net' = [net EXCEPT ![self] = "syn"]
    /\ Goto("app", "register")
    /\ UNCHANGED <<clientVars, appVars, cred, reply, unread, frame>>

\* uv_tcp_connect fails.
OpenFails ==
    /\ At("app", "open")
    /\ UvConnectFails(self)
    /\ Goto("app", "giveup")
    /\ UNCHANGED <<clientVars, appVars, netVars, frame>>

\* connect closes the object it could not connect; login ignores its result.
GiveUp ==
    /\ At("app", "giveup")
    /\ Close(self, Holders)
    /\ Goto("app", "idle")
    /\ UNCHANGED <<clientVars, appVars, netVars, frame>>

\* connect notes the descriptor, registers the object and returns.
ConnectReturns ==
    /\ At("app", "register")
    /\ Register(self)
    /\ Goto("app", "idle")
    /\ UNCHANGED <<clientVars, appVars, netVars, frame>>

-----------------------------------------------------------------------------
(* logout() and send(), in either thread *)

\* Seeded fault: logout drops its TcpClient without closing it.
LogoutNoClose(t) ==
    /\ At(t, "close")
    /\ login_status_' = "Default"
    /\ Goto(t, IF tcp_client_ = NoConn THEN ret[t] ELSE "sleep")
    /\ UNCHANGED <<tcpVars, tcp_client_, login_cb_, login_age, appVars, netVars, frame>>

\* logout, up to its sleep.  send(LOGOUT_REQ) is reached only in kLoginOk, which
\* nothing ever assigns to login_status_, and is left out.
LogoutClose(t) ==
    /\ At(t, "close")
    /\ login_status_' = "Default"
    /\ IF tcp_client_ = NoConn
       THEN Goto(t, ret[t]) /\ UNCHANGED tcpVars
       ELSE Goto(t, "sleep") /\ Close(tcp_client_, Holders)
    /\ UNCHANGED <<tcp_client_, login_cb_, login_age, appVars, netVars, frame>>

\* logout, after its sleep: tcp_client_ = nullptr, whatever it is by now.
LogoutDrop(t) ==
    /\ At(t, "sleep")
    /\ tcp_client_' = NoConn
    /\ DropRef({held})
    /\ Goto(t, ret[t])
    /\ UNCHANGED <<login_status_, login_cb_, login_age, appVars, netVars, frame>>

\* send: connStatus() is kConnectOk, or the packet is not sent.
SendCheck(t) ==
    /\ At(t, "check")
    /\ Goto(t, IF connect_status_[tcp_client_] = "ConnectOk" THEN "write" ELSE ret[t])
    /\ UNCHANGED <<tcpVars, clientVars, appVars, netVars, frame>>

\* send: the assertion, and the bytes are written.  The loop sends AUTH_REQ with
\* the credentials, which it has copied in the same callback; the application a
\* chat message, whose way ends here.
SendWrite(t) ==
    /\ At(t, "write")
    /\ cred' = [c \in Conns |-> IF t = "loop" /\ c \in Peer THEN login_cb_ ELSE cred[c]]
    /\ Goto(t, ret[t])
    /\ UNCHANGED <<tcpVars, clientVars, appVars, net, reply, unread, frame>>

-----------------------------------------------------------------------------
(* The event loop *)

\* EventLoop::run, until it is in uv_run.
BeginRun ==
    /\ fault = "none" /\ ~loop_is_run_
    /\ loop_is_run_' = TRUE
    /\ UNCHANGED <<tcpVars, clientVars, appVars, netVars, pc, ret, self, event,
                   handle, held, fault>>

\* libuv runs the callback of event e on handle c, and leaves c in state s.
Dispatch(e, c, s) ==
    /\ Enter("loop")
    /\ event' = e /\ handle' = c
    /\ UvStep(c, s)
    /\ Goto("loop", "find")
    /\ UNCHANGED <<clientVars, appVars, net, cred, reply, self, held, loop_is_run_, fault>>

\* The connection is made (the server may have closed it again since).
PickConnectOk(c) ==
    /\ uv[c] = "connecting" /\ net[c] \in {"up", "lost"}
    /\ Dispatch("connect_ok", c, "connected") /\ UNCHANGED unread

\* onConnect with an error: the connection is refused; or uv_close has cancelled
\* the request (ECANCELED), and the handle is closed.
PickConnectErr(c) ==
    /\ uv[c] = "cancelling" \/ (uv[c] = "connecting" /\ net[c] = "refused")
    /\ Dispatch("connect_err", c, IF uv[c] = "cancelling" THEN "closed" ELSE "connected")
    /\ UNCHANGED unread

\* Seeded fault: onHandleAuthRsp runs on whatever has been read.
PickReadUnchecked(c) ==
    /\ uv[c] = "reading"
    /\ Dispatch("read", c, "reading") /\ unread' = unread \ {c}

\* The AUTH_RSP has arrived.
PickRead(c) ==
    /\ uv[c] = "reading" /\ c \in unread
    /\ Dispatch("read", c, "reading") /\ unread' = unread \ {c}

\* End of file or a read error; libuv stops reading.
PickEof(c) ==
    /\ uv[c] = "reading" /\ net[c] = "lost" /\ c \notin unread
    /\ Dispatch("eof", c, "connected") /\ UNCHANGED unread

\* onMessage on an AUTH_RSP that it discards: one that arrives in two segments,
\* or does not parse where assertions are off.
TornRead(c) ==
    /\ Enter("loop") /\ uv[c] = "reading" /\ c \in unread
    /\ unread' = unread \ {c}
    /\ UNCHANGED <<tcpVars, clientVars, appVars, net, cred, reply, ctlVars>>

\* onMessage's assertion on reset_len fails: on a chat message, on two packets in one
\* segment, on an AUTH_RSP that is torn or does not parse; or, once login_cb_ has
\* been called, on one that is not as the client would encode it (RecvFraming).
AbortMessage ==
    /\ \/ Enter("loop") /\ \E c \in Conns : uv[c] = "reading" /\ net[c] \in {"up", "lost"}
       \/ At("loop", "done") /\ event = "read"
    /\ fault' = "assert_reset_len"
    /\ UNCHANGED <<tcpVars, clientVars, appVars, netVars, pc, ret, self, event,
                   handle, held, loop_is_run_>>

\* findTcpClient, and the branch of onConnect or onRead its result selects.
Find ==
    /\ At("loop", "find")
    /\ held' = Found(handle)
    /\ Goto("loop", IF Found(handle) = NoConn THEN "idle"
                    ELSE CASE event = "connect_ok" -> "status"
                           [] event = "read"       -> "auth"
                           [] OTHER                -> "shut")
    /\ UNCHANGED <<tcpVars, clientVars, appVars, netVars, self, event, handle,
                   loop_is_run_, fault>>

\* The callbacks told of r.
Tell(r) == results' = [c \in Conns |-> IF c = login_cb_ THEN results[c] \cup {r}
                                       ELSE results[c]]

\* onConnect: setConnectionStatus(kConnectOk), whose callback sends AUTH_REQ.
OnConnectOk ==
    /\ At("loop", "status")
    /\ SetStatus(held, "ConnectOk")
    /\ Call("loop", "check", "started")
    /\ UNCHANGED <<clientVars, appVars, netVars, frame>>

\* onConnect: uv_read_start, which fails on a handle that was closed meanwhile.
ReadStart ==
    /\ At("loop", "started")
    /\ UvStep(handle, IF FilenoOk(handle) THEN "reading" ELSE uv[handle])
    /\ Goto("loop", "done")
    /\ UNCHANGED <<clientVars, appVars, netVars, frame>>

\* onConnect with an error, onRead at the end: close, kDisConnected.
Shut ==
    /\ At("loop", "shut")
    /\ Close(held, Holders)
    /\ Goto("loop", "notify")
    /\ UNCHANGED <<clientVars, appVars, netVars, frame>>

\* Seeded fault: the failure is reported and logout() is not called.
OnDisconnectedStaysIn ==
    /\ At("loop", "notify")
    /\ IF login_status_ = "Logining" THEN Tell("neterr") ELSE UNCHANGED results
    /\ Goto("loop", "done")
    /\ UNCHANGED <<tcpVars, clientVars, logins, abandoned, netVars, frame>>

\* onConnectionStatusChanged(kDisConnected): a login still under way fails; then
\* logout().
OnDisconnected ==
    /\ At("loop", "notify")
    /\ IF login_status_ = "Logining" THEN Tell("neterr") ELSE UNCHANGED results
    /\ Call("loop", "close", "done")
    /\ UNCHANGED <<tcpVars, clientVars, logins, abandoned, netVars, frame>>

\* onHandleAuthRsp: a refusal calls logout() first.
OnHandleAuthRsp ==
    /\ At("loop", "auth")
    /\ IF reply[handle] = "ok" THEN Goto("loop", "answer")
                               ELSE Call("loop", "close", "answer")
    /\ UNCHANGED <<tcpVars, clientVars, appVars, netVars, frame>>

\* Seeded fault: an accepted login enters kLoginOk, and nothing else is changed.
AnswerEntersLoginOk ==
    /\ At("loop", "answer")
    /\ Tell(reply[handle])
    /\ login_status_' = IF reply[handle] = "ok" THEN "LoginOk" ELSE login_status_
    /\ Goto("loop", "done")
    /\ UNCHANGED <<tcpVars, tcp_client_, login_cb_, login_age, logins, abandoned,
                   netVars, frame>>

\* onHandleAuthRsp: login_cb_(rsp).
Answer ==
    /\ At("loop", "answer")
    /\ Tell(reply[handle])
    /\ Goto("loop", "done")
    /\ UNCHANGED <<tcpVars, clientVars, logins, abandoned, netVars, frame>>

\* The callback returns to libuv and its shared_ptr goes.
Return ==
    /\ At("loop", "done")
    /\ held' = NoConn
    /\ DropRef({tcp_client_})
    /\ Goto("loop", "idle")
    /\ UNCHANGED <<clientVars, appVars, netVars, self, event, handle, loop_is_run_,
                   fault>>

\* The age one second later.
NextAge == IF login_age < MaxAge THEN login_age + 1 ELSE MaxAge

\* Seeded fault: the login limit is looked at in the wrong state.
TimedOutWhenLoggedIn(age) == login_status_ = "LoginOk" /\ age > login_time_out % 65536

\* onTimer compares seconds with the limit, narrowed to 16 bits.
TimedOut(age) == login_status_ = "Logining" /\ age > login_time_out % 65536

\* Client::onTimer, once a second.  last_recv_time_ is never assigned, so in
\* kLoginOk the keep-alive limit is always exceeded.
OnTimer ==
    /\ Enter("loop")
    /\ login_age' = NextAge
    /\ IF TimedOut(NextAge) THEN Tell("timeout") ELSE UNCHANGED results
    /\ IF login_status_ = "LoginOk" THEN Call("loop", "close", "done") /\ event' = "timer"
                                    ELSE UNCHANGED <<pc, ret, event>>
    /\ UNCHANGED <<tcpVars, login_status_, tcp_client_, login_cb_, logins, abandoned,
                   netVars, self, handle, held, loop_is_run_, fault>>

-----------------------------------------------------------------------------
(* The network and the server *)

NetStep(c, from, to) ==
    /\ fault = "none" /\ net[c] = from
    /\ net' = [net EXCEPT ![c] = to]
    /\ UNCHANGED <<tcpVars, clientVars, appVars, cred, reply, unread, ctlVars>>

Establish(c) == NetStep(c, "syn", "up")
Refuse(c)    == NetStep(c, "syn", "refused")
Lose(c)      == NetStep(c, "up", "lost")

\* The server answers the AUTH_REQ it has received on c.
ServerReply(c) ==
    /\ fault = "none"
    /\ cred[c] # 0 /\ reply[c] = "none" /\ net[c] = "up"
    /\ \E r \in Answers : reply' = [reply EXCEPT ![c] = r]
    /\ unread' = unread \cup {c}
    /\ UNCHANGED <<tcpVars, clientVars, appVars, net, cred, ctlVars>>

-----------------------------------------------------------------------------
Shared(t) == LogoutClose(t) \/ LogoutDrop(t) \/ SendCheck(t) \/ SendWrite(t)

\* The application goes on with the call it is in.
AppStep == Prepare \/ Connect \/ Open \/ OpenFails \/ GiveUp \/ ConnectReturns
           \/ Shared("app")

\* The loop goes on with the callback it is in.
LoopStep == BeginRun \/ Find \/ OnConnectOk \/ ReadStart \/ Shut \/ OnDisconnected
            \/ OnHandleAuthRsp \/ Answer \/ Return \/ Shared("loop")

\* An event of handle c is dispatched.
Pick(c) == PickConnectOk(c) \/ PickConnectErr(c) \/ PickRead(c) \/ PickEof(c)
           \/ TornRead(c)

Network(c) == Establish(c) \/ Refuse(c) \/ Lose(c) \/ ServerReply(c)

Next ==
    \/ Login \/ Logout \/ SendMessage \/ AppStep
    \/ LoopStep \/ OnTimer \/ AbortMessage
    \/ \E c \in Conns : Pick(c) \/ Network(c)
    \/ \E t \in Threads : Crash(t)

\* Both threads run, libuv gets to every ready handle and to the timer in every
\* iteration.  The application, the network and the server owe nothing.
Fairness ==
    /\ WF_vars(AppStep \/ Crash("app")) /\ WF_vars(LoopStep \/ Crash("loop"))
    /\ SF_vars(OnTimer)
    /\ \A c \in Conns : SF_vars(Pick(c))

Spec == Init /\ [][Next]_vars /\ Fairness
=============================================================================
