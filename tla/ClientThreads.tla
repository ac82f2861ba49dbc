---------------------------- MODULE ClientThreads ----------------------------
(***************************************************************************)
(* Client when the application's thread and the event loop's do not take    *)
(* turns: client.cpp and tcp_client.cpp have no lock, so either thread may  *)
(* be anywhere while the other goes on.                                     *)
(*                                                                         *)
(* A step is one access to what both threads use: login_status_, the        *)
(* callbacks, the credentials, tcp_client_, the fields of a TcpClient,      *)
(* g_conn_map, a call into libuv or of send(2).  Two writes are one step    *)
(* where nothing the other thread does tells them apart.  Of each access    *)
(* the model takes that it is atomic: the data race within it (the buckets  *)
(* of g_conn_map, the two words of a shared_ptr, libuv's queues) is left    *)
(* out.  kLoginOk, which nothing assigns, is left out as well.              *)
(*                                                                         *)
(* Object o's destructor is run by the thread that drops the last           *)
(* reference to it, in the middle of whatever that thread was doing.        *)
(***************************************************************************)
EXTENDS ClientProperties

\* The kernel may give out descriptor 0, which is also what sock_fd_ is until
\* connect() has asked for it.
ASSUME ThreadsAssumption == 0 \in Fds

VARIABLES
    user_,    \* the attempt user_name_ and user_pwd_ are of
    copied,   \* the attempt whose credentials the loop's AUTH_REQ has
    obj,      \* this, of the close() or the TcpClient::send() a thread is in
    after,    \* where a thread goes on when close() returns
    dying,    \* the object whose destructor a thread runs, or NoConn
    stage     \* how far it has got

extraVars  == <<user_, copied, obj, after, dying, stage>>
callVars   == <<obj, after>>
deathVars  == <<dying, stage>>
threadVars == <<vars, extraVars>>

ClosePc    == {"handle", "uv_close", "unset", "erase", "closed"}
LogoutPc   == {"close", "test", "use", "sleep"}
SendPc     == {"check", "write", "put"}
SharedPc   == {"idle"} \cup ClosePc \cup LogoutPc \cup SendPc
LoginPc    == {"prepare", "name", "object", "connect", "alloc", "init", "request",
               "fileno", "enter", "log", "giveup"}
CallbackPc == {"find", "status", "copy", "started", "shut", "notify", "tell", "auth",
               "answer", "late", "done"}
ThreadFaults == Faults \cup {"closing_handle"}

\* Every variable has its type.
ThreadsTypeOK ==
    /\ TcpTypeOK
    /\ login_status_ \in {"Default", "Logining"}
    /\ {tcp_client_, login_cb_, logins, self, handle, held, user_, copied}
          \subseteq Conns \cup {NoConn}
    /\ login_age \in 0 .. MaxAge
    /\ abandoned \subseteq Conns /\ unread \subseteq Conns
    /\ results \in [Conns -> SUBSET Results]
    /\ net \in [Conns -> {"none", "syn", "up", "refused", "lost"}]
    /\ cred \in [Conns -> Conns \cup {NoConn}]
    /\ reply \in [Conns -> Answers \cup {"none"}]
    /\ pc["app"] \in SharedPc \cup LoginPc /\ pc["loop"] \in SharedPc \cup CallbackPc
    /\ DOMAIN pc = Threads
    /\ ret \in [Threads -> {"idle", "prepare", "started", "answer", "done"}]
    /\ event \in Events
    /\ loop_is_run_ \in BOOLEAN
    /\ fault \in ThreadFaults \cup {"none"}
    /\ obj \in [Threads -> Conns \cup {NoConn}]
    /\ after \in [Threads -> {"idle", "alloc", "sleep", "notify"}]
    /\ dying \in [Threads -> Conns \cup {NoConn}]
    /\ stage \in [Threads -> {"none", "handle", "erase"}]

ThreadsInit ==
    /\ ~Serialised /\ ClientInit
    /\ user_ = 0 /\ copied = 0
    /\ obj = [t \in Threads |-> NoConn]
    /\ after = [t \in Threads |-> "idle"]
    /\ dying = [t \in Threads |-> NoConn]
    /\ stage = [t \in Threads |-> "none"]

-----------------------------------------------------------------------------
(* Control *)

\* uv_close on a handle that is not initialised or already closing.
CannotClose(c) == uv[c] \notin UvLive \cup {"init"}

\* What, besides what Broken names, the step thread t is about to take dies of.
Undone(t) ==
    {k \in ThreadFaults :
       \/ k = "null_client" /\ dying[t] = NoConn /\ pc[t] = "use" /\ tcp_client_ = NoConn
       \/ k = "dangling_this" /\ dying[t] = NoConn
            /\ \/ pc[t] \in ClosePc \cup {"put"} /\ obj[t] \notin alive
               \/ pc[t] \in {"alloc", "init", "request", "fileno", "enter", "log"}
                    /\ self \notin alive
       \/ k = "assert_loop" /\ dying[t] = NoConn /\ pc[t] = "alloc" /\ ~loop_is_run_
       \/ k = "null_handle" /\ dying[t] = NoConn
            /\ \/ pc[t] = "uv_close" /\ ~tcp_handle_[obj[t]]
               \/ pc[t] \in {"init", "request", "fileno", "log"} /\ ~tcp_handle_[self]
       \/ k = "closing_handle" /\ dying[t] = NoConn
            /\ \/ pc[t] = "uv_close" /\ CannotClose(obj[t])
               \/ pc[t] = "request" /\ uv[self] # "init"
       \/ k = "closing_handle" /\ stage[t] = "handle" /\ tcp_handle_[dying[t]]
            /\ CannotClose(dying[t])}

\* Thread t, which runs no destructor, is at p and its next step is well defined.
Goes(t, p) == At(t, p) /\ dying[t] = NoConn /\ Undone(t) = {}

\* The process dies instead of taking the step.
Fall(t) ==
    /\ fault = "none"
    /\ fault' \in Undone(t) \cup (IF dying[t] = NoConn THEN Broken(t) ELSE {})
    /\ UNCHANGED <<tcpVars, clientVars, appVars, netVars, pc, ret, self, event,
                   handle, held, loop_is_run_, extraVars>>

\* A step of Client that is one access.
Whole(t, step) == dying[t] = NoConn /\ step /\ UNCHANGED extraVars

\* close() is called on object c; its caller goes on at p.
CallClose(t, c, p) ==
    /\ obj' = [obj EXCEPT ![t] = c] /\ after' = [after EXCEPT ![t] = p]
    /\ Goto(t, "handle")

\* The references left are those of map and of held: the object that has lost
\* its last one, if there is one, is destroyed by thread t.
Unrefer(t, map, refs) ==
    IF Orphans(map, refs) = {} THEN UNCHANGED <<alive, deathVars>>
    ELSE \E c \in Orphans(map, refs) :
            /\ alive' = alive \ {c}
            /\ dying' = [dying EXCEPT ![t] = c]
            /\ stage' = [stage EXCEPT ![t] = "handle"]

-----------------------------------------------------------------------------
(* TcpClient::close *)

\* uv_close on the handle of c: its descriptor is free, and of its connection
\* nothing is left to see.
HangUp(c) ==
    /\ uv' = [uv EXCEPT ![c] = UvClose(c)]
    /\ kfd' = [kfd EXCEPT ![c] = 0]
    /\ net' = [net EXCEPT ![c] = "none"]
    /\ cred' = [cred EXCEPT ![c] = NoConn]
    /\ unread' = unread \ {c}

TestHandle(t) ==
    /\ Goes(t, "handle")
    /\ Goto(t, IF tcp_handle_[obj[t]] THEN "uv_close" ELSE "erase")
    /\ UNCHANGED <<tcpVars, clientVars, appVars, netVars, frame, extraVars>>

CloseHandle(t) ==
    /\ Goes(t, "uv_close")
    /\ HangUp(obj[t])
    /\ Goto(t, "unset")
    /\ UNCHANGED <<connect_status_, tcp_handle_, sock_fd_, g_conn_map, alive,
                   clientVars, appVars, reply, frame, extraVars>>

UnsetHandle(t) ==
    /\ Goes(t, "unset")
    /\ tcp_handle_' = [tcp_handle_ EXCEPT ![obj[t]] = FALSE]
    /\ Goto(t, "erase")
    /\ UNCHANGED <<connect_status_, sock_fd_, g_conn_map, alive, uv, kfd, clientVars,
                   appVars, netVars, frame, extraVars>>

\* The entry goes, whoever it belongs to, and with it perhaps the last reference
\* to an object, this one included.
EraseEntry(t) ==
    /\ Goes(t, "erase")
    /\ g_conn_map' = Erase(g_conn_map, {sock_fd_[obj[t]]})
    /\ Unrefer(t, g_conn_map', Holders)
    /\ Goto(t, "closed")
    /\ UNCHANGED <<connect_status_, tcp_handle_, sock_fd_, uv, kfd, clientVars, appVars,
                   netVars, frame, user_, copied, callVars>>

\* The status is set and close() returns.
CloseReturns(t) ==
    /\ Goes(t, "closed")
    /\ SetStatus(obj[t], "DisConnected")
    /\ Goto(t, after[t])
    /\ obj' = [obj EXCEPT ![t] = NoConn] /\ after' = [after EXCEPT ![t] = "idle"]
    /\ UNCHANGED <<clientVars, appVars, netVars, frame, user_, copied, deathVars>>

CloseStep(t) == TestHandle(t) \/ CloseHandle(t) \/ UnsetHandle(t) \/ EraseEntry(t)
                \/ CloseReturns(t)

\* Seeded fault: the destructor does not call close().
DestroyHandleNever(t) ==
    /\ fault = "none" /\ stage[t] = "handle" /\ Undone(t) = {}
    /\ stage' = [stage EXCEPT ![t] = "erase"]
    /\ UNCHANGED <<vars, user_, copied, callVars, dying>>

\* The same in the destructor of an object, which nothing refers to any more: what
\* the other thread may still be doing with it is undefined already.
DestroyHandle(t) ==
    /\ fault = "none" /\ stage[t] = "handle" /\ Undone(t) = {}
    /\ IF tcp_handle_[dying[t]]
       THEN /\ HangUp(dying[t])
            /\ tcp_handle_' = [tcp_handle_ EXCEPT ![dying[t]] = FALSE]
       ELSE UNCHANGED <<uv, kfd, tcp_handle_, net, cred, unread>>
    /\ stage' = [stage EXCEPT ![t] = "erase"]
    /\ UNCHANGED <<connect_status_, sock_fd_, g_conn_map, alive, clientVars, appVars,
                   reply, ctlVars, user_, copied, callVars, dying>>

\* The entry is erased, and the object's memory is free.
DestroyEntry(t) ==
    /\ fault = "none" /\ stage[t] = "erase"
    /\ connect_status_' = [connect_status_ EXCEPT ![dying[t]] = "Default"]
    /\ sock_fd_' = [sock_fd_ EXCEPT ![dying[t]] = 0]
    /\ g_conn_map' = Erase(g_conn_map, {sock_fd_[dying[t]]})
    /\ IF Orphans(g_conn_map', Holders) = {}
       THEN /\ dying' = [dying EXCEPT ![t] = NoConn] /\ stage' = [stage EXCEPT ![t] = "none"]
            /\ UNCHANGED alive
       ELSE Unrefer(t, g_conn_map', Holders)
    /\ UNCHANGED <<tcp_handle_, uv, kfd, clientVars, appVars, netVars, ctlVars, user_,
                   copied, callVars>>

DestroyStep(t) == DestroyHandle(t) \/ DestroyEntry(t)

-----------------------------------------------------------------------------
(* logout and send *)

LogoutStatus(t) ==
    /\ Goes(t, "close")
    /\ login_status_' = "Default"
    /\ Goto(t, "test")
    /\ UNCHANGED <<tcpVars, tcp_client_, login_cb_, login_age, appVars, netVars, frame,
                   extraVars>>

\* if (tcp_client_) ...
LogoutTest(t) ==
    /\ Goes(t, "test")
    /\ Goto(t, IF tcp_client_ = NoConn THEN ret[t] ELSE "use")
    /\ UNCHANGED <<tcpVars, clientVars, appVars, netVars, frame, extraVars>>

\* ... tcp_client_->close(), whatever it is by now
LogoutUse(t) ==
    /\ Goes(t, "use")
    /\ CallClose(t, tcp_client_, "sleep")
    /\ UNCHANGED <<tcpVars, clientVars, appVars, netVars, frame, user_, copied, deathVars>>

\* After the sleep: tcp_client_ = nullptr, whatever it is by now.
LogoutForget(t) ==
    /\ Goes(t, "sleep")
    /\ tcp_client_' = NoConn
    /\ Unrefer(t, g_conn_map, {held})
    /\ Goto(t, ret[t])
    /\ UNCHANGED <<connect_status_, tcp_handle_, sock_fd_, g_conn_map, uv, kfd,
                   login_status_, login_cb_, login_age, appVars, netVars, frame,
                   user_, copied, callVars>>

\* TcpClient::send is entered on a plain pointer, and its assertion holds.
SendAssert(t) ==
    /\ Goes(t, "write")
    /\ obj' = [obj EXCEPT ![t] = tcp_client_]
    /\ Goto(t, "put")
    /\ UNCHANGED <<tcpVars, clientVars, appVars, netVars, frame, user_, copied, after,
                   deathVars>>

\* ::send on the descriptor: the loop sends the credentials it has copied.
SendPut(t) ==
    /\ Goes(t, "put")
    /\ cred' = [c \in Conns |-> IF t = "loop" /\ c \in PeerOf(obj[t]) THEN copied ELSE cred[c]]
    /\ copied' = IF t = "loop" THEN NoConn ELSE copied
    /\ obj' = [obj EXCEPT ![t] = NoConn]
    /\ Goto(t, ret[t])
    /\ UNCHANGED <<tcpVars, clientVars, appVars, net, reply, unread, frame, user_, after,
                   deathVars>>

SharedStep(t) ==
    \/ CloseStep(t) \/ DestroyStep(t)
    \/ LogoutStatus(t) \/ LogoutTest(t) \/ LogoutUse(t) \/ LogoutForget(t)
    \/ Whole(t, SendCheck(t)) \/ SendAssert(t) \/ SendPut(t)

-----------------------------------------------------------------------------
(* login, after its logout() *)

InstallCallbacks ==
    /\ Goes("app", "prepare")
    /\ login_cb_' = logins /\ login_status_' = "Logining" /\ login_age' = 0
    /\ Call("app", "name", "idle")
    /\ UNCHANGED <<tcpVars, tcp_client_, appVars, netVars, frame, extraVars>>

InstallCredentials ==
    /\ Goes("app", "name")
    /\ user_' = logins
    /\ Goto("app", "object")
    /\ UNCHANGED <<tcpVars, clientVars, appVars, netVars, frame, copied, callVars, deathVars>>

MakeClient ==
    /\ Goes("app", "object")
    /\ IF tcp_client_ = NoConn
       THEN Construct(logins) /\ tcp_client_' = logins
       ELSE UNCHANGED <<tcpVars, tcp_client_>>
    /\ Goto("app", "connect")
    /\ UNCHANGED <<login_status_, login_cb_, login_age, appVars, netVars, frame, extraVars>>

\* connect is entered on a plain pointer, and calls close().
EnterConnect ==
    /\ Goes("app", "connect")
    /\ self' = tcp_client_
    /\ CallClose("app", tcp_client_, "alloc")
    /\ UNCHANGED <<tcpVars, clientVars, appVars, netVars, event, handle, held, loop_is_run_,
                   fault, user_, copied, deathVars>>

\* The assertion on loop_is_run_ holds; tcp_handle_ points to a new handle.
AllocHandle ==
    /\ Goes("app", "alloc")
    /\ tcp_handle_' = [tcp_handle_ EXCEPT ![self] = TRUE]
    /\ Goto("app", "init")
    /\ UNCHANGED <<connect_status_, sock_fd_, g_conn_map, alive, uv, kfd, clientVars,
                   appVars, netVars, frame, extraVars>>

\* uv_tcp_init and kConnecting, which nothing tells from kDisConnected.
InitHandle ==
    /\ Goes("app", "init")
    /\ uv' = [uv EXCEPT ![self] = "init"]
    /\ connect_status_' = [connect_status_ EXCEPT ![self] = "Connecting"]
    /\ Goto("app", "request")
    /\ UNCHANGED <<tcp_handle_, sock_fd_, g_conn_map, alive, kfd, clientVars, appVars,
                   netVars, frame, extraVars>>

\* uv_tcp_connect starts a request on a descriptor the kernel has free, or fails.
RequestConnect ==
    /\ Goes("app", "request")
    /\ \/ /\ \E f \in FreeFds : kfd' = [kfd EXCEPT ![self] = f]
          /\ uv' = [uv EXCEPT ![self] = "connecting"]
          /\ net' = [net EXCEPT ![self] = "syn"]
          /\ Goto("app", "fileno")
       \/ Goto("app", "giveup") /\ UNCHANGED <<uv, kfd, net>>
    /\ UNCHANGED <<connect_status_, tcp_handle_, sock_fd_, g_conn_map, alive, clientVars,
                   appVars, cred, reply, unread, frame, extraVars>>

CloseUnconnected ==
    /\ Goes("app", "giveup")
    /\ CallClose("app", self, "idle")
    /\ UNCHANGED <<tcpVars, clientVars, appVars, netVars, frame, user_, copied, deathVars>>

\* uv_fileno leaves sock_fd_ as it is when the handle is closing; connect does not
\* look at what it returns.
FetchFd ==
    /\ Goes("app", "fileno")
    /\ sock_fd_' = [sock_fd_ EXCEPT ![self] = IF FilenoOk(self) THEN kfd[self] ELSE @]
    /\ Goto("app", "enter")
    /\ UNCHANGED <<connect_status_, tcp_handle_, g_conn_map, alive, uv, kfd, clientVars,
                   appVars, netVars, frame, extraVars>>

\* The object is registered; the entry that was there may have been the last
\* reference to another object.
EnterMap ==
    /\ Goes("app", "enter")
    /\ g_conn_map' = [g_conn_map EXCEPT ![sock_fd_[self]] = self]
    /\ Unrefer("app", g_conn_map', Holders)
    /\ Goto("app", "log")
    /\ UNCHANGED <<connect_status_, tcp_handle_, sock_fd_, uv, kfd, clientVars, appVars,
                   netVars, frame, user_, copied, callVars>>

\* The log line reads tcp_handle_->type, and connect returns.
LogConnect ==
    /\ Goes("app", "log")
    /\ self' = NoConn
    /\ Goto("app", "idle")
    /\ UNCHANGED <<tcpVars, clientVars, appVars, netVars, event, handle, held, loop_is_run_,
                   fault, extraVars>>

LoginStep == InstallCallbacks \/ InstallCredentials \/ MakeClient \/ EnterConnect
             \/ AllocHandle \/ InitHandle \/ RequestConnect \/ CloseUnconnected
             \/ FetchFd \/ EnterMap \/ LogConnect

-----------------------------------------------------------------------------
(* The callbacks of the loop *)

StatusConnected ==
    /\ Goes("loop", "status")
    /\ SetStatus(held, "ConnectOk")
    /\ Goto("loop", "copy")
    /\ UNCHANGED <<clientVars, appVars, netVars, frame, extraVars>>

\* onConnectionStatusChanged fills in AUTH_REQ and calls send.
CopyCredentials ==
    /\ Goes("loop", "copy")
    /\ copied' = user_
    /\ Call("loop", "check", "started")
    /\ UNCHANGED <<tcpVars, clientVars, appVars, netVars, frame, user_, callVars, deathVars>>

ShutHeld ==
    /\ Goes("loop", "shut")
    /\ CallClose("loop", held, "notify")
    /\ UNCHANGED <<tcpVars, clientVars, appVars, netVars, frame, user_, copied, deathVars>>

\* onConnectionStatusChanged(kDisConnected): is a login under way?
LoginFails ==
    /\ Goes("loop", "notify")
    /\ IF login_status_ = "Logining" THEN Goto("loop", "tell") ELSE Call("loop", "close", "done")
    /\ UNCHANGED <<tcpVars, clientVars, appVars, netVars, frame, extraVars>>

\* login_cb_ is told, whoever's it is by now.
TellFailure ==
    /\ Goes("loop", "tell")
    /\ Tell("neterr")
    /\ Call("loop", "close", "done")
    /\ UNCHANGED <<tcpVars, clientVars, logins, abandoned, netVars, frame, extraVars>>

\* onTimer: has a login taken too long?
TimerFires ==
    /\ dying["loop"] = NoConn /\ Enter("loop")
    /\ login_age' = NextAge
    /\ IF TimedOut(NextAge) THEN Goto("loop", "late") ELSE UNCHANGED <<pc, ret>>
    /\ UNCHANGED <<tcpVars, login_status_, tcp_client_, login_cb_, appVars, netVars, frame,
                   extraVars>>

TellTimeout ==
    /\ Goes("loop", "late")
    /\ Tell("timeout")
    /\ Goto("loop", "idle")
    /\ UNCHANGED <<tcpVars, clientVars, logins, abandoned, netVars, frame, extraVars>>

\* The callback returns to libuv and its shared_ptr goes.
CallbackReturns ==
    /\ Goes("loop", "done")
    /\ held' = NoConn /\ event' = "none" /\ handle' = NoConn
    /\ Unrefer("loop", g_conn_map, {tcp_client_})
    /\ Call("loop", "idle", "idle")
    /\ UNCHANGED <<connect_status_, tcp_handle_, sock_fd_, g_conn_map, uv, kfd, clientVars,
                   appVars, netVars, self, loop_is_run_, fault, user_, copied, callVars>>

CallbackStep ==
    \/ Whole("loop", Find \/ ReadStart \/ OnHandleAuthRsp \/ Answer)
    \/ StatusConnected \/ CopyCredentials \/ ShutHeld \/ LoginFails \/ TellFailure
    \/ TellTimeout \/ CallbackReturns

-----------------------------------------------------------------------------
AppMoves  == LoginStep \/ SharedStep("app") \/ Fall("app")
LoopMoves == CallbackStep \/ SharedStep("loop") \/ Fall("loop")
Begins    == BeginRun /\ UNCHANGED extraVars
Picks(c)  == Whole("loop", Pick(c))

Outside(c) == Network(c) /\ UNCHANGED extraVars

ThreadsNext ==
    \/ Whole("app", Login \/ Logout \/ SendMessage)
    \/ AppMoves
    \/ Begins \/ LoopMoves \/ TimerFires \/ Whole("loop", AbortMessage)
    \/ \E c \in Conns : Picks(c) \/ Outside(c)

\* As in Client.
ThreadsFairness ==
    /\ WF_threadVars(AppMoves) /\ WF_threadVars(LoopMoves) /\ WF_threadVars(Begins)
    /\ SF_threadVars(TimerFires)
    /\ \A c \in Conns : SF_threadVars(Picks(c))

ThreadsSpec == ThreadsInit /\ [][ThreadsNext]_threadVars /\ ThreadsFairness

-----------------------------------------------------------------------------
\* No socket is ever lost, however the threads interleave: an open socket belongs
\* to a TcpClient that exists and will close it, or to one whose destructor is
\* about to; and a TcpClient exists exactly as long as tcp_client_, the registry
\* or a running callback refers to it.
SocketOwned ==
    /\ \A c \in Conns : uv[c] \in UvLive =>
          /\ tcp_handle_[c]
          /\ \/ c \in alive
             \/ \E t \in Threads : dying[t] = c /\ stage[t] = "handle"
    /\ \A c \in alive : c \in Holders \/ c \in Range(g_conn_map)
    /\ Holders \cup Range(g_conn_map) \subseteq alive \cup {NoConn}
=============================================================================
