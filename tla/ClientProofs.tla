--------------------------- MODULE ClientProofs ---------------------------
(***************************************************************************)
(* Theorems about Client and ClientThreads, for any number of logins and of *)
(* descriptors.  There are four parts: Client, whose calls and callbacks    *)
(* take turns; Client when the application is patient as well; that Client  *)
(* then implements LoginSession; and ClientThreads, whose threads do not    *)
(* take turns.                                                              *)
(***************************************************************************)
EXTENDS ClientThreads, TLAPS

-----------------------------------------------------------------------------
(* The inductive invariant *)

\* No two open sockets have the same descriptor.
FdOwner ==
    \A c \in Conns : uv[c] \in UvLive =>
        /\ kfd[c] \in Fds
        /\ \A d \in Conns : uv[d] \in UvLive /\ kfd[d] = kfd[c] => d = c

\* An open socket belongs to an object that will close it.
NoLeak == \A c \in Conns : uv[c] \in UvLive => c \in alive /\ tcp_handle_[c]

\* The part about the registry, libuv and the kernel.
TcpSound == RegistrySound /\ FdOwner /\ NoLeak

\* Objects exist exactly as long as someone refers to them.
HolderOK ==
    /\ \A c \in alive : c \in Holders \/ c \in Range(g_conn_map)
    /\ Holders \subseteq alive \cup {NoConn}

\* Thread t is at p, or will be when the call it is in returns.
Reaches(t, p) == pc[t] = p \/ (pc[t] \in {"close", "sleep", "check", "write"} /\ ret[t] = p)

\* What the application's thread relies on between the steps of login.
AppState ==
    /\ ret["app"] \in {"idle", "prepare"}
    /\ Reaches("app", "prepare") => logins # 0
    /\ pc["app"] \in {"open", "register"} =>
           self \in Conns /\ \A f \in Fds : g_conn_map[f] # self
    /\ pc["app"] = "register" /\ tcp_handle_[self] => uv[self] \in UvLive

\* What the loop's thread relies on between the steps of a callback.
LoopState ==
    /\ ret["loop"] \in {"idle", "started", "done", "answer"}
    /\ \A c \in unread : reply[c] \in Answers
    /\ \A p \in {"find", "status", "started", "auth", "answer"} :
           Reaches("loop", p) => handle \in Conns
    /\ Reaches("loop", "idle") \/ pc["loop"] = "find" => held = NoConn
    /\ pc["loop"] \in {"status", "shut"} => held \in Conns
    /\ pc["loop"] = "find" /\ event = "read" => reply[handle] \in Answers
    /\ Reaches("loop", "auth") \/ Reaches("loop", "answer") => reply[handle] \in Answers

IInv == TypeOK /\ TcpSound /\ HolderOK /\ AppState /\ LoopState

-----------------------------------------------------------------------------
(* Steps of the lower layer *)

\* What a thread may assume where its next step is well defined.
LEMMA AtFacts ==
    ASSUME NEW t \in Threads, NEW p, At(t, p)
    PROVE  /\ pc[t] = p
           /\ p \in {"connect", "check", "write"} => tcp_client_ # NoConn
           /\ p \in {"open", "giveup", "register"} => self \in alive
           /\ p = "register" => tcp_handle_[self]
           /\ p = "find" => uv[handle] \in UvLive
<1>1. pc[t] = p /\ Broken(t) = {}
    BY DEF At
<1>2. \A k \in Faults : k \notin Broken(t)
    BY <1>1
<1>3. "null_client" \in Faults /\ "dangling_this" \in Faults /\ "null_handle" \in Faults
      /\ "assert_fileno" \in Faults
    BY DEF Faults
<1>4. p \in {"connect", "check", "write"} => tcp_client_ # NoConn
    BY <1>1, <1>2, <1>3 DEF Broken
<1>5. p \in {"open", "giveup", "register"} => self \in alive
    BY <1>1, <1>2, <1>3 DEF Broken
<1>6. p = "register" => tcp_handle_[self]
    BY <1>1, <1>2, <1>3, <1>5 DEF Broken
<1>7. p = "find" => uv[handle] \in UvLive
    BY <1>1, <1>2, <1>3 DEF Broken, FilenoOk
<1>8. QED BY <1>1, <1>4, <1>5, <1>6, <1>7

\* What Release leaves: entries and objects are only removed, and an object that
\* is left behind is open exactly as it was.
Shrunk(refs) ==
    /\ \A f \in Fds : g_conn_map'[f] \in {NoConn, g_conn_map[f]}
    /\ alive' \subseteq alive
    /\ \A c \in alive : c \in refs => c \in alive'
    /\ \A c \in alive' : c \in refs \/ c \in Range(g_conn_map')
    /\ \A c \in Conns : tcp_handle_'[c] => tcp_handle_[c] /\ uv'[c] = uv[c]
    /\ \A c \in Conns : uv'[c] \in UvLive => uv'[c] = uv[c]
    /\ UNCHANGED <<sock_fd_, kfd>>

\* Destructors only remove, whatever map and holders are left.
LEMMA ReleaseStep ==
    ASSUME TcpTypeOK, TcpSound,
           NEW map \in [Fds -> Conns \cup {NoConn}],
           \A f \in Fds : map[f] \in {NoConn, g_conn_map[f]},
           NEW closed \in SUBSET Conns,
           \A f \in Fds : map[f] \notin closed,
           NEW refs,
           Release(map, refs, closed)
    PROVE  TcpTypeOK' /\ TcpSound' /\ Shrunk(refs)
<1> DEFINE reaped == Reaped(map, refs)
           dead   == Orphans(map, refs) \cup Orphans(reaped, refs)
           gone   == closed \cup dead
<1>1. /\ g_conn_map' = reaped
      /\ alive' = alive \ dead
      /\ uv' = [c \in Conns |-> IF c \in gone /\ tcp_handle_[c] THEN UvClose(c) ELSE uv[c]]
      /\ tcp_handle_' = [c \in Conns |-> tcp_handle_[c] /\ c \notin gone]
      /\ connect_status_' = [c \in Conns |-> IF c \in gone THEN "DisConnected"
                                             ELSE connect_status_[c]]
      /\ UNCHANGED <<sock_fd_, kfd>>
    BY DEF Release
<1>2. /\ reaped \in [Fds -> Conns \cup {NoConn}]
      /\ \A f \in Fds : reaped[f] \in {NoConn, map[f]}
    BY DEF Reaped, Erase
<1>3. dead \subseteq alive /\ gone \subseteq Conns
    BY DEF Orphans, TcpTypeOK
<1>4. \A f \in Fds : reaped[f] \notin gone
    <2>1. SUFFICES ASSUME NEW f \in Fds, reaped[f] \in dead PROVE FALSE
        BY <1>2 DEF Conns, NoConn
    <2>2. reaped[f] = map[f] /\ reaped[f] \in Range(map) /\ reaped[f] \in Range(reaped)
        BY <1>2, <1>3, <2>1 DEF Range, TcpTypeOK, Conns, NoConn
    <2>3. QED BY <2>1, <2>2 DEF Orphans
<1>5. \A c \in Conns : UvClose(c) \in Uv \ UvLive
    BY DEF UvClose, Uv, UvLive
<1>6. TcpTypeOK'
    BY <1>1, <1>2, <1>5 DEF TcpTypeOK, Status
<1>7. \A c \in Conns : uv'[c] \in UvLive => c \notin gone /\ uv'[c] = uv[c]
    BY <1>1, <1>5 DEF TcpSound, NoLeak
<1>8. \A c \in Conns : c \notin gone => uv'[c] = uv[c] /\ tcp_handle_'[c] = tcp_handle_[c]
    BY <1>1 DEF TcpTypeOK
<1>9. RegistrySound'
    <2>1. SUFFICES ASSUME NEW f \in Fds, reaped[f] # NoConn
                   PROVE  /\ reaped[f] \in alive' /\ sock_fd_[reaped[f]] = f
                          /\ kfd[reaped[f]] = f /\ uv'[reaped[f]] \in UvLive
        BY <1>1 DEF RegistrySound
    <2>2. reaped[f] = g_conn_map[f] /\ reaped[f] \in Conns /\ reaped[f] \notin gone
        BY <1>2, <1>4, <2>1
    <2>3. /\ reaped[f] \in alive /\ sock_fd_[reaped[f]] = f
          /\ kfd[reaped[f]] = f /\ uv[reaped[f]] \in UvLive
        BY <2>1, <2>2 DEF TcpSound, RegistrySound
    <2>4. QED BY <1>1, <1>8, <2>2, <2>3
<1>10. FdOwner'
    BY <1>1, <1>7 DEF TcpSound, FdOwner
<1>11. NoLeak'
    BY <1>1, <1>7, <1>8 DEF TcpSound, NoLeak
<1>12. Shrunk(refs)
    <2>1. \A c \in alive : c \in refs => c \in alive'
        BY <1>1 DEF Orphans
    <2>2. \A c \in alive' : c \in refs \/ c \in Range(g_conn_map')
        BY <1>1 DEF Orphans
    <2>3. \A c \in Conns : tcp_handle_'[c] => tcp_handle_[c] /\ uv'[c] = uv[c]
        BY <1>1, <1>8
    <2>4. QED BY <1>1, <1>2, <1>7, <2>1, <2>2, <2>3 DEF Shrunk
<1>13. QED BY <1>6, <1>9, <1>10, <1>11, <1>12 DEF TcpSound

\* close() on an object.
LEMMA CloseKeeps ==
    ASSUME TcpTypeOK, TcpSound, NEW c \in Conns, NEW refs, Close(c, refs)
    PROVE  /\ TcpTypeOK' /\ TcpSound' /\ Shrunk(refs)
           /\ \A f \in Fds : g_conn_map'[f] # c
<1> DEFINE map == Erase(g_conn_map, {sock_fd_[c]})
<1>1. /\ map \in [Fds -> Conns \cup {NoConn}]
      /\ \A f \in Fds : map[f] \in {NoConn, g_conn_map[f]}
    BY DEF Erase, TcpTypeOK
<1>2. \A f \in Fds : map[f] # c
    BY DEF Erase, TcpSound, RegistrySound, Conns, NoConn
<1>3. Release(map, refs, {c})
    BY DEF Close
<1> HIDE DEF map
<1>4. TcpTypeOK' /\ TcpSound' /\ Shrunk(refs)
    BY <1>1, <1>2, <1>3, ReleaseStep
<1>5. \A f \in Fds : g_conn_map'[f] # c
    <2>1. g_conn_map' = Reaped(map, refs)
        BY <1>3 DEF Release
    <2>2. QED BY <1>1, <1>2, <2>1 DEF Reaped, Erase, Conns, NoConn
<1>6. QED BY <1>4, <1>5

\* A shared_ptr is dropped.
LEMMA DropStep ==
    ASSUME TcpTypeOK, TcpSound, NEW refs, DropRef(refs)
    PROVE  TcpTypeOK' /\ TcpSound' /\ Shrunk(refs)
<1>1. /\ g_conn_map \in [Fds -> Conns \cup {NoConn}]
      /\ \A f \in Fds : g_conn_map[f] \in {NoConn, g_conn_map[f]}
    BY DEF TcpTypeOK
<1>2. Release(g_conn_map, refs, {})
    BY DEF DropRef
<1>3. QED BY <1>1, <1>2, ReleaseStep

\* libuv moves a handle among the open states, or leaves it closed.
LEMMA UvMoves ==
    ASSUME TcpTypeOK, TcpSound, NEW c \in Conns, NEW s \in Uv, UvStep(c, s),
           uv[c] \in UvLive <=> s \in UvLive
    PROVE  /\ TcpTypeOK' /\ TcpSound'
           /\ UNCHANGED <<connect_status_, tcp_handle_, sock_fd_, g_conn_map, alive, kfd>>
           /\ \A d \in Conns : uv'[d] \in UvLive <=> uv[d] \in UvLive
<1>1. /\ uv' = [uv EXCEPT ![c] = s]
      /\ UNCHANGED <<connect_status_, tcp_handle_, sock_fd_, g_conn_map, alive, kfd>>
    BY DEF UvStep
<1>2. \A d \in Conns : uv'[d] \in UvLive <=> uv[d] \in UvLive
    BY <1>1 DEF TcpTypeOK
<1>3. TcpTypeOK'
    BY <1>1 DEF TcpTypeOK
<1>4. RegistrySound' /\ FdOwner' /\ NoLeak'
    BY <1>1, <1>2 DEF TcpTypeOK, TcpSound, RegistrySound, FdOwner, NoLeak
<1>5. QED BY <1>1, <1>2, <1>3, <1>4 DEF TcpSound

-----------------------------------------------------------------------------
(* The variables of Client *)

\* The loop's thread begins, or the process dies.
Control == BeginRun \/ AbortMessage \/ \E t \in Threads : Crash(t)

\* Nothing but loop_is_run_ and fault is changed by that.
LEMMA ControlLeaves ==
    ASSUME Control
    PROVE  UNCHANGED <<tcpVars, clientVars, appVars, netVars, pc, ret, self, event, handle,
                       held>>
BY DEF Control, BeginRun, AbortMessage, Crash

\* The two ways onConnect gets an error.
PickRefused(c) ==
    /\ uv[c] = "connecting" /\ net[c] = "refused"
    /\ Dispatch("connect_err", c, "connected") /\ UNCHANGED unread

PickCancelled(c) ==
    /\ uv[c] = "cancelling"
    /\ Dispatch("connect_err", c, "closed") /\ UNCHANGED unread

LEMMA ErrorCases ==
    \A c \in Conns : PickConnectErr(c) => PickRefused(c) \/ PickCancelled(c)
<1> SUFFICES ASSUME NEW c \in Conns, PickConnectErr(c)
             PROVE  PickRefused(c) \/ PickCancelled(c)
    OBVIOUS
<1>1. CASE uv[c] = "cancelling"
    BY <1>1 DEF PickConnectErr, PickCancelled
<1>2. CASE uv[c] # "cancelling"
    BY <1>2 DEF PickConnectErr, PickRefused
<1>3. QED BY <1>1, <1>2

\* The actions of Next, by what they do to the objects and the registry.
Quiet ==
    \/ Login \/ Logout \/ SendMessage \/ Control
    \/ \E t \in Threads : SendCheck(t) \/ SendWrite(t)
    \/ Find \/ OnDisconnected \/ OnHandleAuthRsp \/ Answer \/ OnTimer
    \/ \E c \in Conns : TornRead(c) \/ Network(c)

Picked == \E c \in Conns : PickConnectOk(c) \/ PickRefused(c) \/ PickCancelled(c)
                           \/ PickRead(c) \/ PickEof(c)

\* A step is one of these.
LEMMA NextCases ==
    ASSUME Next
    PROVE  \/ Quiet \/ Picked
           \/ Prepare \/ Connect \/ Open \/ OpenFails \/ GiveUp \/ ConnectReturns
           \/ \E t \in Threads : LogoutClose(t) \/ LogoutDrop(t)
           \/ OnConnectOk \/ ReadStart \/ Shut \/ Return
BY ErrorCases DEF Next, AppStep, LoopStep, Shared, Pick, Quiet, Control, Picked, Threads

\* Quiet steps leave the objects, the registry and libuv as they are.
LEMMA QuietTcp == ASSUME Quiet PROVE UNCHANGED tcpVars
BY ControlLeaves
   DEF Quiet, Login, Logout, SendMessage, SendCheck, SendWrite, Find,
       OnDisconnected, OnHandleAuthRsp, Answer, OnTimer, TornRead, Network,
       Establish, Refuse, Lose, NetStep, ServerReply

\* The types after such a step.
LEMMA TypeAfterControl ==
    ASSUME IInv, Control
    PROVE  ClientTypeOK'
<1>1. loop_is_run_' \in BOOLEAN /\ fault' \in Faults \cup {"none"}
    BY DEF Control, BeginRun, AbortMessage, Crash, Broken, Faults, IInv, TypeOK, ClientTypeOK
<1>2. QED BY <1>1, ControlLeaves DEF IInv, TypeOK, ClientTypeOK, clientVars, appVars, netVars

\* Every action leaves the variables of Client in their types.
LEMMA ClientTypeStep ==
    ASSUME IInv, Next
    PROVE  ClientTypeOK'
<1> USE DEF IInv, TypeOK, ClientTypeOK, AppState, LoopState, Reaches, Goto, Call, Threads,
           Pc, AppPc, LoopPc, frame, ctlVars, clientVars, appVars, netVars
<1>1. CASE Login
    BY <1>1, TcpAssumption, ClientAssumption DEF Login, Enter, At, Conns
<1>2. CASE Logout
    BY <1>2 DEF Logout, Enter, At
<1>3. CASE SendMessage
    BY <1>3 DEF SendMessage
<1>4. CASE Prepare
    BY <1>4, ClientAssumption DEF Prepare, At
<1>5. CASE Connect
    BY <1>5, AtFacts DEF Connect, At
<1>6. CASE Open
    <2>1. net' = [net EXCEPT ![self] = "syn"]
        BY <1>6 DEF Open
    <2>2. net' \in [Conns -> {"none", "syn", "up", "refused", "lost"}]
        BY <2>1
    <2>3. QED BY <1>6, <2>2 DEF Open, At
<1>7. CASE OpenFails
    BY <1>7 DEF OpenFails
<1>8. CASE GiveUp
    BY <1>8 DEF GiveUp
<1>9. CASE ConnectReturns
    BY <1>9 DEF ConnectReturns
<1>10. CASE Find
    BY <1>10, AtFacts DEF Find, At, Found, TcpTypeOK, TcpSound, FdOwner
<1>11. CASE OnConnectOk
    BY <1>11 DEF OnConnectOk
<1>12. CASE ReadStart
    BY <1>12 DEF ReadStart
<1>13. CASE Shut
    BY <1>13 DEF Shut
<1>14. CASE OnDisconnected
    BY <1>14 DEF OnDisconnected, Tell, At, Results
<1>15. CASE OnHandleAuthRsp
    BY <1>15 DEF OnHandleAuthRsp, At
<1>16. CASE Answer
    BY <1>16 DEF Answer, Tell, At, Results
<1>17. CASE Return
    BY <1>17 DEF Return
<1>18. CASE OnTimer
    BY <1>18, ClientAssumption DEF OnTimer, Tell, Results, NextAge, Events, Enter, At
<1>19. ASSUME NEW t \in Threads, LogoutClose(t) PROVE ClientTypeOK'
    BY <1>19 DEF LogoutClose
<1>20. ASSUME NEW t \in Threads, LogoutDrop(t) PROVE ClientTypeOK'
    BY <1>20 DEF LogoutDrop
<1>21. ASSUME NEW t \in Threads, SendCheck(t) PROVE ClientTypeOK'
    BY <1>21 DEF SendCheck
<1>22. ASSUME NEW t \in Threads, SendWrite(t) PROVE ClientTypeOK'
    BY <1>22 DEF SendWrite
<1>23. CASE Control
    BY <1>23, TypeAfterControl
<1>24. ASSUME NEW c \in Conns, PickConnectOk(c) PROVE ClientTypeOK'
    BY <1>24 DEF PickConnectOk, Dispatch, Events
<1>25. ASSUME NEW c \in Conns, PickRefused(c) PROVE ClientTypeOK'
    BY <1>25 DEF PickRefused, Dispatch, Events
<1>26. ASSUME NEW c \in Conns, PickCancelled(c) PROVE ClientTypeOK'
    BY <1>26 DEF PickCancelled, Dispatch, Events
<1>27. ASSUME NEW c \in Conns, PickRead(c) PROVE ClientTypeOK'
    BY <1>27 DEF PickRead, Dispatch, Events
<1>28. ASSUME NEW c \in Conns, PickEof(c) PROVE ClientTypeOK'
    BY <1>28 DEF PickEof, Dispatch, Events
<1>29. ASSUME NEW c \in Conns, TornRead(c) PROVE ClientTypeOK'
    BY <1>29 DEF TornRead
<1>30. ASSUME NEW c \in Conns, Establish(c) PROVE ClientTypeOK'
    BY <1>30 DEF Establish, NetStep
<1>31. ASSUME NEW c \in Conns, Refuse(c) PROVE ClientTypeOK'
    BY <1>31 DEF Refuse, NetStep
<1>32. ASSUME NEW c \in Conns, Lose(c) PROVE ClientTypeOK'
    BY <1>32 DEF Lose, NetStep
<1>33. ASSUME NEW c \in Conns, ServerReply(c) PROVE ClientTypeOK'
    BY <1>33 DEF ServerReply
<1>34. QED BY <1>1, <1>2, <1>3, <1>4, <1>5, <1>6, <1>7, <1>8, <1>9, <1>10,
       <1>11, <1>12, <1>13, <1>14, <1>15, <1>16, <1>17, <1>18, <1>19,
       <1>20, <1>21, <1>22, <1>23, <1>24, <1>25, <1>26, <1>27, <1>28,
       <1>29, <1>30, <1>31, <1>32, <1>33, ErrorCases
          DEF Next, Control, AppStep, LoopStep, Shared, Pick, Network, Threads

-----------------------------------------------------------------------------
(* The objects, the registry and libuv *)

\* All a step leaves in place when it is not one of connect: entries go, objects
\* go, and a handle that is still held is as open as it was.
Settling ==
    /\ \A f \in Fds : g_conn_map'[f] \in {NoConn, g_conn_map[f]}
    /\ \A c \in Conns : tcp_handle_'[c] =>
           tcp_handle_[c] /\ (uv[c] \in UvLive => uv'[c] \in UvLive)

\* logout and the ends of callbacks.
LEMMA LogoutTcp ==
    ASSUME IInv, NEW t \in Threads, LogoutClose(t) \/ LogoutDrop(t)
    PROVE  TcpTypeOK' /\ TcpSound' /\ HolderOK' /\ Settling
<1>1. CASE LogoutClose(t) /\ tcp_client_ = NoConn
    BY <1>1 DEF LogoutClose, IInv, TypeOK, TcpTypeOK, TcpSound, RegistrySound, FdOwner,
                NoLeak, HolderOK, Holders, Settling, tcpVars, frame
<1>2. CASE LogoutClose(t) /\ tcp_client_ # NoConn
    <2>1. /\ Close(tcp_client_, Holders) /\ tcp_client_ \in Conns
          /\ UNCHANGED <<tcp_client_, held>>
        BY <1>2 DEF LogoutClose, IInv, TypeOK, ClientTypeOK, frame
    <2>2. TcpTypeOK' /\ TcpSound' /\ Shrunk(Holders)
        BY <2>1, CloseKeeps DEF IInv, TypeOK
    <2>3. HolderOK'
        BY <2>1, <2>2 DEF Shrunk, HolderOK, Holders, IInv
    <2>4. QED BY <2>2, <2>3 DEF Shrunk, Settling
<1>3. CASE LogoutDrop(t)
    <2>1. DropRef({held}) /\ tcp_client_' = NoConn /\ held' = held
        BY <1>3 DEF LogoutDrop, frame
    <2>2. TcpTypeOK' /\ TcpSound' /\ Shrunk({held})
        BY <2>1, DropStep DEF IInv, TypeOK
    <2>3. HolderOK'
        BY <2>1, <2>2 DEF Shrunk, HolderOK, Holders, IInv
    <2>4. QED BY <2>2, <2>3 DEF Shrunk, Settling
<1>4. QED BY <1>1, <1>2, <1>3

\* close() in the loop's callbacks and at a failed connect, and their returns.
LEMMA CloseTcp ==
    ASSUME IInv, Connect \/ GiveUp \/ Shut \/ Return
    PROVE  /\ TcpTypeOK' /\ TcpSound' /\ HolderOK' /\ Settling
           /\ Connect => self' \in Conns /\ \A f \in Fds : g_conn_map'[f] # self'
<1>1. CASE Connect
    <2>1. /\ Close(tcp_client_, Holders) /\ tcp_client_ \in Conns /\ self' = tcp_client_
          /\ UNCHANGED <<tcp_client_, held>>
        BY <1>1, AtFacts DEF Connect, IInv, TypeOK, ClientTypeOK, clientVars, Threads
    <2>2. /\ TcpTypeOK' /\ TcpSound' /\ Shrunk(Holders)
          /\ \A f \in Fds : g_conn_map'[f] # tcp_client_
        BY <2>1, CloseKeeps DEF IInv, TypeOK
    <2>3. HolderOK'
        BY <2>1, <2>2 DEF Shrunk, HolderOK, Holders, IInv
    <2>4. QED BY <2>1, <2>2, <2>3 DEF Shrunk, Settling
<1>2. CASE GiveUp
    <2>1. /\ Close(self, Holders) /\ self \in Conns
          /\ UNCHANGED <<tcp_client_, held>>
        BY <1>2, AtFacts DEF GiveUp, IInv, TypeOK, TcpTypeOK, clientVars, frame, Threads
    <2>2. TcpTypeOK' /\ TcpSound' /\ Shrunk(Holders)
        BY <2>1, CloseKeeps DEF IInv, TypeOK
    <2>3. HolderOK'
        BY <2>1, <2>2 DEF Shrunk, HolderOK, Holders, IInv
    <2>4. ~Connect
        BY <1>2 DEF GiveUp, Connect, At
    <2>5. QED BY <2>2, <2>3, <2>4 DEF Shrunk, Settling
<1>3. CASE Shut
    <2>1. /\ Close(held, Holders) /\ held \in Conns
          /\ UNCHANGED <<tcp_client_, held>>
        BY <1>3 DEF Shut, At, IInv, LoopState, clientVars, frame
    <2>2. TcpTypeOK' /\ TcpSound' /\ Shrunk(Holders)
        BY <2>1, CloseKeeps DEF IInv, TypeOK
    <2>3. HolderOK'
        BY <2>1, <2>2 DEF Shrunk, HolderOK, Holders, IInv
    <2>4. ~Connect
        BY <1>3 DEF Shut, Connect, At, Goto, IInv, TypeOK, ClientTypeOK, Threads
    <2>5. QED BY <2>2, <2>3, <2>4 DEF Shrunk, Settling
<1>4. CASE Return
    <2>1. DropRef({tcp_client_}) /\ held' = NoConn /\ tcp_client_' = tcp_client_
        BY <1>4 DEF Return, clientVars
    <2>2. TcpTypeOK' /\ TcpSound' /\ Shrunk({tcp_client_})
        BY <2>1, DropStep DEF IInv, TypeOK
    <2>3. HolderOK'
        BY <2>1, <2>2 DEF Shrunk, HolderOK, Holders, IInv
    <2>4. ~Connect
        BY <1>4 DEF Return, Connect, At, Goto, IInv, TypeOK, ClientTypeOK, Threads
    <2>5. QED BY <2>2, <2>3, <2>4 DEF Shrunk, Settling
<1>5. QED BY <1>1, <1>2, <1>3, <1>4

\* libuv's own moves and setConnectionStatus.
LEMMA LoopTcp ==
    ASSUME IInv, Picked \/ ReadStart \/ OnConnectOk
    PROVE  TcpTypeOK' /\ TcpSound' /\ HolderOK' /\ Settling
<1>1. ASSUME NEW c \in Conns, NEW s \in Uv, UvStep(c, s),
             uv[c] \in UvLive <=> s \in UvLive, UNCHANGED <<tcp_client_, held>>
      PROVE  TcpTypeOK' /\ TcpSound' /\ HolderOK' /\ Settling
    <2>1. /\ TcpTypeOK' /\ TcpSound'
          /\ UNCHANGED <<connect_status_, tcp_handle_, sock_fd_, g_conn_map, alive, kfd>>
          /\ \A d \in Conns : uv'[d] \in UvLive <=> uv[d] \in UvLive
        BY <1>1, UvMoves DEF IInv, TypeOK
    <2>2. HolderOK'
        BY <1>1, <2>1 DEF HolderOK, Holders, IInv
    <2>3. QED BY <2>1, <2>2 DEF Settling
<1>2. CASE Picked
    <2>1. PICK c \in Conns : \/ PickConnectOk(c) \/ PickRefused(c) \/ PickCancelled(c)
                             \/ PickRead(c) \/ PickEof(c)
        BY <1>2 DEF Picked
    <2>2. PICK s \in Uv : UvStep(c, s) /\ (uv[c] \in UvLive <=> s \in UvLive)
        BY <2>1 DEF PickConnectOk, PickRefused, PickCancelled, PickRead, PickEof,
                    Dispatch, Uv, UvLive
    <2>3. UNCHANGED <<tcp_client_, held>>
        BY <2>1 DEF PickConnectOk, PickRefused, PickCancelled, PickRead, PickEof,
                    Dispatch, clientVars
    <2>4. QED BY <1>1, <2>2, <2>3
<1>3. CASE ReadStart
    <2>1. handle \in Conns
        BY <1>3 DEF ReadStart, At, IInv, LoopState, Reaches
    <2>2. PICK s \in Uv : UvStep(handle, s) /\ (uv[handle] \in UvLive <=> s \in UvLive)
        BY <1>3, <2>1 DEF ReadStart, FilenoOk, Uv, UvLive, IInv, TypeOK, TcpTypeOK
    <2>3. UNCHANGED <<tcp_client_, held>>
        BY <1>3 DEF ReadStart, clientVars, frame
    <2>4. QED BY <1>1, <2>1, <2>2, <2>3
<1>4. CASE OnConnectOk
    BY <1>4 DEF OnConnectOk, SetStatus, IInv, TypeOK, TcpTypeOK, Status, TcpSound,
                RegistrySound, FdOwner, NoLeak, HolderOK, Holders, Settling, clientVars,
                frame
<1>5. QED BY <1>2, <1>3, <1>4

\* login makes its object.
LEMMA PrepareTcp ==
    ASSUME IInv, Prepare
    PROVE  TcpTypeOK' /\ TcpSound' /\ HolderOK' /\ Settling
<1>1. logins \in Conns
    BY DEF Prepare, At, IInv, TypeOK, ClientTypeOK, AppState, Reaches
<1>2. CASE tcp_client_ = NoConn
    <2>1. /\ alive' = alive \cup {logins} /\ tcp_client_' = logins /\ held' = held
          /\ UNCHANGED <<connect_status_, tcp_handle_, sock_fd_, g_conn_map, uv, kfd>>
        BY <1>2 DEF Prepare, Construct, frame
    <2>2. TcpTypeOK' /\ TcpSound' /\ Settling
        BY <1>1, <2>1 DEF IInv, TypeOK, TcpTypeOK, TcpSound, RegistrySound, FdOwner,
                          NoLeak, Settling
    <2>3. NoConn \notin alive
        BY DEF IInv, TypeOK, TcpTypeOK, Conns, NoConn
    <2>4. HolderOK'
        BY <1>2, <2>1, <2>3 DEF IInv, HolderOK, Holders
    <2>5. QED BY <2>2, <2>4
<1>3. CASE tcp_client_ # NoConn
    BY <1>3 DEF Prepare, IInv, TypeOK, TcpTypeOK, TcpSound, RegistrySound, FdOwner,
                NoLeak, HolderOK, Holders, Settling, frame, tcpVars
<1>4. QED BY <1>2, <1>3

\* connect starts a request on a free descriptor.
LEMMA OpenTcp ==
    ASSUME IInv, Open
    PROVE  TcpTypeOK' /\ TcpSound' /\ HolderOK'
<1>1. PICK f \in FreeFds : UvConnect(self, f)
    BY DEF Open
<1>2. self \in alive /\ self \in Conns /\ \A g \in Fds : g_conn_map[g] # self
    BY AtFacts DEF Open, At, IInv, TypeOK, TcpTypeOK, AppState, Threads
<1>3. f \in Fds /\ \A c \in Conns : uv[c] \in UvLive => kfd[c] # f
    BY DEF FreeFds
<1>4. /\ tcp_handle_' = [tcp_handle_ EXCEPT ![self] = TRUE]
      /\ connect_status_' = [connect_status_ EXCEPT ![self] = "Connecting"]
      /\ uv' = [uv EXCEPT ![self] = "connecting"]
      /\ kfd' = [kfd EXCEPT ![self] = f]
      /\ UNCHANGED <<sock_fd_, g_conn_map, alive>>
    BY <1>1 DEF UvConnect
<1>5. TcpTypeOK'
    BY <1>3, <1>4 DEF IInv, TypeOK, TcpTypeOK, Status, Uv, UvLive
<1>6. RegistrySound'
    BY <1>2, <1>4 DEF IInv, TypeOK, TcpTypeOK, TcpSound, RegistrySound
<1>7. FdOwner'
    BY <1>2, <1>3, <1>4 DEF IInv, TypeOK, TcpTypeOK, TcpSound, FdOwner
<1>8. NoLeak'
    BY <1>2, <1>4 DEF IInv, TypeOK, TcpTypeOK, TcpSound, NoLeak
<1>9. HolderOK'
    BY <1>4 DEF Open, IInv, HolderOK, Holders, clientVars, frame
<1>10. QED BY <1>5, <1>6, <1>7, <1>8, <1>9 DEF TcpSound

\* connect fails at once.
LEMMA OpenFailsTcp ==
    ASSUME IInv, OpenFails
    PROVE  TcpTypeOK' /\ TcpSound' /\ HolderOK'
<1>1. self \in alive /\ self \in Conns /\ \A g \in Fds : g_conn_map[g] # self
    BY AtFacts DEF OpenFails, At, IInv, TypeOK, TcpTypeOK, AppState, Threads
<1>2. /\ tcp_handle_' = [tcp_handle_ EXCEPT ![self] = TRUE]
      /\ connect_status_' = [connect_status_ EXCEPT ![self] = "Connecting"]
      /\ uv' = [uv EXCEPT ![self] = "init"]
      /\ UNCHANGED <<sock_fd_, g_conn_map, alive, kfd>>
    BY DEF OpenFails, UvConnectFails
<1>3. TcpTypeOK'
    BY <1>2 DEF IInv, TypeOK, TcpTypeOK, Status, Uv
<1>4. "init" \notin UvLive
    BY DEF UvLive
<1>5. RegistrySound'
    BY <1>1, <1>2 DEF IInv, TypeOK, TcpTypeOK, TcpSound, RegistrySound
<1>6. FdOwner' /\ NoLeak'
    BY <1>1, <1>2, <1>4 DEF IInv, TypeOK, TcpTypeOK, TcpSound, FdOwner, NoLeak
<1>7. HolderOK'
    BY <1>2 DEF OpenFails, IInv, HolderOK, Holders, clientVars, frame
<1>8. QED BY <1>3, <1>5, <1>6, <1>7 DEF TcpSound

\* connect registers its object.
LEMMA RegisterTcp ==
    ASSUME IInv, ConnectReturns
    PROVE  TcpTypeOK' /\ TcpSound' /\ HolderOK'
<1>1. self \in alive /\ self \in Conns /\ uv[self] \in UvLive
    BY AtFacts DEF ConnectReturns, At, IInv, TypeOK, TcpTypeOK, AppState, Threads
<1>2. kfd[self] \in Fds
    BY <1>1 DEF IInv, TcpSound, FdOwner
<1>3. /\ sock_fd_' = [sock_fd_ EXCEPT ![self] = kfd[self]]
      /\ g_conn_map' = [g_conn_map EXCEPT ![kfd[self]] = self]
      /\ UNCHANGED <<connect_status_, tcp_handle_, alive, uv, kfd>>
    BY DEF ConnectReturns, Register
<1>4. TcpTypeOK'
    BY <1>1, <1>2, <1>3 DEF IInv, TypeOK, TcpTypeOK
<1>5. RegistrySound'
    <2>1. SUFFICES ASSUME NEW f \in Fds, g_conn_map'[f] # NoConn
                   PROVE  LET c == g_conn_map'[f]
                          IN  /\ c \in alive' /\ sock_fd_'[c] = f
                              /\ kfd'[c] = f /\ uv'[c] \in UvLive
        BY DEF RegistrySound
    <2>2. CASE f = kfd[self]
        BY <1>1, <1>2, <1>3, <2>2 DEF IInv, TypeOK, TcpTypeOK
    <2>3. CASE f # kfd[self]
        BY <1>1, <1>2, <1>3, <2>1, <2>3
           DEF IInv, TypeOK, TcpTypeOK, TcpSound, RegistrySound
    <2>4. QED BY <2>2, <2>3
<1>6. FdOwner' /\ NoLeak'
    BY <1>3 DEF IInv, TcpSound, FdOwner, NoLeak
<1>7. HolderOK'
    <2>1. UNCHANGED Holders
        BY DEF ConnectReturns, Holders, clientVars, frame
    <2>2. g_conn_map[kfd[self]] \in {NoConn, self}
        BY <1>1, <1>2 DEF IInv, TypeOK, TcpTypeOK, TcpSound, RegistrySound, FdOwner
    <2>3. \A c \in Range(g_conn_map) : c \in Range(g_conn_map') \/ c = NoConn
        BY <1>2, <1>3, <2>2 DEF Range, IInv, TypeOK, TcpTypeOK
    <2>4. NoConn \notin alive
        BY DEF IInv, TypeOK, TcpTypeOK, Conns, NoConn
    <2>5. QED BY <1>3, <2>1, <2>3, <2>4 DEF IInv, HolderOK
<1>8. QED BY <1>4, <1>5, <1>6, <1>7 DEF TcpSound

\* Find takes its reference from the registry; the other quiet steps take none.
LEMMA QuietHolders ==
    ASSUME IInv, Quiet
    PROVE  TcpTypeOK' /\ TcpSound' /\ HolderOK' /\ Settling
<1>1. UNCHANGED tcpVars
    BY QuietTcp
<1>2. TcpTypeOK' /\ TcpSound' /\ Settling
    BY <1>1 DEF IInv, TypeOK, TcpTypeOK, TcpSound, RegistrySound, FdOwner, NoLeak,
                Settling, tcpVars
<1>3. HolderOK'
    <2>1. CASE Find
        <3>1. handle \in Conns /\ uv[handle] \in UvLive
            BY <2>1, AtFacts DEF Find, At, IInv, LoopState, Reaches, Threads
        <3>2. held' \in alive \cup {NoConn} /\ tcp_client_' = tcp_client_
            BY <2>1, <3>1 DEF Find, Found, IInv, TcpSound, RegistrySound, FdOwner,
                              clientVars
        <3>3. held = NoConn
            BY <2>1 DEF Find, At, IInv, LoopState
        <3>4. NoConn \notin alive
            BY DEF IInv, TypeOK, TcpTypeOK, Conns, NoConn
        <3>5. QED BY <1>1, <3>2, <3>3, <3>4 DEF IInv, HolderOK, Holders, tcpVars
    <2>2. CASE ~Find
        <3>1. UNCHANGED <<tcp_client_, held>>
            BY <2>2, ControlLeaves
               DEF Quiet, Login, Logout, SendMessage, SendCheck, SendWrite,
                   OnDisconnected, OnHandleAuthRsp, Answer, OnTimer, TornRead, Network,
                   Establish, Refuse, Lose, NetStep, ServerReply, clientVars, ctlVars,
                   frame
        <3>2. QED BY <1>1, <3>1 DEF IInv, HolderOK, Holders, tcpVars
    <2>3. QED BY <2>1, <2>2
<1>4. QED BY <1>2, <1>3

\* Every step keeps the registry sound and every object held.
LEMMA TcpStep ==
    ASSUME IInv, Next
    PROVE  /\ TcpTypeOK' /\ TcpSound' /\ HolderOK'
           /\ Settling \/ Open \/ OpenFails \/ ConnectReturns
           /\ Connect => self' \in Conns /\ \A f \in Fds : g_conn_map'[f] # self'
BY NextCases, LogoutTcp, CloseTcp, LoopTcp, PrepareTcp, OpenTcp, OpenFailsTcp,
   RegisterTcp, QuietHolders

-----------------------------------------------------------------------------
(* The control states *)

\* Find goes on with an object of the registry, or not at all.
LEMMA FindLoopState ==
    ASSUME IInv, Find
    PROVE  LoopState'
<1>1. /\ pc["loop"] = "find" /\ "loop" \in DOMAIN pc
      /\ held' = Found(handle)
      /\ pc' = [pc EXCEPT !["loop"] =
               IF Found(handle) = NoConn THEN "idle"
               ELSE CASE event = "connect_ok" -> "status"
                      [] event = "read"       -> "auth"
                      [] OTHER                -> "shut"]
      /\ UNCHANGED <<ret, handle, event, reply, unread>>
    BY DEF Find, At, Goto, netVars, IInv, TypeOK, ClientTypeOK, Threads
<1>2. /\ handle \in Conns
      /\ ret["loop"] \in {"idle", "started", "done", "answer"}
      /\ \A c \in unread : reply[c] \in Answers
      /\ event = "read" => reply[handle] \in Answers
    BY <1>1 DEF IInv, LoopState, Reaches
<1>3. kfd[handle] \in Fds
    BY <1>2, AtFacts DEF Find, IInv, TcpSound, FdOwner, Threads
<1>4. Found(handle) \in Conns \cup {NoConn}
    BY <1>3 DEF Found, IInv, TypeOK, TcpTypeOK
<1>5. /\ pc'["loop"] \in {"idle", "status", "auth", "shut"}
      /\ pc'["loop"] = "idle" => held' = NoConn
      /\ pc'["loop"] # "idle" => held' \in Conns
      /\ pc'["loop"] = "auth" => event = "read"
    BY <1>1, <1>4
<1>6. UNCHANGED <<handle, reply, unread>> /\ ret' = ret
    BY <1>1
<1>7. QED BY <1>2, <1>5, <1>6 DEF LoopState, Reaches

\* Every action keeps what the loop relies on.
LEMMA LoopStateStep ==
    ASSUME IInv, Next
    PROVE  LoopState'
<1> USE DEF IInv, TypeOK, ClientTypeOK, LoopState, Reaches, Goto, Call, Threads,
           Pc, AppPc, LoopPc, frame, ctlVars, clientVars, appVars, netVars, At
<1>1. CASE Login
    BY <1>1 DEF Login, Enter
<1>2. CASE Logout
    BY <1>2 DEF Logout, Enter
<1>3. CASE SendMessage
    BY <1>3 DEF SendMessage, Enter
<1>4. CASE Prepare
    BY <1>4 DEF Prepare
<1>5. CASE Connect
    BY <1>5 DEF Connect
<1>6. CASE Open
    BY <1>6 DEF Open
<1>7. CASE OpenFails
    BY <1>7 DEF OpenFails
<1>8. CASE GiveUp
    BY <1>8 DEF GiveUp
<1>9. CASE ConnectReturns
    BY <1>9 DEF ConnectReturns
<1>10. CASE Find
    BY <1>10, FindLoopState
<1>11. CASE OnConnectOk
    BY <1>11 DEF OnConnectOk
<1>12. CASE ReadStart
    BY <1>12 DEF ReadStart
<1>13. CASE Shut
    BY <1>13 DEF Shut
<1>14. CASE OnDisconnected
    BY <1>14 DEF OnDisconnected
<1>15. CASE OnHandleAuthRsp
    BY <1>15 DEF OnHandleAuthRsp
<1>16. CASE Answer
    BY <1>16 DEF Answer
<1>17. CASE Return
    BY <1>17 DEF Return
<1>18. CASE OnTimer
    BY <1>18 DEF OnTimer, Enter
<1>19. ASSUME NEW t \in Threads, LogoutClose(t) PROVE LoopState'
    BY <1>19 DEF LogoutClose
<1>20. ASSUME NEW t \in Threads, LogoutDrop(t) PROVE LoopState'
    BY <1>20 DEF LogoutDrop
<1>21. ASSUME NEW t \in Threads, SendCheck(t) PROVE LoopState'
    BY <1>21 DEF SendCheck
<1>22. ASSUME NEW t \in Threads, SendWrite(t) PROVE LoopState'
    BY <1>22 DEF SendWrite
<1>23. CASE Control
    BY <1>23, ControlLeaves
<1>24. ASSUME NEW c \in Conns, PickConnectOk(c) PROVE LoopState'
    BY <1>24 DEF PickConnectOk, Dispatch, Enter
<1>25. ASSUME NEW c \in Conns, PickRefused(c) PROVE LoopState'
    BY <1>25 DEF PickRefused, Dispatch, Enter
<1>26. ASSUME NEW c \in Conns, PickCancelled(c) PROVE LoopState'
    BY <1>26 DEF PickCancelled, Dispatch, Enter
<1>27. ASSUME NEW c \in Conns, PickRead(c) PROVE LoopState'
    BY <1>27 DEF PickRead, Dispatch, Enter
<1>28. ASSUME NEW c \in Conns, PickEof(c) PROVE LoopState'
    BY <1>28 DEF PickEof, Dispatch, Enter
<1>29. ASSUME NEW c \in Conns, TornRead(c) PROVE LoopState'
    BY <1>29 DEF TornRead
<1>30. ASSUME NEW c \in Conns, Establish(c) PROVE LoopState'
    BY <1>30 DEF Establish, NetStep
<1>31. ASSUME NEW c \in Conns, Refuse(c) PROVE LoopState'
    BY <1>31 DEF Refuse, NetStep
<1>32. ASSUME NEW c \in Conns, Lose(c) PROVE LoopState'
    BY <1>32 DEF Lose, NetStep
<1>33. ASSUME NEW c \in Conns, ServerReply(c) PROVE LoopState'
    BY <1>33 DEF ServerReply
<1>34. QED BY <1>1, <1>2, <1>3, <1>4, <1>5, <1>6, <1>7, <1>8, <1>9, <1>10,
       <1>11, <1>12, <1>13, <1>14, <1>15, <1>16, <1>17, <1>18, <1>19,
       <1>20, <1>21, <1>22, <1>23, <1>24, <1>25, <1>26, <1>27, <1>28,
       <1>29, <1>30, <1>31, <1>32, <1>33, ErrorCases
          DEF Next, Control, AppStep, LoopStep, Shared, Pick, Network, Threads

\* A step that leaves the application's thread out of connect, or where it is in
\* it, keeps what connect relies on.
LEMMA AppStateSettling ==
    ASSUME IInv, Settling,
           pc'["app"] \in {"open", "register"} => pc'["app"] = pc["app"] /\ UNCHANGED self,
           ret'["app"] \in {"idle", "prepare"},
           Reaches("app", "prepare")' => logins' # 0
    PROVE  AppState'
<1>1. ASSUME pc'["app"] \in {"open", "register"}
      PROVE  self' \in Conns /\ \A f \in Fds : g_conn_map'[f] # self'
    BY <1>1 DEF Settling, IInv, AppState, Conns, NoConn
<1>2. ASSUME pc'["app"] = "register", tcp_handle_'[self']
      PROVE  uv'[self'] \in UvLive
    BY <1>2 DEF Settling, IInv, AppState
<1>3. QED BY <1>1, <1>2 DEF AppState

\* Every action keeps what the application's thread relies on.
LEMMA AppStateStep ==
    ASSUME IInv, Next
    PROVE  AppState'
<1> USE DEF IInv, TypeOK, ClientTypeOK, AppState, Reaches, Goto, Call, Threads, Pc, AppPc,
           LoopPc, frame, ctlVars, clientVars, appVars, At
<1>1. CASE Connect
    <2>1. self' \in Conns /\ \A f \in Fds : g_conn_map'[f] # self'
        BY <1>1, TcpStep
    <2>2. pc'["app"] = "open" /\ ret' = ret /\ ret["app"] \in {"idle", "prepare"}
        BY <1>1 DEF Connect, IInv, AppState
    <2>3. QED BY <2>1, <2>2 DEF AppState, Reaches
<1>2. CASE Open
    <2>1. /\ UNCHANGED <<g_conn_map, self>> /\ pc'["app"] = "register"
          /\ ret' = ret /\ uv' = [uv EXCEPT ![self] = "connecting"]
        BY <1>2 DEF Open, UvConnect, frame, IInv
    <2>2. self \in Conns /\ (\A f \in Fds : g_conn_map[f] # self)
          /\ ret["app"] \in {"idle", "prepare"}
        BY <1>2 DEF Open, IInv, AppState
    <2>3. uv'[self] \in UvLive
        BY <2>1, <2>2 DEF IInv, TcpTypeOK, UvLive
    <2>4. QED BY <2>1, <2>2, <2>3 DEF AppState, Reaches
<1>3. CASE OpenFails \/ GiveUp \/ ConnectReturns
    <2>1. pc'["app"] \in {"idle", "giveup"} /\ ret' = ret
        BY <1>3 DEF OpenFails, GiveUp, ConnectReturns, IInv
    <2>2. ret["app"] \in {"idle", "prepare"}
        BY DEF IInv, AppState
    <2>3. QED BY <2>1, <2>2 DEF AppState, Reaches
<1>4. ASSUME ~Connect, ~Open, ~OpenFails, ~ConnectReturns, ~GiveUp
      PROVE  AppState'
    <2>1. Settling
        BY <1>4, TcpStep
    <2>2. CASE Login
        BY <2>1, <2>2, AppStateSettling DEF Login, Enter, Conns
    <2>3. CASE Logout
        BY <2>1, <2>3, AppStateSettling DEF Logout, Enter
    <2>4. CASE SendMessage
        BY <2>1, <2>4, AppStateSettling DEF SendMessage, Enter
    <2>5. CASE Prepare
        BY <2>1, <2>5, AppStateSettling DEF Prepare
    <2>6. CASE Find
        BY <2>1, <2>6, AppStateSettling DEF Find
    <2>7. CASE OnConnectOk
        BY <2>1, <2>7, AppStateSettling DEF OnConnectOk
    <2>8. CASE ReadStart
        BY <2>1, <2>8, AppStateSettling DEF ReadStart
    <2>9. CASE Shut
        BY <2>1, <2>9, AppStateSettling DEF Shut
    <2>10. CASE OnDisconnected
        BY <2>1, <2>10, AppStateSettling DEF OnDisconnected
    <2>11. CASE OnHandleAuthRsp
        BY <2>1, <2>11, AppStateSettling DEF OnHandleAuthRsp
    <2>12. CASE Answer
        BY <2>1, <2>12, AppStateSettling DEF Answer
    <2>13. CASE Return
        BY <2>1, <2>13, AppStateSettling DEF Return
    <2>14. CASE OnTimer
        BY <2>1, <2>14, AppStateSettling DEF OnTimer, Enter
    <2>15. ASSUME NEW t \in Threads, LogoutClose(t) PROVE AppState'
        BY <2>1, <2>15, AppStateSettling DEF LogoutClose
    <2>16. ASSUME NEW t \in Threads, LogoutDrop(t) PROVE AppState'
        BY <2>1, <2>16, AppStateSettling DEF LogoutDrop
    <2>17. ASSUME NEW t \in Threads, SendCheck(t) PROVE AppState'
        BY <2>1, <2>17, AppStateSettling DEF SendCheck
    <2>18. ASSUME NEW t \in Threads, SendWrite(t) PROVE AppState'
        BY <2>1, <2>18, AppStateSettling DEF SendWrite
    <2>19. CASE Control
        BY <2>1, <2>19, AppStateSettling, ControlLeaves
    <2>20. ASSUME NEW c \in Conns, PickConnectOk(c) PROVE AppState'
        BY <2>1, <2>20, AppStateSettling DEF PickConnectOk, Dispatch, Enter
    <2>21. ASSUME NEW c \in Conns, PickRefused(c) PROVE AppState'
        BY <2>1, <2>21, AppStateSettling DEF PickRefused, Dispatch, Enter
    <2>22. ASSUME NEW c \in Conns, PickCancelled(c) PROVE AppState'
        BY <2>1, <2>22, AppStateSettling DEF PickCancelled, Dispatch, Enter
    <2>23. ASSUME NEW c \in Conns, PickRead(c) PROVE AppState'
        BY <2>1, <2>23, AppStateSettling DEF PickRead, Dispatch, Enter
    <2>24. ASSUME NEW c \in Conns, PickEof(c) PROVE AppState'
        BY <2>1, <2>24, AppStateSettling DEF PickEof, Dispatch, Enter
    <2>25. ASSUME NEW c \in Conns, TornRead(c) PROVE AppState'
        BY <2>1, <2>25, AppStateSettling DEF TornRead, Enter
    <2>26. ASSUME NEW c \in Conns, Establish(c) PROVE AppState'
        BY <2>1, <2>26, AppStateSettling DEF Establish, NetStep
    <2>27. ASSUME NEW c \in Conns, Refuse(c) PROVE AppState'
        BY <2>1, <2>27, AppStateSettling DEF Refuse, NetStep
    <2>28. ASSUME NEW c \in Conns, Lose(c) PROVE AppState'
        BY <2>1, <2>28, AppStateSettling DEF Lose, NetStep
    <2>29. ASSUME NEW c \in Conns, ServerReply(c) PROVE AppState'
        BY <2>1, <2>29, AppStateSettling DEF ServerReply
    <2>30. QED BY <1>4, <2>2, <2>3, <2>4, <2>5, <2>6, <2>7, <2>8, <2>9, <2>10,
              <2>11, <2>12, <2>13, <2>14, <2>15, <2>16, <2>17,
              <2>18, <2>19, <2>20, <2>21, <2>22, <2>23, <2>24,
              <2>25, <2>26, <2>27, <2>28, <2>29, ErrorCases
              DEF Next, Control, AppStep, LoopStep, Shared, Pick, Network, Threads
<1>5. QED BY <1>1, <1>2, <1>3, <1>4

\* The invariant holds in the initial states.
LEMMA InitInv == ASSUME Init PROVE IInv
<1> USE DEF Init, ClientInit, TcpInit
<1>1. TypeOK
    <2>1. TcpTypeOK
        BY DEF TcpTypeOK, Status, Uv
    <2>2. ClientTypeOK
        <3>1. /\ pc \in [Threads -> Pc] /\ pc["app"] \notin LoopPc /\ pc["loop"] \notin AppPc
              /\ ret \in [Threads -> Pc] /\ ret["app"] \notin LoopPc
              /\ ret["loop"] \notin AppPc
            BY DEF Threads, Pc, AppPc, LoopPc
        <3>2. login_age \in 0 .. MaxAge /\ event \in Events
            BY ClientAssumption DEF Events
        <3>3. loop_is_run_ \in BOOLEAN
            BY Zenon
        <3>4. QED BY <3>1, <3>2, <3>3 DEF ClientTypeOK
    <2>3. QED BY <2>1, <2>2 DEF TypeOK
<1>2. "none" \notin UvLive
    BY DEF UvLive
<1>3. TcpSound
    BY <1>2 DEF TcpSound, RegistrySound, FdOwner, NoLeak
<1>4. HolderOK
    BY DEF HolderOK, Holders
<1>5. AppState /\ LoopState
    BY DEF AppState, LoopState, Reaches, Threads
<1>6. QED BY <1>1, <1>3, <1>4, <1>5 DEF IInv

\* Every step of either thread, of libuv, the network and the server keeps it.
LEMMA StepInv == ASSUME IInv, [Next]_vars PROVE IInv'
<1>1. CASE Next
    BY <1>1, ClientTypeStep, TcpStep, LoopStateStep, AppStateStep DEF IInv, TypeOK
<1>2. CASE UNCHANGED vars
    <2>1. TypeOK'
        BY <1>2 DEF IInv, TypeOK, TcpTypeOK, ClientTypeOK, vars, tcpVars, clientVars,
                    appVars, netVars, ctlVars, frame
    <2>2. TcpSound' /\ HolderOK'
        BY <1>2 DEF IInv, TcpSound, RegistrySound, FdOwner, NoLeak, HolderOK, Holders,
                    vars, tcpVars, clientVars, ctlVars, frame
    <2>3. AppState' /\ LoopState'
        BY <1>2 DEF IInv, AppState, LoopState, Reaches, vars, tcpVars, clientVars,
                    appVars, netVars, ctlVars, frame
    <2>4. QED BY <2>1, <2>2, <2>3 DEF IInv
<1>3. QED BY <1>1, <1>2

\* The inductive invariant is an invariant.
LEMMA SpecInv == Spec => []IInv
<1>1. Init => IInv
    BY InitInv
<1>2. IInv /\ [Next]_vars => IInv'
    BY StepInv
<1>3. QED BY <1>1, <1>2, PTL DEF Spec

-----------------------------------------------------------------------------
(* Credentials *)

\* login_cb_ is the last attempt that got past logout(), and tcp_client_ its object.
Attempts ==
    /\ login_cb_ <= logins
    /\ tcp_client_ \in {NoConn, login_cb_}
    /\ Reaches("app", "prepare") => login_cb_ < logins
    /\ pc["app"] = "prepare" => tcp_client_ = NoConn
    /\ pc["app"] \in {"check", "write"} => ret["app"] = "idle"
    /\ pc["app"] \in {"open", "register"} => self = login_cb_

\* Attempts open their sockets one after the other; a later one does not get the
\* descriptor of an earlier one that is still open.
Opened ==
    /\ \A c \in Conns : net[c] # "none" => c <= login_cb_
    /\ pc["app"] \in {"connect", "open"} => login_cb_ \in Conns /\ net[login_cb_] = "none"
    /\ \A c \in Conns : uv[c] \in UvLive => net[c] # "none"
    /\ \A c, d \in Conns : c < d /\ uv[c] \in UvLive /\ net[d] # "none" => kfd[c] # kfd[d]

\* An object that is, or is about to be, in kConnectOk knows its own descriptor.
Knows(c) == sock_fd_[c] = kfd[c] /\ net[c] # "none"

Connected ==
    /\ \A c \in Conns : connect_status_[c] = "ConnectOk" => Knows(c)
    /\ pc["loop"] = "status" => Knows(held)

CredInv == Attempts /\ Opened /\ Connected /\ CredentialsOwn

\* Nothing is opened, connected or given a descriptor.
Fewer ==
    /\ UNCHANGED <<sock_fd_, kfd>>
    /\ \A c \in Conns : uv'[c] \in UvLive => uv[c] \in UvLive
    /\ \A c \in Conns : connect_status_'[c] = "ConnectOk" => connect_status_[c] = "ConnectOk"

\* Destructors open and connect nothing.
LEMMA ReleaseFewer ==
    ASSUME NEW map, NEW refs, NEW closed, Release(map, refs, closed)
    PROVE  Fewer
<1>1. \A c \in Conns : UvClose(c) \notin UvLive
    BY DEF UvClose, UvLive
<1>2. QED BY <1>1 DEF Release, Fewer

\* Three steps do more than that.
LEMMA FewerStep ==
    ASSUME IInv, Next
    PROVE  Fewer \/ Open \/ ConnectReturns \/ OnConnectOk
<1> USE DEF IInv, TypeOK, TcpTypeOK
<1>1. CASE Quiet
    BY <1>1, QuietTcp DEF Fewer, tcpVars
<1>2. CASE Picked
    BY <1>2 DEF Picked, PickConnectOk, PickRefused, PickCancelled, PickRead, PickEof,
                Dispatch, UvStep, Fewer, UvLive
<1>3. CASE Prepare
    BY <1>3 DEF Prepare, Construct, Fewer, tcpVars
<1>4. CASE Connect \/ GiveUp \/ Shut \/ Return
    BY <1>4, ReleaseFewer DEF Connect, GiveUp, Shut, Return, Close, DropRef
<1>5. CASE OpenFails
    BY <1>5 DEF OpenFails, UvConnectFails, Fewer, UvLive
<1>6. CASE \E t \in Threads : LogoutClose(t) \/ LogoutDrop(t)
    <2>1. PICK t \in Threads : LogoutClose(t) \/ LogoutDrop(t)
        BY <1>6
    <2>2. CASE LogoutClose(t) /\ tcp_client_ = NoConn
        BY <2>2 DEF LogoutClose, Fewer, tcpVars
    <2>3. CASE LogoutClose(t) /\ tcp_client_ # NoConn
        BY <2>3, ReleaseFewer DEF LogoutClose, Close
    <2>4. CASE LogoutDrop(t)
        BY <2>4, ReleaseFewer DEF LogoutDrop, DropRef
    <2>5. QED BY <2>1, <2>2, <2>3, <2>4
<1>7. CASE ReadStart
    BY <1>7 DEF ReadStart, UvStep, Fewer, FilenoOk
<1>8. QED BY <1>1, <1>2, <1>3, <1>4, <1>5, <1>6, <1>7, NextCases

\* A step of anybody but the application.
Elsewhere ==
    /\ UNCHANGED <<login_cb_, logins, self>>
    /\ tcp_client_' \in {NoConn, tcp_client_}
    /\ pc'["app"] = pc["app"] /\ ret'["app"] = ret["app"]
    /\ \A c \in Conns : net'[c] = "none" <=> net[c] = "none"

\* The steps of a call, and everything else.
LEMMA ElsewhereStep ==
    ASSUME IInv, Next
    PROVE  Elsewhere \/ Login \/ Logout \/ SendMessage \/ AppStep
<1> USE DEF IInv, TypeOK, ClientTypeOK, Threads, Goto, Call, Elsewhere, clientVars,
           appVars, netVars, frame, ctlVars
<1>1. CASE Find \/ OnConnectOk \/ ReadStart \/ Shut \/ OnDisconnected \/ OnHandleAuthRsp
           \/ Answer \/ Return \/ OnTimer
    BY <1>1 DEF Find, OnConnectOk, ReadStart, Shut, OnDisconnected, OnHandleAuthRsp,
                Answer, Return, OnTimer
<1>2. CASE Shared("loop")
    BY <1>2 DEF Shared, LogoutClose, LogoutDrop, SendCheck, SendWrite
<1>3. CASE \E c \in Conns : Pick(c) \/ Network(c)
    <2>1. PICK c \in Conns : Pick(c) \/ Network(c)
        BY <1>3
    <2>2. CASE Pick(c)
        BY <2>2 DEF Pick, PickConnectOk, PickConnectErr, PickRead, PickEof,
                    TornRead, Dispatch
    <2>3. CASE Network(c)
        BY <2>3 DEF Network, Establish, Refuse, Lose, NetStep, ServerReply
    <2>4. QED BY <2>1, <2>2, <2>3
<1>4. CASE Control
    BY <1>4, ControlLeaves
<1>5. QED BY <1>1, <1>2, <1>3, <1>4 DEF Next, Control, LoopStep

\* Attempts follow one another in the application's thread.
LEMMA AttemptsStep ==
    ASSUME IInv, CredInv, Next
    PROVE  Attempts'
<1> USE DEF IInv, TypeOK, ClientTypeOK, CredInv, Attempts, Reaches, Threads, Goto, Call,
           clientVars, appVars, netVars, frame, ctlVars
<1>1. logins \in Nat /\ login_cb_ \in Nat /\ NoConn = 0
    BY TcpAssumption DEF Conns, NoConn
<1>2. CASE Elsewhere
    BY <1>1, <1>2 DEF Elsewhere
<1>3. CASE Login
    BY <1>1, <1>3 DEF Login
<1>4. CASE Logout \/ SendMessage
    BY <1>1, <1>4 DEF Logout, SendMessage
<1>5. CASE Prepare
    BY <1>1, <1>5 DEF Prepare, At, AppState
<1>6. CASE Connect
    <2>1. tcp_client_ = login_cb_
        BY <1>6, AtFacts DEF Connect
    <2>2. QED BY <1>1, <1>6, <2>1 DEF Connect, At, AppState
<1>7. CASE Open \/ OpenFails \/ GiveUp \/ ConnectReturns
    BY <1>1, <1>7 DEF Open, OpenFails, GiveUp, ConnectReturns, At, AppState
<1>8. CASE LogoutClose("app")
    BY <1>1, <1>8 DEF LogoutClose, At, AppState
<1>9. CASE LogoutDrop("app")
    BY <1>1, <1>9 DEF LogoutDrop, At, AppState
<1>10. CASE SendCheck("app") \/ SendWrite("app")
    BY <1>1, <1>10 DEF SendCheck, SendWrite, At, AppState
<1>11. QED BY <1>2, <1>3, <1>4, <1>5, <1>6, <1>7, <1>8, <1>9, <1>10, ElsewhereStep
             DEF AppStep, Shared

\* Sockets are opened one after the other, each for the attempt of the moment.
LEMMA OpenedStep ==
    ASSUME IInv, CredInv, Next
    PROVE  Opened'
<1> USE DEF IInv, TypeOK, TcpTypeOK, ClientTypeOK, CredInv, Opened, Threads, Goto, Call,
           clientVars, appVars, netVars, frame, ctlVars
<1>1. logins \in Nat /\ login_cb_ \in Nat /\ Conns \subseteq Nat
    BY TcpAssumption DEF Conns
<1>2. CASE Open
    <2>1. PICK f \in FreeFds : UvConnect(self, f)
        BY <1>2 DEF Open
    <2>2. self = login_cb_ /\ self \in Conns /\ net[self] = "none"
        BY <1>2 DEF Open, At, Attempts, AppState
    <2>3. /\ uv' = [uv EXCEPT ![self] = "connecting"] /\ kfd' = [kfd EXCEPT ![self] = f]
          /\ net' = [net EXCEPT ![self] = "syn"] /\ login_cb_' = login_cb_
          /\ pc'["app"] = "register"
        BY <1>2, <2>1 DEF Open, UvConnect
    <2>4. \A c \in Conns : uv[c] \in UvLive => kfd[c] # f
        BY <2>1 DEF FreeFds
    <2>5. \A c \in Conns : net'[c] # "none" => c <= login_cb_'
        BY <1>1, <2>2, <2>3
    <2>6. \A c \in Conns : uv'[c] \in UvLive => net'[c] # "none"
        BY <2>2, <2>3
    <2>7. ASSUME NEW c \in Conns, NEW d \in Conns, c < d, uv'[c] \in UvLive,
                 net'[d] # "none"
          PROVE  kfd'[c] # kfd'[d]
        <3>1. d <= self /\ c # self
            BY <1>1, <2>2, <2>3, <2>5, <2>7
        <3>2. uv[c] \in UvLive /\ kfd'[c] = kfd[c]
            BY <2>3, <2>7, <3>1
        <3>3. CASE d = self
            BY <2>2, <2>3, <2>4, <3>2, <3>3
        <3>4. CASE d # self
            BY <2>3, <2>7, <3>2, <3>4
        <3>5. QED BY <3>3, <3>4
    <2>8. QED BY <2>3, <2>5, <2>6, <2>7
<1>3. ASSUME UNCHANGED kfd,
             \A c \in Conns : uv'[c] \in UvLive => uv[c] \in UvLive,
             \A c \in Conns : net'[c] = "none" <=> net[c] = "none",
             login_cb_' \in Nat, login_cb_ <= login_cb_',
             pc'["app"] \in {"connect", "open"} =>
                 login_cb_' \in Conns /\ net'[login_cb_'] = "none"
      PROVE  Opened'
    BY <1>1, <1>3
<1>4. CASE ~Open
    <2>1. /\ UNCHANGED kfd
          /\ \A c \in Conns : uv'[c] \in UvLive => uv[c] \in UvLive
        BY <1>4, FewerStep DEF Fewer, ConnectReturns, Register, OnConnectOk, SetStatus
    <2>2. CASE Elsewhere
        BY <1>1, <1>3, <2>1, <2>2 DEF Elsewhere
    <2>3. CASE Login \/ Logout \/ SendMessage
        BY <1>1, <1>3, <2>1, <2>3 DEF Login, Logout, SendMessage
    <2>4. CASE Prepare
        <3>1. login_cb_ < logins /\ logins \in Conns
            BY <2>4 DEF Prepare, At, Attempts, AppState, Reaches
        <3>2. net[logins] = "none"
            BY <1>1, <3>1
        <3>3. login_cb_' = logins /\ net' = net
            BY <2>4 DEF Prepare
        <3>4. QED BY <1>1, <1>3, <2>1, <3>1, <3>2, <3>3
    <2>5. CASE Connect \/ OpenFails \/ GiveUp \/ ConnectReturns
        BY <1>1, <1>3, <2>1, <2>5 DEF Connect, OpenFails, GiveUp, ConnectReturns, At
    <2>6. CASE Shared("app")
        BY <1>1, <1>3, <2>1, <2>6 DEF Shared, LogoutClose, LogoutDrop, SendCheck,
           SendWrite, At, AppState
    <2>7. QED BY <1>4, <2>2, <2>3, <2>4, <2>5, <2>6, ElsewhereStep DEF AppStep
<1>5. QED BY <1>2, <1>4

\* kConnectOk is set on an object the registry has given for its descriptor.
LEMMA ConnectedStep ==
    ASSUME IInv, CredInv, Next
    PROVE  Connected'
<1> USE DEF IInv, TypeOK, TcpTypeOK, ClientTypeOK, CredInv, Connected, Knows, Threads,
           Goto, Call, clientVars, appVars, netVars, frame, ctlVars
<1>1. \A c \in Conns : net[c] # "none" => net'[c] # "none"
    <2>1. CASE Elsewhere
        BY <2>1 DEF Elsewhere
    <2>2. CASE Open
        BY <2>2 DEF Open
    <2>3. CASE ~Elsewhere /\ ~Open
        BY <2>3, ElsewhereStep DEF AppStep, Shared, Login, Logout, SendMessage, Prepare,
           Connect, OpenFails, GiveUp, ConnectReturns, LogoutClose, LogoutDrop, SendCheck,
           SendWrite
    <2>4. QED BY <2>1, <2>2, <2>3
<1>2. pc'["loop"] = "status" =>
          \/ pc["loop"] = "status" /\ held' = held
          \/ Find /\ held' \in Conns /\ Knows(held')
    <2>1. CASE Find
        <3>1. handle \in Conns /\ uv[handle] \in UvLive
            BY <2>1, AtFacts DEF Find, At, LoopState, Reaches
        <3>2. kfd[handle] \in Fds
            BY <3>1 DEF TcpSound, FdOwner
        <3>3. held' # NoConn =>
                  held' \in Conns /\ sock_fd_[held'] = kfd[held'] /\ uv[held'] \in UvLive
            BY <2>1, <3>2 DEF Find, Found, TcpSound, RegistrySound
        <3>4. pc'["loop"] = "status" => held' # NoConn
            BY <2>1 DEF Find
        <3>5. QED BY <2>1, <3>3, <3>4 DEF Opened
    <2>2. CASE OnConnectOk \/ ReadStart \/ Shut \/ OnDisconnected \/ OnHandleAuthRsp
               \/ Answer \/ Return \/ OnTimer
        BY <2>2 DEF OnConnectOk, ReadStart, Shut, OnDisconnected, OnHandleAuthRsp, Answer,
                    Return, OnTimer
    <2>3. CASE Shared("loop")
        BY <2>3 DEF Shared, LogoutClose, LogoutDrop, SendCheck, SendWrite, LoopState
    <2>4. CASE \E c \in Conns : Pick(c) \/ Network(c)
        <3>1. PICK c \in Conns : Pick(c) \/ Network(c)
            BY <2>4
        <3>2. CASE Pick(c)
            BY <3>2 DEF Pick, PickConnectOk, PickConnectErr, PickRead,
                        PickEof, TornRead, Dispatch
        <3>3. CASE Network(c)
            BY <3>3 DEF Network, Establish, Refuse, Lose, NetStep, ServerReply
        <3>4. QED BY <3>1, <3>2, <3>3
    <2>5. CASE Login \/ Logout \/ SendMessage \/ AppStep
        BY <2>5 DEF Login, Logout, SendMessage, AppStep, Prepare, Connect, Open,
           OpenFails, GiveUp, ConnectReturns, Shared, LogoutClose, LogoutDrop, SendCheck,
           SendWrite
    <2>6. CASE Control
        BY <2>6, ControlLeaves
    <2>7. QED BY <2>1, <2>2, <2>3, <2>4, <2>5, <2>6 DEF Next, Control, LoopStep
<1>3. pc["loop"] = "status" => held \in Conns
    BY DEF LoopState
<1>4. CASE Open
    <2>1. PICK f \in FreeFds : UvConnect(self, f)
        BY <1>4 DEF Open
    <2>2. self \in Conns /\ net[self] = "none"
        BY <1>4 DEF Open, At, Attempts, AppState, Opened
    <2>3. /\ connect_status_' = [connect_status_ EXCEPT ![self] = "Connecting"]
          /\ \A c \in Conns : c # self => kfd'[c] = kfd[c]
          /\ sock_fd_' = sock_fd_ /\ held' = held /\ pc'["loop"] = pc["loop"]
        BY <1>4, <2>1 DEF Open, UvConnect
    <2>4. \A c \in Conns : Knows(c) => Knows(c)'
        BY <1>1, <2>2, <2>3
    <2>5. \A c \in Conns : connect_status_'[c] = "ConnectOk" => connect_status_[c] = "ConnectOk"
        BY <2>3
    <2>6. QED BY <1>3, <2>3, <2>4, <2>5
<1>5. CASE ConnectReturns
    <2>1. self \in Conns
        BY <1>5 DEF ConnectReturns, At, AppState
    <2>2. /\ sock_fd_' = [sock_fd_ EXCEPT ![self] = kfd[self]]
          /\ UNCHANGED <<connect_status_, kfd, held>> /\ pc'["loop"] = pc["loop"]
        BY <1>5 DEF ConnectReturns, Register
    <2>3. \A c \in Conns : Knows(c) => Knows(c)'
        BY <1>1, <2>1, <2>2
    <2>4. QED BY <1>3, <2>2, <2>3
<1>6. CASE OnConnectOk
    <2>1. pc["loop"] = "status" /\ held' = held /\ pc'["loop"] = "check"
        BY <1>6 DEF OnConnectOk, At
    <2>2. /\ connect_status_' = [connect_status_ EXCEPT ![held] = "ConnectOk"]
          /\ UNCHANGED <<sock_fd_, kfd>>
        BY <1>6 DEF OnConnectOk, SetStatus
    <2>3. \A c \in Conns : Knows(c) => Knows(c)'
        BY <1>1, <2>2
    <2>4. QED BY <1>3, <2>1, <2>2, <2>3
<1>7. CASE Fewer
    <2>1. \A c \in Conns : Knows(c) => Knows(c)'
        BY <1>1, <1>7 DEF Fewer
    <2>2. \A c \in Conns : connect_status_'[c] = "ConnectOk" => Knows(c)'
        BY <1>7, <2>1 DEF Fewer
    <2>3. pc'["loop"] = "status" => held' \in Conns /\ Knows(held')
        BY <1>2, <1>3
    <2>4. pc'["loop"] = "status" => Knows(held)'
        BY <1>1, <1>7, <2>3 DEF Fewer
    <2>5. QED BY <2>2, <2>4
<1>8. QED BY <1>4, <1>5, <1>6, <1>7, FewerStep

\* AUTH_REQ goes to the connection of the attempt whose credentials it carries.
LEMMA CredentialsStep ==
    ASSUME IInv, CredInv, Next
    PROVE  CredentialsOwn'
<1> USE DEF CredInv, CredentialsOwn
<1>1. CASE SendWrite("loop")
    <2>1. tcp_client_ # NoConn /\ connect_status_[tcp_client_] = "ConnectOk"
        <3>1. pc["loop"] = "write" /\ Broken("loop") = {}
            BY <1>1 DEF SendWrite, At
        <3>2. "assert_connected" \in Faults /\ "null_client" \in Faults
            BY DEF Faults
        <3>3. QED BY <3>1, <3>2 DEF Broken
    <2>2. tcp_client_ = login_cb_ /\ login_cb_ \in Conns
        BY <2>1 DEF Attempts, IInv, TypeOK, ClientTypeOK
    <2>3. Knows(login_cb_)
        BY <2>1, <2>2 DEF Connected
    <2>4. ASSUME NEW c \in Peer PROVE c = login_cb_
        <3>1. c \in Conns /\ uv[c] \in UvLive /\ kfd[c] = kfd[login_cb_]
            BY <2>1, <2>2, <2>3 DEF Peer, PeerOf, FilenoOk, Knows
        <3>2. c <= login_cb_ /\ ~(c < login_cb_)
            BY <2>2, <2>3, <3>1 DEF Opened, Knows
        <3>3. c \in Nat /\ login_cb_ \in Nat
            BY <2>2, <3>1 DEF Conns
        <3>4. QED BY <3>2, <3>3
    <2>5. cred' = [c \in Conns |-> IF c \in Peer THEN login_cb_ ELSE cred[c]]
        BY <1>1 DEF SendWrite
    <2>6. QED BY <2>4, <2>5
<1>2. CASE ~SendWrite("loop")
    <2>1. UNCHANGED cred
        <3> USE DEF IInv, TypeOK, ClientTypeOK, Threads, clientVars, appVars, netVars
        <3>1. CASE Login \/ Logout \/ SendMessage \/ OnTimer
            BY <3>1 DEF Login, Logout, SendMessage, OnTimer
        <3>2. CASE AppStep
            BY <3>2 DEF AppStep, Prepare, Connect, Open, OpenFails, GiveUp, ConnectReturns,
               Shared, LogoutClose, LogoutDrop, SendCheck, SendWrite
        <3>3. CASE LoopStep
            BY <1>2, <3>3 DEF LoopStep, BeginRun, Find, OnConnectOk, ReadStart, Shut, OnDisconnected,
               OnHandleAuthRsp, Answer, Return, Shared, LogoutClose, LogoutDrop, SendCheck
        <3>4. CASE \E c \in Conns : Pick(c) \/ Network(c)
            BY <3>4 DEF Pick, PickConnectOk, PickConnectErr, PickRead,
               PickEof, TornRead, Dispatch, Network, Establish, Refuse, Lose, NetStep,
               ServerReply
        <3>5. CASE Control
            BY <3>5, ControlLeaves
        <3>6. QED BY <3>1, <3>2, <3>3, <3>4, <3>5 DEF Next, Control
    <2>2. QED BY <2>1
<1>3. QED BY <1>1, <1>2

\* Every step keeps the invariant about credentials.
LEMMA CredStep == ASSUME IInv, CredInv, [Next]_vars PROVE CredInv'
<1>1. CASE Next
    BY <1>1, AttemptsStep, OpenedStep, ConnectedStep, CredentialsStep DEF CredInv
<1>2. CASE UNCHANGED vars
    BY <1>2 DEF CredInv, Attempts, Opened, Connected, Knows, CredentialsOwn, Reaches,
                vars, tcpVars, clientVars, appVars, netVars, ctlVars, frame
<1>3. QED BY <1>1, <1>2

\* The invariant about credentials holds at the beginning.
LEMMA InitCred == ASSUME Init PROVE CredInv
BY DEF Init, ClientInit, TcpInit, CredInv, Attempts, Opened, Connected, CredentialsOwn, Reaches,
       Threads, UvLive, NoConn, Conns

\* So it always holds.
LEMMA SpecCred == Spec => []CredInv
<1>1. Init => CredInv
    BY InitCred
<1>2. IInv /\ CredInv /\ [Next]_vars => CredInv'
    BY CredStep
<1>3. QED BY <1>1, <1>2, SpecInv, PTL DEF Spec

-----------------------------------------------------------------------------
(* The theorems *)

\* Every field and every local of login, logout, send, connect, close and of the
\* loop's callbacks keeps its type: in particular no registry entry and no state of
\* a thread outside the ones the code can be in is ever reached.
THEOREM ClientTypeCorrect == Spec => []TypeOK
<1>1. IInv => TypeOK
    BY DEF IInv
<1>2. QED BY <1>1, SpecInv, PTL

\* When calls and callbacks take turns, findTcpClient never resolves a descriptor to
\* the object of another connection, to one that was destroyed or to one whose socket
\* is closed, whatever order login, logout, send and the callbacks come in.
THEOREM RegistryAlwaysSound == Spec => []RegistrySound
<1>1. IInv => RegistrySound
    BY DEF IInv, TcpSound
<1>2. QED BY <1>1, SpecInv, PTL

\* When calls and callbacks take turns, the credentials the loop sends are those of the
\* attempt whose connection gets them, although login keeps the handles of earlier
\* attempts alive and onConnect writes to tcp_client_, not to the handle it runs on.
THEOREM CredentialsAlwaysOwn == Spec => []CredentialsOwn
<1>1. CredInv => CredentialsOwn
    BY DEF CredInv
<1>2. QED BY <1>1, SpecCred, PTL

-----------------------------------------------------------------------------
(***************************************************************************)
(* From here on: the application is patient.  It waits for a connect to be *)
(* settled before it calls login or logout again, and sends only when it   *)
(* has been told that it is logged in.                                     *)
(***************************************************************************)

-----------------------------------------------------------------------------
(* The inductive invariant of one thread at a time *)

\* At most one thread is inside, and it returns to where it was called from.
OneInside ==
    /\ pc["app"] = "idle" \/ pc["loop"] = "idle"
    /\ pc["loop"] \in {"close", "sleep"} => ret["loop"] \in {"done", "answer"}
    /\ pc["loop"] \in {"check", "write"} => ret["loop"] = "started"

\* The calls and their attempts: between two calls of login, login_cb_ is the
\* last attempt; logout called by the application has abandoned it.
Calls ==
    /\ login_cb_ = IF Reaches("app", "prepare") THEN logins - 1 ELSE logins
    /\ pc["app"] \in {"close", "sleep"} /\ ret["app"] = "idle" => logins \in abandoned
    /\ pc["app"] \in {"check", "write"} => LoggedIn

\* The only object is tcp_client_, or the one a callback still holds; the only
\* open socket is tcp_client_'s, of a client that is logging in, and it is in the
\* registry as soon as connect has returned.
OneObject ==
    /\ login_status_ # "LoginOk"
    /\ tcp_client_ = NoConn => login_status_ = "Default"
    /\ tcp_client_ # NoConn =>
           \/ login_status_ = "Logining"
           \/ \E t \in Threads : pc[t] = "sleep"
    /\ \A c \in Conns : uv[c] # "cancelling"
    /\ \A c \in Conns : tcp_handle_[c] => uv[c] \in UvLive \cup {"init"}
    /\ \A c \in Conns : uv[c] \in UvLive \cup {"init"} =>
           c = tcp_client_ /\ login_status_ = "Logining"
    /\ \A c \in Conns : uv[c] \in UvLive => pc["app"] = "register" \/ g_conn_map[kfd[c]] = c

\* No handle has been made for an attempt that is yet to come.
Fresh == \A c \in Conns : c > login_cb_ => uv[c] = "none"

\* tcp_client_ while no thread is in the middle of opening or closing it.
Settled ==
    \/ uv[tcp_client_] = "connecting" /\ connect_status_[tcp_client_] = "Connecting"
    \/ uv[tcp_client_] = "reading" /\ connect_status_[tcp_client_] = "ConnectOk"
    \/ uv[tcp_client_] = "closed" /\ net[tcp_client_] = "none"

\* Where the application's thread is in login or logout, and what it finds.
AppAt ==
    /\ pc["app"] \in {"idle", "close", "check", "write"} /\ pc["loop"] = "idle"
       /\ tcp_client_ # NoConn => Settled
    /\ pc["app"] = "close" /\ tcp_client_ # NoConn => uv[tcp_client_] # "connecting"
    /\ pc["app"] \in {"connect", "open", "giveup", "register"} =>
           tcp_client_ # NoConn /\ tcp_client_ = logins
    /\ pc["app"] \in {"open", "giveup", "register"} => self = tcp_client_
    /\ pc["app"] \in {"connect", "open"} =>
           uv[tcp_client_] = "none" /\ ~tcp_handle_[tcp_client_]
    /\ pc["app"] = "giveup" => /\ uv[tcp_client_] = "init" /\ tcp_handle_[tcp_client_]
                               /\ net[tcp_client_] = "none"
    /\ pc["app"] = "register" => /\ uv[tcp_client_] = "connecting" /\ tcp_handle_[tcp_client_]
                                 /\ connect_status_[tcp_client_] = "Connecting"
    /\ \A t \in Threads : pc[t] = "sleep" =>
           /\ tcp_client_ # NoConn /\ login_status_ = "Default"
           /\ uv[tcp_client_] = "closed"

\* The loop is in a callback of tcp_client_'s own handle until it has let go of it.
LoopAt ==
    pc["loop"] # "idle" =>
        /\ handle \in Conns /\ handle = login_cb_
        /\ held = IF pc["loop"] = "find" THEN NoConn ELSE handle
        /\ pc["loop"] \notin {"answer", "done"} => tcp_client_ = handle
        /\ pc["loop"] = "find" =>
              /\ event \in {"connect_ok", "connect_err", "read", "eof"}
              /\ event = "connect_ok"  => uv[handle] = "connected"
              /\ event = "connect_err" => uv[handle] = "connected" /\ net[handle] = "refused"
              /\ event = "eof"         => uv[handle] = "connected" /\ net[handle] = "lost"
              /\ event = "read" => /\ uv[handle] = "reading"
                                   /\ connect_status_[handle] = "ConnectOk"
        /\ pc["loop"] \in {"status", "check", "write", "started"} => uv[handle] = "connected"
        /\ pc["loop"] \in {"check", "write", "started"} =>
              connect_status_[handle] = "ConnectOk"
        /\ pc["loop"] = "shut" => uv[handle] = "connected" /\ net[handle] \in {"refused", "lost"}
        /\ pc["loop"] = "notify" => uv[handle] = "closed" /\ net[handle] \in {"refused", "lost"}
        /\ pc["loop"] = "auth" =>
              /\ event = "read"
              /\ uv[handle] = "reading" /\ connect_status_[handle] = "ConnectOk"
        /\ pc["loop"] \in {"close", "sleep"} /\ ret["loop"] = "done" =>
              "neterr" \in results[handle] /\ uv[handle] = "closed"
        /\ pc["loop"] \in {"close", "sleep"} /\ ret["loop"] = "answer" =>
              event = "read" /\ reply[handle] = "rejected"
        /\ pc["loop"] = "close" /\ ret["loop"] = "answer" => uv[handle] = "reading"
        /\ pc["loop"] = "answer" =>
              /\ event = "read"
              /\ IF tcp_client_ = NoConn THEN reply[handle] = "rejected" /\ ret["loop"] = "answer"
                 ELSE /\ tcp_client_ = handle /\ reply[handle] = "ok"
                      /\ uv[handle] = "reading" /\ connect_status_[handle] = "ConnectOk"
        /\ pc["loop"] = "done" =>
              /\ tcp_client_ \in {NoConn, handle}
              /\ tcp_client_ = handle =>
                    uv[handle] = "reading" /\ connect_status_[handle] = "ConnectOk"

\* The attempt the application is on keeps its object until it is refused, fails
\* or is left.
Kept ==
    /\ logins # 0 /\ logins \notin abandoned
    /\ results[logins] \cap {"rejected", "neterr"} = {}
    /\ ~Reaches("app", "prepare")
    /\ pc["loop"] # "answer"
    => tcp_client_ = logins

\* Attempt c has not been told an answer.
Awaiting(c) == results[c] \cap Answers = {}

\* What the server and the callbacks have said of a connection.
Said ==
    /\ \A c \in Conns : cred[c] # 0 =>
           net[c] \in {"up", "lost"} /\ uv[c] \notin {"none", "init", "connecting"}
    /\ \A c \in Conns : reply[c] # "none" => cred[c] # 0
    /\ \A c \in unread : Awaiting(c)
    /\ \/ pc["loop"] = "find" /\ event = "read"
       \/ Reaches("loop", "auth") \/ Reaches("loop", "answer")
       => Awaiting(handle) /\ handle \notin unread

SerialInv ==
    /\ Serialised
    /\ OneInside /\ Calls /\ OneObject /\ Fresh /\ AppAt /\ LoopAt /\ Kept /\ Said
    /\ NoOtherFault /\ AnswerIsOwn

-----------------------------------------------------------------------------
(* What the invariant says of a step *)

\* The only TcpClients are tcp_client_'s and the callback's.
LEMMA OnlyHolders ==
    ASSUME IInv, OneObject, NEW c \in alive
    PROVE  c \in Holders /\ c \in Conns
<1>1. c \in Conns
    BY DEF IInv, TypeOK, TcpTypeOK
<1>2. CASE c \in Range(g_conn_map)
    <2>1. PICK f \in Fds : g_conn_map[f] = c
        BY <1>2 DEF Range, IInv, TypeOK, TcpTypeOK
    <2>2. uv[c] \in UvLive
        BY <1>1, <2>1 DEF IInv, TcpSound, RegistrySound, Conns, NoConn
    <2>3. QED BY <1>1, <2>2 DEF OneObject, Holders
<1>3. CASE c \notin Range(g_conn_map)
    BY <1>1, <1>3 DEF IInv, HolderOK
<1>4. QED BY <1>2, <1>3

\* A logged-in application has the connection that was accepted.
LEMMA LoggedInFacts ==
    ASSUME IInv, CredInv, SerialInv, LoggedIn,
           pc["loop"] = "idle", pc["app"] \in {"idle", "check", "write"}
    PROVE  /\ tcp_client_ = logins /\ tcp_client_ \in Conns /\ reply[logins] = "ok"
           /\ connect_status_[tcp_client_] = "ConnectOk" /\ uv[tcp_client_] = "reading"
<1> USE DEF SerialInv, IInv, TypeOK, ClientTypeOK
<1>1. ~Reaches("app", "prepare")
    BY DEF Reaches, CredInv, Attempts
<1>2. logins \in Conns /\ tcp_client_ = logins
    BY <1>1 DEF LoggedIn, Kept
<1>3. "ok" \in results[logins] /\ reply[logins] = "ok"
    BY <1>2 DEF LoggedIn, AnswerIsOwn, Answers
<1>4. net[logins] \in {"up", "lost"} /\ uv[logins] \notin {"none", "init", "connecting"}
    BY <1>2, <1>3 DEF Said
<1>5. Settled /\ tcp_client_ # NoConn
    BY <1>2 DEF AppAt, Conns, NoConn
<1>6. QED BY <1>2, <1>3, <1>4, <1>5 DEF Settled

\* A handle libuv calls back on is tcp_client_'s, and registered.
LEMMA LiveFacts ==
    ASSUME IInv, CredInv, SerialInv, NEW c \in Conns, uv[c] \in UvLive
    PROVE  /\ c = tcp_client_ /\ c = login_cb_ /\ tcp_client_ # NoConn
           /\ login_status_ = "Logining" /\ c \in alive /\ tcp_handle_[c]
           /\ pc["app"] # "register" => Found(c) = c
BY DEF SerialInv, OneObject, CredInv, Attempts, IInv, TcpSound, NoLeak, Found, Conns, NoConn

\* No step dies but of connect's assertion that the loop runs.
LEMMA NotBroken ==
    ASSUME IInv, CredInv, SerialInv, NEW t \in Threads
    PROVE  Broken(t) \subseteq {"assert_loop"}
<1> USE DEF SerialInv, IInv, TypeOK, ClientTypeOK, Threads
<1>1. pc["app"] \in {"check", "write"} =>
          tcp_client_ # NoConn /\ connect_status_[tcp_client_] = "ConnectOk"
    BY LoggedInFacts DEF Calls, OneInside, Conns, NoConn
<1>2. pc["loop"] \in {"check", "write"} =>
          tcp_client_ # NoConn /\ connect_status_[tcp_client_] = "ConnectOk"
    BY DEF LoopAt, Conns, NoConn
<1>3. pc[t] = "connect" => tcp_client_ # NoConn
    BY DEF AppAt, AppPc, LoopPc
<1>4. pc[t] \in {"open", "giveup", "register"} => self \in alive
    BY DEF AppAt, HolderOK, Holders, AppPc, LoopPc
<1>5. pc[t] = "register" => tcp_handle_[self]
    BY DEF AppAt, AppPc, LoopPc
<1>6. ASSUME pc[t] = "find"
      PROVE  FilenoOk(handle) /\ Found(handle) # NoConn
    <2>1. t = "loop" /\ handle \in Conns /\ uv[handle] \in UvLive /\ pc["app"] = "idle"
        BY <1>6 DEF LoopAt, OneInside, UvLive, AppPc, LoopPc
    <2>2. Found(handle) = handle
        BY <2>1, LiveFacts
    <2>3. QED BY <2>1, <2>2 DEF FilenoOk, Conns, NoConn
<1>7. QED BY <1>1, <1>2, <1>3, <1>4, <1>5, <1>6 DEF Broken, Faults

-----------------------------------------------------------------------------
(* The objects *)

\* An object that is released without having a handle is nothing but forgotten.
LEMMA ReleaseQuietly ==
    ASSUME IInv, NEW map, NEW refs, NEW closed \in SUBSET Conns, Release(map, refs, closed),
           \A c \in alive : c \in refs \/ ~tcp_handle_[c]
    PROVE  /\ \A c \in Conns : c \notin closed =>
                 uv'[c] = uv[c] /\ tcp_handle_'[c] = tcp_handle_[c]
           /\ \A c \in closed : ~tcp_handle_'[c]
           /\ \A c \in closed : uv'[c] = IF tcp_handle_[c] THEN UvClose(c) ELSE uv[c]
           /\ \A c \in alive : c \in refs /\ c \notin closed =>
                 connect_status_'[c] = connect_status_[c]
           /\ alive \subseteq refs => g_conn_map' = Erase(map, {})
           /\ alive' \subseteq alive
<1> DEFINE dead == Orphans(map, refs) \cup Orphans(Reaped(map, refs), refs)
           gone == closed \cup dead
<1>1. /\ uv' = [c \in Conns |-> IF c \in gone /\ tcp_handle_[c] THEN UvClose(c) ELSE uv[c]]
      /\ tcp_handle_' = [c \in Conns |-> tcp_handle_[c] /\ c \notin gone]
      /\ connect_status_' = [c \in Conns |-> IF c \in gone THEN "DisConnected"
                                             ELSE connect_status_[c]]
      /\ alive' = alive \ dead
      /\ g_conn_map' = Reaped(map, refs)
    BY DEF Release
<1>2. \A c \in dead : c \in alive /\ c \notin refs
    BY DEF Orphans
<1>3. \A c \in dead : ~tcp_handle_[c]
    BY <1>2
<1>4. alive \subseteq Conns /\ tcp_handle_ \in [Conns -> BOOLEAN]
    BY DEF IInv, TypeOK, TcpTypeOK
<1>5. alive \subseteq refs => g_conn_map' = Erase(map, {})
    <2>1. SUFFICES ASSUME alive \subseteq refs PROVE g_conn_map' = Erase(map, {})
        OBVIOUS
    <2>2. {sock_fd_[c] : c \in Orphans(map, refs)} = {}
        BY <2>1 DEF Orphans
    <2>3. QED BY <1>1, <2>2 DEF Reaped
<1> HIDE DEF dead
<1>6. \A c \in Conns : c \notin closed =>
         uv'[c] = uv[c] /\ tcp_handle_'[c] = tcp_handle_[c]
    BY <1>1, <1>3, <1>4
<1>7. /\ \A c \in closed : ~tcp_handle_'[c]
      /\ \A c \in closed : uv'[c] = IF tcp_handle_[c] THEN UvClose(c) ELSE uv[c]
    BY <1>1
<1>8. \A c \in alive : c \in refs /\ c \notin closed => connect_status_'[c] = connect_status_[c]
    BY <1>1, <1>2, <1>4
<1>9. QED BY <1>1, <1>5, <1>6, <1>7, <1>8

\* close() on tcp_client_.
LEMMA CloseOnly ==
    ASSUME IInv, OneObject, tcp_client_ # NoConn, uv[tcp_client_] # "connecting",
           Close(tcp_client_, Holders)
    PROVE  /\ \A c \in Conns : c # tcp_client_ =>
                 uv'[c] = uv[c] /\ tcp_handle_'[c] = tcp_handle_[c]
           /\ ~tcp_handle_'[tcp_client_]
           /\ uv'[tcp_client_] =
                 IF tcp_handle_[tcp_client_] THEN "closed" ELSE uv[tcp_client_]
<1>1. tcp_client_ \in Conns
    BY DEF IInv, TypeOK, ClientTypeOK
<1>2. Release(Erase(g_conn_map, {sock_fd_[tcp_client_]}), Holders, {tcp_client_})
    BY DEF Close
<1>3. \A c \in alive : c \in Holders \/ ~tcp_handle_[c]
    BY OnlyHolders
<1>4. UvClose(tcp_client_) = "closed"
    BY DEF UvClose
<1>5. {tcp_client_} \in SUBSET Conns
    BY <1>1
<1>6. QED BY <1>1, <1>2, <1>3, <1>4, <1>5, ReleaseQuietly

\* A reference is dropped: tcp_client_'s to an object that is closed already, or
\* the callback's own.
LEMMA DropOnly ==
    ASSUME IInv, NEW refs, DropRef(refs), \A c \in alive : c \in refs \/ ~tcp_handle_[c]
    PROVE  /\ \A c \in Conns : uv'[c] = uv[c] /\ tcp_handle_'[c] = tcp_handle_[c]
           /\ \A c \in alive : c \in refs => connect_status_'[c] = connect_status_[c]
           /\ alive \subseteq refs => \A f \in Fds : g_conn_map'[f] = g_conn_map[f]
<1>1. Release(g_conn_map, refs, {}) /\ {} \in SUBSET Conns
    BY DEF DropRef
<1>2. /\ \A c \in Conns : c \notin {} => uv'[c] = uv[c] /\ tcp_handle_'[c] = tcp_handle_[c]
      /\ \A c \in alive : c \in refs /\ c \notin {} => connect_status_'[c] = connect_status_[c]
      /\ alive \subseteq refs => g_conn_map' = Erase(g_conn_map, {})
    BY <1>1, ReleaseQuietly
<1>3. \A f \in Fds : Erase(g_conn_map, {})[f] = g_conn_map[f]
    BY DEF Erase
<1>4. QED BY <1>2, <1>3

-----------------------------------------------------------------------------
(* What the steps do to the sockets *)

\* logout, a failed connect and a callback that ends a connection close tcp_client_.
LEMMA Closing ==
    ASSUME IInv, CredInv, SerialInv, NEW t \in Threads, GiveUp \/ Shut \/ LogoutClose(t)
    PROVE  /\ \A c \in Conns : c # tcp_client_ =>
                 uv'[c] = uv[c] /\ tcp_handle_'[c] = tcp_handle_[c]
           /\ tcp_client_ # NoConn =>
                 uv'[tcp_client_] = "closed" /\ ~tcp_handle_'[tcp_client_]
           /\ tcp_client_' = tcp_client_
<1> USE DEF SerialInv, IInv, TypeOK, ClientTypeOK, Threads, At, clientVars
<1>1. CASE tcp_client_ = NoConn
    <2>1. LogoutClose(t)
        BY <1>1 DEF GiveUp, Shut, AppAt, LoopAt, Conns, NoConn
    <2>2. UNCHANGED <<tcpVars, tcp_client_>>
        BY <1>1, <2>1 DEF LogoutClose
    <2>3. QED BY <1>1, <2>2 DEF tcpVars
<1>2. CASE tcp_client_ # NoConn
    <2>1. /\ uv[tcp_client_] \in {"init", "connected", "reading", "closed"}
          /\ uv[tcp_client_] = "init" => tcp_handle_[tcp_client_]
          /\ Close(tcp_client_, Holders) /\ UNCHANGED tcp_client_
        <3>1. CASE GiveUp
            BY <3>1 DEF GiveUp, AppAt
        <3>2. CASE Shut
            BY <3>2 DEF Shut, LoopAt
        <3>3. CASE LogoutClose(t)
            BY <1>2, <3>3 DEF LogoutClose, LoopAt, AppAt, OneInside, Settled
        <3>4. QED BY <3>1, <3>2, <3>3
    <2>2. tcp_client_ \in Conns
        BY <1>2
    <2>3. uv[tcp_client_] \in {"connected", "reading"} => tcp_handle_[tcp_client_]
        BY <2>2 DEF TcpSound, NoLeak, UvLive
    <2>4. QED BY <1>2, <2>1, <2>3, CloseOnly
<1>3. QED BY <1>1, <1>2

\* connect on a new object, and a reference that goes, change nothing that is open.
LEMMA Dropping ==
    ASSUME IInv, CredInv, SerialInv, NEW t \in Threads, Connect \/ Return \/ LogoutDrop(t)
    PROVE  /\ \A c \in Conns : uv'[c] = uv[c] /\ (tcp_handle_'[c] <=> tcp_handle_[c])
           /\ Return /\ tcp_client_ # NoConn =>
                 /\ connect_status_'[tcp_client_] = connect_status_[tcp_client_]
                 /\ \A f \in Fds : g_conn_map'[f] = g_conn_map[f]
<1> USE DEF SerialInv, IInv, TypeOK, TcpTypeOK, ClientTypeOK, Threads, At
<1>1. CASE Connect
    <2>1. /\ tcp_client_ # NoConn /\ uv[tcp_client_] = "none" /\ ~tcp_handle_[tcp_client_]
          /\ Close(tcp_client_, Holders) /\ pc["app"] = "connect"
        BY <1>1 DEF Connect, AppAt
    <2>2. \A c \in Conns : uv'[c] = uv[c] /\ (tcp_handle_'[c] <=> tcp_handle_[c])
        BY <2>1, CloseOnly
    <2>3. ~Return
        BY <2>1 DEF Return, OneInside
    <2>4. QED BY <2>2, <2>3
<1>2. CASE Return
    <2>1. DropRef({tcp_client_}) /\ pc["loop"] = "done"
        BY <1>2 DEF Return
    <2>2. held = handle /\ tcp_client_ \in {NoConn, handle}
        BY <2>1 DEF LoopAt
    <2>3. \A c \in alive : c \in Holders /\ c \in Conns
        BY OnlyHolders
    <2>4. \A c \in alive : c \in {tcp_client_} \/ ~tcp_handle_[c]
        BY <2>3 DEF OneObject
    <2>5. tcp_client_ # NoConn => tcp_client_ \in alive /\ alive \subseteq {tcp_client_}
        BY <2>2, <2>3 DEF Holders, HolderOK
    <2>6. QED BY <2>1, <2>4, <2>5, DropOnly
<1>3. CASE LogoutDrop(t)
    <2>1. /\ pc[t] = "sleep" /\ uv[tcp_client_] = "closed" /\ DropRef({held})
        BY <1>3 DEF LogoutDrop, AppAt
    <2>2. \A c \in Conns : ~tcp_handle_[c]
        BY <2>1 DEF OneObject, UvLive
    <2>3. ~Return
        BY <2>1 DEF Return, OneInside
    <2>4. QED BY <2>1, <2>2, <2>3, DropOnly
<1>4. QED BY <1>1, <1>2, <1>3

\* The rest opens and moves no socket but tcp_client_'s.
LEMMA OtherSockets ==
    ASSUME Patient, IInv, CredInv, SerialInv, Next
    PROVE  \A c \in Conns : c # tcp_client_ => uv'[c] = uv[c]
<1> USE DEF SerialInv, IInv, TypeOK, TcpTypeOK, ClientTypeOK, At
<1>1. CASE Quiet
    BY <1>1, QuietTcp DEF tcpVars
<1>2. CASE Picked
    <2>1. PICK c \in Conns, s \in UvLive : uv[c] \in UvLive /\ UvStep(c, s)
        BY <1>2 DEF Picked, PickConnectOk, PickRefused, PickCancelled, PickRead, PickEof,
                    Dispatch, OneObject, UvLive
    <2>2. c = tcp_client_
        BY <2>1 DEF OneObject
    <2>3. QED BY <2>1, <2>2 DEF UvStep
<1>3. CASE Open \/ OpenFails
    BY <1>3 DEF Open, OpenFails, UvConnect, UvConnectFails, AppAt
<1>4. CASE Prepare \/ ConnectReturns \/ OnConnectOk
    BY <1>4 DEF Prepare, Construct, ConnectReturns, Register, OnConnectOk, SetStatus, tcpVars
<1>5. CASE ReadStart
    BY <1>5 DEF ReadStart, UvStep, LoopAt
<1>6. CASE Connect \/ GiveUp \/ Shut \/ Return \/ \E t \in Threads : LogoutClose(t) \/ LogoutDrop(t)
    BY <1>6, Closing, Dropping DEF Threads
<1>7. QED BY <1>1, <1>2, <1>3, <1>4, <1>5, <1>6, NextCases

-----------------------------------------------------------------------------
(* The steps *)

\* A thread enters only when the other is outside.
LEMMA OneInsideStep ==
    ASSUME Patient, IInv, CredInv, SerialInv, Next
    PROVE  OneInside'
<1> USE DEF IInv, TypeOK, ClientTypeOK, Threads, At, Goto, Call, AppPc, LoopPc,
           clientVars, appVars, netVars, frame, ctlVars, SerialInv, OneInside
<1>1. CASE Login \/ Logout \/ SendMessage
    BY <1>1 DEF Login, Enter, At, Logout, SendMessage
<1>2. CASE Prepare \/ Connect \/ Open \/ OpenFails \/ GiveUp \/ ConnectReturns
    BY <1>2 DEF Prepare, Connect, Open, OpenFails, GiveUp, ConnectReturns
<1>3. CASE Find \/ OnConnectOk \/ ReadStart \/ Shut \/ OnDisconnected \/ OnHandleAuthRsp
           \/ Answer \/ Return \/ OnTimer
    BY <1>3
       DEF Find, OnConnectOk, ReadStart, Shut, OnDisconnected, OnHandleAuthRsp, Answer,
           Return, OnTimer, Enter, At
<1>4. ASSUME NEW t \in Threads, LogoutClose(t) \/ LogoutDrop(t) \/ SendCheck(t) \/
             SendWrite(t)
      PROVE  OneInside'
    BY <1>4 DEF LogoutClose, LogoutDrop, SendCheck, SendWrite
<1>5. CASE Control
    BY <1>5, ControlLeaves DEF tcpVars
<1>6. ASSUME NEW c \in Conns, PickConnectOk(c) \/ PickRefused(c) \/ PickCancelled(c)
             \/ PickRead(c) \/ PickEof(c) \/ TornRead(c)
      PROVE  OneInside'
    BY <1>6
       DEF PickConnectOk, Dispatch, Enter, PickRefused, PickCancelled, PickRead,
           PickEof, TornRead
<1>7. ASSUME NEW c \in Conns, Establish(c) \/ Refuse(c) \/ Lose(c) \/ ServerReply(c)
      PROVE  OneInside'
    BY <1>7 DEF Establish, NetStep, Refuse, Lose, ServerReply
<1>8. QED BY <1>1, <1>2, <1>3, <1>4, <1>5, <1>6, <1>7, ErrorCases
          DEF Next, Control, AppStep, LoopStep, Shared, Pick, Network, Threads

\* The calls of the application, one after the other.
LEMMA CallsStep ==
    ASSUME Patient, IInv, CredInv, SerialInv, Next
    PROVE  Calls'
<1> USE DEF IInv, TypeOK, ClientTypeOK, Threads, At, Goto, Call, AppPc, LoopPc,
           clientVars, appVars, netVars, frame, ctlVars, SerialInv, Calls, CredInv,
           Attempts, Reaches, OneInside, LoggedIn
<1>0. logins \in Nat /\ login_cb_ \in Nat
    BY DEF Conns
<1>1. CASE SendMessage
    BY <1>1, <1>0 DEF SendMessage, Enter, At
<1>2. CASE Login
    BY <1>2, <1>0 DEF Login, Enter, At
<1>3. CASE Logout
    BY <1>3, <1>0 DEF Logout, Enter, At
<1>4. CASE Prepare \/ Connect \/ Open \/ OpenFails \/ GiveUp \/ ConnectReturns
    BY <1>4, <1>0 DEF Prepare, Connect, Open, OpenFails, GiveUp, ConnectReturns
<1>5. CASE Find \/ OnConnectOk \/ ReadStart \/ Shut \/ OnHandleAuthRsp \/ Return
    BY <1>5, <1>0 DEF Find, OnConnectOk, ReadStart, Shut, OnHandleAuthRsp, Return
<1>6. CASE OnDisconnected
    BY <1>6, <1>0 DEF OnDisconnected, Tell
<1>7. CASE Answer
    BY <1>7, <1>0 DEF Answer, Tell
<1>8. CASE OnTimer
    BY <1>8, <1>0 DEF OnTimer, Enter, At, Tell
<1>9. ASSUME NEW t \in Threads, LogoutClose(t) PROVE Calls'
    <2>1. CASE t = "app"
        <3>1. /\ UNCHANGED <<login_cb_, logins, abandoned, ret>> /\ ret["app"] \in {"idle", "prepare"}
              /\ pc["app"] = "close" /\ pc'["app"] \in {"sleep", ret["app"]}
            BY <1>9, <2>1 DEF LogoutClose, AppState
        <3>2. QED BY <3>1, <1>0
    <2>2. CASE t = "loop"
        BY <1>9, <1>0, <2>2 DEF LogoutClose
    <2>3. QED BY <2>1, <2>2
<1>10. ASSUME NEW t \in Threads, LogoutDrop(t) PROVE Calls'
    <2>1. CASE t = "app"
        <3>1. /\ UNCHANGED <<login_cb_, logins, abandoned, ret>> /\ ret["app"] \in {"idle", "prepare"}
              /\ pc["app"] = "sleep" /\ pc'["app"] \in {"sleep", ret["app"]}
            BY <1>10, <2>1 DEF LogoutDrop, AppState
        <3>2. QED BY <3>1, <1>0
    <2>2. CASE t = "loop"
        BY <1>10, <1>0, <2>2 DEF LogoutDrop
    <2>3. QED BY <2>1, <2>2
<1>11. ASSUME NEW t \in Threads, SendCheck(t) PROVE Calls'
    BY <1>11, <1>0 DEF SendCheck
<1>12. ASSUME NEW t \in Threads, SendWrite(t) PROVE Calls'
    BY <1>12, <1>0 DEF SendWrite
<1>13. CASE Control
    BY <1>13, ControlLeaves DEF tcpVars
<1>14. ASSUME NEW c \in Conns, PickConnectOk(c) \/ PickRefused(c) \/ PickCancelled(c)
             \/ PickRead(c) \/ PickEof(c) \/ TornRead(c)
      PROVE  Calls'
    BY <1>14, <1>0
       DEF PickConnectOk, Dispatch, Enter, PickRefused, PickCancelled, PickRead,
           PickEof, TornRead
<1>15. ASSUME NEW c \in Conns, Establish(c) \/ Refuse(c) \/ Lose(c) \/ ServerReply(c)
      PROVE  Calls'
    BY <1>15, <1>0 DEF Establish, NetStep, Refuse, Lose, ServerReply
<1>16. QED BY <1>1, <1>2, <1>3, <1>4, <1>5, <1>6, <1>7, <1>8, <1>9, <1>10, <1>11, <1>12,
             <1>13, <1>14, <1>15, ErrorCases
          DEF Next, Control, AppStep, LoopStep, Shared, Pick, Network, Threads

\* There is one object with one socket, and close takes both.
LEMMA OneObjectStep ==
    ASSUME Patient, IInv, CredInv, SerialInv, Next
    PROVE  OneObject'
<1> USE DEF IInv, TypeOK, TcpTypeOK, ClientTypeOK, Threads, At, Goto, Call, AppPc,
           LoopPc, tcpVars, clientVars, appVars, netVars, frame, ctlVars, SerialInv,
           OneObject
<1>1. CASE Login
    <2>1. UNCHANGED <<tcpVars, clientVars>>
        BY <1>1 DEF Login
    <2>2. pc["app"] = "idle" /\ pc'["app"] # "sleep" /\ pc'["loop"] = pc["loop"]
        BY <1>1 DEF Login, Enter
    <2>3. QED BY <2>1, <2>2
<1>2. CASE Logout
    <2>1. UNCHANGED <<tcpVars, clientVars>>
        BY <1>2 DEF Logout
    <2>2. pc["app"] = "idle" /\ pc'["app"] # "sleep" /\ pc'["loop"] = pc["loop"]
        BY <1>2 DEF Logout, Enter
    <2>3. QED BY <2>1, <2>2
<1>3. CASE SendMessage
    <2>1. UNCHANGED <<tcpVars, clientVars>>
        BY <1>3 DEF SendMessage
    <2>2. pc["app"] = "idle" /\ pc'["app"] # "sleep" /\ pc'["loop"] = pc["loop"]
        BY <1>3 DEF SendMessage, Enter
    <2>3. QED BY <2>1, <2>2
<1>4. CASE Prepare
    <2>1. tcp_client_ = NoConn /\ pc["app"] = "prepare"
        BY <1>4 DEF Prepare, CredInv, Attempts
    <2>2. \A c \in Conns : uv[c] \notin UvLive \cup {"init"}
        BY <2>1 DEF Conns, NoConn
    <2>3. logins # 0 /\ login_status_' = "Logining" /\ tcp_client_' = logins
          /\ Construct(logins)
        BY <1>4, <2>1 DEF Prepare, AppState, Reaches
    <2>4. QED BY <2>2, <2>3 DEF Construct, NoConn
<1>5. CASE Connect
    <2>1. /\ tcp_client_ # NoConn /\ uv[tcp_client_] = "none" /\ UNCHANGED clientVars
          /\ pc["app"] = "connect" /\ pc'["app"] = "open" /\ pc'["loop"] = pc["loop"]
        BY <1>5 DEF Connect, AppAt
    <2>2. \A c \in Conns : uv'[c] = uv[c] /\ (tcp_handle_'[c] <=> tcp_handle_[c])
        BY <1>5, Dropping
    <2>3. \A c \in Conns : uv[c] \notin UvLive \cup {"init"}
        BY <2>1 DEF UvLive
    <2>4. QED BY <2>1, <2>2, <2>3
<1>6. CASE Open
    <2>1. PICK f \in FreeFds : UvConnect(self, f)
        BY <1>6 DEF Open
    <2>2. pc["app"] = "open" /\ self = tcp_client_ /\ self \in Conns /\ pc["loop"] = "idle"
          /\ tcp_client_ # NoConn
        BY <1>6 DEF Open, AppAt, OneInside, Conns, NoConn
    <2>3. login_status_ = "Logining"
        BY <2>2
    <2>4. UNCHANGED clientVars /\ pc'["app"] = "register" /\ pc'["loop"] = pc["loop"]
        BY <1>6 DEF Open
    <2>5. QED BY <2>1, <2>2, <2>3, <2>4 DEF UvConnect, UvLive
<1>7. CASE OpenFails
    <2>1. /\ pc["app"] = "open" /\ self = tcp_client_ /\ self \in Conns /\ pc["loop"] = "idle"
          /\ uv[self] = "none" /\ tcp_client_ # NoConn
        BY <1>7 DEF OpenFails, AppAt, OneInside, Conns, NoConn
    <2>2. login_status_ = "Logining"
        BY <2>1
    <2>3. /\ UNCHANGED clientVars /\ pc'["app"] = "giveup" /\ pc'["loop"] = pc["loop"]
          /\ UvConnectFails(self)
        BY <1>7 DEF OpenFails
    <2>4. \A c \in Conns : uv[c] \notin UvLive
        BY <2>1 DEF UvLive
    <2>5. QED BY <2>1, <2>2, <2>3, <2>4 DEF UvConnectFails, UvLive
<1>8. CASE GiveUp
    <2>1. /\ tcp_client_ # NoConn /\ UNCHANGED clientVars
          /\ pc["app"] = "giveup" /\ pc'["app"] = "idle" /\ pc'["loop"] = pc["loop"]
        BY <1>8 DEF GiveUp, AppAt
    <2>2. QED BY <1>8, <2>1, Closing DEF UvLive
<1>9. CASE ConnectReturns
    <2>1. self = tcp_client_ /\ self \in Conns /\ pc["app"] = "register"
        BY <1>9 DEF ConnectReturns, AppAt, Conns, NoConn
    <2>2. /\ UNCHANGED clientVars /\ Register(self) /\ pc'["app"] = "idle"
          /\ pc'["loop"] = pc["loop"]
        BY <1>9 DEF ConnectReturns
    <2>3. ASSUME NEW c \in Conns, uv[c] \in UvLive PROVE g_conn_map'[kfd[c]] = c
        <3>1. c = self /\ kfd[c] \in Fds
            BY <2>1, <2>3 DEF TcpSound, FdOwner
        <3>2. QED BY <2>2, <3>1 DEF Register
    <2>4. QED BY <2>1, <2>2, <2>3 DEF Register
<1>10. CASE Find
    <2>1. UNCHANGED <<tcpVars, clientVars>>
        BY <1>10 DEF Find
    <2>2. pc'["app"] = pc["app"] /\ (pc["loop"] = "sleep" <=> pc'["loop"] = "sleep")
        BY <1>10 DEF Find
    <2>3. QED BY <2>1, <2>2
<1>11. CASE OnConnectOk
    <2>1. UNCHANGED clientVars /\ SetStatus(held, "ConnectOk")
        BY <1>11 DEF OnConnectOk
    <2>2. pc'["app"] = pc["app"] /\ pc["loop"] = "status" /\ pc'["loop"] = "check"
        BY <1>11 DEF OnConnectOk
    <2>3. QED BY <2>1, <2>2 DEF SetStatus
<1>12. CASE ReadStart
    <2>1. UNCHANGED clientVars /\ UvStep(handle, "reading") /\ handle \in Conns
          /\ uv[handle] \in UvLive
        BY <1>12 DEF ReadStart, LoopAt, FilenoOk, UvLive
    <2>2. pc'["app"] = pc["app"] /\ pc["loop"] = "started" /\ pc'["loop"] = "done"
        BY <1>12 DEF ReadStart
    <2>3. QED BY <2>1, <2>2 DEF UvStep, UvLive
<1>13. CASE Shut
    <2>1. /\ tcp_client_ # NoConn /\ UNCHANGED clientVars
          /\ pc["loop"] = "shut" /\ pc'["loop"] = "notify" /\ pc'["app"] = pc["app"]
        BY <1>13 DEF Shut, LoopAt, Conns, NoConn
    <2>2. QED BY <1>13, <2>1, Closing DEF UvLive
<1>14. CASE OnDisconnected
    <2>1. UNCHANGED <<tcpVars, clientVars>>
        BY <1>14 DEF OnDisconnected
    <2>2. pc'["app"] = pc["app"] /\ (pc["loop"] = "sleep" <=> pc'["loop"] = "sleep")
        BY <1>14 DEF OnDisconnected, Tell
    <2>3. QED BY <2>1, <2>2
<1>15. CASE OnHandleAuthRsp
    <2>1. UNCHANGED <<tcpVars, clientVars>>
        BY <1>15 DEF OnHandleAuthRsp
    <2>2. pc'["app"] = pc["app"] /\ (pc["loop"] = "sleep" <=> pc'["loop"] = "sleep")
        BY <1>15 DEF OnHandleAuthRsp
    <2>3. QED BY <2>1, <2>2
<1>16. CASE Answer
    <2>1. UNCHANGED <<tcpVars, clientVars>>
        BY <1>16 DEF Answer
    <2>2. pc'["app"] = pc["app"] /\ (pc["loop"] = "sleep" <=> pc'["loop"] = "sleep")
        BY <1>16 DEF Answer, Tell
    <2>3. QED BY <2>1, <2>2
<1>17. CASE Return
    <2>1. /\ UNCHANGED clientVars /\ kfd' = kfd
          /\ pc["loop"] = "done" /\ pc'["loop"] = "idle" /\ pc'["app"] = pc["app"]
        BY <1>17 DEF Return, DropRef, Release
    <2>2. /\ \A c \in Conns : uv'[c] = uv[c] /\ (tcp_handle_'[c] <=> tcp_handle_[c])
          /\ tcp_client_ # NoConn => \A f \in Fds : g_conn_map'[f] = g_conn_map[f]
        BY <1>17, Dropping
    <2>3. \A c \in Conns : uv[c] \in UvLive => tcp_client_ # NoConn /\ kfd[c] \in Fds
        BY DEF TcpSound, FdOwner, Conns, NoConn
    <2>4. QED BY <2>1, <2>2, <2>3
<1>18. CASE OnTimer
    <2>1. UNCHANGED <<tcpVars, login_status_, tcp_client_>>
        BY <1>18 DEF OnTimer
    <2>2. pc'["app"] = pc["app"] /\ pc["loop"] = "idle" /\ pc'["loop"] # "sleep"
        BY <1>18 DEF OnTimer, Enter
    <2>3. QED BY <2>1, <2>2
<1>19. ASSUME NEW t \in Threads, LogoutClose(t) PROVE OneObject'
    <2>1. tcp_client_ # NoConn => pc'[t] = "sleep"
        BY <1>19 DEF LogoutClose
    <2>2. login_status_' = "Default" /\ tcp_client_' = tcp_client_
        BY <1>19 DEF LogoutClose
    <2>3. \A c \in Conns : uv'[c] \notin UvLive \cup {"init", "cancelling"} /\ ~tcp_handle_'[c]
        <3>1. \A c \in Conns : c # tcp_client_ => uv[c] \notin UvLive \cup {"init"} /\ ~tcp_handle_[c]
            OBVIOUS
        <3>2. /\ \A c \in Conns : c # tcp_client_ =>
                    uv'[c] = uv[c] /\ tcp_handle_'[c] = tcp_handle_[c]
              /\ tcp_client_ # NoConn => uv'[tcp_client_] = "closed" /\ ~tcp_handle_'[tcp_client_]
            BY <1>19, Closing
        <3>3. NoConn \notin Conns
            BY DEF Conns, NoConn
        <3>4. QED BY <3>1, <3>2, <3>3 DEF UvLive
    <2>4. QED BY <2>1, <2>2, <2>3 DEF UvLive
<1>20. ASSUME NEW t \in Threads, LogoutDrop(t) PROVE OneObject'
    <2>1. tcp_client_' = NoConn /\ login_status_' = "Default"
        BY <1>20 DEF LogoutDrop, AppAt
    <2>2. \A c \in Conns : ~tcp_handle_[c] /\ uv[c] \notin UvLive \cup {"init"}
        BY <1>20 DEF LogoutDrop, AppAt, UvLive
    <2>3. \A c \in Conns : uv'[c] = uv[c] /\ (tcp_handle_'[c] <=> tcp_handle_[c])
        BY <1>20, Dropping
    <2>4. QED BY <2>1, <2>2, <2>3
<1>21. ASSUME NEW t \in Threads, SendCheck(t) PROVE OneObject'
    <2>1. UNCHANGED <<tcpVars, clientVars>>
        BY <1>21 DEF SendCheck
    <2>2. pc[t] = "check" /\ pc'[t] # "sleep" /\ \A u \in Threads : u # t => pc'[u] = pc[u]
        BY <1>21 DEF SendCheck, AppState, LoopState
    <2>3. QED BY <2>1, <2>2
<1>22. ASSUME NEW t \in Threads, SendWrite(t) PROVE OneObject'
    <2>1. UNCHANGED <<tcpVars, clientVars>>
        BY <1>22 DEF SendWrite
    <2>2. pc[t] = "write" /\ pc'[t] # "sleep" /\ \A u \in Threads : u # t => pc'[u] = pc[u]
        BY <1>22 DEF SendWrite, AppState, LoopState
    <2>3. QED BY <2>1, <2>2
<1>23. CASE Control
    BY <1>23, ControlLeaves DEF tcpVars
<1>24. ASSUME NEW c \in Conns, TornRead(c) PROVE OneObject'
    BY <1>24 DEF TornRead, Enter
<1>25. ASSUME NEW c \in Conns, PickConnectOk(c) PROVE OneObject'
    <2>1. PICK s \in UvLive : UvStep(c, s)
        BY <1>25 DEF PickConnectOk, Dispatch, UvLive
    <2>2. UNCHANGED clientVars /\ uv[c] \in UvLive
        BY <1>25 DEF PickConnectOk, Dispatch, UvLive
    <2>3. pc'["app"] = pc["app"] /\ pc["loop"] = "idle" /\ pc'["loop"] = "find"
        BY <1>25 DEF PickConnectOk, Dispatch, Enter
    <2>4. QED BY <2>1, <2>2, <2>3 DEF UvStep, UvLive
<1>26. ASSUME NEW c \in Conns, PickRefused(c) PROVE OneObject'
    <2>1. PICK s \in UvLive : UvStep(c, s)
        BY <1>26 DEF PickRefused, Dispatch, UvLive
    <2>2. UNCHANGED clientVars /\ uv[c] \in UvLive
        BY <1>26 DEF PickRefused, Dispatch, UvLive
    <2>3. pc'["app"] = pc["app"] /\ pc["loop"] = "idle" /\ pc'["loop"] = "find"
        BY <1>26 DEF PickRefused, Dispatch, Enter
    <2>4. QED BY <2>1, <2>2, <2>3 DEF UvStep, UvLive
<1>27. ASSUME NEW c \in Conns, PickCancelled(c) PROVE OneObject'
    BY <1>27 DEF PickCancelled
<1>28. ASSUME NEW c \in Conns, PickRead(c) PROVE OneObject'
    <2>1. PICK s \in UvLive : UvStep(c, s)
        BY <1>28 DEF PickRead, Dispatch, UvLive
    <2>2. UNCHANGED clientVars /\ uv[c] \in UvLive
        BY <1>28 DEF PickRead, Dispatch, UvLive
    <2>3. pc'["app"] = pc["app"] /\ pc["loop"] = "idle" /\ pc'["loop"] = "find"
        BY <1>28 DEF PickRead, Dispatch, Enter
    <2>4. QED BY <2>1, <2>2, <2>3 DEF UvStep, UvLive
<1>29. ASSUME NEW c \in Conns, PickEof(c) PROVE OneObject'
    <2>1. PICK s \in UvLive : UvStep(c, s)
        BY <1>29 DEF PickEof, Dispatch, UvLive
    <2>2. UNCHANGED clientVars /\ uv[c] \in UvLive
        BY <1>29 DEF PickEof, Dispatch, UvLive
    <2>3. pc'["app"] = pc["app"] /\ pc["loop"] = "idle" /\ pc'["loop"] = "find"
        BY <1>29 DEF PickEof, Dispatch, Enter
    <2>4. QED BY <2>1, <2>2, <2>3 DEF UvStep, UvLive
<1>30. ASSUME NEW c \in Conns, Establish(c) \/ Refuse(c) \/ Lose(c) \/ ServerReply(c)
      PROVE  OneObject'
    BY <1>30 DEF Establish, NetStep, Refuse, Lose, ServerReply
<1>31. QED BY <1>1, <1>2, <1>3, <1>4, <1>5, <1>6, <1>7, <1>8, <1>9, <1>10, <1>11, <1>12,
             <1>13, <1>14, <1>15, <1>16, <1>17, <1>18, <1>19, <1>20, <1>21, <1>22,
             <1>23, <1>24, <1>25, <1>26, <1>27, <1>28, <1>29, <1>30, ErrorCases
          DEF Next, Control, AppStep, LoopStep, Shared, Pick, Network, Threads

\* Handles are made by connect, on the object of the moment.
LEMMA FreshStep ==
    ASSUME Patient, IInv, CredInv, SerialInv, Next
    PROVE  Fresh'
<1>1. login_cb_ \in Nat /\ login_cb_' \in Nat /\ login_cb_ <= login_cb_'
    <2>1. login_cb_ \in Nat /\ logins \in Nat
        BY DEF IInv, TypeOK, ClientTypeOK, Conns
    <2>2. login_cb_' = login_cb_ \/ (login_cb_' = logins /\ login_cb_ < logins)
        BY ElsewhereStep DEF Elsewhere, Login, Logout, SendMessage, AppStep, Shared, Prepare,
           Connect, Open, OpenFails, GiveUp, ConnectReturns, LogoutClose, LogoutDrop, SendCheck,
           SendWrite, clientVars, At, CredInv, Attempts, Reaches
    <2>3. QED BY <2>1, <2>2
<1>2. ASSUME NEW c \in Conns, c > login_cb_' PROVE uv'[c] = "none"
    <2>1. c \in Nat /\ c > login_cb_ /\ c # tcp_client_
        BY <1>1, <1>2 DEF CredInv, Attempts, Conns, NoConn
    <2>2. QED BY <2>1, OtherSockets DEF SerialInv, Fresh
<1>3. QED BY <1>2 DEF Fresh

\* The application's thread, step by step.
LEMMA AppAtStep ==
    ASSUME Patient, IInv, CredInv, SerialInv, Next
    PROVE  AppAt'
<1> USE DEF IInv, TypeOK, TcpTypeOK, ClientTypeOK, Threads, At, Goto, Call, AppPc,
           LoopPc, tcpVars, clientVars, appVars, netVars, frame, ctlVars, SerialInv,
           AppAt
<1>1. CASE Login
    <2>1. /\ UNCHANGED <<tcpVars, tcp_client_, net>>
          /\ pc["app"] = "idle" /\ pc["loop"] = "idle" /\ pc'["app"] = "close" /\ pc'["loop"] = "idle"
        BY <1>1 DEF Login, Enter
    <2>2. \A c \in Conns : uv[c] # "connecting"
        BY <1>1 DEF Login, ConnectSettled
    <2>3. QED BY <2>1, <2>2 DEF Settled
<1>2. CASE Logout
    <2>1. /\ UNCHANGED <<tcpVars, tcp_client_, net>>
          /\ pc["app"] = "idle" /\ pc["loop"] = "idle" /\ pc'["app"] = "close" /\ pc'["loop"] = "idle"
        BY <1>2 DEF Logout, Enter
    <2>2. \A c \in Conns : uv[c] # "connecting"
        BY <1>2 DEF Logout, ConnectSettled
    <2>3. QED BY <2>1, <2>2 DEF Settled
<1>3. CASE SendMessage
    <2>1. /\ UNCHANGED <<tcpVars, tcp_client_, net>>
          /\ pc["app"] = "idle" /\ pc["loop"] = "idle" /\ pc'["app"] = "check" /\ pc'["loop"] = "idle"
        BY <1>3 DEF SendMessage, Enter
    <2>2. QED BY <2>1 DEF Settled
<1>4. CASE Prepare
    <2>1. pc["app"] = "prepare" /\ pc'["app"] = "connect" /\ pc["loop"] = "idle" /\ pc'["loop"] = "idle"
        BY <1>4 DEF Prepare, OneInside
    <2>2. tcp_client_ = NoConn /\ logins \in Conns /\ logins > login_cb_
        BY <2>1 DEF CredInv, Attempts, Reaches, AppState
    <2>3. tcp_client_' = logins /\ logins' = logins /\ UNCHANGED <<uv, tcp_handle_>>
        BY <1>4, <2>2 DEF Prepare, Construct
    <2>4. uv[logins] = "none" /\ ~tcp_handle_[logins]
        BY <2>2 DEF Fresh, OneObject, UvLive
    <2>5. QED BY <2>1, <2>2, <2>3, <2>4 DEF Conns, NoConn
<1>5. CASE Connect
    <2>1. /\ pc["app"] = "connect" /\ pc'["app"] = "open" /\ pc["loop"] = "idle" /\ pc'["loop"] = "idle"
          /\ tcp_client_' = tcp_client_ /\ logins' = logins /\ self' = tcp_client_
        BY <1>5 DEF Connect, OneInside
    <2>2. tcp_client_ \in Conns
        BY <2>1
    <2>3. uv'[tcp_client_] = uv[tcp_client_] /\ (tcp_handle_'[tcp_client_] <=> tcp_handle_[tcp_client_])
        BY <1>5, <2>2, Dropping
    <2>4. QED BY <2>1, <2>2, <2>3
<1>6. CASE Open
    <2>1. /\ pc["app"] = "open" /\ pc'["app"] = "register" /\ pc["loop"] = "idle"
          /\ pc'["loop"] = "idle" /\ UNCHANGED <<tcp_client_, logins, self>>
          /\ \E f \in FreeFds : UvConnect(self, f)
        BY <1>6 DEF Open, OneInside
    <2>2. tcp_client_ \in Conns /\ self = tcp_client_
        BY <2>1
    <2>3. QED BY <2>1, <2>2 DEF UvConnect
<1>7. CASE OpenFails
    <2>1. /\ pc["app"] = "open" /\ pc'["app"] = "giveup" /\ pc["loop"] = "idle"
          /\ pc'["loop"] = "idle" /\ UNCHANGED <<tcp_client_, logins, self, net>>
          /\ UvConnectFails(self)
        BY <1>7 DEF OpenFails, OneInside
    <2>2. tcp_client_ \in Conns /\ self = tcp_client_
        BY <2>1
    <2>3. net[tcp_client_] = "none"
        BY <2>1, <2>2 DEF CredInv, Attempts, Opened
    <2>4. QED BY <2>1, <2>2, <2>3 DEF UvConnectFails
<1>8. CASE GiveUp
    <2>1. /\ pc["app"] = "giveup" /\ pc'["app"] = "idle" /\ pc["loop"] = "idle"
          /\ pc'["loop"] = "idle" /\ UNCHANGED net
        BY <1>8 DEF GiveUp, OneInside
    <2>2. uv'[tcp_client_] = "closed" /\ tcp_client_' = tcp_client_
        BY <1>8, <2>1, Closing
    <2>3. QED BY <2>1, <2>2 DEF Settled
<1>9. CASE ConnectReturns
    <2>1. /\ pc["app"] = "register" /\ pc'["app"] = "idle" /\ pc["loop"] = "idle"
          /\ pc'["loop"] = "idle" /\ UNCHANGED <<tcp_client_, net, uv, connect_status_>>
        BY <1>9 DEF ConnectReturns, Register, OneInside
    <2>2. QED BY <2>1 DEF Settled
<1>10. CASE Find
    <2>1. pc["loop"] = "find" /\ pc'["app"] = "idle" /\ pc["app"] = "idle"
        BY <1>10 DEF Find, OneInside
    <2>2. handle \in Conns /\ uv[handle] \in UvLive
        BY <2>1 DEF LoopAt, UvLive
    <2>3. Found(handle) # NoConn
        BY <2>1, <2>2, LiveFacts
    <2>4. pc'["loop"] \notin {"idle", "sleep"}
        BY <1>10, <2>3 DEF Find
    <2>5. QED BY <2>1, <2>4
<1>11. CASE OnConnectOk
    <2>1. pc["loop"] # "idle" /\ pc'["loop"] \notin {"idle", "sleep"} /\ pc'["app"] = "idle"
        BY <1>11 DEF OnConnectOk, OneInside
    <2>2. QED BY <2>1
<1>12. CASE ReadStart
    <2>1. pc["loop"] # "idle" /\ pc'["loop"] \notin {"idle", "sleep"} /\ pc'["app"] = "idle"
        BY <1>12 DEF ReadStart, OneInside
    <2>2. QED BY <2>1
<1>13. CASE Shut
    <2>1. pc["loop"] # "idle" /\ pc'["loop"] \notin {"idle", "sleep"} /\ pc'["app"] = "idle"
        BY <1>13 DEF Shut, OneInside
    <2>2. QED BY <2>1
<1>14. CASE OnDisconnected
    <2>1. pc["loop"] # "idle" /\ pc'["loop"] \notin {"idle", "sleep"} /\ pc'["app"] = "idle"
        BY <1>14 DEF OnDisconnected, OneInside
    <2>2. QED BY <2>1
<1>15. CASE OnHandleAuthRsp
    <2>1. pc["loop"] # "idle" /\ pc'["loop"] \notin {"idle", "sleep"} /\ pc'["app"] = "idle"
        BY <1>15 DEF OnHandleAuthRsp, OneInside
    <2>2. QED BY <2>1
<1>16. CASE Answer
    <2>1. pc["loop"] # "idle" /\ pc'["loop"] \notin {"idle", "sleep"} /\ pc'["app"] = "idle"
        BY <1>16 DEF Answer, OneInside
    <2>2. QED BY <2>1
<1>17. CASE Return
    <2>1. /\ pc["loop"] = "done" /\ pc'["loop"] = "idle" /\ pc["app"] = "idle" /\ pc'["app"] = "idle"
          /\ UNCHANGED <<tcp_client_, net>>
        BY <1>17 DEF Return, OneInside
    <2>2. CASE tcp_client_ = NoConn
        BY <2>1, <2>2
    <2>3. CASE tcp_client_ # NoConn
        <3>1. uv[tcp_client_] = "reading" /\ connect_status_[tcp_client_] = "ConnectOk"
            BY <2>1, <2>3 DEF LoopAt
        <3>2. /\ uv'[tcp_client_] = uv[tcp_client_]
              /\ connect_status_'[tcp_client_] = connect_status_[tcp_client_]
            BY <1>17, <2>3, Dropping
        <3>3. QED BY <2>1, <3>1, <3>2 DEF Settled
    <2>4. QED BY <2>2, <2>3
<1>18. CASE OnTimer
    <2>1. UNCHANGED <<tcpVars, tcp_client_, login_status_, logins, self, net, pc>>
        BY <1>18 DEF OnTimer, OneObject
    <2>2. QED BY <2>1 DEF Settled
<1>19. ASSUME NEW t \in Threads, LogoutClose(t) PROVE AppAt'
    <2>1. /\ pc[t] = "close" /\ UNCHANGED tcp_client_ /\ login_status_' = "Default"
          /\ IF tcp_client_ = NoConn THEN pc'[t] = ret[t] ELSE pc'[t] = "sleep"
          /\ \A u \in Threads : u # t => pc'[u] = pc[u]
        BY <1>19 DEF LogoutClose
    <2>2. CASE tcp_client_ = NoConn
        BY <2>1, <2>2 DEF AppState, LoopState, OneInside
    <2>3. CASE tcp_client_ # NoConn
        <3>1. uv'[tcp_client_] = "closed"
            BY <1>19, <2>3, Closing
        <3>2. QED BY <2>1, <2>3, <3>1 DEF OneInside
    <2>4. QED BY <2>2, <2>3
<1>20. ASSUME NEW t \in Threads, LogoutDrop(t) PROVE AppAt'
    <2>1. /\ pc[t] = "sleep" /\ tcp_client_' = NoConn /\ pc'[t] = ret[t]
          /\ \A u \in Threads : u # t => pc'[u] = pc[u]
        BY <1>20 DEF LogoutDrop
    <2>2. QED BY <2>1 DEF AppState, LoopState, OneInside
<1>21. ASSUME NEW t \in Threads, SendCheck(t) PROVE AppAt'
    <2>1. /\ UNCHANGED <<tcpVars, tcp_client_, net>> /\ pc[t] = "check"
          /\ pc'[t] \in {ret[t], "write"} /\ \A u \in Threads : u # t => pc'[u] = pc[u]
        BY <1>21 DEF SendCheck
    <2>2. t = "app" => ret[t] = "idle"
        BY <2>1 DEF CredInv, Attempts
    <2>3. t = "loop" => ret[t] = "started"
        BY <2>1 DEF OneInside
    <2>4. QED BY <2>1, <2>2, <2>3 DEF OneInside, Settled
<1>22. ASSUME NEW t \in Threads, SendWrite(t) PROVE AppAt'
    <2>1. /\ UNCHANGED <<tcpVars, tcp_client_, net>> /\ pc[t] = "write"
          /\ pc'[t] \in {ret[t], "write"} /\ \A u \in Threads : u # t => pc'[u] = pc[u]
        BY <1>22 DEF SendWrite
    <2>2. t = "app" => ret[t] = "idle"
        BY <2>1 DEF CredInv, Attempts
    <2>3. t = "loop" => ret[t] = "started"
        BY <2>1 DEF OneInside
    <2>4. QED BY <2>1, <2>2, <2>3 DEF OneInside, Settled
<1>23. CASE Control
    <2>1. UNCHANGED <<tcpVars, clientVars, logins, self, net, pc>>
        BY <1>23, ControlLeaves
    <2>2. QED BY <2>1 DEF Settled, tcpVars
<1>24. ASSUME NEW c \in Conns, PickConnectOk(c) PROVE AppAt'
    <2>1. pc'["loop"] = "find" /\ pc'["app"] = "idle"
        BY <1>24 DEF PickConnectOk, Dispatch, Enter
    <2>2. QED BY <2>1
<1>25. ASSUME NEW c \in Conns, PickRefused(c) PROVE AppAt'
    <2>1. pc'["loop"] = "find" /\ pc'["app"] = "idle"
        BY <1>25 DEF PickRefused, Dispatch, Enter
    <2>2. QED BY <2>1
<1>26. ASSUME NEW c \in Conns, PickCancelled(c) PROVE AppAt'
    BY <1>26 DEF PickCancelled, OneObject
<1>27. ASSUME NEW c \in Conns, PickRead(c) PROVE AppAt'
    <2>1. pc'["loop"] = "find" /\ pc'["app"] = "idle"
        BY <1>27 DEF PickRead, Dispatch, Enter
    <2>2. QED BY <2>1
<1>28. ASSUME NEW c \in Conns, PickEof(c) PROVE AppAt'
    <2>1. pc'["loop"] = "find" /\ pc'["app"] = "idle"
        BY <1>28 DEF PickEof, Dispatch, Enter
    <2>2. QED BY <2>1
<1>29. ASSUME NEW c \in Conns, TornRead(c) PROVE AppAt'
    <2>1. UNCHANGED <<tcpVars, tcp_client_, login_status_, logins, self, net, pc>>
        BY <1>29 DEF TornRead
    <2>2. QED BY <2>1 DEF Settled
<1>30. ASSUME NEW c \in Conns, Establish(c) PROVE AppAt'
    <2>1. /\ UNCHANGED <<tcpVars, tcp_client_, login_status_, logins, self, pc>>
          /\ \A d \in Conns : net[d] = "none" => net'[d] = "none"
        BY <1>30 DEF Establish, NetStep
    <2>2. QED BY <2>1 DEF Settled
<1>31. ASSUME NEW c \in Conns, Refuse(c) PROVE AppAt'
    <2>1. /\ UNCHANGED <<tcpVars, tcp_client_, login_status_, logins, self, pc>>
          /\ \A d \in Conns : net[d] = "none" => net'[d] = "none"
        BY <1>31 DEF Refuse, NetStep
    <2>2. QED BY <2>1 DEF Settled
<1>32. ASSUME NEW c \in Conns, Lose(c) PROVE AppAt'
    <2>1. /\ UNCHANGED <<tcpVars, tcp_client_, login_status_, logins, self, pc>>
          /\ \A d \in Conns : net[d] = "none" => net'[d] = "none"
        BY <1>32 DEF Lose, NetStep
    <2>2. QED BY <2>1 DEF Settled
<1>33. ASSUME NEW c \in Conns, ServerReply(c) PROVE AppAt'
    <2>1. UNCHANGED <<tcpVars, tcp_client_, login_status_, logins, self, net, pc>>
        BY <1>33 DEF ServerReply
    <2>2. QED BY <2>1 DEF Settled
<1>34. QED BY <1>1, <1>2, <1>3, <1>4, <1>5, <1>6, <1>7, <1>8, <1>9, <1>10, <1>11, <1>12,
             <1>13, <1>14, <1>15, <1>16, <1>17, <1>18, <1>19, <1>20, <1>21, <1>22,
             <1>23, <1>24, <1>25, <1>26, <1>27, <1>28, <1>29, <1>30, <1>31, <1>32, <1>33, ErrorCases
          DEF Next, Control, AppStep, LoopStep, Shared, Pick, Network, Threads

\* The loop's thread, callback by callback.
LEMMA LoopAtStep ==
    ASSUME Patient, IInv, CredInv, SerialInv, Next
    PROVE  LoopAt'
<1> USE DEF IInv, TypeOK, TcpTypeOK, ClientTypeOK, Threads, At, Goto, Call, AppPc,
           LoopPc, tcpVars, clientVars, appVars, netVars, frame, ctlVars, SerialInv,
           LoopAt
<1>1. CASE Login
    <2>1. pc'["loop"] = "idle"
        BY <1>1 DEF Login, Enter
    <2>2. QED BY <2>1
<1>2. CASE Logout
    <2>1. pc'["loop"] = "idle"
        BY <1>2 DEF Logout, Enter
    <2>2. QED BY <2>1
<1>3. CASE SendMessage
    <2>1. pc'["loop"] = "idle"
        BY <1>3 DEF SendMessage, Enter
    <2>2. QED BY <2>1
<1>4. CASE Prepare
    <2>1. pc'["loop"] = "idle"
        BY <1>4 DEF Prepare, OneInside
    <2>2. QED BY <2>1
<1>5. CASE Connect
    <2>1. pc'["loop"] = "idle"
        BY <1>5 DEF Connect, OneInside
    <2>2. QED BY <2>1
<1>6. CASE Open
    <2>1. pc'["loop"] = "idle"
        BY <1>6 DEF Open, OneInside
    <2>2. QED BY <2>1
<1>7. CASE OpenFails
    <2>1. pc'["loop"] = "idle"
        BY <1>7 DEF OpenFails, OneInside
    <2>2. QED BY <2>1
<1>8. CASE GiveUp
    <2>1. pc'["loop"] = "idle"
        BY <1>8 DEF GiveUp, OneInside
    <2>2. QED BY <2>1
<1>9. CASE ConnectReturns
    <2>1. pc'["loop"] = "idle"
        BY <1>9 DEF ConnectReturns, OneInside
    <2>2. QED BY <2>1
<1>10. CASE Find
    <2>1. /\ pc["loop"] = "find" /\ pc["app"] = "idle"
          /\ UNCHANGED <<uv, connect_status_, tcp_client_, net, event, handle, login_cb_>>
        BY <1>10 DEF Find, OneInside
    <2>2. handle \in Conns /\ uv[handle] \in UvLive
        BY <2>1 DEF UvLive
    <2>3. Found(handle) = handle /\ handle # NoConn
        BY <2>1, <2>2, LiveFacts DEF Conns, NoConn
    <2>4. /\ held' = handle
          /\ pc'["loop"] = CASE event = "connect_ok" -> "status"
                             [] event = "read"       -> "auth"
                             [] OTHER                -> "shut"
        BY <1>10, <2>3 DEF Find
    <2>5. pc'["loop"] \in {"status", "auth", "shut"}
        BY <2>4
    <2>6. CASE event = "connect_ok"
        BY <2>1, <2>2, <2>3, <2>4, <2>6
    <2>7. CASE event = "read"
        BY <2>1, <2>2, <2>3, <2>4, <2>7
    <2>8. CASE event \in {"connect_err", "eof"}
        BY <2>1, <2>2, <2>3, <2>4, <2>8
    <2>9. QED BY <2>1, <2>6, <2>7, <2>8
<1>11. CASE OnConnectOk
    <2>1. /\ pc["loop"] = "status" /\ pc'["loop"] = "check" /\ ret'["loop"] = "started"
          /\ UNCHANGED <<uv, tcp_client_, event, handle, held, login_cb_>>
          /\ SetStatus(held, "ConnectOk")
        BY <1>11 DEF OnConnectOk, SetStatus
    <2>2. QED BY <2>1 DEF SetStatus
<1>12. CASE ReadStart
    <2>1. /\ pc["loop"] = "started" /\ pc'["loop"] = "done"
          /\ UNCHANGED <<connect_status_, tcp_client_, event, handle, held, login_cb_>>
          /\ UvStep(handle, "reading")
        BY <1>12 DEF ReadStart, UvStep, FilenoOk, UvLive
    <2>2. QED BY <2>1 DEF UvStep
<1>13. CASE Shut
    <2>1. /\ pc["loop"] = "shut" /\ pc'["loop"] = "notify"
          /\ UNCHANGED <<tcp_client_, net, event, handle, held, login_cb_>>
        BY <1>13 DEF Shut
    <2>2. uv'[tcp_client_] = "closed"
        BY <1>13, <2>1, Closing DEF Conns, NoConn
    <2>3. QED BY <2>1, <2>2
<1>14. CASE OnDisconnected
    <2>1. /\ pc["loop"] = "notify" /\ pc'["loop"] = "close" /\ ret'["loop"] = "done"
          /\ UNCHANGED <<tcpVars, tcp_client_, net, event, handle, held, login_cb_>>
        BY <1>14 DEF OnDisconnected
    <2>2. login_status_ = "Logining"
        BY <2>1 DEF OneObject, OneInside, Conns, NoConn
    <2>3. Tell("neterr") /\ handle \in Conns /\ handle = login_cb_
        BY <1>14, <2>1, <2>2 DEF OnDisconnected
    <2>4. "neterr" \in results'[handle]
        BY <2>3 DEF Tell
    <2>5. QED BY <2>1, <2>4
<1>15. CASE OnHandleAuthRsp
    <2>1. /\ pc["loop"] = "auth" /\ event = "read" /\ reply[handle] \in Answers
          /\ UNCHANGED <<tcpVars, tcp_client_, net, reply, event, handle, held, login_cb_>>
        BY <1>15 DEF OnHandleAuthRsp, LoopState, Reaches
    <2>2. CASE reply[handle] = "ok"
        <3>1. pc'["loop"] = "answer"
            BY <1>15, <2>2 DEF OnHandleAuthRsp
        <3>2. QED BY <2>1, <2>2, <3>1 DEF Conns, NoConn
    <2>3. CASE reply[handle] # "ok"
        <3>1. pc'["loop"] = "close" /\ ret'["loop"] = "answer"
            BY <1>15, <2>3 DEF OnHandleAuthRsp
        <3>2. QED BY <2>1, <2>3, <3>1 DEF Answers
    <2>4. QED BY <2>2, <2>3
<1>16. CASE Answer
    <2>1. /\ pc["loop"] = "answer" /\ pc'["loop"] = "done"
          /\ UNCHANGED <<uv, connect_status_, tcp_client_, handle, held, login_cb_>>
        BY <1>16 DEF Answer
    <2>2. tcp_client_ # NoConn =>
              /\ tcp_client_ = handle
              /\ uv[handle] = "reading" /\ connect_status_[handle] = "ConnectOk"
        BY <2>1
    <2>3. handle \in Conns /\ handle = login_cb_ /\ held = handle
        BY <2>1
    <2>4. QED BY <2>1, <2>2, <2>3 DEF Conns, NoConn
<1>17. CASE Return
    <2>1. pc'["loop"] = "idle"
        BY <1>17 DEF Return
    <2>2. QED BY <2>1
<1>18. CASE OnTimer
    <2>1. pc'["loop"] = "idle"
        BY <1>18 DEF OnTimer, Enter, OneObject
    <2>2. QED BY <2>1
<1>19. ASSUME NEW t \in Threads, LogoutClose(t) PROVE LoopAt'
    <2>1. CASE t = "app"
        <3>1. pc'["loop"] = "idle"
            BY <1>19, <2>1 DEF LogoutClose, OneInside
        <3>2. QED BY <3>1
    <2>2. CASE t = "loop"
        <3>1. /\ pc["loop"] = "close" /\ ret["loop"] \in {"done", "answer"}
              /\ UNCHANGED <<tcp_client_, results, reply, event, handle, held, login_cb_, ret>>
              /\ tcp_client_ = handle /\ handle # NoConn
            BY <1>19, <2>2 DEF LogoutClose, OneInside, Conns, NoConn
        <3>2. uv'[handle] = "closed"
            BY <1>19, <3>1, Closing
        <3>3. pc'["loop"] = "sleep"
            BY <1>19, <2>2, <3>1 DEF LogoutClose
        <3>4. QED BY <3>1, <3>2, <3>3
    <2>3. QED BY <2>1, <2>2
<1>20. ASSUME NEW t \in Threads, LogoutDrop(t) PROVE LoopAt'
    <2>1. CASE t = "app"
        <3>1. pc'["loop"] = "idle"
            BY <1>20, <2>1 DEF LogoutDrop, OneInside
        <3>2. QED BY <3>1
    <2>2. CASE t = "loop"
        <3>1. /\ pc["loop"] = "sleep" /\ ret["loop"] \in {"done", "answer"}
              /\ UNCHANGED <<reply, event, handle, held, login_cb_, ret>>
              /\ tcp_client_' = NoConn /\ pc'["loop"] = ret["loop"]
            BY <1>20, <2>2 DEF LogoutDrop, OneInside
        <3>2. handle # NoConn
            BY <3>1 DEF Conns, NoConn
        <3>3. QED BY <3>1, <3>2
    <2>3. QED BY <2>1, <2>2
<1>21. ASSUME NEW t \in Threads, SendCheck(t) PROVE LoopAt'
    <2>1. CASE t = "app"
        <3>1. pc'["loop"] = "idle"
            BY <1>21, <2>1 DEF SendCheck, OneInside
        <3>2. QED BY <3>1
    <2>2. CASE t = "loop"
        <3>1. /\ pc["loop"] = "check" /\ pc'["loop"] = "write"
              /\ UNCHANGED <<uv, connect_status_, tcp_client_, event, handle, held, login_cb_>>
            BY <1>21, <2>2 DEF SendCheck, OneInside
        <3>2. QED BY <3>1
    <2>3. QED BY <2>1, <2>2
<1>22. ASSUME NEW t \in Threads, SendWrite(t) PROVE LoopAt'
    <2>1. CASE t = "app"
        <3>1. pc'["loop"] = "idle"
            BY <1>22, <2>1 DEF SendWrite, OneInside
        <3>2. QED BY <3>1
    <2>2. CASE t = "loop"
        <3>1. /\ pc["loop"] = "write" /\ pc'["loop"] = "started"
              /\ UNCHANGED <<uv, connect_status_, tcp_client_, event, handle, held, login_cb_>>
            BY <1>22, <2>2 DEF SendWrite, OneInside
        <3>2. QED BY <3>1
    <2>3. QED BY <2>1, <2>2
<1>23. CASE Control
    BY <1>23, ControlLeaves DEF tcpVars
<1>24. ASSUME NEW c \in Conns, PickConnectOk(c) PROVE LoopAt'
    <2>1. /\ pc'["loop"] = "find" /\ event' = "connect_ok" /\ handle' = c /\ uv[c] = "connecting"
          /\ UNCHANGED <<connect_status_, tcp_client_, net, login_cb_, held>>
          /\ UvStep(c, "connected")
          /\ pc["app"] = "idle" /\ pc["loop"] = "idle"
        BY <1>24 DEF PickConnectOk, Dispatch, UvStep, Enter
    <2>2. c = tcp_client_ /\ c = login_cb_ /\ held = NoConn
        BY <2>1, LiveFacts DEF UvLive, LoopState, Reaches
    <2>3. QED BY <2>1, <2>2 DEF UvStep
<1>25. ASSUME NEW c \in Conns, PickRefused(c) PROVE LoopAt'
    <2>1. /\ pc'["loop"] = "find" /\ event' = "connect_err" /\ handle' = c /\ uv[c] = "connecting"
          /\ UNCHANGED <<connect_status_, tcp_client_, net, login_cb_, held>>
          /\ UvStep(c, "connected") /\ net[c] = "refused"
          /\ pc["app"] = "idle" /\ pc["loop"] = "idle"
        BY <1>25 DEF PickRefused, Dispatch, UvStep, Enter
    <2>2. c = tcp_client_ /\ c = login_cb_ /\ held = NoConn
        BY <2>1, LiveFacts DEF UvLive, LoopState, Reaches
    <2>3. QED BY <2>1, <2>2 DEF UvStep
<1>26. ASSUME NEW c \in Conns, PickCancelled(c) PROVE LoopAt'
    BY <1>26 DEF PickCancelled, OneObject
<1>27. ASSUME NEW c \in Conns, PickRead(c) PROVE LoopAt'
    <2>1. /\ pc'["loop"] = "find" /\ event' = "read" /\ handle' = c /\ uv[c] = "reading"
          /\ UNCHANGED <<connect_status_, tcp_client_, net, login_cb_, held>>
          /\ UvStep(c, "reading")
          /\ pc["app"] = "idle" /\ pc["loop"] = "idle"
        BY <1>27 DEF PickRead, Dispatch, UvStep, Enter
    <2>2. c = tcp_client_ /\ c = login_cb_ /\ held = NoConn
        BY <2>1, LiveFacts DEF UvLive, LoopState, Reaches
    <2>3. connect_status_[c] = "ConnectOk"
        BY <2>1, <2>2 DEF AppAt, Settled, Conns, NoConn
    <2>4. QED BY <2>1, <2>2, <2>3 DEF UvStep
<1>28. ASSUME NEW c \in Conns, PickEof(c) PROVE LoopAt'
    <2>1. /\ pc'["loop"] = "find" /\ event' = "eof" /\ handle' = c /\ uv[c] = "reading"
          /\ UNCHANGED <<connect_status_, tcp_client_, net, login_cb_, held>>
          /\ UvStep(c, "connected") /\ net[c] = "lost"
          /\ pc["app"] = "idle" /\ pc["loop"] = "idle"
        BY <1>28 DEF PickEof, Dispatch, UvStep, Enter
    <2>2. c = tcp_client_ /\ c = login_cb_ /\ held = NoConn
        BY <2>1, LiveFacts DEF UvLive, LoopState, Reaches
    <2>3. QED BY <2>1, <2>2 DEF UvStep
<1>29. ASSUME NEW c \in Conns, TornRead(c) PROVE LoopAt'
    <2>1. pc'["loop"] = "idle"
        BY <1>29 DEF TornRead, Enter
    <2>2. QED BY <2>1
<1>30. ASSUME NEW c \in Conns, Establish(c) PROVE LoopAt'
    <2>1. /\ UNCHANGED <<tcpVars, tcp_client_, login_cb_, results, reply, event, handle, held, pc, ret>>
          /\ \A d \in Conns : net[d] \in {"refused", "lost"} => net'[d] = net[d]
        BY <1>30 DEF Establish, NetStep
    <2>2. QED BY <2>1
<1>31. ASSUME NEW c \in Conns, Refuse(c) PROVE LoopAt'
    <2>1. /\ UNCHANGED <<tcpVars, tcp_client_, login_cb_, results, reply, event, handle, held, pc, ret>>
          /\ \A d \in Conns : net[d] \in {"refused", "lost"} => net'[d] = net[d]
        BY <1>31 DEF Refuse, NetStep
    <2>2. QED BY <2>1
<1>32. ASSUME NEW c \in Conns, Lose(c) PROVE LoopAt'
    <2>1. /\ UNCHANGED <<tcpVars, tcp_client_, login_cb_, results, reply, event, handle, held, pc, ret>>
          /\ \A d \in Conns : net[d] \in {"refused", "lost"} => net'[d] = net[d]
        BY <1>32 DEF Lose, NetStep
    <2>2. QED BY <2>1
<1>33. ASSUME NEW c \in Conns, ServerReply(c) PROVE LoopAt'
    <2>1. /\ UNCHANGED <<tcpVars, tcp_client_, login_cb_, results, net, event, handle, held, pc, ret>>
          /\ \A d \in Conns : reply[d] \in Answers => reply'[d] = reply[d]
        BY <1>33 DEF ServerReply, Answers
    <2>2. QED BY <2>1 DEF Answers
<1>34. QED BY <1>1, <1>2, <1>3, <1>4, <1>5, <1>6, <1>7, <1>8, <1>9, <1>10, <1>11, <1>12,
             <1>13, <1>14, <1>15, <1>16, <1>17, <1>18, <1>19, <1>20, <1>21, <1>22,
             <1>23, <1>24, <1>25, <1>26, <1>27, <1>28, <1>29, <1>30, <1>31, <1>32, <1>33, ErrorCases
          DEF Next, Control, AppStep, LoopStep, Shared, Pick, Network, Threads

\* Only a failure, a refusal and the application itself part an attempt from its object.
LEMMA KeptStep ==
    ASSUME Patient, IInv, CredInv, SerialInv, Next
    PROVE  Kept'
<1> USE DEF IInv, TypeOK, ClientTypeOK, Threads, At, Goto, Call, AppPc, LoopPc,
           clientVars, appVars, netVars, frame, ctlVars, SerialInv, Kept, Reaches
<1>1. CASE Login
    <2>1. pc'["app"] = "close" /\ ret'["app"] = "prepare"
        BY <1>1 DEF Login
    <2>2. QED BY <2>1
<1>2. CASE Logout
    <2>1. logins' \in abandoned'
        BY <1>2 DEF Logout
    <2>2. QED BY <2>1
<1>3. CASE SendMessage
    BY <1>3 DEF SendMessage, Enter, At
<1>4. CASE Connect \/ Open \/ OpenFails \/ GiveUp \/ ConnectReturns
    BY <1>4 DEF Connect, Open, OpenFails, GiveUp, ConnectReturns
<1>5. CASE Prepare
    <2>1. tcp_client_ = NoConn
        BY <1>5 DEF Prepare, CredInv, Attempts
    <2>2. QED BY <1>5, <2>1 DEF Prepare
<1>6. CASE Find \/ OnConnectOk \/ ReadStart \/ Shut \/ OnHandleAuthRsp \/ Return
    BY <1>6 DEF Find, OnConnectOk, ReadStart, Shut, OnHandleAuthRsp, Return
<1>7. CASE OnDisconnected
    <2>1. /\ UNCHANGED <<logins, abandoned, tcp_client_>> /\ pc'["app"] = pc["app"]
          /\ pc["loop"] # "answer" /\ ret'["app"] = ret["app"]
          /\ \A c \in Conns : results[c] \subseteq results'[c]
        BY <1>7 DEF OnDisconnected, Tell, Enter
    <2>2. QED BY <2>1
<1>8. CASE Answer
    <2>1. /\ pc["loop"] = "answer" /\ UNCHANGED <<logins, tcp_client_, abandoned, ret>>
          /\ pc'["app"] = pc["app"] /\ Tell(reply[handle])
        BY <1>8 DEF Answer
    <2>2. CASE tcp_client_ = NoConn
        <3>1. handle = login_cb_ /\ handle \in Conns /\ reply[handle] = "rejected"
            BY <2>1, <2>2 DEF LoopAt
        <3>2. "rejected" \in results'[login_cb_]
            BY <2>1, <3>1 DEF Tell
        <3>3. pc["app"] = "idle" /\ login_cb_ = logins
            BY <2>1 DEF OneInside, Calls
        <3>4. QED BY <2>1, <3>2, <3>3
    <2>3. CASE tcp_client_ # NoConn
        <3>1. tcp_client_ = login_cb_ /\ pc["app"] = "idle" /\ login_cb_ = logins
            BY <2>1, <2>3 DEF LoopAt, OneInside, Calls
        <3>2. QED BY <2>1, <3>1
    <2>4. QED BY <2>2, <2>3
<1>9. CASE OnTimer
    <2>1. /\ UNCHANGED <<logins, abandoned, tcp_client_>> /\ pc'["app"] = pc["app"]
          /\ pc["loop"] # "answer" /\ ret'["app"] = ret["app"]
          /\ \A c \in Conns : results[c] \subseteq results'[c]
        BY <1>9 DEF OnTimer, Tell, Enter
    <2>2. QED BY <2>1
<1>10. ASSUME NEW t \in Threads, LogoutClose(t) PROVE Kept'
    <2>1. /\ UNCHANGED <<logins, tcp_client_, abandoned, results, ret>> /\ pc[t] = "close"
          /\ pc'[t] \in {ret[t], "sleep"} /\ \A u \in Threads : u # t => pc'[u] = pc[u]
        BY <1>10 DEF LogoutClose
    <2>2. CASE t = "app"
        <3>1. ret["app"] \in {"idle", "prepare"}
            BY DEF AppState
        <3>2. QED BY <2>1, <2>2, <3>1
    <2>3. CASE t = "loop"
        BY <2>1, <2>3 DEF OneInside
    <2>4. QED BY <2>2, <2>3
<1>11. ASSUME NEW t \in Threads, LogoutDrop(t) PROVE Kept'
    <2>1. /\ UNCHANGED <<logins, abandoned, results, ret>> /\ pc[t] = "sleep"
          /\ pc'[t] = ret[t] /\ \A u \in Threads : u # t => pc'[u] = pc[u]
        BY <1>11 DEF LogoutDrop
    <2>2. CASE t = "app"
        BY <2>1, <2>2 DEF AppState, Calls
    <2>3. CASE t = "loop"
        <3>1. pc["app"] = "idle" /\ login_cb_ = logins /\ ret["loop"] \in {"done", "answer"}
            BY <2>1, <2>3 DEF OneInside, Calls
        <3>2. ret["loop"] = "done" => "neterr" \in results[logins]
            BY <2>1, <2>3, <3>1 DEF LoopAt
        <3>3. QED BY <2>1, <2>3, <3>1, <3>2
    <2>4. QED BY <2>2, <2>3
<1>12. ASSUME NEW t \in Threads, SendCheck(t) PROVE Kept'
    <2>1. /\ UNCHANGED <<logins, abandoned, results, tcp_client_, ret>> /\ pc[t] = "check"
          /\ pc'[t] \in {ret[t], "write"} /\ \A u \in Threads : u # t => pc'[u] = pc[u]
        BY <1>12 DEF SendCheck
    <2>2. t = "app" => ret[t] = "idle"
        BY <2>1 DEF CredInv, Attempts
    <2>3. t = "loop" => ret[t] = "started"
        BY <2>1 DEF OneInside
    <2>4. QED BY <2>1, <2>2, <2>3 DEF OneInside
<1>13. ASSUME NEW t \in Threads, SendWrite(t) PROVE Kept'
    <2>1. /\ UNCHANGED <<logins, abandoned, results, tcp_client_, ret>> /\ pc[t] = "write"
          /\ pc'[t] \in {ret[t], "write"} /\ \A u \in Threads : u # t => pc'[u] = pc[u]
        BY <1>13 DEF SendWrite
    <2>2. t = "app" => ret[t] = "idle"
        BY <2>1 DEF CredInv, Attempts
    <2>3. t = "loop" => ret[t] = "started"
        BY <2>1 DEF OneInside
    <2>4. QED BY <2>1, <2>2, <2>3 DEF OneInside
<1>14. CASE Control
    BY <1>14, ControlLeaves DEF tcpVars
<1>15. ASSUME NEW c \in Conns, PickConnectOk(c) \/ PickRefused(c) \/ PickCancelled(c)
             \/ PickRead(c) \/ PickEof(c) \/ TornRead(c)
      PROVE  Kept'
    BY <1>15
       DEF PickConnectOk, Dispatch, Enter, PickRefused, PickCancelled, PickRead,
           PickEof, TornRead
<1>16. ASSUME NEW c \in Conns, Establish(c) \/ Refuse(c) \/ Lose(c) \/ ServerReply(c)
      PROVE  Kept'
    BY <1>16 DEF Establish, NetStep, Refuse, Lose, ServerReply
<1>17. QED BY <1>1, <1>2, <1>3, <1>4, <1>5, <1>6, <1>7, <1>8, <1>9, <1>10, <1>11, <1>12,
             <1>13, <1>14, <1>15, <1>16, ErrorCases
          DEF Next, Control, AppStep, LoopStep, Shared, Pick, Network, Threads

\* The server answers what it has been asked, once, and the answer is heard once.
LEMMA SaidStep ==
    ASSUME Patient, IInv, CredInv, SerialInv, Next
    PROVE  Said'
<1> USE DEF IInv, TypeOK, TcpTypeOK, ClientTypeOK, Threads, At, Goto, Call, AppPc,
           LoopPc, tcpVars, clientVars, appVars, netVars, frame, ctlVars, SerialInv,
           Said, Awaiting, Reaches
<1>1. CASE Login
    <2>1. /\ UNCHANGED <<cred, reply, unread, results, net, handle, event, uv>>
          /\ pc["loop"] = "idle" /\ pc'["loop"] = "idle"
        BY <1>1 DEF Login, Enter, OneInside
    <2>2. QED BY <2>1
<1>2. CASE Logout
    <2>1. /\ UNCHANGED <<cred, reply, unread, results, net, handle, event, uv>>
          /\ pc["loop"] = "idle" /\ pc'["loop"] = "idle"
        BY <1>2 DEF Logout, Enter, OneInside
    <2>2. QED BY <2>1
<1>3. CASE SendMessage
    <2>1. /\ UNCHANGED <<cred, reply, unread, results, net, handle, event, uv>>
          /\ pc["loop"] = "idle" /\ pc'["loop"] = "idle"
        BY <1>3 DEF SendMessage, Enter, OneInside
    <2>2. QED BY <2>1
<1>4. CASE Prepare
    <2>1. /\ UNCHANGED <<cred, reply, unread, results, net, handle, event, uv>>
          /\ pc["loop"] = "idle" /\ pc'["loop"] = "idle"
        BY <1>4 DEF Prepare, Construct, OneInside
    <2>2. QED BY <2>1
<1>5. CASE Connect
    <2>1. /\ UNCHANGED <<cred, reply, unread, results, net, handle, event>>
          /\ pc["loop"] = "idle" /\ pc'["loop"] = "idle"
        BY <1>5 DEF Connect, OneInside
    <2>2. \A c \in Conns : uv'[c] = uv[c]
        BY <1>5, Dropping
    <2>3. QED BY <2>1, <2>2
<1>6. CASE Open
    <2>1. /\ UNCHANGED <<cred, reply, unread, results, handle, event>>
          /\ pc["loop"] = "idle" /\ pc'["loop"] = "idle" /\ uv[self] = "none"
          /\ net' = [net EXCEPT ![self] = "syn"] /\ uv' = [uv EXCEPT ![self] = "connecting"]
        BY <1>6 DEF Open, UvConnect, OneInside, AppAt
    <2>2. \A c \in Conns : cred[c] # 0 => c # self /\ net'[c] = net[c] /\ uv'[c] = uv[c]
        BY <2>1
    <2>3. QED BY <2>1, <2>2
<1>7. CASE OpenFails
    <2>1. /\ UNCHANGED <<cred, reply, unread, results, handle, event, net>>
          /\ pc["loop"] = "idle" /\ pc'["loop"] = "idle" /\ uv[self] = "none"
          /\ uv' = [uv EXCEPT ![self] = "init"]
        BY <1>7 DEF OpenFails, UvConnectFails, OneInside, AppAt
    <2>2. \A c \in Conns : cred[c] # 0 => c # self /\ uv'[c] = uv[c]
        BY <2>1
    <2>3. QED BY <2>1, <2>2
<1>8. CASE GiveUp
    <2>1. /\ UNCHANGED <<cred, reply, unread, results, net, handle, event>>
          /\ pc["loop"] = "idle" /\ pc'["loop"] = "idle"
        BY <1>8 DEF GiveUp, OneInside
    <2>2. \A c \in Conns : uv'[c] \in {uv[c], "closed"}
        BY <1>8, Closing DEF Conns, NoConn
    <2>3. QED BY <2>1, <2>2
<1>9. CASE ConnectReturns
    <2>1. /\ UNCHANGED <<cred, reply, unread, results, net, handle, event, uv>>
          /\ pc["loop"] = "idle" /\ pc'["loop"] = "idle"
        BY <1>9 DEF ConnectReturns, Register, OneInside
    <2>2. QED BY <2>1
<1>10. CASE Find
    <2>1. /\ UNCHANGED <<cred, reply, unread, results, net, handle, event, uv>>
          /\ pc["loop"] = "find" /\ (pc'["loop"] = "auth" => event = "read")
          /\ pc'["loop"] \in {"idle", "status", "auth", "shut"}
        BY <1>10 DEF Find
    <2>2. QED BY <2>1
<1>11. CASE OnConnectOk
    <2>1. /\ UNCHANGED <<cred, reply, unread, results, net, handle, event, uv>>
          /\ pc'["loop"] = "check" /\ ret'["loop"] = "started"
        BY <1>11 DEF OnConnectOk, SetStatus
    <2>2. QED BY <2>1
<1>12. CASE ReadStart
    <2>1. /\ UNCHANGED <<cred, reply, unread, results, net, handle, event>>
          /\ pc["loop"] = "started" /\ pc'["loop"] = "done"
          /\ \A c \in Conns : uv'[c] \in {uv[c], "reading"}
        BY <1>12 DEF ReadStart, UvStep
    <2>2. QED BY <2>1
<1>13. CASE Shut
    <2>1. /\ UNCHANGED <<cred, reply, unread, results, net, handle, event>>
          /\ pc'["loop"] = "notify"
        BY <1>13 DEF Shut
    <2>2. \A c \in Conns : uv'[c] \in {uv[c], "closed"}
        BY <1>13, Closing DEF Conns, NoConn
    <2>3. QED BY <2>1, <2>2
<1>14. CASE OnDisconnected
    <2>1. /\ UNCHANGED <<cred, reply, unread, net, handle, event, uv>>
          /\ pc'["loop"] = "close" /\ ret'["loop"] = "done"
          /\ \A c \in Conns : results'[c] \subseteq results[c] \cup {"neterr"}
        BY <1>14 DEF OnDisconnected, Tell
    <2>2. \A c \in Conns : Awaiting(c) => Awaiting(c)'
        BY <2>1 DEF Answers
    <2>3. QED BY <2>1, <2>2
<1>15. CASE OnHandleAuthRsp
    <2>1. /\ UNCHANGED <<cred, reply, unread, results, net, handle, event, uv>>
          /\ pc["loop"] = "auth"
        BY <1>15 DEF OnHandleAuthRsp
    <2>2. Awaiting(handle) /\ handle \notin unread
        BY <2>1
    <2>3. QED BY <2>1, <2>2
<1>16. CASE Answer
    <2>1. /\ UNCHANGED <<cred, reply, unread, net, handle, event, uv>>
          /\ pc["loop"] = "answer" /\ pc'["loop"] = "done" /\ Tell(reply[handle])
        BY <1>16 DEF Answer
    <2>2. handle = login_cb_ /\ handle \notin unread
        BY <2>1 DEF LoopAt
    <2>3. \A c \in unread : results'[c] = results[c]
        BY <2>1, <2>2 DEF Tell
    <2>4. QED BY <2>1, <2>3
<1>17. CASE Return
    <2>1. /\ UNCHANGED <<cred, reply, unread, results, net, handle, event>>
          /\ pc'["loop"] = "idle"
        BY <1>17 DEF Return
    <2>2. \A c \in Conns : uv'[c] = uv[c]
        BY <1>17, Dropping
    <2>3. QED BY <2>1, <2>2
<1>18. CASE OnTimer
    <2>1. /\ UNCHANGED <<cred, reply, unread, net, handle, uv>>
          /\ pc["loop"] = "idle" /\ pc'["loop"] = "idle"
          /\ \A c \in Conns : results'[c] \subseteq results[c] \cup {"timeout"}
        BY <1>18 DEF OnTimer, Tell, Enter, OneObject
    <2>2. \A c \in Conns : Awaiting(c) => Awaiting(c)'
        BY <2>1 DEF Answers
    <2>3. QED BY <2>1, <2>2
<1>19. ASSUME NEW t \in Threads, LogoutClose(t) PROVE Said'
    <2>1. /\ UNCHANGED <<cred, reply, unread, results, net, handle, event, ret>>
          /\ pc[t] = "close" /\ pc'[t] \in {"sleep", ret[t]}
          /\ \A u \in Threads : u # t => pc'[u] = pc[u]
        BY <1>19 DEF LogoutClose
    <2>2. \A c \in Conns : uv'[c] \in {uv[c], "closed"}
        BY <1>19, Closing DEF Conns, NoConn
    <2>3. t = "loop" => ret[t] \in {"done", "answer"}
        BY <2>1 DEF OneInside
    <2>4. (Reaches("loop", "auth") \/ Reaches("loop", "answer"))' =>
              Reaches("loop", "auth") \/ Reaches("loop", "answer")
        BY <2>1, <2>3
    <2>5. pc'["loop"] = "find" => pc["loop"] = "find"
        BY <2>1, <2>3
    <2>6. QED BY <2>1, <2>2, <2>4, <2>5
<1>20. ASSUME NEW t \in Threads, LogoutDrop(t) PROVE Said'
    <2>1. /\ UNCHANGED <<cred, reply, unread, results, net, handle, event, ret>>
          /\ pc[t] = "sleep" /\ pc'[t] = ret[t]
          /\ \A u \in Threads : u # t => pc'[u] = pc[u]
        BY <1>20 DEF LogoutDrop
    <2>2. \A c \in Conns : uv'[c] = uv[c]
        BY <1>20, Dropping
    <2>3. t = "loop" => ret[t] \in {"done", "answer"}
        BY <2>1 DEF OneInside
    <2>4. (Reaches("loop", "auth") \/ Reaches("loop", "answer"))' =>
              Reaches("loop", "auth") \/ Reaches("loop", "answer")
        BY <2>1, <2>3
    <2>5. pc'["loop"] = "find" => pc["loop"] = "find"
        BY <2>1, <2>3
    <2>6. QED BY <2>1, <2>2, <2>4, <2>5
<1>21. ASSUME NEW t \in Threads, SendCheck(t) PROVE Said'
    <2>1. /\ UNCHANGED <<cred, reply, unread, results, net, handle, event, ret, uv>>
          /\ pc[t] = "check" /\ pc'[t] \in {"write", ret[t]}
          /\ \A u \in Threads : u # t => pc'[u] = pc[u]
        BY <1>21 DEF SendCheck
    <2>2. t = "loop" => ret[t] = "started"
        BY <2>1 DEF OneInside
    <2>3. QED BY <2>1, <2>2
<1>22. ASSUME NEW t \in Threads, SendWrite(t) PROVE Said'
    <2>1. /\ UNCHANGED <<reply, unread, results, net, handle, event, ret, uv>>
          /\ pc[t] = "write" /\ pc'[t] = ret[t]
          /\ \A u \in Threads : u # t => pc'[u] = pc[u]
          /\ cred' = [c \in Conns |-> IF t = "loop" /\ c \in Peer THEN login_cb_ ELSE cred[c]]
        BY <1>22 DEF SendWrite
    <2>2. t = "loop" => ret[t] = "started" /\ login_cb_ # 0 /\ uv[tcp_client_] = "connected"
        BY <2>1 DEF OneInside, LoopAt, Conns
    <2>3. \A c \in Peer : c \in Conns /\ c = tcp_client_ /\ net[c] = "up"
        BY LiveFacts DEF Peer, PeerOf, FilenoOk
    <2>4. \A c \in Conns : cred'[c] # cred[c] =>
              cred'[c] # 0 /\ net[c] = "up" /\ uv[c] = "connected"
        BY <2>1, <2>2, <2>3
    <2>5. QED BY <2>1, <2>2, <2>4
<1>23. CASE Control
    BY <1>23, ControlLeaves DEF tcpVars
<1>24. ASSUME NEW c \in Conns, PickConnectOk(c) PROVE Said'
    <2>1. /\ UNCHANGED <<cred, reply, results, net>> /\ pc["loop"] = "idle"
          /\ pc'["loop"] = "find" /\ event' = "connect_ok" /\ handle' = c
          /\ \A d \in Conns : uv'[d] \in {uv[d], "connected", "reading"}
          /\ UNCHANGED unread
        BY <1>24 DEF PickConnectOk, Dispatch, UvStep, Enter
    <2>2. QED BY <2>1
<1>25. ASSUME NEW c \in Conns, PickRefused(c) PROVE Said'
    <2>1. /\ UNCHANGED <<cred, reply, results, net>> /\ pc["loop"] = "idle"
          /\ pc'["loop"] = "find" /\ event' = "connect_err" /\ handle' = c
          /\ \A d \in Conns : uv'[d] \in {uv[d], "connected", "reading"}
          /\ UNCHANGED unread
        BY <1>25 DEF PickRefused, Dispatch, UvStep, Enter
    <2>2. QED BY <2>1
<1>26. ASSUME NEW c \in Conns, PickCancelled(c) PROVE Said'
    BY <1>26 DEF PickCancelled, OneObject
<1>27. ASSUME NEW c \in Conns, PickRead(c) PROVE Said'
    <2>1. /\ UNCHANGED <<cred, reply, results, net>> /\ pc["loop"] = "idle"
          /\ pc'["loop"] = "find" /\ event' = "read" /\ handle' = c
          /\ \A d \in Conns : uv'[d] \in {uv[d], "connected", "reading"}
          /\ c \in unread /\ unread' = unread \ {c}
        BY <1>27 DEF PickRead, Dispatch, UvStep, Enter
    <2>2. QED BY <2>1
<1>28. ASSUME NEW c \in Conns, PickEof(c) PROVE Said'
    <2>1. /\ UNCHANGED <<cred, reply, results, net>> /\ pc["loop"] = "idle"
          /\ pc'["loop"] = "find" /\ event' = "eof" /\ handle' = c
          /\ \A d \in Conns : uv'[d] \in {uv[d], "connected", "reading"}
          /\ UNCHANGED unread
        BY <1>28 DEF PickEof, Dispatch, UvStep, Enter
    <2>2. QED BY <2>1
<1>29. ASSUME NEW c \in Conns, TornRead(c) PROVE Said'
    <2>1. /\ UNCHANGED <<cred, reply, results, net, uv>> /\ pc'["loop"] = "idle"
          /\ unread' = unread \ {c}
        BY <1>29 DEF TornRead, Enter
    <2>2. QED BY <2>1
<1>30. ASSUME NEW c \in Conns, Establish(c) PROVE Said'
    <2>1. /\ UNCHANGED <<cred, reply, unread, results, handle, event, uv, pc, ret>>
          /\ \A d \in Conns : net[d] \in {"up", "lost"} => net'[d] \in {"up", "lost"}
        BY <1>30 DEF Establish, NetStep
    <2>2. QED BY <2>1
<1>31. ASSUME NEW c \in Conns, Refuse(c) PROVE Said'
    <2>1. /\ UNCHANGED <<cred, reply, unread, results, handle, event, uv, pc, ret>>
          /\ \A d \in Conns : net[d] \in {"up", "lost"} => net'[d] \in {"up", "lost"}
        BY <1>31 DEF Refuse, NetStep
    <2>2. QED BY <2>1
<1>32. ASSUME NEW c \in Conns, Lose(c) PROVE Said'
    <2>1. /\ UNCHANGED <<cred, reply, unread, results, handle, event, uv, pc, ret>>
          /\ \A d \in Conns : net[d] \in {"up", "lost"} => net'[d] \in {"up", "lost"}
        BY <1>32 DEF Lose, NetStep
    <2>2. QED BY <2>1
<1>33. ASSUME NEW c \in Conns, ServerReply(c) PROVE Said'
    <2>1. /\ UNCHANGED <<cred, results, net, handle, event, uv, pc, ret>>
          /\ cred[c] # 0 /\ reply[c] = "none" /\ unread' = unread \cup {c}
          /\ \A d \in Conns : reply'[d] # "none" => d = c \/ reply[d] # "none"
        BY <1>33 DEF ServerReply
    <2>2. Awaiting(c)
        BY <2>1 DEF AnswerIsOwn, Answers
    <2>3. \/ pc["loop"] = "find" /\ event = "read"
          \/ Reaches("loop", "auth") \/ Reaches("loop", "answer")
          => handle # c
        BY <2>1 DEF LoopState, Answers
    <2>4. QED BY <2>1, <2>2, <2>3
<1>34. QED BY <1>1, <1>2, <1>3, <1>4, <1>5, <1>6, <1>7, <1>8, <1>9, <1>10, <1>11, <1>12,
             <1>13, <1>14, <1>15, <1>16, <1>17, <1>18, <1>19, <1>20, <1>21, <1>22,
             <1>23, <1>24, <1>25, <1>26, <1>27, <1>28, <1>29, <1>30, <1>31, <1>32, <1>33, ErrorCases
          DEF Next, Control, AppStep, LoopStep, Shared, Pick, Network, Threads

\* Nothing is told but the server's answer and the end of the connection; and a step
\* dies of nothing but the two assertions.
LEMMA SpokenStep ==
    ASSUME Patient, IInv, CredInv, SerialInv, Next
    PROVE  NoOtherFault' /\ AnswerIsOwn'
<1> USE DEF IInv, TypeOK, ClientTypeOK, Threads, At, Goto, Call, AppPc, LoopPc,
           clientVars, appVars, netVars, frame, ctlVars, SerialInv, NoOtherFault,
           AnswerIsOwn
<1>1. CASE Login \/ Logout \/ SendMessage
    BY <1>1 DEF Login, Enter, At, Logout, SendMessage
<1>2. CASE Prepare \/ Connect \/ OpenFails \/ GiveUp \/ ConnectReturns
    BY <1>2 DEF Prepare, Connect, OpenFails, GiveUp, ConnectReturns
<1>3. CASE Open
    <2>1. /\ UNCHANGED <<reply, results, fault>> /\ pc["app"] = "open"
          /\ net' = [net EXCEPT ![self] = "syn"]
        BY <1>3 DEF Open
    <2>2. net[self] = "none"
        BY <2>1 DEF CredInv, Attempts, Opened
    <2>3. \A c \in Conns : net[c] \in {"refused", "lost"} => net'[c] = net[c]
        BY <2>1, <2>2
    <2>4. QED BY <2>1, <2>3
<1>4. CASE Find \/ OnConnectOk \/ ReadStart \/ Shut \/ OnHandleAuthRsp \/ Return
    BY <1>4 DEF Find, OnConnectOk, ReadStart, Shut, OnHandleAuthRsp, Return
<1>5. CASE OnDisconnected
    <2>1. UNCHANGED <<reply, net, fault>> /\ pc["loop"] = "notify"
        BY <1>5 DEF OnDisconnected
    <2>2. handle = login_cb_ /\ net[handle] \in {"refused", "lost"}
        BY <2>1 DEF LoopAt
    <2>3. \A c \in Conns :
              results'[c] = results[c]
              \/ (c = handle /\ results'[c] = results[c] \cup {"neterr"})
        BY <1>5, <2>2 DEF OnDisconnected, Tell
    <2>4. \A c \in Conns : results'[c] \cap Answers = results[c] \cap Answers
        BY <2>3 DEF Answers
    <2>5. \A c \in Conns : "neterr" \in results'[c] => c = handle \/ "neterr" \in results[c]
        BY <2>3
    <2>6. QED BY <2>1, <2>2, <2>4, <2>5
<1>6. CASE Answer
    <2>1. /\ UNCHANGED <<reply, net, fault>> /\ pc["loop"] = "answer"
          /\ Tell(reply[handle])
        BY <1>6 DEF Answer
    <2>2. handle = login_cb_ /\ Awaiting(handle) /\ reply[handle] \in Answers /\ handle \in Conns
        BY <2>1 DEF LoopAt, Reaches, Said, LoopState
    <2>3. results' = [c \in Conns |-> IF c = handle THEN results[c] \cup {reply[handle]}
                                      ELSE results[c]]
        BY <2>1, <2>2 DEF Tell
    <2>4. results'[handle] \cap Answers = {reply[handle]}
        BY <2>2, <2>3 DEF Awaiting
    <2>5. "neterr" \in results'[handle] => "neterr" \in results[handle]
        BY <2>2, <2>3 DEF Answers
    <2>6. \A c \in Conns : c # handle => results'[c] = results[c]
        BY <2>3
    <2>7. QED BY <2>1, <2>2, <2>4, <2>5, <2>6
<1>7. CASE OnTimer
    <2>1. UNCHANGED <<reply, net, fault>>
        BY <1>7 DEF OnTimer
    <2>2. \A c \in Conns : results'[c] = results[c] \/ results'[c] = results[c] \cup {"timeout"}
        BY <1>7 DEF OnTimer, Tell
    <2>3. \A c \in Conns : results'[c] \cap Answers = results[c] \cap Answers
        BY <2>2 DEF Answers
    <2>4. \A c \in Conns : "neterr" \in results'[c] => "neterr" \in results[c]
        BY <2>2
    <2>5. QED BY <2>1, <2>3, <2>4
<1>8. ASSUME NEW t \in Threads, LogoutDrop(t) \/ SendCheck(t)
      PROVE  NoOtherFault' /\ AnswerIsOwn'
    BY <1>8 DEF LogoutDrop, SendCheck
<1>9. ASSUME NEW t \in Threads, LogoutClose(t)
      PROVE  NoOtherFault' /\ AnswerIsOwn'
    BY <1>9 DEF LogoutClose
<1>10. ASSUME NEW t \in Threads, SendWrite(t)
      PROVE  NoOtherFault' /\ AnswerIsOwn'
    BY <1>10 DEF SendWrite
<1>11. CASE Control
    <2>1. UNCHANGED <<reply, net, results>>
        BY <1>11, ControlLeaves
    <2>2. fault' \in {fault, "assert_loop", "assert_reset_len"}
        BY <1>11, NotBroken DEF Control, BeginRun, AbortMessage, Crash
    <2>3. QED BY <2>1, <2>2
<1>12. ASSUME NEW c \in Conns, PickConnectOk(c) \/ PickRefused(c) \/ PickCancelled(c)
             \/ PickRead(c) \/ PickEof(c) \/ TornRead(c)
      PROVE  NoOtherFault' /\ AnswerIsOwn'
    BY <1>12
       DEF PickConnectOk, Dispatch, Enter, PickRefused, PickCancelled, PickRead,
           PickEof, TornRead
<1>13. ASSUME NEW c \in Conns, Establish(c) PROVE NoOtherFault' /\ AnswerIsOwn'
    BY <1>13 DEF Establish, NetStep
<1>14. ASSUME NEW c \in Conns, Refuse(c) PROVE NoOtherFault' /\ AnswerIsOwn'
    BY <1>14 DEF Refuse, NetStep
<1>15. ASSUME NEW c \in Conns, Lose(c) PROVE NoOtherFault' /\ AnswerIsOwn'
    BY <1>15 DEF Lose, NetStep
<1>16. ASSUME NEW c \in Conns, ServerReply(c)
      PROVE  NoOtherFault' /\ AnswerIsOwn'
    <2>1. /\ UNCHANGED <<net, results, fault>> /\ reply[c] = "none"
          /\ \A d \in Conns : d # c => reply'[d] = reply[d]
        BY <1>16 DEF ServerReply
    <2>2. results[c] \cap Answers = {}
        BY <2>1 DEF Answers
    <2>3. QED BY <2>1, <2>2
<1>17. QED BY <1>1, <1>2, <1>3, <1>4, <1>5, <1>6, <1>7, <1>8, <1>9, <1>10, <1>11, <1>12,
             <1>13, <1>14, <1>15, <1>16, ErrorCases
          DEF Next, Control, AppStep, LoopStep, Shared, Pick, Network, Threads

\* The invariant holds at the beginning.
LEMMA InitSerial == ASSUME Init PROVE SerialInv
BY DEF Init, ClientInit, TcpInit, SerialInv, OneInside, Calls, OneObject, Fresh, AppAt, LoopAt, Kept,
       Said, Awaiting, Reaches, NoOtherFault, AnswerIsOwn, Threads, UvLive, Answers,
       NoConn, Conns

\* Every step keeps the invariant.
LEMMA SerialStep ==
    ASSUME Patient, IInv, CredInv, SerialInv, [Next]_vars
    PROVE  SerialInv'
<1>1. CASE Next
    <2>1. OneInside' /\ Calls'
        BY <1>1, OneInsideStep, CallsStep
    <2>2. OneObject' /\ Fresh'
        BY <1>1, OneObjectStep, FreshStep
    <2>3. AppAt' /\ LoopAt'
        BY <1>1, AppAtStep, LoopAtStep
    <2>4. Kept' /\ Said'
        BY <1>1, KeptStep, SaidStep
    <2>5. NoOtherFault' /\ AnswerIsOwn'
        BY <1>1, SpokenStep
    <2>6. QED BY <2>1, <2>2, <2>3, <2>4, <2>5 DEF SerialInv
<1>2. CASE UNCHANGED vars
    BY <1>2 DEF SerialInv, OneInside, Calls, OneObject, Fresh, Settled, AppAt, LoopAt, Kept,
       Said, Awaiting, Reaches, LoggedIn, NoOtherFault, AnswerIsOwn,
       vars, tcpVars, clientVars, appVars, netVars, ctlVars, frame
<1>3. QED BY <1>1, <1>2

\* With one thread inside at a time and a patient application, SerialInv is an
\* invariant.
LEMMA SpecSerial == Patient => (Spec => []SerialInv)
<1> SUFFICES ASSUME Patient PROVE Spec => []SerialInv
    OBVIOUS
<1>1. Init => SerialInv
    BY InitSerial
<1>2. IInv /\ CredInv /\ SerialInv /\ [Next]_vars => SerialInv'
    BY SerialStep
<1>3. QED BY <1>1, <1>2, SpecInv, SpecCred, PTL DEF Spec

-----------------------------------------------------------------------------
(* The theorems *)

\* login, logout, send and the loop's callbacks never meet a null or a dangling pointer,
\* a handle without a descriptor or a false assertion on what the client has done before,
\* when one thread at a time is in the client and the application waits for a connect to
\* be settled.  Two assertions are left out, and can fail: that of tcp_client.cpp:60 on the
\* loop having begun, and that of client.cpp:197 on what has been read.
THEOREM SerialNeverDies == Patient => (Spec => []NoOtherFault)
<1> SUFFICES ASSUME Patient PROVE Spec => []NoOtherFault
    OBVIOUS
<1>1. IInv /\ CredInv /\ SerialInv => NoOtherFault
    BY DEF SerialInv
<1>2. QED BY <1>1, SpecInv, SpecCred, SpecSerial, PTL

\* Between calls nothing of an earlier attempt is left: close, logout and ~TcpClient give
\* back every object, socket and registry entry that login and connect have taken, even
\* when connect fails, the connection is refused or lost, or the login is rejected.
THEOREM SerialOneConnection == Patient => (Spec => []OneConnection)
<1> SUFFICES ASSUME Patient PROVE Spec => []OneConnection
    OBVIOUS
<1>1. IInv /\ CredInv /\ SerialInv => OneConnection
    <2>1. SUFFICES ASSUME IInv, CredInv, SerialInv, Idle
                   PROVE  /\ alive \subseteq {tcp_client_}
                          /\ \A c \in Conns : uv[c] \in UvLive =>
                                 /\ c = tcp_client_ /\ g_conn_map[kfd[c]] = c
                                 /\ login_status_ # "Default"
        BY DEF OneConnection
    <2>2. pc["loop"] = "idle" /\ pc["app"] = "idle" /\ held = NoConn
        BY <2>1 DEF Idle, Threads, IInv, LoopState, Reaches
    <2>3. ASSUME NEW c \in alive PROVE c = tcp_client_
        <3>1. c \in {tcp_client_, held} /\ c \in Conns
            BY <2>1, OnlyHolders DEF SerialInv, Holders
        <3>2. QED BY <2>2, <3>1 DEF Conns, NoConn
    <2>4. ASSUME NEW c \in Conns, uv[c] \in UvLive
          PROVE  c = tcp_client_ /\ g_conn_map[kfd[c]] = c /\ login_status_ # "Default"
        BY <2>1, <2>2, <2>4 DEF SerialInv, OneObject
    <2>5. QED BY <2>3, <2>4
<1>2. QED BY <1>1, SpecInv, SpecCred, SpecSerial, PTL

\* What login_cb_ and the timeout and error callbacks are told is about the connection of
\* their own attempt: onHandleAuthRsp and onConnectionStatusChanged find the callbacks of
\* the attempt whose connection they run on, however many logins there have been.
THEOREM SerialAnswerIsOwn == Patient => (Spec => []AnswerIsOwn)
<1> SUFFICES ASSUME Patient PROVE Spec => []AnswerIsOwn
    OBVIOUS
<1>1. IInv /\ CredInv /\ SerialInv => AnswerIsOwn
    BY DEF SerialInv
<1>2. QED BY <1>1, SpecInv, SpecCred, SpecSerial, PTL

\* A logged-in application's tcp_client_ is the object of the accepted connection, still
\* connected and read from, so that send can assert kConnectOk.
THEOREM SerialSendSafe == Patient => (Spec => []SendSafe)
<1> SUFFICES ASSUME Patient PROVE Spec => []SendSafe
    OBVIOUS
<1>1. IInv /\ CredInv /\ SerialInv => SendSafe
    <2>1. SUFFICES ASSUME IInv, CredInv, SerialInv, Idle, LoggedIn
                   PROVE  /\ tcp_client_ = logins /\ reply[logins] = "ok"
                          /\ connect_status_[tcp_client_] = "ConnectOk"
                          /\ uv[tcp_client_] = "reading"
        BY DEF SendSafe
    <2>2. QED BY <2>1, LoggedInFacts DEF Idle, Threads
<1>2. QED BY <1>1, SpecInv, SpecCred, SpecSerial, PTL

-----------------------------------------------------------------------------
(* Client implements LoginSession *)

\* What LoginSession calls open.
IsOpen == (login_status_ = "Logining" /\ ~Failing) \/ Refusing

\* A step that shows the application nothing.
Unseen ==
    /\ UNCHANGED <<login_cb_, results>>
    /\ IsOpen' <=> IsOpen

\* Such a step leaves all three variables of LoginSession as they are.
LEMMA UnseenStutters ==
    ASSUME Unseen
    PROVE  UNCHANGED Session!sessionVars
BY DEF Unseen, Session!sessionVars, IsOpen

\* The loop is not on its way from a failure or a refusal.
Plain == ~Failing /\ ~Refusing

\* A step that tells nobody anything, with the loop on neither way before or after it.
LEMMA PlainStep ==
    ASSUME UNCHANGED <<login_cb_, results, login_status_>>, Plain, Plain'
    PROVE  Unseen
BY DEF Unseen, Plain, IsOpen

\* Telling the callbacks is telling the attempt.
LEMMA TellHears ==
    ASSUME TypeOK, NEW r, Tell(r), login_cb_ \in Conns, login_cb_' = login_cb_, IsOpen
    PROVE  Session!Hear(r)
<1>1. results \in [Conns -> SUBSET Results]
    BY DEF TypeOK, ClientTypeOK
<1>2. results' = [c \in Conns |-> IF c = login_cb_ THEN results[c] \cup {r} ELSE results[c]]
    BY DEF Tell
<1>3. results' = [results EXCEPT ![login_cb_] = @ \cup {r}]
    BY <1>1, <1>2
<1>4. QED BY <1>3 DEF Session!Hear, IsOpen

\* A step is a step of LoginSession, or shows the application nothing.
LEMMA SessionStep ==
    ASSUME Patient, IInv, CredInv, SerialInv, Next
    PROVE  Session!SessionNext \/ Unseen
<1> USE DEF SerialInv, IInv, TypeOK, ClientTypeOK, Threads, At, Goto, Call, AppPc,
           LoopPc, clientVars, appVars, netVars, frame, ctlVars
<1>1. CASE Login
    <2>1. UNCHANGED <<login_cb_, results, login_status_>>
        BY <1>1 DEF Login
    <2>2. pc["loop"] = "idle" /\ pc'["loop"] = "idle"
        BY <1>1 DEF Login, Enter
    <2>3. QED BY <2>1, <2>2, PlainStep DEF Plain, Failing, Refusing
<1>2. CASE Logout
    <2>1. UNCHANGED <<login_cb_, results, login_status_>>
        BY <1>2 DEF Logout
    <2>2. pc["loop"] = "idle" /\ pc'["loop"] = "idle"
        BY <1>2 DEF Logout, Enter
    <2>3. QED BY <2>1, <2>2, PlainStep DEF Plain, Failing, Refusing
<1>3. CASE SendMessage
    <2>1. UNCHANGED <<login_cb_, results, login_status_>>
        BY <1>3 DEF SendMessage
    <2>2. pc["loop"] = "idle" /\ pc'["loop"] = "idle"
        BY <1>3 DEF SendMessage, Enter
    <2>3. QED BY <2>1, <2>2, PlainStep DEF Plain, Failing, Refusing
<1>4. CASE Prepare
    <2>1. /\ pc["app"] = "prepare" /\ pc["loop"] = "idle" /\ pc'["loop"] = "idle"
          /\ login_cb_' = logins /\ login_status_' = "Logining" /\ UNCHANGED results
        BY <1>4 DEF Prepare, OneInside
    <2>2. login_status_ = "Default" /\ logins \in Conns
        BY <2>1 DEF OneObject, CredInv, Attempts, AppState, Reaches
    <2>3. login_cb_ \in Nat /\ logins = login_cb_ + 1 /\ login_cb_ < MaxLogins
        BY <2>1, <2>2, TcpAssumption DEF Calls, Reaches, Conns
    <2>4. ~IsOpen /\ IsOpen'
        BY <2>1, <2>2 DEF IsOpen, Failing, Refusing
    <2>5. Session!Begin
        BY <2>1, <2>3, <2>4 DEF Session!Begin, IsOpen
    <2>6. QED BY <2>5 DEF Session!SessionNext
<1>5. CASE Connect
    <2>1. UNCHANGED <<login_cb_, results, login_status_>>
        BY <1>5 DEF Connect
    <2>2. pc["loop"] = "idle" /\ pc'["loop"] = "idle"
        BY <1>5 DEF Connect, OneInside
    <2>3. QED BY <2>1, <2>2, PlainStep DEF Plain, Failing, Refusing
<1>6. CASE Open
    <2>1. UNCHANGED <<login_cb_, results, login_status_>>
        BY <1>6 DEF Open
    <2>2. pc["loop"] = "idle" /\ pc'["loop"] = "idle"
        BY <1>6 DEF Open, OneInside
    <2>3. QED BY <2>1, <2>2, PlainStep DEF Plain, Failing, Refusing
<1>7. CASE OpenFails
    <2>1. UNCHANGED <<login_cb_, results, login_status_>>
        BY <1>7 DEF OpenFails
    <2>2. pc["loop"] = "idle" /\ pc'["loop"] = "idle"
        BY <1>7 DEF OpenFails, OneInside
    <2>3. QED BY <2>1, <2>2, PlainStep DEF Plain, Failing, Refusing
<1>8. CASE GiveUp
    <2>1. UNCHANGED <<login_cb_, results, login_status_>>
        BY <1>8 DEF GiveUp
    <2>2. pc["loop"] = "idle" /\ pc'["loop"] = "idle"
        BY <1>8 DEF GiveUp, OneInside
    <2>3. QED BY <2>1, <2>2, PlainStep DEF Plain, Failing, Refusing
<1>9. CASE ConnectReturns
    <2>1. UNCHANGED <<login_cb_, results, login_status_>>
        BY <1>9 DEF ConnectReturns
    <2>2. pc["loop"] = "idle" /\ pc'["loop"] = "idle"
        BY <1>9 DEF ConnectReturns, OneInside
    <2>3. QED BY <2>1, <2>2, PlainStep DEF Plain, Failing, Refusing
<1>10. CASE Find
    <2>1. UNCHANGED <<login_cb_, results, login_status_>>
        BY <1>10 DEF Find
    <2>2. pc["loop"] = "find" /\ pc'["loop"] \in {"idle", "status", "auth", "shut"}
        BY <1>10 DEF Find
    <2>3. QED BY <2>1, <2>2, PlainStep DEF Plain, Failing, Refusing
<1>11. CASE OnConnectOk
    <2>1. UNCHANGED <<login_cb_, results, login_status_>>
        BY <1>11 DEF OnConnectOk
    <2>2. pc["loop"] = "status" /\ pc'["loop"] = "check"
        BY <1>11 DEF OnConnectOk
    <2>3. QED BY <2>1, <2>2, PlainStep DEF Plain, Failing, Refusing
<1>12. CASE ReadStart
    <2>1. UNCHANGED <<login_cb_, results, login_status_>>
        BY <1>12 DEF ReadStart
    <2>2. pc["loop"] = "started" /\ pc'["loop"] = "done"
        BY <1>12 DEF ReadStart
    <2>3. QED BY <2>1, <2>2, PlainStep DEF Plain, Failing, Refusing
<1>13. CASE Shut
    <2>1. UNCHANGED <<login_cb_, results, login_status_>>
        BY <1>13 DEF Shut
    <2>2. pc["loop"] = "shut" /\ pc'["loop"] = "notify"
        BY <1>13 DEF Shut
    <2>3. QED BY <2>1, <2>2, PlainStep DEF Plain, Failing, Refusing
<1>14. CASE OnDisconnected
    <2>1. /\ pc["loop"] = "notify" /\ pc'["loop"] = "close" /\ ret'["loop"] = "done"
          /\ login_cb_' = login_cb_ /\ login_cb_ \in Conns /\ login_status_ = "Logining"
        BY <1>14 DEF OnDisconnected, LoopAt, OneObject, OneInside, Conns, NoConn
    <2>2. Tell("neterr")
        BY <1>14, <2>1 DEF OnDisconnected
    <2>3. IsOpen /\ ~IsOpen'
        BY <2>1 DEF IsOpen, Failing, Refusing
    <2>4. Session!Fail
        BY <2>1, <2>2, <2>3, TellHears DEF Session!Fail, IsOpen
    <2>5. QED BY <2>4 DEF Session!SessionNext
<1>15. CASE OnHandleAuthRsp
    <2>1. /\ pc["loop"] = "auth" /\ event = "read" /\ reply[handle] \in Answers
          /\ UNCHANGED <<login_cb_, login_status_, results, event, reply, handle>>
          /\ login_status_ = "Logining"
        BY <1>15 DEF OnHandleAuthRsp, LoopAt, LoopState, Reaches, OneObject, OneInside, Conns, NoConn
    <2>2. IsOpen
        BY <2>1 DEF IsOpen, Failing
    <2>3. CASE reply[handle] = "ok"
        <3>1. pc'["loop"] = "answer"
            BY <1>15, <2>3 DEF OnHandleAuthRsp
        <3>2. IsOpen'
            BY <2>1, <3>1 DEF IsOpen, Failing
        <3>3. QED BY <2>1, <2>2, <3>2 DEF Unseen
    <2>4. CASE reply[handle] # "ok"
        <3>1. pc'["loop"] = "close" /\ ret'["loop"] = "answer"
            BY <1>15, <2>4 DEF OnHandleAuthRsp
        <3>2. IsOpen'
            BY <2>1, <3>1 DEF IsOpen, Failing
        <3>3. QED BY <2>1, <2>2, <3>2 DEF Unseen
    <2>5. QED BY <2>3, <2>4
<1>16. CASE Answer
    <2>1. /\ pc["loop"] = "answer" /\ pc'["loop"] = "done" /\ event = "read"
          /\ UNCHANGED <<login_cb_, login_status_>> /\ Tell(reply[handle])
          /\ login_cb_ = handle /\ handle \in Conns /\ reply[handle] \in Answers
        BY <1>16 DEF Answer, LoopAt, LoopState, Reaches
    <2>2. "ok" \notin results[login_cb_]
        BY <2>1 DEF Said, Awaiting, Answers, Reaches
    <2>3. CASE reply[handle] = "ok"
        <3>1. login_status_ = "Logining"
            BY <2>1, <2>3 DEF LoopAt, OneObject, OneInside
        <3>2. IsOpen /\ IsOpen'
            BY <2>1, <3>1 DEF IsOpen, Failing, Refusing
        <3>3. Session!Accept
            BY <2>1, <2>2, <2>3, <3>2, TellHears DEF Session!Accept, IsOpen
        <3>4. QED BY <3>3 DEF Session!SessionNext
    <2>4. CASE reply[handle] = "rejected"
        <3>1. tcp_client_ = NoConn /\ ret["loop"] = "answer" /\ login_status_ = "Default"
            BY <2>1, <2>4 DEF LoopAt, OneObject
        <3>2. IsOpen /\ ~IsOpen'
            BY <2>1, <2>4, <3>1 DEF IsOpen, Failing, Refusing
        <3>3. Session!Refuse
            BY <2>1, <2>2, <2>4, <3>2, TellHears DEF Session!Refuse, IsOpen
        <3>4. QED BY <3>3 DEF Session!SessionNext
    <2>5. QED BY <2>1, <2>3, <2>4 DEF Answers
<1>17. CASE Return
    <2>1. UNCHANGED <<login_cb_, results, login_status_>>
        BY <1>17 DEF Return
    <2>2. pc["loop"] = "done" /\ pc'["loop"] = "idle"
        BY <1>17 DEF Return
    <2>3. QED BY <2>1, <2>2, PlainStep DEF Plain, Failing, Refusing
<1>18. CASE OnTimer
    <2>1. /\ pc["loop"] = "idle" /\ pc'["loop"] = "idle"
          /\ UNCHANGED <<login_cb_, login_status_>>
        BY <1>18 DEF OnTimer, Enter, OneObject
    <2>2. IsOpen <=> login_status_ = "Logining"
        BY <2>1 DEF IsOpen, Failing, Refusing
    <2>3. IsOpen' <=> login_status_ = "Logining"
        BY <2>1 DEF IsOpen, Failing, Refusing
    <2>4. CASE TimedOut(NextAge)
        <3>1. Tell("timeout") /\ login_status_ = "Logining"
            BY <1>18, <2>4 DEF OnTimer, TimedOut
        <3>2. login_cb_ \in Conns
            BY <2>1, <3>1 DEF OneObject, CredInv, Attempts
        <3>3. Session!Expire
            BY <2>1, <2>2, <2>3, <3>1, <3>2, TellHears DEF Session!Expire, IsOpen
        <3>4. QED BY <3>3 DEF Session!SessionNext
    <2>5. CASE ~TimedOut(NextAge)
        <3>1. UNCHANGED results
            BY <1>18, <2>5 DEF OnTimer
        <3>2. QED BY <2>1, <2>2, <2>3, <3>1 DEF Unseen
    <2>6. QED BY <2>4, <2>5
<1>19. ASSUME NEW t \in Threads, LogoutClose(t) PROVE Session!SessionNext \/ Unseen
    <2>1. /\ UNCHANGED <<login_cb_, results, event, reply, handle, ret>> /\ pc[t] = "close"
          /\ login_status_' = "Default" /\ \A u \in Threads : u # t => pc'[u] = pc[u]
          /\ tcp_client_ # NoConn => pc'[t] = "sleep"
        BY <1>19 DEF LogoutClose
    <2>2. CASE t = "app"
        <3>1. pc["loop"] = "idle" /\ pc'["loop"] = "idle"
            BY <2>1, <2>2 DEF OneInside
        <3>2. ~IsOpen' /\ (IsOpen <=> login_status_ = "Logining")
            BY <2>1, <3>1 DEF IsOpen, Failing, Refusing
        <3>3. CASE login_status_ = "Logining"
            <4>1. Session!Leave
                BY <2>1, <3>2, <3>3 DEF Session!Leave, IsOpen
            <4>2. QED BY <4>1 DEF Session!SessionNext
        <3>4. CASE login_status_ # "Logining"
            BY <2>1, <3>2, <3>4 DEF Unseen
        <3>5. QED BY <3>3, <3>4
    <2>3. CASE t = "loop"
        <3>1. pc["loop"] = "close" /\ pc'["loop"] = "sleep" /\ ret["loop"] \in {"done", "answer"}
            BY <2>1, <2>3 DEF OneInside, LoopAt, Conns, NoConn
        <3>2. IsOpen <=> Refusing
            BY <2>1, <3>1 DEF LoopAt, IsOpen, Failing, Refusing
        <3>3. IsOpen' <=> Refusing'
            BY <2>1 DEF IsOpen
        <3>4. Refusing' <=> Refusing
            BY <2>1, <3>1 DEF Refusing
        <3>5. QED BY <2>1, <3>2, <3>3, <3>4 DEF Unseen
    <2>4. QED BY <2>2, <2>3
<1>20. ASSUME NEW t \in Threads, LogoutDrop(t) PROVE Session!SessionNext \/ Unseen
    <2>1. /\ UNCHANGED <<login_cb_, results, login_status_, event, reply, handle, ret>>
          /\ pc[t] = "sleep" /\ pc'[t] = ret[t]
          /\ login_status_ = "Default" /\ \A u \in Threads : u # t => pc'[u] = pc[u]
        BY <1>20 DEF LogoutDrop, AppAt
    <2>2. CASE t = "app"
        <3>1. pc["loop"] = "idle" /\ pc'["loop"] = "idle"
            BY <2>1, <2>2 DEF OneInside
        <3>2. QED BY <2>1, <3>1, PlainStep DEF Plain, Failing, Refusing
    <2>3. CASE t = "loop"
        <3>1. ret["loop"] \in {"done", "answer"}
            BY <2>1, <2>3 DEF OneInside
        <3>2. Refusing' <=> Refusing
            BY <2>1, <2>3, <3>1 DEF Refusing
        <3>3. QED BY <2>1, <3>2 DEF Unseen, IsOpen
    <2>4. QED BY <2>2, <2>3
<1>21. ASSUME NEW t \in Threads, SendCheck(t) PROVE Session!SessionNext \/ Unseen
    <2>1. /\ UNCHANGED <<login_cb_, results, login_status_>> /\ pc[t] = "check"
          /\ pc'[t] \in {ret[t], "write"} /\ \A u \in Threads : u # t => pc'[u] = pc[u]
        BY <1>21 DEF SendCheck
    <2>2. pc["loop"] \in {"idle", "check", "write"}
        BY <2>1 DEF OneInside
    <2>3. pc'["loop"] \in {"idle", "write", "started"}
        BY <2>1, <2>2 DEF OneInside
    <2>4. QED BY <2>1, <2>2, <2>3, PlainStep DEF Plain, Failing, Refusing
<1>22. ASSUME NEW t \in Threads, SendWrite(t) PROVE Session!SessionNext \/ Unseen
    <2>1. /\ UNCHANGED <<login_cb_, results, login_status_>> /\ pc[t] = "write"
          /\ pc'[t] \in {ret[t], "write"} /\ \A u \in Threads : u # t => pc'[u] = pc[u]
        BY <1>22 DEF SendWrite
    <2>2. pc["loop"] \in {"idle", "check", "write"}
        BY <2>1 DEF OneInside
    <2>3. pc'["loop"] \in {"idle", "write", "started"}
        BY <2>1, <2>2 DEF OneInside
    <2>4. QED BY <2>1, <2>2, <2>3, PlainStep DEF Plain, Failing, Refusing
<1>23. CASE Control
    <2>1. UNCHANGED <<login_cb_, results, login_status_, pc, ret, event, reply, handle>>
        BY <1>23, ControlLeaves
    <2>2. QED BY <2>1 DEF Unseen, IsOpen, Failing, Refusing
<1>24. ASSUME NEW c \in Conns, PickConnectOk(c) PROVE Session!SessionNext \/ Unseen
    <2>1. UNCHANGED <<login_cb_, results, login_status_>>
        BY <1>24 DEF PickConnectOk, Dispatch
    <2>2. pc["loop"] = "idle" /\ pc'["loop"] = "find"
        BY <1>24 DEF PickConnectOk, Dispatch, Enter
    <2>3. QED BY <2>1, <2>2, PlainStep DEF Plain, Failing, Refusing
<1>25. ASSUME NEW c \in Conns, PickRefused(c) PROVE Session!SessionNext \/ Unseen
    <2>1. UNCHANGED <<login_cb_, results, login_status_>>
        BY <1>25 DEF PickRefused, Dispatch
    <2>2. pc["loop"] = "idle" /\ pc'["loop"] = "find"
        BY <1>25 DEF PickRefused, Dispatch, Enter
    <2>3. QED BY <2>1, <2>2, PlainStep DEF Plain, Failing, Refusing
<1>26. ASSUME NEW c \in Conns, PickCancelled(c) PROVE Session!SessionNext \/ Unseen
    BY <1>26 DEF PickCancelled, OneObject
<1>27. ASSUME NEW c \in Conns, PickRead(c) PROVE Session!SessionNext \/ Unseen
    <2>1. UNCHANGED <<login_cb_, results, login_status_>>
        BY <1>27 DEF PickRead, Dispatch
    <2>2. pc["loop"] = "idle" /\ pc'["loop"] = "find"
        BY <1>27 DEF PickRead, Dispatch, Enter
    <2>3. QED BY <2>1, <2>2, PlainStep DEF Plain, Failing, Refusing
<1>28. ASSUME NEW c \in Conns, PickEof(c) PROVE Session!SessionNext \/ Unseen
    <2>1. UNCHANGED <<login_cb_, results, login_status_>>
        BY <1>28 DEF PickEof, Dispatch
    <2>2. pc["loop"] = "idle" /\ pc'["loop"] = "find"
        BY <1>28 DEF PickEof, Dispatch, Enter
    <2>3. QED BY <2>1, <2>2, PlainStep DEF Plain, Failing, Refusing
<1>29. ASSUME NEW c \in Conns, TornRead(c) PROVE Session!SessionNext \/ Unseen
    <2>1. UNCHANGED <<login_cb_, results, login_status_>>
        BY <1>29 DEF TornRead
    <2>2. pc["loop"] = "idle" /\ pc'["loop"] = "idle"
        BY <1>29 DEF TornRead, Enter
    <2>3. QED BY <2>1, <2>2, PlainStep DEF Plain, Failing, Refusing
<1>30. ASSUME NEW c \in Conns, Establish(c) PROVE Session!SessionNext \/ Unseen
    <2>1. UNCHANGED <<login_cb_, results, login_status_, pc, ret, event, reply, handle>>
        BY <1>30 DEF Establish, NetStep
    <2>2. QED BY <2>1 DEF Unseen, IsOpen, Failing, Refusing
<1>31. ASSUME NEW c \in Conns, Refuse(c) PROVE Session!SessionNext \/ Unseen
    <2>1. UNCHANGED <<login_cb_, results, login_status_, pc, ret, event, reply, handle>>
        BY <1>31 DEF Refuse, NetStep
    <2>2. QED BY <2>1 DEF Unseen, IsOpen, Failing, Refusing
<1>32. ASSUME NEW c \in Conns, Lose(c) PROVE Session!SessionNext \/ Unseen
    <2>1. UNCHANGED <<login_cb_, results, login_status_, pc, ret, event, reply, handle>>
        BY <1>32 DEF Lose, NetStep
    <2>2. QED BY <2>1 DEF Unseen, IsOpen, Failing, Refusing
<1>33. ASSUME NEW c \in Conns, ServerReply(c) PROVE Session!SessionNext \/ Unseen
    <2>1. /\ UNCHANGED <<login_cb_, results, login_status_, pc, ret, event, handle>>
          /\ reply[c] = "none" /\ \A d \in Conns : d # c => reply'[d] = reply[d]
        BY <1>33 DEF ServerReply
    <2>2. CASE Reaches("loop", "answer")
        <3>1. handle \in Conns /\ handle # c
            BY <2>1, <2>2 DEF LoopState, Answers
        <3>2. reply'[handle] = reply[handle]
            BY <2>1, <3>1
        <3>3. QED BY <2>1, <3>2 DEF Unseen, IsOpen, Failing, Refusing
    <2>3. CASE ~Reaches("loop", "answer")
        <3>1. ~Refusing /\ ~Refusing'
            BY <2>1, <2>3 DEF Refusing, Reaches
        <3>2. Failing' <=> Failing
            BY <2>1 DEF Failing
        <3>3. QED BY <2>1, <3>1, <3>2 DEF Unseen, IsOpen
    <2>4. QED BY <2>2, <2>3
<1>34. QED BY <1>1, <1>2, <1>3, <1>4, <1>5, <1>6, <1>7, <1>8, <1>9, <1>10, <1>11, <1>12,
             <1>13, <1>14, <1>15, <1>16, <1>17, <1>18, <1>19, <1>20, <1>21, <1>22,
             <1>23, <1>24, <1>25, <1>26, <1>27, <1>28, <1>29, <1>30, <1>31, <1>32, <1>33, ErrorCases
          DEF Next, Control, AppStep, LoopStep, Shared, Pick, Network, Threads

\* The calls of login and logout and the callbacks of the loop show the application one
\* attempt at a time: a login opens the next attempt, the server answers it at most once,
\* a refusal or a network error is the last thing it is told, and no callback speaks for
\* an attempt that is over.
THEOREM SerialImplementsSession == Patient => (Spec => ImplementsSession)
<1> SUFFICES ASSUME Patient PROVE Spec => ImplementsSession
    OBVIOUS
<1>1. Init => Session!SessionInit
    BY DEF Init, ClientInit, Session!SessionInit, Failing, Refusing, Threads, Conns
<1>2. IInv /\ CredInv /\ SerialInv /\ [Next]_vars => [Session!SessionNext]_(Session!sessionVars)
    <2>1. ASSUME IInv, CredInv, SerialInv, Next
          PROVE  [Session!SessionNext]_(Session!sessionVars)
        BY <2>1, SessionStep, UnseenStutters
    <2>2. ASSUME UNCHANGED vars PROVE UNCHANGED Session!sessionVars
        BY <2>2 DEF Session!sessionVars, Failing, Refusing, vars, clientVars, appVars, netVars,
                    ctlVars, frame
    <2>3. QED BY <2>1, <2>2
<1>3. QED BY <1>1, <1>2, SpecInv, SpecCred, SpecSerial, PTL
         DEF Spec, ImplementsSession, Session!SessionSpec

-----------------------------------------------------------------------------
(***************************************************************************)
(* From here on: ClientThreads, the client whose threads do not take turns. *)
(***************************************************************************)

-----------------------------------------------------------------------------
(* Control *)

\* Thread t is in logout or send, or in the close() of logout.
Returning(t) == pc[t] \in LogoutPc \cup SendPc \/ (pc[t] \in ClosePc /\ after[t] = "sleep")

\* Where the threads are, and where what they are in returns to.
Places ==
    /\ pc \in [Threads -> SharedPc \cup LoginPc \cup CallbackPc]
    /\ pc["app"] \in SharedPc \cup LoginPc /\ pc["loop"] \in SharedPc \cup CallbackPc
    /\ ret \in [Threads -> {"idle", "prepare", "started", "answer", "done"}]
    /\ ret["app"] \in {"idle", "prepare"} /\ ret["loop"] # "prepare"
    /\ after \in [Threads -> {"idle", "alloc", "sleep", "notify"}]
    /\ after["app"] # "notify"
    /\ pc["loop"] \in ClosePc => after["loop"] \in {"sleep", "notify"}
    /\ Returning("loop") => ret["loop"] # "idle"
    /\ pc["app"] \in SendPc => ret["app"] = "idle"

\* The application is in login, before the handle of the new connection is initialised.
BeforeInit ==
    \/ pc["app"] \in {"prepare", "name", "object", "connect", "alloc", "init"}
    \/ Returning("app") /\ ret["app"] = "prepare"
    \/ pc["app"] \in ClosePc /\ after["app"] = "alloc"

\* login makes its own TcpClient, and connect runs on that one.
Calling ==
    /\ logins \in Conns \cup {0}
    /\ BeforeInit => logins \in Conns
    /\ pc["app"] \in {"prepare", "name", "object"} => tcp_client_ = NoConn
    /\ pc["app"] = "connect" => tcp_client_ \in {NoConn, logins}
    /\ pc["app"] \in {"alloc", "init"} => self = logins
    /\ pc["app"] \in ClosePc /\ after["app"] = "alloc" => self = logins

\* The loop holds nothing between callbacks, and a callback begins with a handle.
Calling2 ==
    /\ pc["loop"] \in {"idle", "find", "late"} => held = NoConn
    /\ pc["loop"] = "find" => handle \in Conns

\* A thread gets to "unset" from "uv_close" only, and keeps its object there.
Unsetting ==
    \A t \in Threads : pc'[t] = "unset" =>
        \/ pc[t] = "unset" /\ obj'[t] = obj[t]
        \/ CloseHandle(t)

Flow == Places /\ Calling /\ Calling2

\* The handle of connection c is yet to be initialised.
Yet(c) == c > logins \/ (c = logins /\ BeforeInit)

\* Nobody goes back to before that.
NoneAgain == \A c \in Conns : Yet(c)' => Yet(c)

\* A step is one of these.
LEMMA ThreadsCases ==
    ASSUME ThreadsNext
    PROVE  \/ Whole("app", Login) \/ Whole("app", Logout) \/ Whole("app", SendMessage)
           \/ LoginStep
           \/ StatusConnected \/ CopyCredentials \/ ShutHeld \/ LoginFails \/ TellFailure
           \/ TellTimeout \/ CallbackReturns \/ TimerFires \/ Begins
           \/ Whole("loop", Find) \/ Whole("loop", ReadStart)
           \/ Whole("loop", OnHandleAuthRsp) \/ Whole("loop", Answer)
           \/ Whole("loop", AbortMessage)
           \/ \E t \in Threads :
                 \/ TestHandle(t) \/ CloseHandle(t) \/ UnsetHandle(t) \/ EraseEntry(t)
                 \/ CloseReturns(t) \/ DestroyHandle(t) \/ DestroyEntry(t)
                 \/ LogoutStatus(t) \/ LogoutTest(t) \/ LogoutUse(t) \/ LogoutForget(t)
                 \/ Whole(t, SendCheck(t)) \/ SendAssert(t) \/ SendPut(t) \/ Fall(t)
           \/ \E c \in Conns :
                 \/ Whole("loop", PickConnectOk(c)) \/ Whole("loop", PickRefused(c))
                 \/ Whole("loop", PickCancelled(c)) \/ Whole("loop", PickRead(c))
                 \/ Whole("loop", PickEof(c)) \/ Whole("loop", TornRead(c))
                 \/ Outside(c)
<1>1. ASSUME NEW t \in Threads, SharedStep(t)
      PROVE  \/ TestHandle(t) \/ CloseHandle(t) \/ UnsetHandle(t) \/ EraseEntry(t)
             \/ CloseReturns(t) \/ DestroyHandle(t) \/ DestroyEntry(t)
             \/ LogoutStatus(t) \/ LogoutTest(t) \/ LogoutUse(t) \/ LogoutForget(t)
             \/ Whole(t, SendCheck(t)) \/ SendAssert(t) \/ SendPut(t)
    BY <1>1 DEF SharedStep, CloseStep, DestroyStep
<1>2. ASSUME NEW c \in Conns, Picks(c)
      PROVE  \/ Whole("loop", PickConnectOk(c)) \/ Whole("loop", PickRefused(c))
             \/ Whole("loop", PickCancelled(c)) \/ Whole("loop", PickRead(c))
             \/ Whole("loop", PickEof(c)) \/ Whole("loop", TornRead(c))
    BY <1>2, ErrorCases DEF Picks, Pick, Whole
<1>3. CASE Whole("app", Login \/ Logout \/ SendMessage)
    BY <1>3 DEF Whole
<1>4. CASE CallbackStep
    <2>1. CASE Whole("loop", Find \/ ReadStart \/ OnHandleAuthRsp \/ Answer)
        BY <2>1 DEF Whole
    <2>2. QED BY <1>4, <2>1 DEF CallbackStep
<1>5. "app" \in Threads /\ "loop" \in Threads
    BY DEF Threads
<1>6. QED BY <1>1, <1>2, <1>3, <1>4, <1>5 DEF ThreadsNext, AppMoves, LoopMoves

\* What a step that is well defined may count on.
LEMMA GoesFacts ==
    ASSUME NEW t \in Threads, NEW p, Goes(t, p)
    PROVE  /\ pc[t] = p /\ dying[t] = NoConn
           /\ p \in ClosePc \cup {"put"} => obj[t] \in alive
           /\ p \in {"alloc", "init", "request", "fileno", "enter", "log"} => self \in alive
           /\ p = "giveup" => self \in alive
           /\ p = "connect" => tcp_client_ # NoConn
           /\ p = "uv_close" => uv[obj[t]] \in UvLive \cup {"init"}
           /\ p = "request" => uv[self] = "init" /\ tcp_handle_[self]
<1>1. pc[t] = p /\ dying[t] = NoConn /\ At(t, p) /\ Undone(t) = {}
    BY DEF Goes, At
<1>2. p \in {"connect", "giveup"} => tcp_client_ # NoConn \/ self \in alive
    BY <1>1, AtFacts
<1>3. p = "connect" => tcp_client_ # NoConn
    BY <1>1, AtFacts
<1>4. p = "giveup" => self \in alive
    BY <1>1, AtFacts
<1>5. /\ "dangling_this" \in ThreadFaults /\ "dangling_this" \notin Undone(t)
      /\ "null_handle" \in ThreadFaults /\ "null_handle" \notin Undone(t)
      /\ "closing_handle" \in ThreadFaults /\ "closing_handle" \notin Undone(t)
    BY <1>1 DEF ThreadFaults, Faults
<1>6. p \in ClosePc \cup {"put"} => obj[t] \in alive
    BY <1>1, <1>5 DEF Undone
<1>7. p \in {"alloc", "init", "request", "fileno", "enter", "log"} => self \in alive
    BY <1>1, <1>5 DEF Undone
<1>8. p = "uv_close" => uv[obj[t]] \in UvLive \cup {"init"}
    BY <1>1, <1>5 DEF Undone, CannotClose
<1>9. p = "request" => uv[self] = "init" /\ tcp_handle_[self]
    BY <1>1, <1>5 DEF Undone
<1>10. QED BY <1>1, <1>3, <1>4, <1>6, <1>7, <1>8, <1>9

\* Every step keeps the control states.
LEMMA FlowStep ==
    ASSUME Flow, ThreadsNext
    PROVE  Flow' /\ Unsetting
<1> USE DEF Flow, Places, Calling, Calling2, Unsetting, Returning,
           BeforeInit, Goes, At,
           Goto, Call, CallClose, Threads, ClosePc, LogoutPc, SendPc, SharedPc, LoginPc,
           CallbackPc, frame, ctlVars, clientVars, appVars, netVars, extraVars, callVars
<1>1. CASE Whole("app", Login)
    BY <1>1, TcpAssumption DEF Whole, Enter, Login, Conns
<1>2. CASE Whole("app", Logout)
    BY <1>2 DEF Whole, Enter, Logout
<1>3. CASE Whole("app", SendMessage)
    BY <1>3 DEF Whole, Enter, SendMessage
<1>4. CASE InstallCallbacks
    BY <1>4 DEF InstallCallbacks
<1>5. CASE InstallCredentials
    BY <1>5 DEF InstallCredentials
<1>6. CASE MakeClient
    BY <1>6 DEF MakeClient
<1>7. CASE EnterConnect
    BY <1>7, GoesFacts DEF EnterConnect
<1>8. CASE AllocHandle
    BY <1>8 DEF AllocHandle
<1>9. CASE InitHandle
    BY <1>9 DEF InitHandle
<1>10. CASE RequestConnect
    BY <1>10 DEF RequestConnect
<1>11. CASE CloseUnconnected
    BY <1>11 DEF CloseUnconnected
<1>12. CASE FetchFd
    BY <1>12 DEF FetchFd
<1>13. CASE EnterMap
    BY <1>13 DEF EnterMap, Unrefer
<1>14. CASE LogConnect
    BY <1>14 DEF LogConnect
<1>15. CASE StatusConnected
    BY <1>15 DEF StatusConnected
<1>16. CASE CopyCredentials
    BY <1>16 DEF CopyCredentials
<1>17. CASE ShutHeld
    BY <1>17 DEF ShutHeld
<1>18. CASE LoginFails
    BY <1>18 DEF LoginFails
<1>19. CASE TellFailure
    BY <1>19 DEF TellFailure, Tell
<1>20. CASE TellTimeout
    BY <1>20 DEF TellTimeout, Tell
<1>21. CASE CallbackReturns
    BY <1>21 DEF CallbackReturns, Unrefer
<1>22. CASE TimerFires
    BY <1>22 DEF TimerFires, Enter
<1>23. CASE Begins
    BY <1>23 DEF Begins, BeginRun
<1>24. CASE Whole("loop", Find)
    BY <1>24 DEF Whole, Find
<1>25. CASE Whole("loop", ReadStart)
    BY <1>25 DEF Whole, ReadStart
<1>26. CASE Whole("loop", OnHandleAuthRsp)
    BY <1>26 DEF Whole, OnHandleAuthRsp
<1>27. CASE Whole("loop", Answer)
    BY <1>27 DEF Whole, Answer, Tell
<1>28. CASE Whole("loop", AbortMessage)
    BY <1>28 DEF Whole, AbortMessage, Enter
<1>29. ASSUME NEW t \in Threads, TestHandle(t) PROVE Flow' /\ Unsetting
    BY <1>29 DEF TestHandle
<1>30. ASSUME NEW t \in Threads, CloseHandle(t) PROVE Flow' /\ Unsetting
    BY <1>30 DEF CloseHandle
<1>31. ASSUME NEW t \in Threads, UnsetHandle(t) PROVE Flow' /\ Unsetting
    BY <1>31 DEF UnsetHandle
<1>32. ASSUME NEW t \in Threads, EraseEntry(t) PROVE Flow' /\ Unsetting
    BY <1>32 DEF EraseEntry, Unrefer
<1>33. ASSUME NEW t \in Threads, CloseReturns(t) PROVE Flow' /\ Unsetting
    BY <1>33 DEF CloseReturns
<1>34. ASSUME NEW t \in Threads, DestroyHandle(t) PROVE Flow' /\ Unsetting
    BY <1>34 DEF DestroyHandle
<1>35. ASSUME NEW t \in Threads, DestroyEntry(t) PROVE Flow' /\ Unsetting
    BY <1>35 DEF DestroyEntry, Unrefer
<1>36. ASSUME NEW t \in Threads, LogoutStatus(t) PROVE Flow' /\ Unsetting
    BY <1>36 DEF LogoutStatus
<1>37. ASSUME NEW t \in Threads, LogoutTest(t) PROVE Flow' /\ Unsetting
    BY <1>37 DEF LogoutTest
<1>38. ASSUME NEW t \in Threads, LogoutUse(t) PROVE Flow' /\ Unsetting
    BY <1>38 DEF LogoutUse
<1>39. ASSUME NEW t \in Threads, LogoutForget(t) PROVE Flow' /\ Unsetting
    BY <1>39 DEF LogoutForget, Unrefer
<1>40. ASSUME NEW t \in Threads, SendAssert(t) PROVE Flow' /\ Unsetting
    BY <1>40 DEF SendAssert
<1>41. ASSUME NEW t \in Threads, SendPut(t) PROVE Flow' /\ Unsetting
    BY <1>41 DEF SendPut
<1>42. ASSUME NEW t \in Threads, Fall(t) PROVE Flow' /\ Unsetting
    BY <1>42 DEF Fall
<1>43. ASSUME NEW t \in Threads, Whole(t, SendCheck(t)) PROVE Flow' /\ Unsetting
    BY <1>43 DEF Whole, SendCheck
<1>44. ASSUME NEW c \in Conns, Whole("loop", PickConnectOk(c)) PROVE Flow' /\ Unsetting
    BY <1>44 DEF Whole, PickConnectOk, Dispatch, Enter
<1>45. ASSUME NEW c \in Conns, Whole("loop", PickRefused(c)) PROVE Flow' /\ Unsetting
    BY <1>45 DEF Whole, PickRefused, Dispatch, Enter
<1>46. ASSUME NEW c \in Conns, Whole("loop", PickCancelled(c)) PROVE Flow' /\ Unsetting
    BY <1>46 DEF Whole, PickCancelled, Dispatch, Enter
<1>47. ASSUME NEW c \in Conns, Whole("loop", PickRead(c)) PROVE Flow' /\ Unsetting
    BY <1>47 DEF Whole, PickRead, Dispatch, Enter
<1>48. ASSUME NEW c \in Conns, Whole("loop", PickEof(c)) PROVE Flow' /\ Unsetting
    BY <1>48 DEF Whole, PickEof, Dispatch, Enter
<1>49. ASSUME NEW c \in Conns, Whole("loop", TornRead(c)) PROVE Flow' /\ Unsetting
    BY <1>49 DEF Whole, TornRead, Enter
<1>50. ASSUME NEW c \in Conns, Outside(c) PROVE Flow' /\ Unsetting
    BY <1>50 DEF Outside, Network, Establish, Refuse, Lose, NetStep, ServerReply
<1>51. QED BY <1>1, <1>2, <1>3, <1>4, <1>5, <1>6, <1>7, <1>8, <1>9, <1>10, <1>11, <1>12,
       <1>13, <1>14, <1>15, <1>16, <1>17, <1>18, <1>19, <1>20, <1>21, <1>22, <1>23,
       <1>24, <1>25, <1>26, <1>27, <1>28, <1>29, <1>30, <1>31, <1>32, <1>33, <1>34,
       <1>35, <1>36, <1>37, <1>38, <1>39, <1>40, <1>41, <1>42, <1>43, <1>44, <1>45,
       <1>46, <1>47, <1>48, <1>49, <1>50, ThreadsCases DEF LoginStep

\* No step gives a connection whose handle has been initialised that back.
LEMMA NoneAgainStep ==
    ASSUME Flow, ThreadsNext
    PROVE  NoneAgain
<1> USE DEF Flow, Places, Calling, NoneAgain, Yet, Returning, BeforeInit, Goes, At, Conns,
           Goto, Call, CallClose, Threads, ClosePc, LogoutPc, SendPc, SharedPc, LoginPc,
           CallbackPc, frame, ctlVars, clientVars, appVars, netVars, extraVars, callVars
<1>1. CASE Whole("app", Login)
    BY <1>1, TcpAssumption DEF Whole, Enter, Login, Conns
<1>2. CASE Whole("app", Logout)
    BY <1>2 DEF Whole, Enter, Logout
<1>3. CASE Whole("app", SendMessage)
    BY <1>3 DEF Whole, Enter, SendMessage
<1>4. CASE InstallCallbacks
    BY <1>4 DEF InstallCallbacks
<1>5. CASE InstallCredentials
    BY <1>5 DEF InstallCredentials
<1>6. CASE MakeClient
    BY <1>6 DEF MakeClient
<1>7. CASE EnterConnect
    BY <1>7 DEF EnterConnect
<1>8. CASE AllocHandle
    BY <1>8 DEF AllocHandle
<1>9. CASE InitHandle
    BY <1>9 DEF InitHandle
<1>10. CASE RequestConnect
    BY <1>10 DEF RequestConnect
<1>11. CASE CloseUnconnected
    BY <1>11 DEF CloseUnconnected
<1>12. CASE FetchFd
    BY <1>12 DEF FetchFd
<1>13. CASE EnterMap
    BY <1>13 DEF EnterMap, Unrefer
<1>14. CASE LogConnect
    BY <1>14 DEF LogConnect
<1>15. CASE StatusConnected
    BY <1>15 DEF StatusConnected
<1>16. CASE CopyCredentials
    BY <1>16 DEF CopyCredentials
<1>17. CASE ShutHeld
    BY <1>17 DEF ShutHeld
<1>18. CASE LoginFails
    BY <1>18 DEF LoginFails
<1>19. CASE TellFailure
    BY <1>19 DEF TellFailure, Tell
<1>20. CASE TellTimeout
    BY <1>20 DEF TellTimeout, Tell
<1>21. CASE CallbackReturns
    BY <1>21 DEF CallbackReturns, Unrefer
<1>22. CASE TimerFires
    BY <1>22 DEF TimerFires, Enter
<1>23. CASE Begins
    BY <1>23 DEF Begins, BeginRun
<1>24. CASE Whole("loop", Find)
    BY <1>24 DEF Whole, Find
<1>25. CASE Whole("loop", ReadStart)
    BY <1>25 DEF Whole, ReadStart
<1>26. CASE Whole("loop", OnHandleAuthRsp)
    BY <1>26 DEF Whole, OnHandleAuthRsp
<1>27. CASE Whole("loop", Answer)
    BY <1>27 DEF Whole, Answer, Tell
<1>28. CASE Whole("loop", AbortMessage)
    BY <1>28 DEF Whole, AbortMessage, Enter
<1>29. ASSUME NEW t \in Threads, TestHandle(t) PROVE NoneAgain
    BY <1>29 DEF TestHandle
<1>30. ASSUME NEW t \in Threads, CloseHandle(t) PROVE NoneAgain
    BY <1>30 DEF CloseHandle
<1>31. ASSUME NEW t \in Threads, UnsetHandle(t) PROVE NoneAgain
    BY <1>31 DEF UnsetHandle
<1>32. ASSUME NEW t \in Threads, EraseEntry(t) PROVE NoneAgain
    BY <1>32 DEF EraseEntry, Unrefer
<1>33. ASSUME NEW t \in Threads, CloseReturns(t) PROVE NoneAgain
    BY <1>33 DEF CloseReturns
<1>34. ASSUME NEW t \in Threads, DestroyHandle(t) PROVE NoneAgain
    BY <1>34 DEF DestroyHandle
<1>35. ASSUME NEW t \in Threads, DestroyEntry(t) PROVE NoneAgain
    BY <1>35 DEF DestroyEntry, Unrefer
<1>36. ASSUME NEW t \in Threads, LogoutStatus(t) PROVE NoneAgain
    BY <1>36 DEF LogoutStatus
<1>37. ASSUME NEW t \in Threads, LogoutTest(t) PROVE NoneAgain
    BY <1>37 DEF LogoutTest
<1>38. ASSUME NEW t \in Threads, LogoutUse(t) PROVE NoneAgain
    BY <1>38 DEF LogoutUse
<1>39. ASSUME NEW t \in Threads, LogoutForget(t) PROVE NoneAgain
    BY <1>39 DEF LogoutForget, Unrefer
<1>40. ASSUME NEW t \in Threads, SendAssert(t) PROVE NoneAgain
    BY <1>40 DEF SendAssert
<1>41. ASSUME NEW t \in Threads, SendPut(t) PROVE NoneAgain
    BY <1>41 DEF SendPut
<1>42. ASSUME NEW t \in Threads, Fall(t) PROVE NoneAgain
    BY <1>42 DEF Fall
<1>43. ASSUME NEW t \in Threads, Whole(t, SendCheck(t)) PROVE NoneAgain
    BY <1>43 DEF Whole, SendCheck
<1>44. ASSUME NEW c \in Conns, Whole("loop", PickConnectOk(c)) PROVE NoneAgain
    BY <1>44 DEF Whole, PickConnectOk, Dispatch, Enter
<1>45. ASSUME NEW c \in Conns, Whole("loop", PickRefused(c)) PROVE NoneAgain
    BY <1>45 DEF Whole, PickRefused, Dispatch, Enter
<1>46. ASSUME NEW c \in Conns, Whole("loop", PickCancelled(c)) PROVE NoneAgain
    BY <1>46 DEF Whole, PickCancelled, Dispatch, Enter
<1>47. ASSUME NEW c \in Conns, Whole("loop", PickRead(c)) PROVE NoneAgain
    BY <1>47 DEF Whole, PickRead, Dispatch, Enter
<1>48. ASSUME NEW c \in Conns, Whole("loop", PickEof(c)) PROVE NoneAgain
    BY <1>48 DEF Whole, PickEof, Dispatch, Enter
<1>49. ASSUME NEW c \in Conns, Whole("loop", TornRead(c)) PROVE NoneAgain
    BY <1>49 DEF Whole, TornRead, Enter
<1>50. ASSUME NEW c \in Conns, Outside(c) PROVE NoneAgain
    BY <1>50 DEF Outside, Network, Establish, Refuse, Lose, NetStep, ServerReply
<1>51. QED BY <1>1, <1>2, <1>3, <1>4, <1>5, <1>6, <1>7, <1>8, <1>9, <1>10, <1>11, <1>12,
       <1>13, <1>14, <1>15, <1>16, <1>17, <1>18, <1>19, <1>20, <1>21, <1>22, <1>23,
       <1>24, <1>25, <1>26, <1>27, <1>28, <1>29, <1>30, <1>31, <1>32, <1>33, <1>34,
       <1>35, <1>36, <1>37, <1>38, <1>39, <1>40, <1>41, <1>42, <1>43, <1>44, <1>45,
       <1>46, <1>47, <1>48, <1>49, <1>50, ThreadsCases DEF LoginStep

-----------------------------------------------------------------------------
(* The sockets and their objects *)

\* What SocketOwned is about.
ownVars == <<tcp_handle_, g_conn_map, alive, uv, kfd, tcp_client_, held, dying, stage>>

Objects ==
    /\ tcp_handle_ \in [Conns -> BOOLEAN]
    /\ g_conn_map \in [Fds -> Conns \cup {NoConn}]
    /\ alive \subseteq Conns
    /\ uv \in [Conns -> Uv]
    /\ kfd \in [Conns -> Fds]
    /\ dying \in [Threads -> Conns \cup {NoConn}]
    /\ stage \in [Threads -> {"none", "handle", "erase"}]
    /\ \A t \in Threads : dying[t] = NoConn <=> stage[t] = "none"

\* close() resets tcp_handle_ on a handle that it has closed.
Unsets == \A t \in Threads : pc[t] = "unset" =>
              obj[t] \in Conns /\ uv[obj[t]] \in {"closed", "cancelling"}

Unused == \A c \in Conns : Yet(c) => uv[c] = "none"

Owned == Objects /\ SocketOwned

SafeInv == Flow /\ Owned /\ Unsets /\ Unused

\* Most steps leave all of it alone.
LEMMA Movers ==
    ASSUME ThreadsNext
    PROVE  \/ UNCHANGED ownVars
           \/ MakeClient \/ AllocHandle \/ InitHandle \/ RequestConnect \/ EnterMap
           \/ CallbackReturns \/ Whole("loop", Find) \/ Whole("loop", ReadStart)
           \/ \E t \in Threads :
                 CloseHandle(t) \/ UnsetHandle(t) \/ EraseEntry(t) \/ DestroyHandle(t)
                 \/ DestroyEntry(t) \/ LogoutForget(t)
           \/ \E c \in Conns :
                 \/ Whole("loop", PickConnectOk(c)) \/ Whole("loop", PickRefused(c))
                 \/ Whole("loop", PickCancelled(c)) \/ Whole("loop", PickRead(c))
                 \/ Whole("loop", PickEof(c))
<1> USE DEF ownVars, tcpVars, clientVars, appVars, netVars, frame, ctlVars, extraVars,
           callVars, deathVars
<1>1. CASE Whole("app", Login)
    BY <1>1 DEF Whole, Login
<1>2. CASE Whole("app", Logout)
    BY <1>2 DEF Whole, Logout
<1>3. CASE Whole("app", SendMessage)
    BY <1>3 DEF Whole, SendMessage
<1>4. CASE InstallCallbacks
    BY <1>4 DEF InstallCallbacks, CallClose
<1>5. CASE InstallCredentials
    BY <1>5 DEF InstallCredentials, CallClose
<1>6. CASE EnterConnect
    BY <1>6 DEF EnterConnect, CallClose
<1>7. CASE CloseUnconnected
    BY <1>7 DEF CloseUnconnected, CallClose
<1>8. CASE FetchFd
    BY <1>8 DEF FetchFd, CallClose
<1>9. CASE LogConnect
    BY <1>9 DEF LogConnect, CallClose
<1>10. CASE StatusConnected
    BY <1>10 DEF StatusConnected, SetStatus, CallClose
<1>11. CASE CopyCredentials
    BY <1>11 DEF CopyCredentials, SetStatus, CallClose
<1>12. CASE ShutHeld
    BY <1>12 DEF ShutHeld, SetStatus, CallClose
<1>13. CASE LoginFails
    BY <1>13 DEF LoginFails, SetStatus, CallClose
<1>14. CASE TellFailure
    BY <1>14 DEF TellFailure, SetStatus, CallClose
<1>15. CASE TellTimeout
    BY <1>15 DEF TellTimeout, SetStatus, CallClose
<1>16. CASE TimerFires
    BY <1>16 DEF TimerFires, SetStatus, CallClose
<1>17. CASE Begins
    BY <1>17 DEF Begins, BeginRun
<1>18. CASE Whole("loop", OnHandleAuthRsp)
    BY <1>18 DEF Whole, OnHandleAuthRsp
<1>19. CASE Whole("loop", Answer)
    BY <1>19 DEF Whole, Answer
<1>20. CASE Whole("loop", AbortMessage)
    BY <1>20 DEF Whole, AbortMessage
<1>21. ASSUME NEW t \in Threads, TestHandle(t) PROVE UNCHANGED ownVars
    BY <1>21 DEF TestHandle, SetStatus, CallClose
<1>22. ASSUME NEW t \in Threads, CloseReturns(t) PROVE UNCHANGED ownVars
    BY <1>22 DEF CloseReturns, SetStatus, CallClose
<1>23. ASSUME NEW t \in Threads, LogoutStatus(t) PROVE UNCHANGED ownVars
    BY <1>23 DEF LogoutStatus, SetStatus, CallClose
<1>24. ASSUME NEW t \in Threads, LogoutTest(t) PROVE UNCHANGED ownVars
    BY <1>24 DEF LogoutTest, SetStatus, CallClose
<1>25. ASSUME NEW t \in Threads, LogoutUse(t) PROVE UNCHANGED ownVars
    BY <1>25 DEF LogoutUse, SetStatus, CallClose
<1>26. ASSUME NEW t \in Threads, SendAssert(t) PROVE UNCHANGED ownVars
    BY <1>26 DEF SendAssert, SetStatus, CallClose
<1>27. ASSUME NEW t \in Threads, SendPut(t) PROVE UNCHANGED ownVars
    BY <1>27 DEF SendPut, SetStatus, CallClose
<1>28. ASSUME NEW t \in Threads, Fall(t) PROVE UNCHANGED ownVars
    BY <1>28 DEF Fall, SetStatus, CallClose
<1>29. ASSUME NEW t \in Threads, Whole(t, SendCheck(t)) PROVE UNCHANGED ownVars
    BY <1>29 DEF Whole, SendCheck
<1>30. ASSUME NEW c \in Conns, Whole("loop", TornRead(c)) PROVE UNCHANGED ownVars
    BY <1>30 DEF Whole, TornRead
<1>31. ASSUME NEW c \in Conns, Outside(c) PROVE UNCHANGED ownVars
    BY <1>31 DEF Outside, Network, Establish, Refuse, Lose, NetStep, ServerReply
<1>32. QED BY ThreadsCases, <1>1, <1>2, <1>3, <1>4, <1>5, <1>6, <1>7, <1>8, <1>9, <1>10,
       <1>11, <1>12, <1>13, <1>14, <1>15, <1>16, <1>17, <1>18, <1>19, <1>20, <1>21,
       <1>22, <1>23, <1>24, <1>25, <1>26, <1>27, <1>28, <1>29, <1>30, <1>31 DEF LoginStep

\* One entry less in the registry.
LEMMA EraseOne ==
    ASSUME NEW map \in [Fds -> Conns \cup {NoConn}], NEW f
    PROVE  /\ Erase(map, {f}) \in [Fds -> Conns \cup {NoConn}]
           /\ Range(Erase(map, {f})) \subseteq Range(map) \cup {NoConn}
           /\ \A c \in Range(map) : c \in Range(Erase(map, {f})) \/ c = map[f]
    BY DEF Erase, Range

\* A thread drops a reference, and with it at most one object.
LEMMA DropOne ==
    ASSUME Owned, NEW t \in Threads, NEW map \in [Fds -> Conns \cup {NoConn}], NEW lost,
           \A c \in alive : c \in Holders' \/ c \in Range(map) \/ c = lost,
           Holders' \cup Range(map) \subseteq alive \cup {NoConn},
           stage[t] # "handle", Unrefer(t, map, Holders'),
           g_conn_map' = map, UNCHANGED <<tcp_handle_, uv, kfd>>
    PROVE  Owned'
<1> DEFINE orphans == Orphans(map, Holders')
<1>1. CASE orphans = {}
    <2>1. UNCHANGED <<alive, dying, stage>>
        BY <1>1 DEF Unrefer, deathVars
    <2>2. \A c \in alive : c \in Holders' \/ c \in Range(map)
        BY <1>1 DEF Orphans
    <2>3. Objects'
        BY <2>1 DEF Owned, Objects
    <2>4. SocketOwned'
        BY <2>1, <2>2 DEF Owned, SocketOwned
    <2>5. QED BY <2>3, <2>4 DEF Owned
<1>2. CASE orphans # {}
    <2>1. PICK c \in orphans : /\ alive' = alive \ {c}
                               /\ dying' = [dying EXCEPT ![t] = c]
                               /\ stage' = [stage EXCEPT ![t] = "handle"]
        BY <1>2 DEF Unrefer
    <2>2. c \in alive /\ c \notin Holders' /\ c \notin Range(map) /\ c = lost
        BY DEF Orphans
    <2>3. c \in Conns /\ c # NoConn
        BY <2>2 DEF Owned, Objects, Conns, NoConn
    <2>4. Objects'
        BY <2>1, <2>3 DEF Owned, Objects
    <2>5. \A d \in alive' : d \in Holders' \/ d \in Range(map)
        BY <2>1, <2>2
    <2>6. Holders' \cup Range(map) \subseteq alive' \cup {NoConn}
        BY <2>1, <2>2
    <2>7. \A d \in Conns : uv[d] \in UvLive =>
              tcp_handle_[d] /\ (d \in alive' \/ \E u \in Threads : dying'[u] = d /\ stage'[u] = "handle")
        <3>1. dying'[t] = c /\ stage'[t] = "handle"
            BY <2>1 DEF Owned, Objects
        <3>2. \A u \in Threads : stage[u] = "handle" => dying'[u] = dying[u] /\ stage'[u] = "handle"
            BY <2>1 DEF Owned, Objects
        <3>3. QED BY <2>1, <3>1, <3>2 DEF Owned, SocketOwned
    <2>8. QED BY <2>4, <2>5, <2>6, <2>7 DEF Owned, SocketOwned
<1>3. QED BY <1>1, <1>2

\* A handle that was closed stays closed; one that was never initialised is, by
\* the connect() of its own login only.
LEMMA HandleMoves ==
    ASSUME SafeInv, ThreadsNext, NEW c \in Conns
    PROVE  /\ uv[c] \in {"closed", "cancelling"} => uv'[c] \in {"closed", "cancelling"}
           /\ uv[c] = "none" => uv'[c] = "none" \/ (InitHandle /\ c = self)
<1> USE DEF SafeInv, Owned, Objects, UvLive
<1>1. CASE UNCHANGED ownVars
    BY <1>1 DEF ownVars
<1>2. CASE MakeClient
    BY <1>2 DEF MakeClient, Construct, tcpVars
<1>3. CASE AllocHandle
    BY <1>3 DEF AllocHandle
<1>4. CASE InitHandle
    <2>1. pc["app"] = "init" /\ uv' = [uv EXCEPT ![self] = "init"]
        BY <1>4, GoesFacts DEF InitHandle, Threads
    <2>2. self \in Conns /\ Yet(self)
        BY <2>1 DEF Flow, Calling, Yet, BeforeInit
    <2>3. uv[self] = "none"
        BY <2>2 DEF Unused
    <2>4. QED BY <1>4, <2>1, <2>3
<1>5. CASE RequestConnect
    <2>1. uv[self] = "init"
        BY <1>5, GoesFacts DEF RequestConnect, Threads
    <2>2. QED BY <1>5, <2>1 DEF RequestConnect
<1>6. CASE EnterMap
    BY <1>6 DEF EnterMap
<1>7. CASE CallbackReturns
    BY <1>7 DEF CallbackReturns
<1>8. CASE Whole("loop", Find)
    BY <1>8 DEF Whole, Find, tcpVars
<1>9. CASE Whole("loop", ReadStart)
    BY <1>9 DEF Whole, ReadStart, UvStep, FilenoOk
<1>10. ASSUME NEW t \in Threads, CloseHandle(t)
       PROVE  /\ uv[c] \in {"closed", "cancelling"} => uv'[c] \in {"closed", "cancelling"}
              /\ uv[c] = "none" => uv'[c] = "none"
    <2>1. uv[obj[t]] \in UvLive \cup {"init"}
        BY <1>10, GoesFacts DEF CloseHandle
    <2>2. QED BY <1>10, <2>1 DEF CloseHandle, HangUp, UvClose
<1>11. ASSUME NEW t \in Threads, UnsetHandle(t) PROVE uv' = uv
    BY <1>11 DEF UnsetHandle
<1>12. ASSUME NEW t \in Threads, EraseEntry(t) PROVE uv' = uv
    BY <1>12 DEF EraseEntry
<1>13. ASSUME NEW t \in Threads, DestroyHandle(t)
       PROVE  /\ uv[c] \in {"closed", "cancelling"} => uv'[c] \in {"closed", "cancelling"}
              /\ uv[c] = "none" => uv'[c] = "none"
    <2>1. stage[t] = "handle" /\ "closing_handle" \notin Undone(t)
        BY <1>13 DEF DestroyHandle
    <2>2. tcp_handle_[dying[t]] => uv[dying[t]] \in UvLive \cup {"init"}
        BY <2>1 DEF Undone, CannotClose, ThreadFaults
    <2>3. QED BY <1>13, <2>2 DEF DestroyHandle, HangUp, UvClose
<1>14. ASSUME NEW t \in Threads, DestroyEntry(t) PROVE uv' = uv
    BY <1>14 DEF DestroyEntry
<1>15. ASSUME NEW t \in Threads, LogoutForget(t) PROVE uv' = uv
    BY <1>15 DEF LogoutForget
<1>16. ASSUME NEW d \in Conns,
              \/ Whole("loop", PickConnectOk(d)) \/ Whole("loop", PickRefused(d))
              \/ Whole("loop", PickCancelled(d)) \/ Whole("loop", PickRead(d))
              \/ Whole("loop", PickEof(d))
       PROVE  /\ uv[c] \in {"closed", "cancelling"} => uv'[c] \in {"closed", "cancelling"}
              /\ uv[c] = "none" => uv'[c] = "none"
    BY <1>16 DEF Whole, PickConnectOk, PickRefused, PickCancelled, PickRead, PickEof,
                 Dispatch, UvStep
<1>17. QED BY Movers, <1>1, <1>2, <1>3, <1>4, <1>5, <1>6, <1>7, <1>8, <1>9, <1>10, <1>11,
       <1>12, <1>13, <1>14, <1>15, <1>16

\* Every step keeps the two claims about handles.
LEMMA HandlesStep ==
    ASSUME SafeInv, ThreadsNext
    PROVE  Unsets' /\ Unused'
<1>1. Unsets'
    <2> SUFFICES ASSUME NEW t \in Threads, pc'[t] = "unset"
                 PROVE  obj'[t] \in Conns /\ uv'[obj'[t]] \in {"closed", "cancelling"}
        BY DEF Unsets
    <2>1. CASE pc[t] = "unset" /\ obj'[t] = obj[t]
        <3>1. obj[t] \in Conns /\ uv[obj[t]] \in {"closed", "cancelling"}
            BY <2>1 DEF SafeInv, Unsets
        <3>2. QED BY <2>1, <3>1, HandleMoves
    <2>2. CASE CloseHandle(t)
        <3>1. obj[t] \in Conns
            BY <2>2, GoesFacts DEF CloseHandle, ClosePc, SafeInv, Owned, Objects
        <3>2. obj' = obj /\ uv'[obj[t]] = UvClose(obj[t])
            BY <2>2, <3>1 DEF CloseHandle, HangUp, extraVars, SafeInv, Owned, Objects
        <3>3. QED BY <3>1, <3>2 DEF UvClose
    <2>3. QED BY <2>1, <2>2, FlowStep DEF SafeInv, Unsetting
<1>2. Unused'
    <2> SUFFICES ASSUME NEW c \in Conns, Yet(c)' PROVE uv'[c] = "none"
        BY DEF Unused
    <2>1. Yet(c) /\ uv[c] = "none"
        BY NoneAgainStep DEF NoneAgain, SafeInv, Unused
    <2>2. CASE InitHandle /\ c = self
        <3>1. c = logins /\ logins' = logins /\ pc'["app"] = "request"
            BY <2>2, GoesFacts DEF InitHandle, Goes, At, Goto, appVars, Threads, SafeInv, Flow,
                                   Places, Calling
        <3>2. c \in Nat /\ ~(c > logins')
            BY <3>1 DEF Conns
        <3>3. ~BeforeInit'
            BY <3>1 DEF BeforeInit, Returning, LogoutPc, SendPc, ClosePc
        <3>4. QED BY <3>1, <3>2, <3>3 DEF Yet
    <2>3. QED BY <2>1, <2>2, HandleMoves
<1>3. QED BY <1>1, <1>2

\* The registry and the references to TcpClients, step by step.
LEMMA LoginOwned ==
    ASSUME SafeInv, MakeClient \/ AllocHandle \/ InitHandle \/ RequestConnect
    PROVE  Owned'
<1> USE DEF SafeInv, Owned, Objects, SocketOwned, UvLive, Holders
<1>1. CASE MakeClient
    <2>1. tcp_client_ = NoConn /\ logins \in Conns /\ logins # NoConn
        BY <1>1, GoesFacts DEF MakeClient, Threads, Flow, Calling, BeforeInit, Conns, NoConn
    <2>2. /\ alive' = alive \cup {logins} /\ tcp_client_' = logins
          /\ UNCHANGED <<tcp_handle_, g_conn_map, uv, kfd, held, dying, stage>>
        BY <1>1, <2>1 DEF MakeClient, Construct, frame, extraVars
    <2>3. NoConn \notin alive
        BY DEF Conns, NoConn
    <2>4. Objects'
        BY <2>1, <2>2
    <2>5. \A c \in alive' : c \in Holders' \/ c \in Range(g_conn_map')
        BY <2>1, <2>2, <2>3
    <2>6. QED BY <2>1, <2>2, <2>4, <2>5
<1>2. CASE AllocHandle
    <2>1. self \in alive
        BY <1>2, GoesFacts DEF AllocHandle, Threads
    <2>2. /\ tcp_handle_' = [tcp_handle_ EXCEPT ![self] = TRUE]
          /\ UNCHANGED <<g_conn_map, alive, uv, kfd, tcp_client_, held, dying, stage>>
        BY <1>2 DEF AllocHandle, clientVars, frame, extraVars
    <2>3. QED BY <2>1, <2>2
<1>3. CASE InitHandle
    <2>1. self \in alive
        BY <1>3, GoesFacts DEF InitHandle, Threads
    <2>2. /\ uv' = [uv EXCEPT ![self] = "init"]
          /\ UNCHANGED <<tcp_handle_, g_conn_map, alive, kfd, tcp_client_, held, dying, stage>>
        BY <1>3 DEF InitHandle, clientVars, frame, extraVars
    <2>3. Objects'
        BY <2>1, <2>2 DEF Uv
    <2>4. QED BY <2>2, <2>3
<1>4. CASE RequestConnect
    <2>1. self \in alive /\ tcp_handle_[self]
        BY <1>4, GoesFacts DEF RequestConnect, Threads
    <2>2. UNCHANGED <<tcp_handle_, g_conn_map, alive, tcp_client_, held, dying, stage>>
        BY <1>4 DEF RequestConnect, clientVars, frame, extraVars
    <2>3. CASE UNCHANGED <<uv, kfd>>
        BY <2>2, <2>3
    <2>4. ASSUME NEW f \in FreeFds, kfd' = [kfd EXCEPT ![self] = f],
                 uv' = [uv EXCEPT ![self] = "connecting"]
          PROVE  Owned'
        <3>1. Objects'
            BY <2>1, <2>2, <2>4 DEF FreeFds, Uv
        <3>2. QED BY <2>1, <2>2, <2>4, <3>1
    <2>5. QED BY <1>4, <2>3, <2>4 DEF RequestConnect
<1>5. QED BY <1>1, <1>2, <1>3, <1>4

LEMMA CallbackOwned ==
    ASSUME SafeInv, Whole("loop", Find) \/ Whole("loop", ReadStart) \/ CallbackReturns
    PROVE  Owned'
<1>1. CASE Whole("loop", Find)
    <2>1. At("loop", "find") /\ held' = Found(handle)
        BY <1>1 DEF Whole, Find
    <2>2. "assert_fileno" \notin Broken("loop") /\ pc["loop"] = "find"
        BY <2>1 DEF At
    <2>3. FilenoOk(handle)
        BY <2>2 DEF Broken, Faults
    <2>4. handle \in Conns /\ held = NoConn
        BY <2>2 DEF SafeInv, Flow, Calling2
    <2>5. held' \in Range(g_conn_map)
        BY <2>1, <2>4 DEF Found, Range, SafeInv, Owned, Objects
    <2>6. UNCHANGED <<tcp_handle_, g_conn_map, alive, uv, kfd, tcp_client_, dying, stage>>
        BY <1>1 DEF Whole, Find, tcpVars, clientVars, extraVars
    <2>7. NoConn \notin alive
        BY DEF SafeInv, Owned, Objects, Conns, NoConn
    <2>8. QED BY <2>4, <2>5, <2>6, <2>7 DEF SafeInv, Owned, Objects, SocketOwned, Holders
<1>2. CASE Whole("loop", ReadStart)
    <2>1. uv' = [uv EXCEPT ![handle] = IF FilenoOk(handle) THEN "reading" ELSE uv[handle]]
        BY <1>2 DEF Whole, ReadStart, UvStep
    <2>2. UNCHANGED <<tcp_handle_, g_conn_map, alive, kfd, tcp_client_, held, dying, stage>>
        BY <1>2 DEF Whole, ReadStart, UvStep, clientVars, frame, extraVars
    <2>3. uv' \in [Conns -> Uv] /\ \A c \in Conns : uv'[c] \in UvLive <=> uv[c] \in UvLive
        BY <2>1 DEF FilenoOk, UvLive, Uv, SafeInv, Owned, Objects
    <2>4. QED BY <2>2, <2>3 DEF SafeInv, Owned, Objects, SocketOwned, Holders
<1>3. CASE CallbackReturns
    <2>1. Goes("loop", "done") /\ dying["loop"] = NoConn
        BY <1>3 DEF CallbackReturns, Goes
    <2>2. stage["loop"] # "handle"
        BY <2>1 DEF SafeInv, Owned, Objects, Threads
    <2>3. /\ held' = NoConn
          /\ UNCHANGED <<tcp_handle_, g_conn_map, uv, kfd, tcp_client_>>
          /\ Unrefer("loop", g_conn_map, {tcp_client_})
        BY <1>3 DEF CallbackReturns, clientVars
    <2>4. NoConn \notin alive
        BY DEF SafeInv, Owned, Objects, Conns, NoConn
    <2>5. Orphans(g_conn_map, {tcp_client_}) = Orphans(g_conn_map, Holders')
        BY <2>3, <2>4 DEF Orphans, Holders
    <2>6. Unrefer("loop", g_conn_map, Holders')
        BY <2>3, <2>5 DEF Unrefer
    <2>7. \A c \in alive : c \in Holders' \/ c \in Range(g_conn_map) \/ c = held
        BY <2>3 DEF Holders, SafeInv, Owned, SocketOwned
    <2>8. Holders' \cup Range(g_conn_map) \subseteq alive \cup {NoConn}
        BY <2>3 DEF Holders, SafeInv, Owned, SocketOwned
    <2>9. QED BY <2>2, <2>3, <2>6, <2>7, <2>8, DropOne DEF SafeInv, Owned, Objects, Threads
<1>4. QED BY <1>1, <1>2, <1>3

LEMMA RegistryOwned ==
    ASSUME SafeInv, NEW t \in Threads, EraseEntry(t) \/ LogoutForget(t) \/ EnterMap
    PROVE  Owned'
<1>1. CASE EraseEntry(t)
    <2>1. Goes(t, "erase") /\ dying[t] = NoConn
        BY <1>1 DEF EraseEntry, Goes
    <2>2. stage[t] # "handle"
        BY <2>1 DEF SafeInv, Owned, Objects
    <2> DEFINE map == Erase(g_conn_map, {sock_fd_[obj[t]]})
    <2>3. /\ g_conn_map' = map /\ Unrefer(t, map, Holders)
          /\ UNCHANGED <<tcp_handle_, uv, kfd, tcp_client_, held>>
        BY <1>1 DEF EraseEntry, clientVars, frame
    <2>4. Holders' = Holders
        BY <2>3 DEF Holders
    <2>5. /\ map \in [Fds -> Conns \cup {NoConn}]
          /\ Range(map) \subseteq Range(g_conn_map) \cup {NoConn}
          /\ \A c \in Range(g_conn_map) : c \in Range(map) \/ c = g_conn_map[sock_fd_[obj[t]]]
        BY EraseOne DEF SafeInv, Owned, Objects
    <2>6. /\ \A c \in alive : c \in Holders' \/ c \in Range(map)
                              \/ c = g_conn_map[sock_fd_[obj[t]]]
          /\ Holders' \cup Range(map) \subseteq alive \cup {NoConn}
        BY <2>4, <2>5 DEF SafeInv, Owned, SocketOwned
    <2>7. Unrefer(t, map, Holders')
        BY <2>3, <2>4
    <2> HIDE DEF map
    <2>8. Owned
        BY DEF SafeInv
    <2>9. QED BY <2>2, <2>3, <2>5, <2>6, <2>7, <2>8, DropOne
<1>2. CASE LogoutForget(t)
    <2>1. Goes(t, "sleep") /\ dying[t] = NoConn
        BY <1>2 DEF LogoutForget, Goes
    <2>2. stage[t] # "handle"
        BY <2>1 DEF SafeInv, Owned, Objects
    <2>3. /\ tcp_client_' = NoConn
          /\ UNCHANGED <<tcp_handle_, g_conn_map, uv, kfd, held>>
          /\ Unrefer(t, g_conn_map, {held})
        BY <1>2 DEF LogoutForget, frame
    <2>4. NoConn \notin alive
        BY DEF SafeInv, Owned, Objects, Conns, NoConn
    <2>5. Orphans(g_conn_map, {held}) = Orphans(g_conn_map, Holders')
        BY <2>3, <2>4 DEF Orphans, Holders
    <2>6. Unrefer(t, g_conn_map, Holders')
        BY <2>3, <2>5 DEF Unrefer
    <2>7. \A c \in alive : c \in Holders' \/ c \in Range(g_conn_map) \/ c = tcp_client_
        BY <2>3 DEF Holders, SafeInv, Owned, SocketOwned
    <2>8. Holders' \cup Range(g_conn_map) \subseteq alive \cup {NoConn}
        BY <2>3 DEF Holders, SafeInv, Owned, SocketOwned
    <2>9. QED BY <2>2, <2>3, <2>6, <2>7, <2>8, DropOne DEF SafeInv, Owned, Objects
<1>3. CASE EnterMap
    <2>1. Goes("app", "enter") /\ dying["app"] = NoConn /\ "app" \in Threads
        BY <1>3 DEF EnterMap, Goes, Threads
    <2>2. stage["app"] # "handle" /\ self \in alive
        BY <2>1, GoesFacts DEF SafeInv, Owned, Objects
    <2> DEFINE map == [g_conn_map EXCEPT ![sock_fd_[self]] = self]
    <2>3. /\ g_conn_map' = map /\ Unrefer("app", map, Holders)
          /\ UNCHANGED <<tcp_handle_, uv, kfd, tcp_client_, held>>
        BY <1>3 DEF EnterMap, clientVars, frame
    <2>4. Holders' = Holders
        BY <2>3 DEF Holders
    <2>5. /\ map \in [Fds -> Conns \cup {NoConn}]
          /\ Range(map) \subseteq Range(g_conn_map) \cup {self}
          /\ \A c \in Range(g_conn_map) : c \in Range(map) \/ c = g_conn_map[sock_fd_[self]]
        BY <2>2 DEF Range, SafeInv, Owned, Objects
    <2>6. /\ \A c \in alive : c \in Holders' \/ c \in Range(map)
                              \/ c = g_conn_map[sock_fd_[self]]
          /\ Holders' \cup Range(map) \subseteq alive \cup {NoConn}
        BY <2>2, <2>4, <2>5 DEF SafeInv, Owned, SocketOwned
    <2>7. Unrefer("app", map, Holders')
        BY <2>3, <2>4
    <2> HIDE DEF map
    <2>8. Owned
        BY DEF SafeInv
    <2>9. QED BY <2>1, <2>2, <2>3, <2>5, <2>6, <2>7, <2>8, DropOne
<1>4. QED BY <1>1, <1>2, <1>3

LEMMA CloseOwned ==
    ASSUME SafeInv, NEW t \in Threads, CloseHandle(t) \/ UnsetHandle(t)
    PROVE  Owned'
<1> USE DEF SafeInv, Owned, Objects, SocketOwned, UvLive, Holders
<1>1. CASE CloseHandle(t)
    <2>1. obj[t] \in alive
        BY <1>1, GoesFacts DEF CloseHandle, ClosePc
    <2>2. /\ uv' = [uv EXCEPT ![obj[t]] = UvClose(obj[t])] /\ kfd' = [kfd EXCEPT ![obj[t]] = 0]
          /\ UNCHANGED <<tcp_handle_, g_conn_map, alive, tcp_client_, held, dying, stage>>
        BY <1>1 DEF CloseHandle, HangUp, clientVars, frame, extraVars
    <2>3. uv'[obj[t]] \in {"closed", "cancelling"} /\ Objects'
        BY <2>1, <2>2, ThreadsAssumption DEF UvClose, Uv
    <2>4. QED BY <2>1, <2>2, <2>3
<1>2. CASE UnsetHandle(t)
    <2>1. pc[t] = "unset"
        BY <1>2, GoesFacts DEF UnsetHandle
    <2>2. obj[t] \in Conns /\ uv[obj[t]] \in {"closed", "cancelling"}
        BY <2>1 DEF Unsets
    <2>3. /\ tcp_handle_' = [tcp_handle_ EXCEPT ![obj[t]] = FALSE]
          /\ UNCHANGED <<g_conn_map, alive, uv, kfd, tcp_client_, held, dying, stage>>
        BY <1>2 DEF UnsetHandle, clientVars, frame, extraVars
    <2>4. QED BY <2>2, <2>3
<1>3. QED BY <1>1, <1>2

LEMMA DestroyOwned ==
    ASSUME SafeInv, NEW t \in Threads, DestroyHandle(t) \/ DestroyEntry(t)
    PROVE  Owned'
<1>1. CASE DestroyHandle(t)
    <2> DEFINE c == dying[t]
    <2>1. stage[t] = "handle" /\ c \in Conns
        BY <1>1 DEF DestroyHandle, SafeInv, Owned, Objects
    <2>2. /\ stage' = [stage EXCEPT ![t] = "erase"]
          /\ UNCHANGED <<g_conn_map, alive, tcp_client_, held, dying>>
        BY <1>1 DEF DestroyHandle, clientVars, ctlVars, frame
    <2>3. /\ Objects'
          /\ \A d \in Conns : uv'[d] \in UvLive => d # c /\ uv[d] \in UvLive
                                                   /\ tcp_handle_'[d] = tcp_handle_[d]
        <3>1. CASE tcp_handle_[c]
            <4>1. /\ uv' = [uv EXCEPT ![c] = UvClose(c)] /\ kfd' = [kfd EXCEPT ![c] = 0]
                  /\ tcp_handle_' = [tcp_handle_ EXCEPT ![c] = FALSE]
                BY <1>1, <3>1 DEF DestroyHandle, HangUp
            <4>2. uv'[c] \notin UvLive /\ UvClose(c) \in Uv
                BY <2>1, <4>1 DEF UvClose, UvLive, Uv, SafeInv, Owned, Objects
            <4>3. QED BY <2>1, <2>2, <4>1, <4>2, ThreadsAssumption
                      DEF SafeInv, Owned, Objects
        <3>2. CASE ~tcp_handle_[c]
            <4>1. UNCHANGED <<uv, kfd, tcp_handle_>>
                BY <1>1, <3>2 DEF DestroyHandle
            <4>2. uv[c] \notin UvLive
                BY <2>1, <3>2 DEF SafeInv, Owned, SocketOwned
            <4>3. QED BY <2>1, <2>2, <4>1, <4>2 DEF SafeInv, Owned, Objects
        <3>3. QED BY <3>1, <3>2
    <2>4. \A d \in Conns : uv'[d] \in UvLive =>
              /\ tcp_handle_'[d]
              /\ d \in alive' \/ \E u \in Threads : dying'[u] = d /\ stage'[u] = "handle"
        <3> SUFFICES ASSUME NEW d \in Conns, uv'[d] \in UvLive
                     PROVE  /\ tcp_handle_'[d]
                            /\ \/ d \in alive'
                               \/ \E u \in Threads : dying'[u] = d /\ stage'[u] = "handle"
            OBVIOUS
        <3>1. d # c /\ uv[d] \in UvLive /\ tcp_handle_'[d] = tcp_handle_[d]
            BY <2>3
        <3>2. /\ tcp_handle_[d]
              /\ d \in alive \/ \E u \in Threads : dying[u] = d /\ stage[u] = "handle"
            BY <3>1 DEF SafeInv, Owned, SocketOwned
        <3>3. ASSUME NEW u \in Threads, dying[u] = d, stage[u] = "handle"
              PROVE  dying'[u] = d /\ stage'[u] = "handle"
            BY <2>2, <3>1, <3>3 DEF SafeInv, Owned, Objects
        <3>4. QED BY <2>2, <3>1, <3>2, <3>3
    <2>5. QED BY <2>2, <2>3, <2>4 DEF SafeInv, Owned, SocketOwned, Holders
<1>2. CASE DestroyEntry(t)
    <2> DEFINE map == Erase(g_conn_map, {sock_fd_[dying[t]]})
    <2>1. stage[t] = "erase"
        BY <1>2 DEF DestroyEntry
    <2>2. /\ g_conn_map' = map
          /\ UNCHANGED <<tcp_handle_, uv, kfd, tcp_client_, held>>
        BY <1>2 DEF DestroyEntry, clientVars, ctlVars, frame
    <2>3. Holders' = Holders
        BY <2>2 DEF Holders
    <2>4. /\ map \in [Fds -> Conns \cup {NoConn}]
          /\ Range(map) \subseteq Range(g_conn_map) \cup {NoConn}
          /\ \A c \in Range(g_conn_map) : c \in Range(map) \/ c = g_conn_map[sock_fd_[dying[t]]]
        BY EraseOne DEF SafeInv, Owned, Objects
    <2>5. /\ \A c \in alive : c \in Holders' \/ c \in Range(map)
                              \/ c = g_conn_map[sock_fd_[dying[t]]]
          /\ Holders' \cup Range(map) \subseteq alive \cup {NoConn}
        BY <2>3, <2>4 DEF SafeInv, Owned, SocketOwned
    <2>6. CASE Orphans(map, Holders) = {}
        <3>1. /\ dying' = [dying EXCEPT ![t] = NoConn] /\ stage' = [stage EXCEPT ![t] = "none"]
              /\ alive' = alive
            BY <1>2, <2>2, <2>6 DEF DestroyEntry
        <3>2. \A c \in alive : c \in Holders \/ c \in Range(map)
            BY <2>6 DEF Orphans
        <3>3. Objects'
            BY <2>2, <2>4, <3>1 DEF SafeInv, Owned, Objects
        <3>4. \A u \in Threads : stage[u] = "handle" =>
                  dying'[u] = dying[u] /\ stage'[u] = "handle"
            BY <2>1, <3>1 DEF SafeInv, Owned, Objects
        <3> HIDE DEF map
        <3>5. QED BY <2>2, <2>3, <2>5, <3>1, <3>2, <3>3, <3>4 DEF SafeInv, Owned, SocketOwned
    <2>7. CASE Orphans(map, Holders) # {}
        <3>1. Unrefer(t, map, Holders')
            BY <1>2, <2>2, <2>3, <2>7 DEF DestroyEntry
        <3>2. Owned /\ stage[t] # "handle"
            BY <2>1 DEF SafeInv
        <3> HIDE DEF map
        <3>3. QED BY <2>2, <2>4, <2>5, <3>1, <3>2, DropOne
    <2>8. QED BY <2>6, <2>7
<1>3. QED BY <1>1, <1>2

LEMMA PickOwned ==
    ASSUME SafeInv, NEW c \in Conns,
           \/ Whole("loop", PickConnectOk(c)) \/ Whole("loop", PickRefused(c))
           \/ Whole("loop", PickCancelled(c)) \/ Whole("loop", PickRead(c))
           \/ Whole("loop", PickEof(c))
    PROVE  Owned'
<1>1. UNCHANGED <<tcp_handle_, g_conn_map, alive, kfd, tcp_client_, held, dying, stage>>
    BY DEF Whole, PickConnectOk, PickRefused, PickCancelled, PickRead, PickEof, Dispatch,
           UvStep, clientVars, extraVars
<1>2. PICK s \in Uv : uv' = [uv EXCEPT ![c] = s] /\ (s \in UvLive => uv[c] \in UvLive)
    BY DEF Whole, PickConnectOk, PickRefused, PickCancelled, PickRead, PickEof, Dispatch,
           UvStep, UvLive, Uv
<1>3. uv' \in [Conns -> Uv] /\ \A d \in Conns : uv'[d] \in UvLive => uv[d] \in UvLive
    BY <1>2 DEF SafeInv, Owned, Objects
<1>4. QED BY <1>1, <1>3 DEF SafeInv, Owned, Objects, SocketOwned, Holders

LEMMA OwnedStep ==
    ASSUME SafeInv, ThreadsNext
    PROVE  Owned'
<1>1. CASE UNCHANGED ownVars
    BY <1>1 DEF ownVars, SafeInv, Owned, Objects, SocketOwned, Holders
<1>2. "app" \in Threads
    BY DEF Threads
<1>3. QED BY <1>1, <1>2, Movers, LoginOwned, CallbackOwned, RegistryOwned, CloseOwned,
             DestroyOwned, PickOwned

LEMMA InitSafe == ASSUME ThreadsInit PROVE SafeInv
<1> USE DEF ThreadsInit, ClientInit, TcpInit
<1>1. Flow
    BY DEF Flow, Places, Calling, Calling2, BeforeInit, Returning, Threads, ClosePc, LogoutPc,
           SendPc, SharedPc, LoginPc, CallbackPc
<1>2. Objects
    BY ThreadsAssumption DEF Objects, Uv, Conns, NoConn, Threads
<1>3. SocketOwned
    BY DEF SocketOwned, UvLive, Holders, Range, NoConn
<1>4. Unsets /\ Unused
    BY DEF Unsets, Unused, Threads
<1>5. QED BY <1>1, <1>2, <1>3, <1>4 DEF SafeInv, Owned

LEMMA SafeStep == ASSUME SafeInv, [ThreadsNext]_threadVars PROVE SafeInv'
<1>1. CASE ThreadsNext
    BY <1>1, FlowStep, OwnedStep, HandlesStep DEF SafeInv
<1>2. CASE UNCHANGED threadVars
    <2>1. UNCHANGED ownVars /\ UNCHANGED <<pc, ret, after, logins, self, handle, obj>>
        BY <1>2 DEF threadVars, vars, ownVars, tcpVars, clientVars, appVars, ctlVars, frame,
                    extraVars
    <2>2. Flow'
        BY <2>1 DEF ownVars, SafeInv, Flow, Places, Calling, Calling2, BeforeInit, Returning
    <2>3. Owned'
        BY <2>1 DEF ownVars, SafeInv, Owned, Objects, SocketOwned, Holders
    <2>4. Unsets' /\ Unused'
        BY <2>1 DEF ownVars, SafeInv, Unsets, Unused, Yet, BeforeInit, Returning
    <2>5. QED BY <2>2, <2>3, <2>4 DEF SafeInv
<1>3. QED BY <1>1, <1>2

\* However the application's thread and the loop's interleave, no socket is lost:
\* every open one belongs to a TcpClient that exists, or whose destructor is about
\* to close it (the shared_ptr's of client.cpp:68, tcp_client.cpp:83 and :199-209, and
\* ~TcpClient, tcp_client.cpp:48-52).
THEOREM SocketsAlwaysOwned == ThreadsSpec => []SocketOwned
<1>1. SafeInv => SocketOwned
    BY DEF SafeInv, Owned
<1>2. QED BY <1>1, InitSafe, SafeStep, PTL DEF ThreadsSpec
=============================================================================
