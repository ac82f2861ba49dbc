----------------------------- MODULE TcpClient -----------------------------
(***************************************************************************)
(* cim::base::TcpClient (base/tcp_client.cpp): the TcpClient objects, the   *)
(* global registry g_conn_map that finds the object of a socket, and the    *)
(* part of libuv and of the kernel they rely on.                            *)
(*                                                                         *)
(* Client::login makes one TcpClient per call, so an object is named by the *)
(* number of the call that made it.  The objects are held by shared_ptr:    *)
(* an object dies, and its destructor closes it, with its last holder.      *)
(* The actions that run on these variables are in module Client.  close()   *)
(* and the end of connect() are whole calls here, as they are when the      *)
(* threads take turns; ClientThreads takes them apart.                      *)
(***************************************************************************)
EXTENDS Naturals, Functions

CONSTANTS
    MaxLogins,  \* bound: the number of login() calls
    Fds         \* the descriptors the kernel may give to a socket

ASSUME TcpAssumption == MaxLogins \in Nat \ {0} /\ Fds \subseteq Nat

Conns  == 1 .. MaxLogins
NoConn == 0                    \* nullptr

Status == {"Default", "Connecting", "DisConnected", "ConnectOk"}

\* The life of a uv_tcp_t.  A handle owns its descriptor in the UvLive states;
\* uv_close gives the descriptor back at once and turns a connect request that
\* is still pending into a cancelled one, whose callback is still to run.
UvLive == {"connecting", "connected", "reading"}
Uv     == {"none", "init", "cancelling", "closed"} \cup UvLive

VARIABLES
    connect_status_,  \* connect_status_ of each TcpClient
    tcp_handle_,      \* is tcp_handle_ set?
    sock_fd_,         \* sock_fd_: 0 until connect() has asked libuv for it
    g_conn_map,       \* descriptor -> TcpClient, NoConn where there is no entry
    alive,            \* the TcpClients that are constructed and not destroyed
    uv,               \* libuv: state of the handle of each TcpClient
    kfd               \* kernel: the descriptor its socket was given

tcpVars == <<connect_status_, tcp_handle_, sock_fd_, g_conn_map, alive, uv, kfd>>

TcpTypeOK ==
    /\ connect_status_ \in [Conns -> Status]
    /\ tcp_handle_ \in [Conns -> BOOLEAN]
    /\ sock_fd_ \in [Conns -> Fds \cup {0}]
    /\ g_conn_map \in [Fds -> Conns \cup {NoConn}]
    /\ alive \subseteq Conns
    /\ uv \in [Conns -> Uv]
    /\ kfd \in [Conns -> Fds \cup {0}]

\* Every field as the constructor leaves it; no object exists yet.
TcpInit ==
    /\ connect_status_ = [c \in Conns |-> "Default"]
    /\ tcp_handle_ = [c \in Conns |-> FALSE]
    /\ sock_fd_ = [c \in Conns |-> 0]
    /\ g_conn_map = [f \in Fds |-> NoConn]
    /\ alive = {}
    /\ uv = [c \in Conns |-> "none"]
    /\ kfd = [c \in Conns |-> 0]

-----------------------------------------------------------------------------
(* Helpers *)

\* The descriptors the kernel can hand out: the ones no live handle owns.
FreeFds == {f \in Fds : \A c \in Conns : uv[c] \in UvLive => kfd[c] # f}

\* uv_fileno succeeds on a handle that is not closing.
FilenoOk(c) == uv[c] \in UvLive

\* findTcpClient: the object the registry has for the descriptor of handle c.
Found(c) == g_conn_map[kfd[c]]

\* g_conn_map.erase for a set of descriptors.
Erase(map, fds) == [f \in Fds |-> IF f \in fds THEN NoConn ELSE map[f]]

\* The state uv_close leaves a handle in.
UvClose(c) == IF uv[c] = "connecting" THEN "cancelling" ELSE "closed"

\* The objects nobody holds, when the registry is map and held are the other
\* holders (Client::tcp_client_ and the locals of a running callback).
Orphans(map, held) == {c \in alive : c \notin held /\ c \notin Range(map)}

\* The registry once the destructors of the orphans of map have run: each one
\* erases its own sock_fd_, whoever the entry belongs to.
Reaped(map, held) == Erase(map, {sock_fd_[c] : c \in Orphans(map, held)})

-----------------------------------------------------------------------------
(* State changes *)

\* The registry becomes map and held are the holders that are left.  The
\* objects in closed are closed; so is every object that loses its last holder,
\* by its destructor.  An entry erased by a destructor may itself have been the
\* last holder of an object; that object's own erase then finds nothing.
Release(map, held, closed) ==
    LET reaped == Reaped(map, held)
        dead   == Orphans(map, held) \cup Orphans(reaped, held)
        gone   == closed \cup dead
    IN  /\ g_conn_map' = reaped
        /\ alive' = alive \ dead
        /\ uv' = [c \in Conns |-> IF c \in gone /\ tcp_handle_[c]
                                  THEN UvClose(c) ELSE uv[c]]
        /\ tcp_handle_' = [c \in Conns |-> tcp_handle_[c] /\ c \notin gone]
        /\ connect_status_' = [c \in Conns |-> IF c \in gone THEN "DisConnected"
                                               ELSE connect_status_[c]]
        /\ UNCHANGED <<sock_fd_, kfd>>

\* Seeded fault: close() leaves the entry in the registry.
CloseKeepsEntry(c, held) == Release(g_conn_map, held, {c})

\* TcpClient::close on object c, held being the holders of objects.  sock_fd_
\* keeps its value, and 0 is not kInvalidSocket, so the erase always happens.
Close(c, held) == Release(Erase(g_conn_map, {sock_fd_[c]}), held, {c})

\* A shared_ptr other than the registry's is dropped; held are the ones left.
DropRef(held) == Release(g_conn_map, held, {})

\* setConnectionStatus, without the callback.
SetStatus(c, s) ==
    /\ connect_status_' = [connect_status_ EXCEPT ![c] = s]
    /\ UNCHANGED <<tcp_handle_, sock_fd_, g_conn_map, alive, uv, kfd>>

\* make_shared<TcpClient>().
Construct(c) ==
    /\ alive' = alive \cup {c}
    /\ UNCHANGED <<connect_status_, tcp_handle_, sock_fd_, g_conn_map, uv, kfd>>

\* connect(), after its call of close(): uv_tcp_init and a uv_tcp_connect that
\* starts a connect request on descriptor f.
UvConnect(c, f) ==
    /\ tcp_handle_' = [tcp_handle_ EXCEPT ![c] = TRUE]
    /\ connect_status_' = [connect_status_ EXCEPT ![c] = "Connecting"]
    /\ uv' = [uv EXCEPT ![c] = "connecting"]
    /\ kfd' = [kfd EXCEPT ![c] = f]
    /\ UNCHANGED <<sock_fd_, g_conn_map, alive>>

\* The same when uv_tcp_connect fails at once (no descriptor, no route).
UvConnectFails(c) ==
    /\ tcp_handle_' = [tcp_handle_ EXCEPT ![c] = TRUE]
    /\ connect_status_' = [connect_status_ EXCEPT ![c] = "Connecting"]
    /\ uv' = [uv EXCEPT ![c] = "init"]
    /\ UNCHANGED <<sock_fd_, g_conn_map, alive, kfd>>

\* Seeded fault: the object is not registered.
RegisterNothing(c) ==
    /\ sock_fd_' = [sock_fd_ EXCEPT ![c] = kfd[c]]
    /\ UNCHANGED <<connect_status_, tcp_handle_, g_conn_map, alive, uv, kfd>>

\* connect(), last part: the descriptor is fetched and the object registered.
Register(c) ==
    /\ sock_fd_' = [sock_fd_ EXCEPT ![c] = kfd[c]]
    /\ g_conn_map' = [g_conn_map EXCEPT ![kfd[c]] = c]
    /\ UNCHANGED <<connect_status_, tcp_handle_, alive, uv, kfd>>

\* libuv moves handle c to state s.
UvStep(c, s) ==
    /\ uv' = [uv EXCEPT ![c] = s]
    /\ UNCHANGED <<connect_status_, tcp_handle_, sock_fd_, g_conn_map, alive, kfd>>

-----------------------------------------------------------------------------
\* When calls and callbacks take turns, the registry names only objects that exist,
\* with the descriptor they really have, on a handle that is open: a descriptor
\* number that the kernel gives out again never resolves to the object of an earlier
\* connection (findTcpClient on the entries that connect and close maintain).
RegistrySound ==
    \A f \in Fds : g_conn_map[f] # NoConn =>
        LET c == g_conn_map[f]
        IN  c \in alive /\ sock_fd_[c] = f /\ kfd[c] = f /\ uv[c] \in UvLive
=============================================================================
