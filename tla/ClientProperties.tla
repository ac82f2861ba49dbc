------------------------- MODULE ClientProperties -------------------------
(***************************************************************************)
(* What is checked and proved of Client.                                    *)
(***************************************************************************)
EXTENDS Client

Idle == \A t \in Threads : pc[t] = "idle"

\* When calls and callbacks take turns the process dies of two assertions only: that
\* of connect, when login comes before the loop's thread has begun to run
\* (tcp_client.cpp:60), and that of onMessage, on a segment that is not one AUTH_RSP
\* as the client would encode it (client.cpp:197).  No step meets a null or a
\* dangling pointer, and no other assertion of login, logout, send and the loop's
\* callbacks fails.
NoOtherFault == fault \in {"none", "assert_loop", "assert_reset_len"}

\* findTcpClient's assertion that a callback's handle has a descriptor holds
\* (tcp_client.cpp:201).
FilenoHolds == fault # "assert_fileno"

\* Between calls nothing is left of an earlier attempt: the only TcpClient is
\* tcp_client_, every open socket is its socket and is in the registry, and a
\* client that is not logging in has no open socket (close, logout and the
\* destructor between them release everything connect took).
OneConnection ==
    Idle => /\ alive \subseteq {tcp_client_}
            /\ \A c \in Conns : uv[c] \in UvLive =>
                  c = tcp_client_ /\ g_conn_map[kfd[c]] = c /\ login_status_ # "Default"

\* What an attempt's callbacks are told is about its own connection: the server
\* has given that answer on it, or it was refused or lost.
\* No attempt is told of the connection of another one.
AnswerIsOwn ==
    \A a \in Conns :
        /\ results[a] \cap Answers \subseteq {reply[a]}
        /\ "neterr" \in results[a] => net[a] \in {"refused", "lost"}

\* When calls and callbacks take turns, no credentials reach the server on the
\* connection of another attempt, although a descriptor is used again and
\* onConnect sends what login has left in user_name_ and user_pwd_.
CredentialsOwn == \A c \in Conns : cred[c] \in {0, c}

\* While the application believes itself logged in, and nothing is running,
\* send() finds the connection that was accepted, connected and being read.
SendSafe ==
    Idle /\ LoggedIn =>
        /\ tcp_client_ = logins /\ reply[logins] = "ok"
        /\ connect_status_[tcp_client_] = "ConnectOk"
        /\ uv[tcp_client_] = "reading"

\* Every login is heard of: its callbacks are told something, unless the
\* application leaves it or the process dies (client.h:56-57).
LoginHeard ==
    \A a \in Conns :
        logins >= a ~> (results[a] # {} \/ a \in abandoned \/ fault # "none")

\* login_timeout_cb_ is for a login that has no answer: it is not called for the
\* first time on an attempt that has one (client.h:57).
TimeoutMeansNoAnswer ==
    [][\A a \in Conns : results[a] \cap Answers # {} =>
          ("timeout" \in results'[a] => "timeout" \in results[a])]_vars

-----------------------------------------------------------------------------
(* Refinement *)

\* The loop is on its way from a refusal to login_cb_: logout() has been called.
Refusing == /\ pc["loop"] \in {"close", "sleep", "answer"} /\ ret["loop"] = "answer"
            /\ event = "read" /\ reply[handle] = "rejected"

\* The loop has reported a failure and has yet to reset login_status_.
Failing == pc["loop"] = "close" /\ ret["loop"] = "done"

Session == INSTANCE LoginSession WITH
    attempt <- login_cb_,
    open    <- (login_status_ = "Logining" /\ ~Failing) \/ Refusing,
    told    <- results

\* When calls and callbacks take turns and the application is patient, what the
\* application sees of its logins is LoginSession: login, logout and the loop's
\* callbacks show it one attempt at a time, none of them speaks for an attempt that
\* is over, and none reconnects one.
ImplementsSession == Session!SessionSpec
=============================================================================
