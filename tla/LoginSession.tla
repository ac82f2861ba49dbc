--------------------------- MODULE LoginSession ---------------------------
(***************************************************************************)
(* What the application sees of its logins, with no socket, no thread and   *)
(* no object in it: one attempt is open at a time, only the open attempt's  *)
(* callbacks are called, it gets at most one answer from the server, and a  *)
(* refusal or a network error is the last thing it is told.                 *)
(*                                                                         *)
(* This is what client.cpp does.  client.h:53 announces more, a reconnect   *)
(* after a network error, and nothing in src/ implements it: Fail ends the  *)
(* attempt, and only the application begins another.                        *)
(***************************************************************************)
EXTENDS Naturals

CONSTANT MaxLogins

VARIABLES
    attempt,  \* the attempt the callbacks belong to, 0 before the first one
    open,     \* is it open?
    told      \* what the callbacks of each attempt have been told

sessionVars == <<attempt, open, told>>

SessionInit ==
    /\ attempt = 0
    /\ open = FALSE
    /\ told = [a \in 1 .. MaxLogins |-> {}]

\* A new attempt is opened; the one before it has been closed.
Begin ==
    /\ ~open
    /\ attempt < MaxLogins /\ attempt' = attempt + 1
    /\ open' = TRUE
    /\ UNCHANGED told

\* The open attempt is told of r.
Hear(r) ==
    /\ open
    /\ told' = [told EXCEPT ![attempt] = @ \cup {r}]
    /\ UNCHANGED attempt

\* The server accepts the open attempt, once.
Accept == Hear("ok") /\ "ok" \notin told[attempt] /\ open' = TRUE

\* The server refuses it; no other answer came before.
Refuse == Hear("rejected") /\ "ok" \notin told[attempt] /\ open' = FALSE

\* Its connection fails, before or after the answer.
Fail == Hear("neterr") /\ open' = FALSE

\* The timer finds that it has taken too long.
Expire == Hear("timeout") /\ open' = TRUE

\* The application leaves it.
Leave == open /\ open' = FALSE /\ UNCHANGED <<attempt, told>>

SessionNext == Begin \/ Accept \/ Refuse \/ Fail \/ Expire \/ Leave

SessionSpec == SessionInit /\ [][SessionNext]_sessionVars
=============================================================================
