------------------------------- MODULE ChatKit -------------------------------
(***************************************************************************)
(* The life of a program that uses the library (cim_helper.cpp): it calls  *)
(* initChatKit, logs in, calls cleanup once or, as the SIGINT handler of   *)
(* simple_client does, several times, and returns from main, upon which    *)
(* the static Client is destroyed; the detached thread of EventLoop runs   *)
(* all the while.  What login does to a connection is the subject of       *)
(* Client; here it allocates a handle on the loop.  The database, which    *)
(* initChatKit and cleanup open and close, is ConfigStore.                 *)
(***************************************************************************)
EXTENDS EventLoop

CONSTANT MaxCleanups   \* bound: calls of cleanup

ASSUME ChatKitAssumption == MaxCleanups \in Nat

VARIABLES
    app,        \* where the main thread is
    tcp,        \* tcp_client_'s handle, "none" for nullptr
    cleanups,   \* calls of cleanup so far
    rushed,     \* login has been called before the loop's thread began to run
    hasty,      \* cleanup has been called while the loop was not in uv_run
    fault       \* what the program has died of, or "none"

appVars == <<app, tcp, cleanups, rushed, hasty, fault>>
vars == <<loopVars, appVars>>

AppSteps == {"main", "getInstance", "db", "ready", "connect", "exit", "free", "gone"}
Faults == {"assert_loop", "raw_timer", "double_free", "lost_timer", "spoilt_queue",
           "dead_client"}

TypeOK ==
    /\ LoopTypeOK
    /\ app \in AppSteps
    /\ tcp \in Tcps \cup {"none"}
    /\ cleanups \in 0 .. MaxCleanups
    /\ rushed \in BOOLEAN /\ hasty \in BOOLEAN
    /\ fault \in Faults \cup {"none"}

Init ==
    /\ LoopInit
    /\ app = "main" /\ tcp = "none" /\ cleanups = 0
    /\ rushed = FALSE /\ hasty = FALSE /\ fault = "none"

Running == fault = "none" /\ app # "gone"

\* The main thread may go on at p: no cleanup has interrupted it.
At(p) == Running /\ app = p /\ stopping = "no"

------------------------------------------------------------------------------
(* initChatKit *)

StartLoop ==
    /\ At("main") /\ runInThread
    /\ app' = "getInstance"
    /\ UNCHANGED <<tcp, cleanups, rushed, hasty, fault>>

\* Client::Client registers its timer.
ConstructClient ==
    /\ At("getInstance") /\ registerTimer
    /\ app' = "db"
    /\ UNCHANGED <<tcp, cleanups, rushed, hasty, fault>>

\* The database is opened or not: no caller looks at the result.
OpenDatabase ==
    /\ At("db")
    /\ app' = "ready"
    /\ UNCHANGED <<loopVars, tcp, cleanups, rushed, hasty, fault>>

------------------------------------------------------------------------------
(* login, and the close of a connection *)

\* Seeded fault: close() is called on nullptr.
CloseTcpUnchecked ==
    /\ closing' = closing \cup {tcp}
    /\ tcp' = "none"
    /\ UNCHANGED <<loop_is_run_, default_timer, memory, queue, armed, watched,
                   stop_flag, loop>>

CloseTcp ==
    /\ closing' = closing \cup ({tcp} \ {"none"})
    /\ tcp' = "none"
    /\ UNCHANGED <<loop_is_run_, default_timer, memory, queue, armed, watched,
                   stop_flag, loop>>

Login ==
    /\ At("ready")
    /\ \E h \in Tcps : memory[h] = "none"
    /\ CloseTcp
    /\ app' = "connect"
    /\ rushed' = (rushed \/ loop = "run")
    /\ UNCHANGED <<stopping, cleanups, hasty, fault>>

Connect ==
    /\ At("connect") /\ loop_is_run_ /\ ~LinkSpoilt
    /\ \E h \in Tcps :
         /\ memory[h] = "none"
         /\ tcp' = h /\ Link(h) /\ memory' = [memory EXCEPT ![h] = "init"]
    /\ app' = "ready"
    /\ UNCHANGED <<loop_is_run_, default_timer, armed, closing, watched,
                   stop_flag, loop, stopping, cleanups, rushed, hasty, fault>>

------------------------------------------------------------------------------
(* cleanup, from main or from a signal handler that interrupts it, in login and *)
(* during exit too                                                              *)

\* Not modelled: a signal before initChatKit has constructed the Client, whose
\* handler would construct it within, or instead of, that very construction.
Cleanup ==
    /\ Running /\ stopping = "no" /\ cleanups < MaxCleanups
    /\ app \notin {"main", "getInstance"}
    /\ CloseTcp                                 \* Client::logout
    /\ stopping' = "timer"                      \* EventLoop::stop
    /\ cleanups' = cleanups + 1
    /\ hasty' = (hasty \/ loop \notin InUvRun)
    /\ UNCHANGED <<app, rushed, fault>>

Stop ==
    /\ Running
    /\ StopTimer \/ FreeTimer \/ SetStopFlag
    /\ UNCHANGED appVars

\* main returns: ~Client logs out and removes its timer, and the process is
\* gone; the loop's thread is not waited for.
Exit ==
    /\ At("ready") /\ CloseTcp /\ app' = "exit"
    /\ UNCHANGED <<stopping, cleanups, rushed, hasty, fault>>

Destroy ==
    /\ \/ At("exit") /\ removeTimer /\ app' = "free"
       \/ At("free") /\ app' = "gone" /\ UNCHANGED loopVars
    /\ UNCHANGED <<tcp, cleanups, rushed, hasty, fault>>

------------------------------------------------------------------------------
(* The loop's thread *)

\* Client's timer: the callback uses the Client, which must still exist.
ClientTimer ==
    /\ loop = "callback" /\ memory["client"] # "freed"
    /\ loop' = "watch"
    /\ UNCHANGED <<loop_is_run_, default_timer, memory, queue, armed, closing, watched, stop_flag, stopping>>

LoopStep ==
    /\ Running
    /\ \/ SetRunning \/ MallocTimer \/ (~LinkSpoilt /\ InitTimer) \/ StartTimer
       \/ Iterate \/ RunTimers \/ ClientTimer
       \/ Watch \/ Poll \/ FinishClose \/ SetStopped
    /\ UNCHANGED appVars

------------------------------------------------------------------------------
(* The step a thread is about to take kills the program. *)

Dies(f) ==
    \/ f = "assert_loop"  /\ At("connect") /\ ~loop_is_run_
    \/ f = "raw_timer"    /\ stopping = "timer" /\ default_timer /\ memory["idle"] = "raw"
    \/ f = "double_free"  /\ stopping = "timer" /\ default_timer /\ memory["idle"] = "freed"
    \/ f = "lost_timer"   /\ \/ loop \in {"init", "start"} /\ memory["idle"] = "freed"
                             \/ loop = "timers" /\ HeapSpoilt
    \/ f = "spoilt_queue" /\ \/ loop = "init" /\ LinkSpoilt
                             \/ At("getInstance") /\ LinkSpoilt
                             \/ At("connect") /\ loop_is_run_ /\ LinkSpoilt
                             \/ loop = "closing" /\ \E h \in closing : UnlinkSpoilt(h)
    \/ f = "dead_client"  /\ loop = "callback" /\ memory["client"] = "freed"

Die ==
    /\ Running
    /\ \E f \in Faults : Dies(f) /\ fault' = f
    /\ UNCHANGED <<loopVars, app, tcp, cleanups, rushed, hasty>>

Next ==
    \/ StartLoop \/ ConstructClient \/ OpenDatabase
    \/ Login \/ Connect
    \/ Cleanup \/ Stop \/ Exit \/ Destroy
    \/ LoopStep
    \/ Die

\* Each thread goes on, and a poll with a timeout returns; main is not obliged
\* to call anything once it is ready.
Fairness ==
    /\ WF_vars(LoopStep)
    /\ WF_vars(Connect) /\ WF_vars(Stop) /\ WF_vars(Destroy) /\ WF_vars(Die)

Spec == Init /\ [][Next]_vars /\ Fairness

------------------------------------------------------------------------------
(* Properties *)

\* uv_run returns only because of stop: neither the order in which the two
\* threads register their timers nor a connection that comes and goes leaves
\* the loop without work while the program lives.
RunsUntilStopped ==
    loop \in {"returned", "ended"} => cleanups > 0

\* Each way to die has its cause in the order of the calls.
FaultsExplained ==
    /\ fault = "assert_loop" => rushed \/ cleanups > 0
    /\ fault = "double_free" => cleanups > 1
    /\ fault \in {"raw_timer", "lost_timer"} => hasty
    /\ fault = "dead_client" => app \in {"free", "gone"}

\* The handle queue goes bad in two ways only: the Client's timer, which exit
\* frees while it is linked and the loop runs, no cleanup being needed; or the
\* loop's own timer, freed by a cleanup, with a neighbour that comes or goes: a
\* login after the cleanup, or the Client's timer registered before the loop's.
QueueSoundUntilStopped ==
    fault = "spoilt_queue" => \/ memory["client"] = "freed"
                              \/ cleanups > 0 /\ (app = "connect" \/ queue[1] = "client")

\* Once stop has run, the loop's thread comes to its end.
StopEnds == (cleanups > 0 /\ stopping = "no") ~> (loop = "ended" \/ ~Running)

\* A connection opened on the running loop is polled, though nothing wakes the
\* poll when it is added from another thread: the repeating timers do.
ConnectionsServed ==
    \A h \in Tcps : (memory[h] = "init") ~>
        (h \in watched \/ h \in closing \/ memory[h] # "init" \/ cleanups > 0 \/ ~Running)
==============================================================================
