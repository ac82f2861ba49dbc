------------------------------ MODULE EventLoop ------------------------------
(***************************************************************************)
(* cim::base::EventLoop (base/event_loop.cpp): one libuv loop, run by a    *)
(* detached thread, with a timer of its own so that uv_run does not return *)
(* for want of work.                                                       *)
(*                                                                         *)
(* Of libuv, which is external, the model keeps what the code depends on:  *)
(* the queue that links every handle of the loop, the timers that are      *)
(* armed, the handles being closed, those the poll watches, and the stop   *)
(* flag, which stays set until uv_run has seen it.  A call into libuv is   *)
(* one step; the data races inside it are not modelled.                    *)
(***************************************************************************)
EXTENDS Naturals, Sequences

CONSTANT Tcps          \* the handles connect() may allocate, one per login

Timers == {"idle", "client"}
Handles == Timers \cup Tcps

ASSUME TcpsAssumption == Tcps \cap (Timers \cup {"none"}) = {}

VARIABLES
    loop_is_run_,
    default_timer,     \* g_default_timer_ is not null
    memory,            \* per handle: "none", "raw", "init", "closed" or "freed"
    queue,             \* the loop's handle queue
    armed,             \* timers that are started; all of them repeat
    closing,           \* handles given to uv_close
    watched,           \* handles the poll has been told of
    stop_flag,
    loop,              \* where the loop's thread is
    stopping           \* where a call of stop() is, "no" when there is none

loopVars == <<loop_is_run_, default_timer, memory, queue, armed, closing,
              watched, stop_flag, loop, stopping>>

LoopSteps == {"unborn", "run", "malloc", "init", "start", "top", "timers",
              "callback", "watch", "poll", "asleep", "closing", "returned", "ended"}
InUvRun == {"top", "timers", "callback", "watch", "poll", "asleep", "closing"}

LoopTypeOK ==
    /\ loop_is_run_ \in BOOLEAN
    /\ default_timer \in BOOLEAN
    /\ memory \in [Handles -> {"none", "raw", "init", "closed", "freed"}]
    /\ queue \in Seq(Handles)
    /\ armed \subseteq Timers
    /\ closing \subseteq Tcps
    /\ watched \subseteq Tcps
    /\ stop_flag \in BOOLEAN
    /\ loop \in LoopSteps
    /\ stopping \in {"no", "timer", "free", "flag"}

LoopInit ==
    /\ loop_is_run_ = FALSE /\ default_timer = FALSE
    /\ memory = [h \in Handles |-> "none"]
    /\ queue = <<>> /\ armed = {} /\ closing = {} /\ watched = {}
    /\ stop_flag = FALSE /\ loop = "unborn" /\ stopping = "no"

------------------------------------------------------------------------------
(* libuv *)

\* A handle is linked behind the last one, whose link is written.
Link(h) == queue' = Append(queue, h)
LinkSpoilt == queue # <<>> /\ memory[queue[Len(queue)]] = "freed"

\* A handle is unlinked: the links of both its neighbours are written.
Unlink(h) ==
    \E i \in DOMAIN queue :
        queue[i] = h /\ queue' = SubSeq(queue, 1, i - 1) \o SubSeq(queue, i + 1, Len(queue))
UnlinkSpoilt(h) ==
    \E i \in DOMAIN queue : /\ queue[i] = h
                            /\ \E j \in {i - 1, i + 1} \cap DOMAIN queue :
                                 memory[queue[j]] = "freed"

\* A timer that is armed has been freed: the timer heap leads into it.
HeapSpoilt == \E t \in armed : memory[t] = "freed"

\* uv__loop_alive
LoopAlive == armed # {} \/ closing # {} \/ (\E h \in Tcps : memory[h] = "init" /\ h \notin closing)

------------------------------------------------------------------------------
(* EventLoop::run, on the thread of runInThread *)

\* Seeded fault: loop_is_run_ is not set before uv_run.
SetRunningNever ==
    /\ loop = "run"
    /\ loop' = "malloc"
    /\ UNCHANGED <<loop_is_run_, default_timer, memory, queue, armed, closing, watched,
                   stop_flag, stopping>>

SetRunning ==
    /\ loop = "run"
    /\ loop_is_run_' = TRUE /\ loop' = "malloc"
    /\ UNCHANGED <<default_timer, memory, queue, armed, closing, watched,
                   stop_flag, stopping>>

MallocTimer ==
    /\ loop = "malloc"
    /\ default_timer' = TRUE /\ memory' = [memory EXCEPT !["idle"] = "raw"]
    /\ loop' = "init"
    /\ UNCHANGED <<loop_is_run_, queue, armed, closing, watched, stop_flag, stopping>>

InitTimer ==
    /\ loop = "init" /\ memory["idle"] = "raw"
    /\ memory' = [memory EXCEPT !["idle"] = "init"] /\ Link("idle")
    /\ loop' = "start"
    /\ UNCHANGED <<loop_is_run_, default_timer, armed, closing, watched,
                   stop_flag, stopping>>

\* Seeded fault: the loop's timer is initialised and never started.
StartTimerNever ==
    /\ loop = "start" /\ memory["idle"] = "init"
    /\ loop' = "top"
    /\ UNCHANGED <<loop_is_run_, default_timer, memory, queue, armed, closing, watched,
                   stop_flag, stopping>>

StartTimer ==
    /\ loop = "start" /\ memory["idle"] = "init"
    /\ armed' = armed \cup {"idle"} /\ loop' = "top"
    /\ UNCHANGED <<loop_is_run_, default_timer, memory, queue, closing, watched,
                   stop_flag, stopping>>

\* The head of uv_run's loop; on the way out the stop flag is taken back.
Iterate ==
    /\ loop = "top"
    /\ IF LoopAlive /\ ~stop_flag THEN loop' = "timers" /\ UNCHANGED stop_flag
                                  ELSE loop' = "returned" /\ stop_flag' = FALSE
    /\ UNCHANGED <<loop_is_run_, default_timer, memory, queue, armed, closing, watched, stopping>>

\* The timers that are due: that of the loop does nothing, that of Client
\* calls back.
RunTimers ==
    /\ loop = "timers" /\ ~HeapSpoilt
    /\ \/ "client" \in armed /\ loop' = "callback"
       \/ loop' = "watch"
    /\ UNCHANGED <<loop_is_run_, default_timer, memory, queue, armed, closing, watched,
                   stop_flag, stopping>>

\* Seeded fault: handles added by another thread are not looked for.
WatchOld ==
    /\ loop = "watch"
    /\ loop' = IF armed = {} THEN "asleep" ELSE "poll"
    /\ UNCHANGED <<loop_is_run_, default_timer, memory, queue, armed, closing, watched,
                   stop_flag, stopping>>

\* The poll is told of the handles it has not heard of, and sleeps until a
\* timer is due, if one is armed now (a handle's event only wakes it earlier);
\* neither uv_stop nor a handle added meanwhile wakes it.  It is left without
\* a timer only when ~Client has closed the connection as well: it then sleeps
\* for good.
Watch ==
    /\ loop = "watch"
    /\ watched' = {h \in Tcps : memory[h] = "init"} \ closing
    /\ loop' = IF armed = {} THEN "asleep" ELSE "poll"
    /\ UNCHANGED <<loop_is_run_, default_timer, memory, queue, armed, closing,
                   stop_flag, stopping>>

Poll ==
    /\ loop = "poll"
    /\ loop' = "closing"
    /\ UNCHANGED <<loop_is_run_, default_timer, memory, queue, armed, closing, watched,
                   stop_flag, stopping>>

\* Seeded fault: a handle is freed when its close begins to be handled, and
\* stays linked.
FinishCloseFrees ==
    /\ loop = "closing"
    /\ \/ \E h \in closing :
            /\ closing' = closing \ {h}
            /\ memory' = [memory EXCEPT ![h] = "freed"]
            /\ watched' = watched \ {h}
            /\ UNCHANGED loop
       \/ closing = {} /\ loop' = "top" /\ UNCHANGED <<closing, memory, watched>>
    /\ UNCHANGED <<loop_is_run_, default_timer, queue, armed, stop_flag, stopping>>

\* The handles being closed are unlinked; TcpClient never frees them.
FinishClose ==
    /\ loop = "closing"
    /\ \/ \E h \in closing :
            /\ ~UnlinkSpoilt(h)
            /\ Unlink(h) /\ closing' = closing \ {h}
            /\ memory' = [memory EXCEPT ![h] = "closed"]
            /\ watched' = watched \ {h}
            /\ UNCHANGED loop
       \/ closing = {} /\ loop' = "top" /\ UNCHANGED <<queue, closing, memory, watched>>
    /\ UNCHANGED <<loop_is_run_, default_timer, armed, stop_flag, stopping>>

SetStopped ==
    /\ loop = "returned"
    /\ loop_is_run_' = FALSE /\ loop' = "ended"
    /\ UNCHANGED <<default_timer, memory, queue, armed, closing, watched,
                   stop_flag, stopping>>

------------------------------------------------------------------------------
(* The other operations, on the application's thread *)

runInThread ==
    /\ loop' = "run"
    /\ UNCHANGED <<loop_is_run_, default_timer, memory, queue, armed, closing, watched, stop_flag, stopping>>

registerTimer ==
    /\ ~LinkSpoilt
    /\ memory' = [memory EXCEPT !["client"] = "init"]
    /\ Link("client") /\ armed' = armed \cup {"client"}
    /\ UNCHANGED <<loop_is_run_, default_timer, closing, watched, stop_flag,
                   loop, stopping>>

removeTimer ==
    /\ armed' = armed \ {"client"}
    /\ memory' = [memory EXCEPT !["client"] = "freed"]
    /\ UNCHANGED <<loop_is_run_, default_timer, queue, closing, watched, stop_flag,
                   loop, stopping>>

\* stop(): the test of the pointer and uv_timer_stop, then free, then uv_stop.
\* The pointer keeps its value.
StopTimer ==
    /\ stopping = "timer"
    /\ IF default_timer THEN memory["idle"] = "init" /\ armed' = armed \ {"idle"}
                             /\ stopping' = "free"
                        ELSE stopping' = "flag" /\ UNCHANGED armed
    /\ UNCHANGED <<loop_is_run_, default_timer, memory, queue, closing, watched,
                   stop_flag, loop>>

FreeTimer ==
    /\ stopping = "free" /\ memory["idle"] # "freed"
    /\ memory' = [memory EXCEPT !["idle"] = "freed"] /\ stopping' = "flag"
    /\ UNCHANGED <<loop_is_run_, default_timer, queue, armed, closing, watched,
                   stop_flag, loop>>

\* Seeded fault: stop() frees the timer and does not call uv_stop.
SetStopFlagNever ==
    /\ stopping = "flag"
    /\ stopping' = "no"
    /\ UNCHANGED <<loop_is_run_, default_timer, memory, queue, armed, closing, watched,
                   stop_flag, loop>>

SetStopFlag ==
    /\ stopping = "flag"
    /\ stop_flag' = TRUE /\ stopping' = "no"
    /\ UNCHANGED <<loop_is_run_, default_timer, memory, queue, armed, closing, watched, loop>>
==============================================================================
