--------------------------- MODULE ChatKitProofs ---------------------------
(***************************************************************************)
(* Proofs about ChatKit, for any number of connections and of cleanups.     *)
(***************************************************************************)
EXTENDS ChatKit, SequenceTheorems, TLAPS

\* Before the loop has linked its timer, and before it has entered uv_run.
Unlinked == {"unborn", "run", "malloc", "init"}
BeforeRun == Unlinked \cup {"start"}

\* What the application's progress says of the loop's.
Started ==
    /\ loop \notin {"unborn", "run", "ended"} => loop_is_run_
    /\ app = "main" <=> loop = "unborn"
    /\ app \in {"main", "getInstance"} => cleanups = 0
    /\ app = "connect" /\ ~rushed => loop # "run"

\* What is as it is only because of cleanup.
Stopped ==
    /\ stop_flag \/ stopping # "no" => cleanups > 0
    /\ cleanups = 0 /\ loop \in InUvRun => "idle" \in armed
    /\ cleanups > 0 /\ loop \in BeforeRun => hasty

\* The loop's own timer.
IdleTimer ==
    /\ loop \in {"unborn", "run", "malloc"} => memory["idle"] = "none" /\ ~default_timer
    /\ loop = "init" => memory["idle"] = "raw"
    /\ loop \notin Unlinked => memory["idle"] \in {"init", "freed"}
    /\ memory["idle"] = "freed" => cleanups > 0 /\ (stopping = "timer" => cleanups > 1)
    /\ stopping = "free" => default_timer /\ memory["idle"] = "init"
    /\ "idle" \in armed /\ (memory["idle"] = "freed" \/ stopping = "free") => hasty

\* The Client's timer, and the handles of connections.
OtherHandles ==
    /\ memory["client"] = "freed" <=> app \in {"free", "gone"}
    /\ "client" \in armed => memory["client"] = "init"
    /\ \A h \in Tcps : memory[h] # "freed"

\* The two timers are at the head of the queue, one way round or the other.
QueueShape ==
    /\ app \in {"main", "getInstance"} =>
          queue = <<>> \/ (queue = <<"idle">> /\ loop \notin Unlinked)
    /\ app \notin {"main", "getInstance"} =>
          /\ Len(queue) > 0
          /\ \/ queue[1] = "client"
             \/ /\ loop \notin Unlinked
                /\ Len(queue) > 1 /\ queue[1] = "idle" /\ queue[2] = "client"
                /\ \A i \in 3 .. Len(queue) : queue[i] \in Tcps

\* The inductive invariant.
KitInv ==
    /\ TypeOK
    /\ Started
    /\ Stopped
    /\ IdleTimer
    /\ OtherHandles
    /\ QueueShape
    /\ RunsUntilStopped
    /\ FaultsExplained
    /\ QueueSoundUntilStopped

-----------------------------------------------------------------------------
(* The steps.  In each lemma a case says what its action does to the variables *)
(* the conjunct is about.                                                      *)

\* The two threads' progress.
LEMMA StartedStep == KitInv /\ [Next]_vars => Started'
<1> SUFFICES ASSUME KitInv, [Next]_vars PROVE Started'
  OBVIOUS
<1> USE DEF KitInv, Started
<1>1. CASE StartLoop
  BY <1>1 DEF StartLoop, runInThread, At
<1>2. CASE ConstructClient
  BY <1>2 DEF ConstructClient, registerTimer, At, Link
<1>3. CASE OpenDatabase
  BY <1>3 DEF OpenDatabase, loopVars, At
<1>4. CASE Login
  BY <1>4 DEF Login, CloseTcp, At
<1>5. CASE Connect
  BY <1>5 DEF Connect, At, Link
<1>6. CASE Cleanup
  BY <1>6 DEF Cleanup, CloseTcp
<1>7. CASE Stop
  BY <1>7 DEF Stop, StopTimer, FreeTimer, SetStopFlag, appVars
<1>8. CASE Exit
  BY <1>8 DEF Exit, CloseTcp, At
<1>9. CASE Destroy
  BY <1>9 DEF Destroy, removeTimer, loopVars, At
<1>10. CASE LoopStep
  BY <1>10 DEF LoopStep, SetRunning, MallocTimer, InitTimer, StartTimer, Iterate,
          RunTimers, ClientTimer, Watch, Poll, FinishClose, SetStopped, LoopAlive,
          appVars, Link
<1>11. CASE Die
  BY <1>11 DEF Die, loopVars
<1>12. CASE UNCHANGED vars
  BY <1>12 DEF vars, loopVars, appVars
<1> QED
  BY <1>1, <1>2, <1>3, <1>4, <1>5, <1>6, <1>7, <1>8, <1>9, <1>10, <1>11, <1>12 DEF Next

\* The traces of cleanup.
LEMMA StoppedStep == KitInv /\ [Next]_vars => Stopped'
<1> SUFFICES ASSUME KitInv, [Next]_vars PROVE Stopped'
  OBVIOUS
<1> USE DEF KitInv, Stopped, TypeOK, InUvRun, BeforeRun, Unlinked, Started
<1>1. CASE StartLoop
  BY <1>1, ChatKitAssumption DEF StartLoop, runInThread, At
<1>2. CASE ConstructClient
  BY <1>2, ChatKitAssumption DEF ConstructClient, registerTimer, At, Link
<1>3. CASE OpenDatabase
  BY <1>3, ChatKitAssumption DEF OpenDatabase, loopVars, At
<1>4. CASE Login
  BY <1>4, ChatKitAssumption DEF Login, CloseTcp, At
<1>5. CASE Connect
  BY <1>5, ChatKitAssumption DEF Connect, At, Link
<1>6. CASE Cleanup
  <2>1. cleanups' > 0
    BY <1>6, ChatKitAssumption DEF Cleanup
  <2>2. /\ loop' = loop /\ hasty' = (hasty \/ loop \notin InUvRun)
    BY <1>6 DEF Cleanup, CloseTcp
  <2>3. loop \in BeforeRun => hasty'
    BY <2>2
  <2> QED
    BY <2>1, <2>2, <2>3
<1>7. CASE Stop
  BY <1>7, ChatKitAssumption DEF Stop, StopTimer, FreeTimer, SetStopFlag, appVars
<1>8. CASE Exit
  BY <1>8, ChatKitAssumption DEF Exit, CloseTcp, At
<1>9. CASE Destroy
  BY <1>9, ChatKitAssumption DEF Destroy, removeTimer, loopVars, At
<1>10. CASE LoopStep
  BY <1>10, ChatKitAssumption DEF LoopStep, SetRunning, MallocTimer, InitTimer,
          StartTimer, Iterate, RunTimers, ClientTimer, Watch, Poll, FinishClose,
          SetStopped, LoopAlive, appVars, Link
<1>11. CASE Die
  BY <1>11, ChatKitAssumption DEF Die, loopVars
<1>12. CASE UNCHANGED vars
  BY <1>12 DEF vars, loopVars, appVars
<1> QED
  BY <1>1, <1>2, <1>3, <1>4, <1>5, <1>6, <1>7, <1>8, <1>9, <1>10, <1>11, <1>12 DEF Next

\* The loop's own timer.
LEMMA IdleTimerStep == KitInv /\ [Next]_vars => IdleTimer'
<1> SUFFICES ASSUME KitInv, [Next]_vars PROVE IdleTimer'
  OBVIOUS
<1> USE DEF KitInv, IdleTimer, TypeOK, LoopTypeOK, Handles, Timers, Stopped, BeforeRun, Unlinked, Started
<1>1. CASE StartLoop
  BY <1>1, ChatKitAssumption, TcpsAssumption DEF StartLoop, runInThread, At
<1>2. CASE ConstructClient
  BY <1>2, ChatKitAssumption, TcpsAssumption DEF ConstructClient, registerTimer, At,
          Link
<1>3. CASE OpenDatabase
  BY <1>3, ChatKitAssumption, TcpsAssumption DEF OpenDatabase, loopVars, At
<1>4. CASE Login
  BY <1>4, ChatKitAssumption, TcpsAssumption DEF Login, CloseTcp, At
<1>5. CASE Connect
  BY <1>5, ChatKitAssumption, TcpsAssumption DEF Connect, At, Link
<1>6. CASE Cleanup
  BY <1>6, ChatKitAssumption, TcpsAssumption DEF Cleanup, CloseTcp
<1>7. CASE Stop
  BY <1>7, ChatKitAssumption, TcpsAssumption DEF Stop, StopTimer, FreeTimer,
          SetStopFlag, appVars
<1>8. CASE Exit
  BY <1>8, ChatKitAssumption, TcpsAssumption DEF Exit, CloseTcp, At
<1>9. CASE Destroy
  BY <1>9, ChatKitAssumption, TcpsAssumption DEF Destroy, removeTimer, loopVars, At
<1>10. CASE LoopStep
  BY <1>10, ChatKitAssumption, TcpsAssumption DEF LoopStep, SetRunning, MallocTimer,
          InitTimer, StartTimer, Iterate, RunTimers, ClientTimer, Watch, Poll,
          FinishClose, SetStopped, LoopAlive, appVars, Link
<1>11. CASE Die
  BY <1>11, ChatKitAssumption, TcpsAssumption DEF Die, loopVars
<1>12. CASE UNCHANGED vars
  BY <1>12 DEF vars, loopVars, appVars
<1> QED
  BY <1>1, <1>2, <1>3, <1>4, <1>5, <1>6, <1>7, <1>8, <1>9, <1>10, <1>11, <1>12 DEF Next

\* The other handles.
LEMMA OtherHandlesStep == KitInv /\ [Next]_vars => OtherHandles'
<1> SUFFICES ASSUME KitInv, [Next]_vars PROVE OtherHandles'
  OBVIOUS
<1> USE DEF KitInv, OtherHandles, TypeOK, LoopTypeOK, Handles, Timers, AppSteps
<1>1. CASE StartLoop
  BY <1>1, TcpsAssumption DEF StartLoop, runInThread, At
<1>2. CASE ConstructClient
  BY <1>2, TcpsAssumption DEF ConstructClient, registerTimer, At, Link
<1>3. CASE OpenDatabase
  BY <1>3, TcpsAssumption DEF OpenDatabase, loopVars, At
<1>4. CASE Login
  BY <1>4, TcpsAssumption DEF Login, CloseTcp, At
<1>5. CASE Connect
  BY <1>5, TcpsAssumption DEF Connect, At, Link
<1>6. CASE Cleanup
  BY <1>6, TcpsAssumption DEF Cleanup, CloseTcp
<1>7. CASE Stop
  <2>1. memory' = memory \/ memory' = [memory EXCEPT !["idle"] = "freed"]
    BY <1>7 DEF Stop, StopTimer, FreeTimer, SetStopFlag
  <2>2. /\ memory \in [Handles -> {"none", "raw", "init", "closed", "freed"}]
        /\ "client" \in Handles /\ \A h \in Tcps : h \in Handles /\ h # "idle"
    BY TcpsAssumption
  <2>3. memory'["client"] = memory["client"] /\ \A h \in Tcps : memory'[h] = memory[h]
    BY <2>1, <2>2
  <2>4. app' = app /\ armed' \subseteq armed
    BY <1>7 DEF Stop, StopTimer, FreeTimer, SetStopFlag, appVars
  <2> QED
    BY <2>3, <2>4
<1>8. CASE Exit
  BY <1>8, TcpsAssumption DEF Exit, CloseTcp, At
<1>9. CASE Destroy
  BY <1>9, TcpsAssumption DEF Destroy, removeTimer, loopVars, At
<1>10. CASE LoopStep
  BY <1>10, TcpsAssumption DEF LoopStep, SetRunning, MallocTimer, InitTimer, StartTimer,
          Iterate, RunTimers, ClientTimer, Watch, Poll, FinishClose, SetStopped,
          LoopAlive, appVars, Link
<1>11. CASE Die
  BY <1>11, TcpsAssumption DEF Die, loopVars
<1>12. CASE UNCHANGED vars
  BY <1>12 DEF vars, loopVars, appVars
<1> QED
  BY <1>1, <1>2, <1>3, <1>4, <1>5, <1>6, <1>7, <1>8, <1>9, <1>10, <1>11, <1>12 DEF Next

\* uv_run returns because of stop only.
LEMMA RunsUntilStoppedStep == KitInv /\ [Next]_vars => RunsUntilStopped'
<1> SUFFICES ASSUME KitInv, [Next]_vars PROVE RunsUntilStopped'
  OBVIOUS
<1> USE DEF KitInv, RunsUntilStopped, TypeOK, Stopped, InUvRun
<1>1. CASE StartLoop
  BY <1>1, ChatKitAssumption DEF StartLoop, runInThread, At
<1>2. CASE ConstructClient
  BY <1>2, ChatKitAssumption DEF ConstructClient, registerTimer, At, Link
<1>3. CASE OpenDatabase
  BY <1>3, ChatKitAssumption DEF OpenDatabase, loopVars, At
<1>4. CASE Login
  BY <1>4, ChatKitAssumption DEF Login, CloseTcp, At
<1>5. CASE Connect
  BY <1>5, ChatKitAssumption DEF Connect, At, Link
<1>6. CASE Cleanup
  BY <1>6, ChatKitAssumption DEF Cleanup, CloseTcp
<1>7. CASE Stop
  BY <1>7, ChatKitAssumption DEF Stop, StopTimer, FreeTimer, SetStopFlag, appVars
<1>8. CASE Exit
  BY <1>8, ChatKitAssumption DEF Exit, CloseTcp, At
<1>9. CASE Destroy
  BY <1>9, ChatKitAssumption DEF Destroy, removeTimer, loopVars, At
<1>10. CASE LoopStep
  BY <1>10, ChatKitAssumption DEF LoopStep, SetRunning, MallocTimer, InitTimer,
          StartTimer, Iterate, RunTimers, ClientTimer, Watch, Poll, FinishClose,
          SetStopped, LoopAlive, appVars, Link
<1>11. CASE Die
  BY <1>11, ChatKitAssumption DEF Die, loopVars
<1>12. CASE UNCHANGED vars
  BY <1>12 DEF vars, loopVars, appVars
<1> QED
  BY <1>1, <1>2, <1>3, <1>4, <1>5, <1>6, <1>7, <1>8, <1>9, <1>10, <1>11, <1>12 DEF Next

\* The causes of faults.
LEMMA FaultsExplainedStep == KitInv /\ [Next]_vars => FaultsExplained'
<1> SUFFICES ASSUME KitInv, [Next]_vars PROVE FaultsExplained'
  OBVIOUS
<1> USE DEF KitInv, FaultsExplained, TypeOK, Started, Stopped, IdleTimer, OtherHandles, RunsUntilStopped, BeforeRun, Unlinked
<1>1. CASE StartLoop
  BY <1>1 DEF StartLoop, runInThread, At, Running
<1>2. CASE ConstructClient
  BY <1>2 DEF ConstructClient, registerTimer, At, Link, Running
<1>3. CASE OpenDatabase
  BY <1>3 DEF OpenDatabase, loopVars, At, Running
<1>4. CASE Login
  BY <1>4 DEF Login, CloseTcp, At, Running
<1>5. CASE Connect
  BY <1>5 DEF Connect, At, Link, Running
<1>6. CASE Cleanup
  BY <1>6 DEF Cleanup, CloseTcp, Running
<1>7. CASE Stop
  BY <1>7 DEF Stop, StopTimer, FreeTimer, SetStopFlag, appVars, Running
<1>8. CASE Exit
  BY <1>8 DEF Exit, CloseTcp, At, Running
<1>9. CASE Destroy
  BY <1>9 DEF Destroy, removeTimer, loopVars, At, Running
<1>10. CASE LoopStep
  BY <1>10 DEF LoopStep, SetRunning, MallocTimer, InitTimer, StartTimer, Iterate,
          RunTimers, ClientTimer, Watch, Poll, FinishClose, SetStopped, LoopAlive,
          appVars, Link, Running
<1>11. CASE Die
  BY <1>11 DEF Die, loopVars, Dies, HeapSpoilt, At, LoopTypeOK, AppSteps, LoopSteps,
          Timers, Handles, Running
<1>12. CASE UNCHANGED vars
  BY <1>12 DEF vars, loopVars, appVars
<1> QED
  BY <1>1, <1>2, <1>3, <1>4, <1>5, <1>6, <1>7, <1>8, <1>9, <1>10, <1>11, <1>12 DEF Next

\* A handle that is linked is the last of the queue.
LEMMA LinkFacts ==
    ASSUME TypeOK, NEW h \in Handles, Link(h)
    PROVE  /\ queue' \in Seq(Handles) /\ Len(queue') = Len(queue) + 1
           /\ \A i \in 1 .. Len(queue) : queue'[i] = queue[i]
           /\ queue'[Len(queue) + 1] = h
  BY DEF TypeOK, LoopTypeOK, Link

\* One that is unlinked leaves those before it where they are.
LEMMA UnlinkFacts ==
    ASSUME TypeOK, NEW h, Unlink(h)
    PROVE  \E n \in 1 .. Len(queue) :
              /\ queue[n] = h
              /\ queue' \in Seq(Handles) /\ Len(queue') = Len(queue) - 1
              /\ \A i \in 1 .. n - 1 : queue'[i] = queue[i]
              /\ \A i \in n .. Len(queue) - 1 : queue'[i] = queue[i + 1]
<1>1. queue \in Seq(Handles) /\ Len(queue) \in Nat /\ DOMAIN queue = 1 .. Len(queue)
  BY DEF TypeOK, LoopTypeOK
<1>2. PICK n \in 1 .. Len(queue) :
          queue[n] = h /\ queue' = SubSeq(queue, 1, n - 1) \o SubSeq(queue, n + 1, Len(queue))
  BY <1>1 DEF Unlink
<1> DEFINE f == SubSeq(queue, 1, n - 1)
           g == SubSeq(queue, n + 1, Len(queue))
<1>3. /\ f \in Seq(Handles) /\ Len(f) = n - 1
      /\ \A i \in 1 .. n - 1 : f[i] = queue[i]
  BY <1>1
<1>4. /\ g \in Seq(Handles) /\ Len(g) = Len(queue) - n
      /\ \A i \in 1 .. Len(queue) - n : g[i] = queue[n + i]
  <2>1. \A i \in n + 1 .. Len(queue) : i \in 1 .. Len(queue) /\ queue[i] \in Handles
    BY <1>1
  <2>2. n + 1 \in Int /\ Len(queue) \in Int
    BY <1>1
  <2> HIDE DEF g
  <2>3. /\ g \in Seq(Handles)
        /\ Len(g) = IF n + 1 <= Len(queue) THEN Len(queue) - (n + 1) + 1 ELSE 0
        /\ \A i \in 1 .. Len(queue) - (n + 1) + 1 : g[i] = queue[(n + 1) + i - 1]
    BY <2>1, <2>2, SubSeqProperties DEF g
  <2>4. Len(g) = Len(queue) - n
    <3>1. n \in Int /\ n <= Len(queue) /\ Len(queue) \in Int
      BY <1>1
    <3>2. CASE n + 1 <= Len(queue)
      BY <2>3, <3>1, <3>2
    <3>3. CASE n = Len(queue)
      BY <2>3, <3>1, <3>3
    <3> QED
      BY <3>1, <3>2, <3>3
  <2>5. ASSUME NEW i \in 1 .. Len(queue) - n PROVE g[i] = queue[n + i]
    <3>1. i \in 1 .. Len(queue) - (n + 1) + 1 /\ (n + 1) + i - 1 = n + i
      BY <1>1
    <3> QED
      BY <2>3, <3>1
  <2> QED
    BY <2>3, <2>4, <2>5
<1> HIDE DEF f, g
<1>5. queue' = f \o g
  BY <1>2 DEF f, g
<1>6. queue' \in Seq(Handles) /\ Len(queue') = Len(queue) - 1
  <2>1. f \o g \in Seq(Handles) /\ Len(f \o g) = Len(f) + Len(g)
    BY <1>3, <1>4, ConcatProperties
  <2>2. Len(f) + Len(g) = Len(queue) - 1
    BY <1>1, <1>3, <1>4
  <2> QED
    BY <1>5, <2>1, <2>2
<1>7. \A i \in 1 .. n - 1 : queue'[i] = queue[i]
  BY <1>1, <1>3, <1>4, <1>5
<1>8. ASSUME NEW i \in n .. Len(queue) - 1 PROVE queue'[i] = queue[i + 1]
  <2>1. i - (n - 1) \in 1 .. Len(queue) - n /\ i > n - 1 /\ i \in Nat
    BY <1>1
  <2>2. queue'[i] = g[i - (n - 1)]
    BY <1>1, <1>3, <1>4, <1>5, <2>1
  <2>3. g[i - (n - 1)] = queue[n + (i - (n - 1))]
    BY <1>4, <2>1
  <2>4. n + (i - (n - 1)) = i + 1
    BY <1>1
  <2> QED
    BY <2>2, <2>3, <2>4
<1> QED
  BY <1>2, <1>6, <1>7, <1>8

\* Every step leaves the queue as it is, links one of three kinds of handle, or
\* unlinks a connection.
LEMMA QueueCases ==
    ASSUME KitInv, [Next]_vars
    PROVE  \/ queue' = queue
           \/ Link("client") /\ ConstructClient
           \/ Link("idle") /\ loop = "init" /\ loop' = "start" /\ app' = app
           \/ /\ app = "connect" /\ app' = "ready" /\ loop' = loop
              /\ \E h \in Tcps : Link(h)
           \/ app' = app /\ loop' = loop /\ \E h \in Tcps : Unlink(h)
<1>1. CASE StartLoop \/ OpenDatabase \/ Login \/ Cleanup \/ Stop \/ Exit \/ Destroy \/ Die
  BY <1>1 DEF StartLoop, runInThread, OpenDatabase, loopVars, Login, CloseTcp, Cleanup,
              Stop, StopTimer, FreeTimer, SetStopFlag, Exit, Destroy, removeTimer, Die
<1>2. CASE ConstructClient
  BY <1>2 DEF ConstructClient, registerTimer
<1>3. CASE Connect
  BY <1>3 DEF Connect, At
<1>4. CASE LoopStep
  <2>1. CASE InitTimer
    BY <1>4, <2>1 DEF LoopStep, InitTimer, appVars
  <2>2. CASE FinishClose
    BY <1>4, <2>2 DEF LoopStep, FinishClose, appVars, KitInv, TypeOK, LoopTypeOK
  <2>3. CASE \/ SetRunning \/ MallocTimer \/ StartTimer \/ Iterate \/ RunTimers
             \/ ClientTimer \/ Watch \/ Poll \/ SetStopped
    BY <2>3 DEF SetRunning, MallocTimer, StartTimer, Iterate, RunTimers, ClientTimer,
                Watch, Poll, SetStopped
  <2> QED
    BY <1>4, <2>1, <2>2, <2>3 DEF LoopStep
<1>5. CASE UNCHANGED vars
  BY <1>5 DEF vars, loopVars
<1> QED
  BY <1>1, <1>2, <1>3, <1>4, <1>5 DEF Next

\* The types.
LEMMA TypeStep == KitInv /\ [Next]_vars => TypeOK'
<1> SUFFICES ASSUME KitInv, [Next]_vars PROVE TypeOK'
  OBVIOUS
<1> USE DEF KitInv, TypeOK, LoopTypeOK, Handles, Timers, LoopSteps, AppSteps
<1>1. CASE StartLoop
  BY <1>1, ChatKitAssumption, TcpsAssumption DEF StartLoop, runInThread, At
<1>2. CASE ConstructClient
  BY <1>2, ChatKitAssumption, TcpsAssumption DEF ConstructClient, registerTimer, At, Link
<1>3. CASE OpenDatabase
  BY <1>3, ChatKitAssumption, TcpsAssumption DEF OpenDatabase, loopVars, At
<1>4. CASE Login
  BY <1>4, ChatKitAssumption, TcpsAssumption DEF Login, CloseTcp, At
<1>5. CASE Connect
  BY <1>5, ChatKitAssumption, TcpsAssumption DEF Connect, At, Link
<1>6. CASE Cleanup
  BY <1>6, ChatKitAssumption, TcpsAssumption DEF Cleanup, CloseTcp
<1>7. CASE Stop
  <2>1. UNCHANGED <<loop_is_run_, default_timer, queue, closing, watched, loop, appVars>>
    BY <1>7 DEF Stop, StopTimer, FreeTimer, SetStopFlag
  <2>2. /\ armed' \subseteq armed
        /\ stopping' \in {"no", "timer", "free", "flag"}
    BY <1>7 DEF Stop, StopTimer, FreeTimer, SetStopFlag
  <2>3. stop_flag' \in BOOLEAN
    BY <1>7 DEF Stop, StopTimer, FreeTimer, SetStopFlag
  <2>4. memory' = memory \/ memory' = [memory EXCEPT !["idle"] = "freed"]
    BY <1>7 DEF Stop, StopTimer, FreeTimer, SetStopFlag
  <2>5. memory' \in [Handles -> {"none", "raw", "init", "closed", "freed"}]
    BY <2>4
  <2> QED
    BY <2>1, <2>2, <2>3, <2>5 DEF appVars
<1>8. CASE Exit
  BY <1>8, ChatKitAssumption, TcpsAssumption DEF Exit, CloseTcp, At
<1>9. CASE Destroy
  <2>1. CASE removeTimer /\ app' = "free"
    <3>1. memory' = [memory EXCEPT !["client"] = "freed"] /\ armed' \subseteq armed
      BY <2>1 DEF removeTimer
    <3>2. memory' \in [Handles -> {"none", "raw", "init", "closed", "freed"}]
      BY <3>1
    <3> QED
      BY <1>9, <2>1, <3>1, <3>2 DEF Destroy, removeTimer
  <2>2. CASE UNCHANGED loopVars /\ app' = "gone"
    BY <1>9, <2>2 DEF Destroy, loopVars
  <2> QED
    BY <1>9, <2>1, <2>2 DEF Destroy
<1>10. CASE Die
  BY <1>10, ChatKitAssumption, TcpsAssumption DEF Die, loopVars
<1>11. CASE LoopStep /\ SetRunning
  BY <1>11 DEF SetRunning, LoopStep, appVars, Link
<1>12. CASE LoopStep /\ MallocTimer
  BY <1>12 DEF MallocTimer, LoopStep, appVars, Link
<1>13. CASE LoopStep /\ InitTimer
  BY <1>13 DEF InitTimer, LoopStep, appVars, Link
<1>14. CASE LoopStep /\ StartTimer
  BY <1>14 DEF StartTimer, LoopStep, appVars, Link
<1>15. CASE LoopStep /\ Iterate
  <2>1. stop_flag' \in BOOLEAN /\ loop' \in LoopSteps
    BY <1>15 DEF Iterate
  <2> QED
    BY <1>15, <2>1 DEF Iterate, LoopStep, appVars
<1>16. CASE LoopStep /\ RunTimers
  BY <1>16 DEF RunTimers, LoopStep, appVars, Link
<1>17. CASE LoopStep /\ ClientTimer
  BY <1>17 DEF ClientTimer, LoopStep, appVars, Link
<1>18. CASE LoopStep /\ Watch
  BY <1>18 DEF Watch, LoopStep, appVars, Link
<1>19. CASE LoopStep /\ Poll
  BY <1>19 DEF Poll, LoopStep, appVars, Link
<1>20. CASE LoopStep /\ FinishClose
  <2>1. CASE \E h \in closing : /\ Unlink(h) /\ closing' = closing \ {h}
                                /\ memory' = [memory EXCEPT ![h] = "closed"]
                                /\ watched' = watched \ {h}
    <3>1. PICK h \in closing : /\ Unlink(h) /\ closing' = closing \ {h}
                               /\ memory' = [memory EXCEPT ![h] = "closed"]
                               /\ watched' = watched \ {h}
      BY <2>1
    <3>2. queue' \in Seq(Handles)
      BY <3>1, UnlinkFacts
    <3>3. memory' \in [Handles -> {"none", "raw", "init", "closed", "freed"}]
      BY <3>1
    <3>4. loop' \in LoopSteps
      BY <1>20 DEF FinishClose, LoopStep
    <3>5. closing' \subseteq Tcps /\ watched' \subseteq Tcps
      BY <3>1
    <3> QED
      BY <1>20, <3>2, <3>3, <3>4, <3>5 DEF FinishClose, LoopStep, appVars
  <2>2. CASE closing = {} /\ loop' = "top" /\ UNCHANGED <<queue, closing, memory, watched>>
    BY <1>20, <2>2 DEF FinishClose, LoopStep, appVars
  <2> QED
    BY <1>20, <2>1, <2>2 DEF FinishClose, LoopStep
<1>21. CASE LoopStep /\ SetStopped
  BY <1>21, ZenonT(30) DEF SetStopped, LoopStep, appVars, Link
<1>22. CASE UNCHANGED vars
  BY <1>22 DEF vars, loopVars, appVars
<1> QED
  BY <1>1, <1>2, <1>3, <1>4, <1>5, <1>6, <1>7, <1>8, <1>9, <1>10, <1>11, <1>12, <1>13,
     <1>14, <1>15, <1>16, <1>17, <1>18, <1>19, <1>20, <1>21, <1>22 DEF Next, LoopStep

LEMMA QueueShapeStep == KitInv /\ [Next]_vars => QueueShape'
<1> SUFFICES ASSUME KitInv, [Next]_vars PROVE QueueShape'
  OBVIOUS
<1>1. queue \in Seq(Handles) /\ Len(queue) \in Nat
  BY DEF KitInv, TypeOK, LoopTypeOK
<1>2. loop \notin Unlinked => loop' \notin Unlinked
  BY DEF Next, StartLoop, runInThread, At, ConstructClient, registerTimer, OpenDatabase,
         loopVars, Login, CloseTcp, Connect, Cleanup, Stop, StopTimer, FreeTimer, SetStopFlag,
         Exit, Destroy, removeTimer, LoopStep, SetRunning, MallocTimer, InitTimer, StartTimer,
         Iterate, RunTimers, ClientTimer, Watch, Poll, FinishClose, SetStopped, Die, vars,
         Unlinked, KitInv, Started
<1>3. app' \in {"main", "getInstance"} => app \in {"main", "getInstance"}
  BY DEF Next, StartLoop, ConstructClient, OpenDatabase, Login, Connect, Cleanup, Stop, appVars,
         Exit, Destroy, LoopStep, Die, vars, At
<1>4. ~ConstructClient /\ app \in {"main", "getInstance"} => app' \in {"main", "getInstance"}
  BY DEF Next, StartLoop, OpenDatabase, Login, Connect, Cleanup, Stop, appVars,
         Exit, Destroy, LoopStep, Die, vars, At
<1>5. CASE queue' = queue /\ ~ConstructClient
  BY <1>2, <1>3, <1>4, <1>5 DEF KitInv, QueueShape
<1>6. CASE ConstructClient
  <2>1. Link("client") /\ app = "getInstance" /\ app' = "db" /\ loop' = loop
    BY <1>6 DEF ConstructClient, registerTimer, At
  <2>2. "client" \in Handles
    BY DEF Handles, Timers
  <2>3. queue = <<>> \/ (queue = <<"idle">> /\ loop \notin Unlinked)
    BY <2>1 DEF KitInv, QueueShape
  <2>4. /\ Len(queue') = Len(queue) + 1
        /\ \A i \in 1 .. Len(queue) : queue'[i] = queue[i]
        /\ queue'[Len(queue) + 1] = "client"
    BY <2>1, <2>2, LinkFacts DEF KitInv
  <2>5. CASE queue = <<>>
    BY <2>1, <2>4, <2>5 DEF QueueShape
  <2>6. CASE queue = <<"idle">> /\ loop \notin Unlinked
    BY <2>1, <2>4, <2>6 DEF QueueShape
  <2> QED
    BY <2>3, <2>5, <2>6
<1>7. CASE Link("idle") /\ loop = "init" /\ loop' = "start" /\ app' = app
  <2>1. "idle" \in Handles /\ loop \in Unlinked /\ loop' \notin Unlinked
    BY <1>7 DEF Handles, Timers, Unlinked
  <2>2. /\ queue' \in Seq(Handles) /\ Len(queue') = Len(queue) + 1
        /\ \A i \in 1 .. Len(queue) : queue'[i] = queue[i]
        /\ queue'[Len(queue) + 1] = "idle"
    BY <1>7, <2>1, LinkFacts DEF KitInv
  <2>3. CASE app \in {"main", "getInstance"}
    <3>1. queue = <<>>
      BY <2>1, <2>3 DEF KitInv, QueueShape
    <3>2. queue' = <<"idle">>
      BY <2>2, <3>1
    <3> QED
      BY <1>7, <2>1, <2>3, <3>2 DEF QueueShape
  <2>4. CASE app \notin {"main", "getInstance"}
    <3>1. Len(queue) > 0 /\ queue[1] = "client"
      BY <2>1, <2>4 DEF KitInv, QueueShape
    <3> QED
      BY <1>1, <1>7, <2>2, <2>4, <3>1 DEF QueueShape
  <2> QED
    BY <2>3, <2>4
<1>8. CASE /\ app = "connect" /\ app' = "ready" /\ loop' = loop
           /\ \E h \in Tcps : Link(h)
  <2>1. PICK h \in Tcps : Link(h)
    BY <1>8
  <2>2. /\ Len(queue') = Len(queue) + 1
        /\ \A i \in 1 .. Len(queue) : queue'[i] = queue[i]
        /\ queue'[Len(queue) + 1] = h
    BY <2>1, LinkFacts DEF KitInv, Handles
  <2>3. /\ Len(queue) > 0
        /\ \/ queue[1] = "client"
           \/ /\ loop \notin Unlinked
              /\ Len(queue) > 1 /\ queue[1] = "idle" /\ queue[2] = "client"
              /\ \A i \in 3 .. Len(queue) : queue[i] \in Tcps
    BY <1>8 DEF KitInv, QueueShape
  <2>4. CASE queue[1] = "client"
    BY <1>1, <1>8, <2>2, <2>3, <2>4 DEF QueueShape
  <2>5. CASE /\ loop \notin Unlinked
             /\ Len(queue) > 1 /\ queue[1] = "idle" /\ queue[2] = "client"
             /\ \A i \in 3 .. Len(queue) : queue[i] \in Tcps
    <3>1. Len(queue') > 1 /\ queue'[1] = "idle" /\ queue'[2] = "client"
      BY <1>1, <2>2, <2>5
    <3>2. \A i \in 3 .. Len(queue') : queue'[i] \in Tcps
      BY <1>1, <2>2, <2>5
    <3> QED
      BY <1>8, <2>5, <3>1, <3>2 DEF QueueShape
  <2> QED
    BY <2>3, <2>4, <2>5
<1>9. CASE app' = app /\ loop' = loop /\ \E h \in Tcps : Unlink(h)
  <2>1. PICK h \in Tcps : Unlink(h)
    BY <1>9
  <2>2. PICK n \in 1 .. Len(queue) :
              /\ queue[n] = h
              /\ queue' \in Seq(Handles) /\ Len(queue') = Len(queue) - 1
              /\ \A i \in 1 .. n - 1 : queue'[i] = queue[i]
              /\ \A i \in n .. Len(queue) - 1 : queue'[i] = queue[i + 1]
    BY <2>1, UnlinkFacts DEF KitInv
  <2>3. h # "idle" /\ h # "client"
    BY TcpsAssumption DEF Timers
  <2>4. CASE app \in {"main", "getInstance"}
    <3>1. queue = <<>> \/ queue = <<"idle">>
      BY <2>4 DEF KitInv, QueueShape
    <3> QED
      BY <2>2, <2>3, <3>1
  <2>5. CASE app \notin {"main", "getInstance"} /\ queue[1] = "client"
    BY <1>1, <1>9, <2>2, <2>3, <2>5 DEF QueueShape
  <2>6. CASE /\ app \notin {"main", "getInstance"}
             /\ loop \notin Unlinked
             /\ Len(queue) > 1 /\ queue[1] = "idle" /\ queue[2] = "client"
             /\ \A i \in 3 .. Len(queue) : queue[i] \in Tcps
    <3>1. n > 2
      BY <1>1, <2>2, <2>3, <2>6
    <3>2. Len(queue') > 1 /\ queue'[1] = "idle" /\ queue'[2] = "client"
      BY <1>1, <2>2, <2>6, <3>1
    <3>3. ASSUME NEW i \in 3 .. Len(queue') PROVE queue'[i] \in Tcps
      <4>1. CASE i < n
        BY <1>1, <2>2, <2>6, <4>1
      <4>2. CASE i >= n
        <5>1. i \in n .. Len(queue) - 1 /\ i + 1 \in 3 .. Len(queue)
          BY <1>1, <2>2, <4>2
        <5> QED
          BY <2>2, <2>6, <5>1
      <4> QED
        BY <1>1, <4>1, <4>2
    <3> QED
      BY <1>9, <2>6, <3>2, <3>3 DEF QueueShape
  <2> QED
    BY <2>4, <2>5, <2>6 DEF KitInv, QueueShape
<1> QED
  BY <1>5, <1>6, <1>7, <1>8, <1>9, QueueCases

\* A fault of the queue.
LEMMA QueueSoundStep == KitInv /\ [Next]_vars => QueueSoundUntilStopped'
<1> SUFFICES ASSUME KitInv, [Next]_vars, fault' = "spoilt_queue"
             PROVE  \/ memory'["client"] = "freed"
                    \/ cleanups' > 0 /\ (app' = "connect" \/ queue'[1] = "client")
  BY DEF QueueSoundUntilStopped
<1>1. CASE fault = "spoilt_queue"
  <2>1. UNCHANGED vars
    BY <1>1 DEF Next, StartLoop, ConstructClient, OpenDatabase, Login, Connect, Cleanup, Stop,
                Exit, Destroy, LoopStep, Die, At, Running
  <2> QED
    BY <1>1, <2>1 DEF KitInv, QueueSoundUntilStopped, vars, loopVars, appVars
<1>2. CASE fault # "spoilt_queue"
  <2>1. Die /\ Dies("spoilt_queue") /\ UNCHANGED <<loopVars, app, cleanups>>
    BY <1>2 DEF Next, StartLoop, ConstructClient, OpenDatabase, Login, Connect, Cleanup, Stop,
                Exit, Destroy, LoopStep, Die, vars, appVars
  <2>2. UNCHANGED <<memory, queue, app, cleanups>>
    BY <2>1 DEF loopVars
  <2>3. \A h \in Handles : memory[h] = "freed" => h = "client" \/ (h = "idle" /\ cleanups > 0)
    BY DEF KitInv, OtherHandles, IdleTimer, Handles, Timers
  <2>4. queue \in Seq(Handles) /\ Len(queue) \in Nat
    BY DEF KitInv, TypeOK, LoopTypeOK
  <2> SUFFICES ASSUME memory["client"] # "freed"
               PROVE  cleanups > 0 /\ (app = "connect" \/ queue[1] = "client")
    BY <2>2
  <2>5. LinkSpoilt => memory["idle"] = "freed" /\ cleanups > 0
    BY <2>3, <2>4 DEF LinkSpoilt
  <2>6. CASE loop = "init" /\ LinkSpoilt
    BY <2>5, <2>6 DEF KitInv, IdleTimer
  <2>7. CASE At("getInstance") /\ LinkSpoilt
    BY <2>5, <2>7 DEF KitInv, Started, At
  <2>8. CASE At("connect") /\ loop_is_run_ /\ LinkSpoilt
    BY <2>5, <2>8 DEF At
  <2>9. CASE loop = "closing" /\ \E h \in closing : UnlinkSpoilt(h)
    <3>1. PICK h \in closing : UnlinkSpoilt(h)
      BY <2>9
    <3>2. PICK i \in DOMAIN queue : /\ queue[i] = h
                                   /\ \E j \in {i - 1, i + 1} \cap DOMAIN queue :
                                        memory[queue[j]] = "freed"
      BY <3>1 DEF UnlinkSpoilt
    <3>3. PICK j \in {i - 1, i + 1} \cap DOMAIN queue : memory[queue[j]] = "freed"
      BY <3>2
    <3>4. queue[j] = "idle" /\ cleanups > 0
      BY <2>3, <2>4, <3>3
    <3>5. h # "idle" /\ h # "client"
      BY TcpsAssumption DEF KitInv, TypeOK, LoopTypeOK, Timers
    <3>6. app \notin {"main", "getInstance"}
      BY <3>4 DEF KitInv, Started
    <3>7. CASE queue[1] = "client"
      BY <3>4, <3>7
    <3>8. CASE /\ Len(queue) > 1 /\ queue[1] = "idle" /\ queue[2] = "client"
               /\ \A m \in 3 .. Len(queue) : queue[m] \in Tcps
      <4>1. i \in 1 .. Len(queue) /\ j \in 1 .. Len(queue) /\ (j = i - 1 \/ j = i + 1)
        BY <2>4, <3>3
      <4>2. "idle" \notin Tcps
        BY TcpsAssumption DEF Timers
      <4>3. j = 1
        BY <2>4, <3>4, <3>8, <4>1, <4>2
      <4>4. i = 2
        BY <2>4, <4>1, <4>3
      <4> QED
        BY <3>2, <3>5, <3>8, <4>4
    <3> QED
      BY <3>6, <3>7, <3>8 DEF KitInv, QueueShape
  <2> QED
    BY <2>1, <2>6, <2>7, <2>8, <2>9 DEF Dies
<1> QED
  BY <1>1, <1>2

LEMMA InitKit == Init => KitInv
<1> SUFFICES ASSUME Init PROVE KitInv
  OBVIOUS
<1> USE DEF Init, LoopInit
<1>1. memory = [h \in Handles |-> "none"] /\ "idle" \in Handles /\ "client" \in Handles
      /\ Tcps \subseteq Handles
  BY DEF Handles, Timers
<1>2. TypeOK
  <2>1. memory \in [Handles -> {"none", "raw", "init", "closed", "freed"}]
    BY <1>1
  <2>2. queue \in Seq(Handles) /\ cleanups \in 0 .. MaxCleanups
    BY ChatKitAssumption
  <2>3. LoopTypeOK
    BY <2>1, <2>2 DEF LoopTypeOK, LoopSteps
  <2> QED
    BY <2>2, <2>3 DEF TypeOK, AppSteps
<1>3. Started /\ Stopped /\ RunsUntilStopped /\ FaultsExplained /\ QueueSoundUntilStopped
  BY DEF Started, Stopped, RunsUntilStopped, FaultsExplained, QueueSoundUntilStopped, InUvRun
<1>4. IdleTimer /\ OtherHandles /\ QueueShape
  BY <1>1 DEF IdleTimer, OtherHandles, QueueShape, Unlinked
<1> QED
  BY <1>2, <1>3, <1>4 DEF KitInv

\* The inductive invariant holds.
LEMMA KitInvariant == Spec => []KitInv
<1>1. KitInv /\ [Next]_vars => KitInv'
  BY TypeStep, StartedStep, StoppedStep, IdleTimerStep, OtherHandlesStep, QueueShapeStep,
     RunsUntilStoppedStep, FaultsExplainedStep, QueueSoundStep DEF KitInv
<1> QED
  BY <1>1, InitKit, PTL DEF Spec

-----------------------------------------------------------------------------
(* The theorems *)

\* The state is of its type.
THEOREM KitTypeCorrect == Spec => []TypeOK
<1>1. KitInv => TypeOK
  BY DEF KitInv
<1> QED
  BY <1>1, KitInvariant, PTL

\* uv_run returns because of stop only, in whatever order the threads start.
THEOREM AlwaysRunsUntilStopped == Spec => []RunsUntilStopped
<1>1. KitInv => RunsUntilStopped
  BY DEF KitInv
<1> QED
  BY <1>1, KitInvariant, PTL

\* Each way to die has its cause in the order of the application's calls.
THEOREM FaultsAlwaysExplained == Spec => []FaultsExplained
<1>1. KitInv => FaultsExplained
  BY DEF KitInv
<1> QED
  BY <1>1, KitInvariant, PTL

\* The handle queue goes bad only at a neighbour of a timer that was freed in it.
THEOREM QueueSound == Spec => []QueueSoundUntilStopped
<1>1. KitInv => QueueSoundUntilStopped
  BY DEF KitInv
<1> QED
  BY <1>1, KitInvariant, PTL
============================================================================
