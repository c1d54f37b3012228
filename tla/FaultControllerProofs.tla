------------------------ MODULE FaultControllerProofs ------------------------
(***************************************************************************)
(* Theorems of FaultController, for every set of links, every set of       *)
(* configurations and every number of calls.                               *)
(***************************************************************************)
EXTENDS FaultController, FiniteSetTheorems, TLAPS

USE DEF starterVars, pipeVars, mainVars, flagVars, injectorVars, taskVars

(***************************************************************************)
(* Type correctness.                                                       *)
(***************************************************************************)

\* The configuration of a state is one of the records a starter can build.
LEMMA ConfigType ==
    ASSUME TypeOK
    PROVE  /\ config \in ConfigRecords
           /\ config.links \in SUBSET Links /\ config.start \in Nat \ {0}
           /\ config.end \in Nat /\ IsFiniteSet(config.links)
  <1>1. config \in ConfigRecords
    BY ConfigsAssumption DEF TypeOK
  <1>2. /\ config.links \in SUBSET Links /\ config.start \in Nat \ {0}
        /\ config.end \in Nat
    BY <1>1 DEF ConfigRecords
  <1>3. IsFiniteSet(config.links)
    BY <1>2, LinksAssumption, FS_Subset
  <1> QED
    BY <1>1, <1>2, <1>3

\* An iteration is always begun on links of the net.
LEMMA SelectionType ==
    ASSUME TypeOK
    PROVE  \A chosen \in Selection : chosen \in SUBSET Links
  <1>1. config.links \in SUBSET Links /\ pool \in SUBSET Links
    BY ConfigType DEF TypeOK
  <1> QED
    BY <1>1 DEF Selection, Uninjected

\* TypeOK holds of every behaviour: no handler of either process puts a message into
\* the wrong pipe or a task into a state the code does not have.
THEOREM TypeCorrect == Spec => []TypeOK
  <1>1. Init => TypeOK
    <2> SUFFICES ASSUME Init PROVE TypeOK
      OBVIOUS
    <2>1. requests \in 0..MaxRequests /\ stops \in 0..MaxStops
      BY BoundsAssumption DEF Init
    <2>2. phase \in [Ends -> {"idle"}] /\ toFaults \in Seq({START, NEXT, SHUTDOWN})
      BY DEF Init
    <2>3. toMininet \in Seq({READY, DONE})
      BY DEF Init
    <2> QED
      BY <2>1, <2>2, <2>3 DEF Init, TypeOK, MainStates
  <1>2. TypeOK /\ [Next]_vars => TypeOK'
    <2> SUFFICES ASSUME TypeOK, [Next]_vars PROVE TypeOK'
      OBVIOUS
    <2> USE DEF TypeOK, MainStates
    <2>1. ASSUME MininetStep PROVE TypeOK'
      <3>1. CASE ReceiveSetup
        BY <3>1 DEF ReceiveSetup
      <3>2. CASE StarterGo
        BY <3>2 DEF StarterGo
      <3>3. CASE StartNextRun
        BY <3>3, BoundsAssumption DEF StartNextRun, UserMayCall
      <3>4. CASE StarterStop
        BY <3>4, BoundsAssumption DEF StarterStop, UserMayCall
      <3>5. CASE PollIsActive
        BY <3>5 DEF PollIsActive, UserMayCall, ActiveAfter
      <3>6. CASE NetStopBegins
        BY <3>6 DEF NetStopBegins
      <3>7. CASE NetStopEnds
        BY <3>7 DEF NetStopEnds
      <3>8. CASE AtExit
        BY <3>8 DEF AtExit, UserMayCall
      <3>9. CASE JoinController
        BY <3>9 DEF JoinController
      <3> QED
        BY <2>1, <3>1, <3>2, <3>3, <3>4, <3>5, <3>6, <3>7, <3>8, <3>9 DEF MininetStep
    <2>2. CASE BootController
      BY <2>2 DEF BootController
    <2>3. CASE WaitUntilGo
      BY <2>3 DEF WaitUntilGo
    <2>4. ASSUME MainStep PROVE TypeOK'
      <3>1. CASE MainGo
        BY <3>1, ConfigType DEF MainGo, FirstRound, StartInjectors
      <3>2. CASE EndOfRounds
        BY <3>2, ConfigType DEF EndOfRounds, FirstRound
      <3>3. CASE AwaitRequest
        BY <3>3 DEF AwaitRequest
      <3>4. CASE WakeFromWait
        BY <3>4 DEF WakeFromWait
      <3>5. CASE LeaveWait
        BY <3>5 DEF LeaveWait, RequestAfterWait, AfterWait
      <3>6. CASE BeginIteration
        BY <3>6, SelectionType DEF BeginIteration, StartInjectors
      <3>7. CASE GatherReturns
        BY <3>7 DEF GatherReturns
      <3>8. CASE IdleEnds
        BY <3>8 DEF IdleEnds
      <3>9. CASE Deactivate
        <4>1. main' \in {"awaitLog", "awaitListener"}
          BY <3>9 DEF Deactivate, AfterDeactivate
        <4>2. /\ toFaults' \in Seq({START, NEXT, SHUTDOWN})
              /\ toMininet' \in Seq({READY, DONE})
          BY <3>9 DEF Deactivate, MessageToSelf
        <4>3. isActive' \in BOOLEAN /\ loggerActive' \in BOOLEAN
          BY <3>9 DEF Deactivate
        <4>4. UNCHANGED <<config, starterVars, proc, round, pool, iterations, doNextRun,
                          injectorVars, listener, logTask>>
          BY <3>9 DEF Deactivate
        <4> QED
          BY <4>1, <4>2, <4>3, <4>4
      <3>10. CASE LogTaskJoined
        BY <3>10 DEF LogTaskJoined
      <3>11. CASE ListenerJoined
        BY <3>11 DEF ListenerJoined
      <3>12. CASE CrashController
        BY <3>12 DEF CrashController, Cancelled
      <3> QED
        BY <2>4, <3>1, <3>2, <3>3, <3>4, <3>5, <3>6, <3>7, <3>8, <3>9, <3>10, <3>11, <3>12
        DEF MainStep, TrafficReadRaises, GatherRaises
    <2>5. CASE ListenerReceivesRequests
      BY <2>5 DEF ListenerReceivesRequests
    <2>6. CASE ListenerReceivesShutdown
      <3>1. PICK k \in DOMAIN toFaults :
                /\ doNextRun' = (doNextRun \/ \E i \in 1..(k - 1) : IsNextRun(toFaults[i]))
                /\ toFaults' = SubSeq(toFaults, k + 1, Len(toFaults))
        BY <2>6 DEF ListenerReceivesShutdown
      <3>2. toFaults' \in Seq({START, NEXT, SHUTDOWN})
        BY <3>1
      <3>3. doNextRun' \in BOOLEAN
        BY <3>1
      <3>4. isActive' \in BOOLEAN /\ loggerActive' \in BOOLEAN
        BY <2>6 DEF ListenerReceivesShutdown, ActiveAfterShutdown, LoggerActiveAfterShutdown
      <3> QED
        BY <2>6, <3>2, <3>3, <3>4 DEF ListenerReceivesShutdown
    <2>7. CASE LoggerStep
      BY <2>7 DEF LoggerStep, LoggerStarts, LoggerWrites
    <2>8. ASSUME NEW e \in Ends, InjectorStep(e) PROVE TypeOK'
      BY <2>8 DEF InjectorStep, InjectorStarts, InjectorInjects, InjectorEjects,
                  InjectorFinishes, InjectorMoves, OrRaises
    <2>9. CASE UNCHANGED vars
      BY <2>9 DEF vars
    <2> QED
      BY <2>1, <2>2, <2>3, <2>4, <2>5, <2>6, <2>7, <2>8, <2>9 DEF Next, ListenerStep, Terminated
  <1> QED
    BY <1>1, <1>2, PTL DEF Spec

(***************************************************************************)
(* The inductive invariant behind the safety theorems.  QuietWhenDone and  *)
(* its companions relate a message in a pipe to the state of other tasks;  *)
(* what links the two is where main is.                                    *)
(***************************************************************************)

\* deactivate_and_send_done_message() has been entered and main will do nothing more.
Closed == main \in {"awaitLog", "awaitListener", "finished"}

\* The process and its main task go through their lives together.
LifeCycle ==
    /\ proc \in {"booting", "waiting"} => main = "off"
    /\ proc = "running" => main \notin {"off", "finished", "crashed"}
    /\ proc = "exited" => main = "finished"
    /\ proc = "crashed" => main \in {"off", "crashed"}
    /\ main \in {"off", "go"} => listener = "none"

\* Nothing is in the pipe before START, so wait_until_go() receives START.
StartIsFirst ==
    /\ network # "up" => mininet \notin {"constructing", "constructed"}
    /\ mininet \in {"constructing", "constructed"} =>
           toFaults = <<>> /\ proc \in {"booting", "waiting", "crashed"}
    /\ mininet \notin {"constructing", "constructed"} /\ proc \in {"booting", "waiting"} =>
           toFaults # <<>> /\ Head(toFaults) = START

\* Injector tasks exist only while main awaits them.
InjectorsAwaited ==
    /\ main \notin {"injecting", "crashed"} => NoInjectorBusy
    /\ \A e \in injected : phase[e] \in {"active", "raised"}

\* main decides to iterate and begins to without suspending in between.
ActiveInIteration ==
    /\ main = "iterate" => isActive
    /\ listener = "done" \/ Closed => ~isActive

\* DONE is sent when main closes, and lost nowhere but in is_active().
DoneMeansClosed ==
    /\ DoneVisible => Closed
    /\ Closed /\ mininet = "running" /\ faultsActive => Contains(toMininet, DONE)

\* main goes past its await of the logger only when the log is written.
LogAwaited ==
    main \in {"awaitListener", "finished"} /\ config.logging => logTask = "written"

SafetyInvariant ==
    /\ LifeCycle /\ StartIsFirst /\ InjectorsAwaited
    /\ ActiveInIteration /\ DoneMeansClosed /\ LogAwaited

\* What the two ends of a pipe do to the messages in it.
LEMMA PipeAppend ==
    ASSUME NEW S, NEW pipe \in Seq(S), NEW m \in S, NEW n
    PROVE  /\ Contains(Append(pipe, m), n) <=> Contains(pipe, n) \/ m = n
           /\ Append(pipe, m) # <<>>
           /\ pipe # <<>> => Head(Append(pipe, m)) = Head(pipe)
  <1>1. Contains(Append(pipe, m), n) => Contains(pipe, n) \/ m = n
    BY DEF Contains
  <1>2. Contains(pipe, n) => Contains(Append(pipe, m), n)
    BY DEF Contains
  <1>3. Append(pipe, m)[Len(pipe) + 1] = m /\ Len(pipe) + 1 \in DOMAIN Append(pipe, m)
    OBVIOUS
  <1>4. m = n => Contains(Append(pipe, m), n)
    BY <1>3 DEF Contains
  <1> QED
    BY <1>1, <1>2, <1>4

\* Receiving a message takes the first one away and brings no other.
LEMMA PipeTail ==
    ASSUME NEW S, NEW pipe \in Seq(S), pipe # <<>>, NEW n
    PROVE  Contains(pipe, n) <=> Head(pipe) = n \/ Contains(Tail(pipe), n)
  <1>1. Contains(Tail(pipe), n) => Contains(pipe, n)
    <2> SUFFICES ASSUME NEW i \in DOMAIN Tail(pipe), Tail(pipe)[i] = n PROVE Contains(pipe, n)
      BY DEF Contains
    <2>1. i + 1 \in DOMAIN pipe /\ pipe[i + 1] = n
      OBVIOUS
    <2> QED
      BY <2>1 DEF Contains
  <1>2. Contains(pipe, n) => Head(pipe) = n \/ Contains(Tail(pipe), n)
    <2> SUFFICES ASSUME NEW i \in DOMAIN pipe, pipe[i] = n, i # 1
                 PROVE  Contains(Tail(pipe), n)
      BY DEF Contains
    <2>1. i - 1 \in DOMAIN Tail(pipe) /\ Tail(pipe)[i - 1] = n
      OBVIOUS
    <2> QED
      BY <2>1 DEF Contains
  <1>3. Head(pipe) = n => Contains(pipe, n)
    BY DEF Contains
  <1> QED
    BY <1>1, <1>2, <1>3

\* No step of either process breaks the invariant.
LEMMA SafetyStep ==
    ASSUME TypeOK, SafetyInvariant, [Next]_vars
    PROVE  SafetyInvariant'
  <1> USE DEF SafetyInvariant, LifeCycle, StartIsFirst, InjectorsAwaited, ActiveInIteration,
              DoneMeansClosed, LogAwaited, Closed, DoneVisible, StarterKnowsDone, NoInjectorBusy
  <1>a. toFaults \in Seq({START, NEXT, SHUTDOWN}) /\ toMininet \in Seq({READY, DONE})
    BY DEF TypeOK
  <1>b. \A n : toMininet # <<>> /\ Contains(Tail(toMininet), n) => Contains(toMininet, n)
    <2> SUFFICES ASSUME NEW n, toMininet # <<>>, Contains(Tail(toMininet), n)
                 PROVE  Contains(toMininet, n)
      OBVIOUS
    <2> QED
      BY <1>a, PipeTail
  <1>c. \A m \in {START, NEXT, SHUTDOWN} :
            Append(toFaults, m) # <<>>
            /\ (toFaults # <<>> => Head(Append(toFaults, m)) = Head(toFaults))
    <2> SUFFICES ASSUME NEW m \in {START, NEXT, SHUTDOWN}
                 PROVE  /\ Append(toFaults, m) # <<>>
                        /\ toFaults # <<>> => Head(Append(toFaults, m)) = Head(toFaults)
      OBVIOUS
    <2> QED
      BY <1>a, PipeAppend
  <1>d. main \notin {"off", "finished", "crashed"} => proc = "running"
    BY DEF TypeOK
  <1>e. main \notin {"injecting", "crashed"} => injected = {}
    BY DEF TypeOK
  <1>1. CASE ReceiveSetup
    BY <1>1, <1>b DEF ReceiveSetup
  <1>2. CASE StarterGo
    BY <1>2, <1>a DEF StarterGo
  <1>3. CASE StartNextRun
    BY <1>3, <1>c DEF StartNextRun, UserMayCall
  <1>4. CASE StarterStop
    BY <1>4, <1>c DEF StarterStop, UserMayCall
  <1>5. CASE PollIsActive
    BY <1>5, <1>a, <1>b, PipeTail DEF PollIsActive, UserMayCall, ActiveAfter
  <1>6. CASE NetStopBegins
    BY <1>6 DEF NetStopBegins
  <1>7. CASE NetStopEnds
    BY <1>7, <1>c DEF NetStopEnds
  <1>8. CASE AtExit
    BY <1>8, <1>c DEF AtExit, UserMayCall
  <1>9. CASE JoinController
    BY <1>9 DEF JoinController
  <1>10. CASE BootController
    <2>1. Contains(toMininet', DONE) <=> Contains(toMininet, DONE)
      <3>1. READY # DONE /\ READY \in {READY, DONE}
        BY DEF READY, DONE
      <3>2. Contains(Append(toMininet, READY), DONE) <=> Contains(toMininet, DONE)
        BY <1>a, <3>1, PipeAppend
      <3> QED
        BY <1>10, <3>2 DEF BootController
    <2> QED
      BY <1>10, <2>1 DEF BootController
  <1>11. CASE WaitUntilGo
    <2>1. main = "off" /\ mininet \notin {"constructing", "constructed"} /\ Head(toFaults) = START
      BY <1>11 DEF WaitUntilGo
    <2>2. proc' = "running" /\ main' = "go"
      BY <1>11, <2>1 DEF WaitUntilGo
    <2>3. LifeCycle' /\ StartIsFirst'
      BY <1>11, <2>1, <2>2 DEF WaitUntilGo
    <2>4. InjectorsAwaited' /\ ActiveInIteration'
      BY <1>11, <2>1, <2>2 DEF WaitUntilGo
    <2>5. DoneMeansClosed' /\ LogAwaited'
      BY <1>11, <2>1, <2>2 DEF WaitUntilGo
    <2> QED
      BY <2>3, <2>4, <2>5
  <1>12. CASE MainGo
    <2>1. main' \in {"idling", "injecting", "loop"} /\ listener' = "created" /\ injected' = {}
      BY <1>12, <1>e DEF MainGo
    <2>2. LifeCycle' /\ StartIsFirst'
      BY <1>12, <2>1 DEF MainGo
    <2>3. InjectorsAwaited'
      BY <1>12, <2>1 DEF MainGo, StartInjectors
    <2>4. ActiveInIteration' /\ DoneMeansClosed' /\ LogAwaited'
      BY <1>12, <2>1 DEF MainGo
    <2> QED
      BY <2>2, <2>3, <2>4
  <1>13. CASE EndOfRounds
    BY <1>13 DEF EndOfRounds
  <1>14. CASE AwaitRequest
    BY <1>14 DEF AwaitRequest
  <1>15. CASE WakeFromWait
    BY <1>15 DEF WakeFromWait
  <1>16. CASE LeaveWait
    BY <1>16 DEF LeaveWait, AfterWait
  <1>17. CASE BeginIteration
    <2>1. main = "iterate" /\ main' = "injecting" /\ injected' = {}
      BY <1>17, <1>e DEF BeginIteration
    <2>2. UNCHANGED <<config, starterVars, pipeVars, proc, flagVars, taskVars>>
      BY <1>17 DEF BeginIteration
    <2>3. LifeCycle' /\ StartIsFirst' /\ InjectorsAwaited'
      BY <2>1, <2>2
    <2>4. ActiveInIteration' /\ DoneMeansClosed' /\ LogAwaited'
      BY <2>1, <2>2
    <2> QED
      BY <2>3, <2>4
  <1>18. CASE GatherReturns
    BY <1>18 DEF GatherReturns, GatherDone
  <1>19. CASE IdleEnds
    BY <1>19 DEF IdleEnds
  <1>20. CASE Deactivate
    <2>1. /\ main = "deactivate" /\ proc' = proc
          /\ main' = (IF config.logging THEN "awaitLog" ELSE "awaitListener")
      BY <1>20 DEF Deactivate, AfterDeactivate
    <2>2. Contains(toMininet', DONE)
      BY <1>20, <1>a, PipeAppend DEF Deactivate
    <2>3. toFaults' = Append(toFaults, SHUTDOWN) /\ isActive' = FALSE
      BY <1>20 DEF Deactivate, MessageToSelf
    <2>4. UNCHANGED <<config, starterVars, injectorVars, listener, logTask>>
      BY <1>20 DEF Deactivate
    <2>5. LifeCycle' /\ StartIsFirst' /\ InjectorsAwaited'
      BY <2>1, <2>3, <2>4, <1>c, <1>d
    <2>6. ActiveInIteration' /\ DoneMeansClosed' /\ LogAwaited'
      BY <2>1, <2>2, <2>3, <2>4
    <2> QED
      BY <2>5, <2>6
  <1>21. CASE LogTaskJoined
    BY <1>21 DEF LogTaskJoined
  <1>22. CASE ListenerJoined
    BY <1>22 DEF ListenerJoined
  <1>23. CASE TrafficReadRaises \/ GatherRaises
    <2>1. CrashController /\ main \in {"iterate", "injecting"}
      BY <1>23 DEF TrafficReadRaises, GatherRaises
    <2>2. proc = "running"
      BY <2>1, <1>d
    <2>3. ~(listener = "done") => ~(listener' = "done")
      BY <2>1 DEF CrashController, Cancelled
    <2> QED
      BY <2>1, <2>2, <2>3 DEF CrashController
  <1>24. CASE ListenerStep
    <2>1. /\ proc = "running" /\ main \notin {"off", "go", "iterate"}
          /\ listener' \in {"polling", "done"} /\ (listener' = "done" => ~isActive')
          /\ (isActive' => isActive)
      BY <1>24 DEF ListenerStep, ListenerReceivesRequests, ListenerReceivesShutdown,
                   ActiveAfterShutdown, ListenerMayRun, TaskMayRun, HoldingLoop
    <2>2. UNCHANGED <<config, starterVars, toMininet, mainVars, injectorVars, logTask>>
      BY <1>24 DEF ListenerStep, ListenerReceivesRequests, ListenerReceivesShutdown
    <2>3. LifeCycle' /\ InjectorsAwaited' /\ LogAwaited'
      BY <2>1, <2>2
    <2>4. StartIsFirst' /\ DoneMeansClosed'
      BY <2>1, <2>2
    <2>5. ActiveInIteration'
      BY <2>1, <2>2
    <2> QED
      BY <2>3, <2>4, <2>5
  <1>25. CASE LoggerStep
    BY <1>25 DEF LoggerStep, LoggerStarts, LoggerWrites, TaskMayRun
  <1>26. ASSUME NEW e \in Ends, InjectorStep(e) PROVE SafetyInvariant'
    <2>1. /\ phase[e] \in {"created", "pre", "active", "post"} /\ proc = "running"
          /\ UNCHANGED <<config, starterVars, pipeVars, mainVars, flagVars, taskVars>>
      BY <1>26 DEF InjectorStep, InjectorStarts, InjectorInjects, InjectorEjects,
                   InjectorFinishes, InjectorMoves, TaskMayRun
    <2>2. main = "injecting"
      BY <2>1
    <2>3. InjectorsAwaited'
      <3>1. phase \in [Ends -> {"idle", "created", "pre", "active", "post", "done", "raised"}]
            /\ injected \in SUBSET Ends
        BY DEF TypeOK
      <3> QED
        BY <1>26, <2>1, <2>2, <3>1
        DEF InjectorStep, InjectorStarts, InjectorInjects, InjectorEjects,
            InjectorFinishes, InjectorMoves, OrRaises
    <2> QED
      BY <2>1, <2>2, <2>3
  <1>27. CASE UNCHANGED vars
    BY <1>27 DEF vars
  <1> QED
    BY <1>1, <1>2, <1>3, <1>4, <1>5, <1>6, <1>7, <1>8, <1>9, <1>10, <1>11, <1>12, <1>13,
       <1>14, <1>15, <1>16, <1>17, <1>18, <1>19, <1>20, <1>21, <1>22, <1>23, <1>24, <1>25,
       <1>26, <1>27
    DEF Next, MininetStep, MainStep, Terminated

\* The invariant holds in every behaviour.
LEMMA SafetyInvariantHolds == Spec => [](TypeOK /\ SafetyInvariant)
  <1>1. Init => SafetyInvariant
    <2> SUFFICES ASSUME Init PROVE SafetyInvariant
      OBVIOUS
    <2>1. LifeCycle /\ StartIsFirst /\ InjectorsAwaited
      BY DEF Init, LifeCycle, StartIsFirst, InjectorsAwaited, NoInjectorBusy
    <2>2. ActiveInIteration /\ LogAwaited
      BY DEF Init, ActiveInIteration, LogAwaited, Closed
    <2>3. ~DoneVisible /\ ~Closed
      BY DEF Init, DoneVisible, StarterKnowsDone, Contains, Closed
    <2> QED
      BY <2>1, <2>2, <2>3 DEF SafetyInvariant, DoneMeansClosed
  <1>2. TypeOK /\ SafetyInvariant /\ [Next]_vars => SafetyInvariant'
    BY SafetyStep
  <1> QED
    BY <1>1, <1>2, TypeCorrect, PTL DEF Spec

\* A program that has seen is_active() turn False may take the net down: no fault is in
\* place and none will be, for any number of links, calls and configurations.
THEOREM QuietOnceDone == Spec => []QuietWhenDone
  <1>1. TypeOK /\ SafetyInvariant => QuietWhenDone
    <2> SUFFICES ASSUME TypeOK, SafetyInvariant, DoneVisible
                 PROVE  injected = {} /\ NoInjectorBusy /\ ~isActive
      BY DEF QuietWhenDone
    <2>1. Closed /\ ~isActive /\ NoInjectorBusy
      BY DEF SafetyInvariant, DoneMeansClosed, ActiveInIteration, InjectorsAwaited, Closed
    <2>2. injected = {}
      BY <2>1 DEF SafetyInvariant, InjectorsAwaited, NoInjectorBusy, TypeOK
    <2> QED
      BY <2>1, <2>2
  <1> QED
    BY <1>1, SafetyInvariantHolds, PTL

\* The controller process does not end without its starter being able to learn of it.
THEOREM StarterLearnsOfTheEnd == Spec => []DoneReachesStarter
  <1>1. SafetyInvariant => DoneReachesStarter
    BY DEF SafetyInvariant, LifeCycle, DoneMeansClosed, Closed, DoneReachesStarter
  <1> QED
    BY <1>1, SafetyInvariantHolds, PTL

\* The log file is written before the process ends, however the logger task, the
\* listener and main were interleaved.
THEOREM LogIsWritten == Spec => []LogWrittenAtExit
  <1>1. SafetyInvariant => LogWrittenAtExit
    BY DEF SafetyInvariant, LifeCycle, LogAwaited, LogWrittenAtExit
  <1> QED
    BY <1>1, SafetyInvariantHolds, PTL

\* No injector is started after the listener has seen a SHUTDOWN: between main's look
\* at is_active and its creation of the injectors nothing else can run.
THEOREM ShutdownStopsIterations == Spec => NoIterationAfterShutdown
  <1> DEFINE Kept == listener = "done" =>
                 \A e \in Ends : phase'[e] # "created" \/ phase[e] = "created"
  <1>1. TypeOK /\ SafetyInvariant /\ [Next]_vars => [Kept]_vars
    <2> SUFFICES ASSUME TypeOK, SafetyInvariant, Next, listener = "done", NEW e \in Ends
                 PROVE  phase'[e] # "created" \/ phase[e] = "created"
      OBVIOUS
    <2>1. main \notin {"go", "iterate"}
      BY DEF SafetyInvariant, LifeCycle, ActiveInIteration
    <2>2. CASE UNCHANGED phase
      BY <2>2
    <2>3. ASSUME NEW f \in Ends, InjectorStep(f) PROVE phase'[e] # "created" \/ phase[e] = "created"
      <3>1. PICK to \in {"pre", "active", "post", "done", "raised"} :
                phase' = [phase EXCEPT ![f] = to]
        BY <2>3 DEF InjectorStep, InjectorStarts, InjectorInjects, InjectorEjects,
                    InjectorFinishes, InjectorMoves, OrRaises
      <3> QED
        BY <3>1 DEF TypeOK
    <2>4. MininetStep \/ BootController \/ WaitUntilGo \/ Terminated => UNCHANGED phase
      BY DEF MininetStep, ReceiveSetup, StarterGo, StartNextRun, StarterStop, PollIsActive,
             NetStopBegins, NetStopEnds, AtExit, JoinController, BootController, WaitUntilGo,
             Terminated, vars
    <2>5. MainStep => UNCHANGED phase
      BY <2>1 DEF MainStep, MainGo, EndOfRounds, AwaitRequest, WakeFromWait, LeaveWait,
             BeginIteration, GatherReturns, IdleEnds, Deactivate, LogTaskJoined,
             ListenerJoined, TrafficReadRaises, GatherRaises, CrashController
    <2>6. ListenerStep \/ LoggerStep => UNCHANGED phase
      BY DEF ListenerStep, ListenerReceivesRequests, ListenerReceivesShutdown,
             LoggerStep, LoggerStarts, LoggerWrites
    <2> QED
      BY <2>2, <2>3, <2>4, <2>5, <2>6 DEF Next
  <1> QED
    BY <1>1, SafetyInvariantHolds, PTL DEF Spec, NoIterationAfterShutdown

(***************************************************************************)
(* Requests.  A call of start_next_run() is a message in the pipe, then    *)
(* the flag, then the iteration that main has decided to begin.            *)
(***************************************************************************)
Positions(pipe, m) == {i \in DOMAIN pipe : pipe[i] = m}
Count(pipe, m) == Cardinality(Positions(pipe, m))

\* A pipe holds a message a natural number of times.
LEMMA CountType ==
    ASSUME NEW S, NEW pipe \in Seq(S), NEW m
    PROVE  IsFiniteSet(Positions(pipe, m)) /\ Count(pipe, m) \in Nat
  <1>1. Positions(pipe, m) \in SUBSET (1..Len(pipe))
    BY DEF Positions
  <1>2. IsFiniteSet(1..Len(pipe))
    BY FS_Interval
  <1>3. IsFiniteSet(Positions(pipe, m))
    BY <1>1, <1>2, FS_Subset
  <1> QED
    BY <1>3, FS_CardinalityType DEF Count

\* A send adds one message of its kind and none of another.
LEMMA CountAppend ==
    ASSUME NEW S, NEW pipe \in Seq(S), NEW m \in S, NEW n
    PROVE  Count(Append(pipe, m), n) = Count(pipe, n) + (IF m = n THEN 1 ELSE 0)
  <1> DEFINE last == Len(pipe) + 1
  <1>1. /\ DOMAIN Append(pipe, m) = DOMAIN pipe \cup {last} /\ last \notin DOMAIN pipe
        /\ Append(pipe, m)[last] = m
        /\ \A i \in DOMAIN pipe : Append(pipe, m)[i] = pipe[i]
    OBVIOUS
  <1>2. IsFiniteSet(Positions(pipe, n)) /\ Count(pipe, n) \in Nat
    BY CountType
  <1>3. CASE m = n
    <2>1. Positions(Append(pipe, m), n) = Positions(pipe, n) \cup {last}
      BY <1>1, <1>3 DEF Positions
    <2>2. last \notin Positions(pipe, n)
      BY <1>1 DEF Positions
    <2> QED
      BY <1>2, <1>3, <2>1, <2>2, FS_AddElement DEF Count
  <1>4. CASE m # n
    <2>1. Positions(Append(pipe, m), n) = Positions(pipe, n)
      BY <1>1, <1>4 DEF Positions
    <2> QED
      BY <1>2, <1>4, <2>1 DEF Count
  <1> QED
    BY <1>3, <1>4

\* What is left when the first k messages are received: none more of any kind, and one
\* less of a kind that was among them.
LEMMA CountSuffix ==
    ASSUME NEW S, NEW pipe \in Seq(S), NEW n, NEW k \in DOMAIN pipe
    PROVE  LET rest == SubSeq(pipe, k + 1, Len(pipe))
           IN  /\ Count(rest, n) <= Count(pipe, n)
               /\ (\E i \in 1..k : pipe[i] = n) => Count(rest, n) < Count(pipe, n)
  <1> DEFINE rest == SubSeq(pipe, k + 1, Len(pipe))
             shift == [i \in Positions(rest, n) |-> i + k]
  <1>1. /\ rest \in Seq(S) /\ DOMAIN rest = 1..(Len(pipe) - k) /\ DOMAIN pipe = 1..Len(pipe)
        /\ \A i \in DOMAIN rest : rest[i] = pipe[i + k]
    OBVIOUS
  <1>2. IsFiniteSet(Positions(pipe, n)) /\ Count(pipe, n) \in Nat /\ Count(rest, n) \in Nat
    BY <1>1, CountType
  <1>3. \A i \in Positions(rest, n) : i + k \in Positions(pipe, n) /\ i \in Nat /\ i + k > k
    BY <1>1 DEF Positions
  <1>4. shift \in Injection(Positions(rest, n), Positions(pipe, n))
    BY <1>3 DEF Injection, IsInjective
  <1>5. Count(rest, n) <= Count(pipe, n)
    BY <1>2, <1>4, FS_Injection DEF Count
  <1>6. ASSUME NEW i \in 1..k, pipe[i] = n PROVE Count(rest, n) < Count(pipe, n)
    <2> DEFINE others == Positions(pipe, n) \ {i}
    <2>1. i \in Positions(pipe, n)
      BY <1>6, <1>1 DEF Positions
    <2>2. IsFiniteSet(others) /\ Cardinality(others) = Count(pipe, n) - 1
      BY <1>2, <2>1, FS_RemoveElement DEF Count
    <2>3. shift \in Injection(Positions(rest, n), others)
      BY <1>3 DEF Injection, IsInjective
    <2>4. Count(rest, n) <= Cardinality(others)
      BY <2>2, <2>3, FS_Injection DEF Count
    <2> QED
      BY <1>2, <2>2, <2>4
  <1> HIDE DEF rest
  <1> QED
    BY <1>5, <1>6 DEF rest

\* Receiving one message is receiving the first of them.
LEMMA TailIsSuffix ==
    ASSUME NEW S, NEW pipe \in Seq(S), pipe # <<>>
    PROVE  1 \in DOMAIN pipe /\ Tail(pipe) = SubSeq(pipe, 2, Len(pipe))
  OBVIOUS

\* The requests that have been made and not yet become an iteration.
InHand ==
    (IF main = "iterate" THEN 1 ELSE 0) + (IF doNextRun THEN 1 ELSE 0)
    + Count(toFaults, NEXT)
Requesting == Iterates /\ config.mode # "automatic"
RequestsCounted == Requesting => iterations + InHand <= requests

\* Receiving messages does not make requests.
LEMMA ListenerCounts ==
    ASSUME TypeOK, ListenerStep
    PROVE  /\ doNextRun' \in BOOLEAN /\ Count(toFaults', NEXT) \in Nat
           /\ (IF doNextRun' THEN 1 ELSE 0) + Count(toFaults', NEXT)
                  <= (IF doNextRun THEN 1 ELSE 0) + Count(toFaults, NEXT)
  <1> DEFINE S == {START, NEXT, SHUTDOWN}
  <1>1. toFaults \in Seq(S) /\ doNextRun \in BOOLEAN /\ Count(toFaults, NEXT) \in Nat
    BY CountType DEF TypeOK
  <1>2. CASE ListenerReceivesRequests
    <2>1. /\ doNextRun' = (doNextRun \/ \E i \in DOMAIN toFaults : IsNextRun(toFaults[i]))
          /\ toFaults' = <<>> /\ toFaults # <<>>
      BY <1>2 DEF ListenerReceivesRequests
    <2>2. Count(toFaults', NEXT) = 0
      BY <2>1, FS_EmptySet DEF Count, Positions
    <2>3. (\E i \in DOMAIN toFaults : IsNextRun(toFaults[i])) => Count(toFaults, NEXT) > 0
      <3> SUFFICES ASSUME NEW i \in DOMAIN toFaults, IsNextRun(toFaults[i])
                   PROVE  Count(toFaults, NEXT) > 0
        OBVIOUS
      <3>1. i \in Positions(toFaults, NEXT)
        BY DEF Positions, IsNextRun
      <3>2. IsFiniteSet(Positions(toFaults, NEXT))
        BY <1>1, CountType
      <3> QED
        BY <1>1, <3>1, <3>2, FS_EmptySet DEF Count
    <2> QED
      BY <1>1, <2>1, <2>2, <2>3
  <1>3. CASE ListenerReceivesShutdown
    <2>1. PICK k \in DOMAIN toFaults :
              /\ toFaults[k] = SHUTDOWN
              /\ doNextRun' = (doNextRun \/ \E i \in 1..(k - 1) : IsNextRun(toFaults[i]))
              /\ toFaults' = SubSeq(toFaults, k + 1, Len(toFaults))
      BY <1>3 DEF ListenerReceivesShutdown
    <2>2. /\ Count(toFaults', NEXT) <= Count(toFaults, NEXT)
          /\ (\E i \in 1..k : toFaults[i] = NEXT)
                 => Count(toFaults', NEXT) < Count(toFaults, NEXT)
      BY <1>1, <2>1, CountSuffix
    <2>3. (\E i \in 1..(k - 1) : IsNextRun(toFaults[i])) => \E i \in 1..k : toFaults[i] = NEXT
      BY <1>1, <2>1 DEF IsNextRun
    <2>4. toFaults' \in Seq(S)
      BY <1>1, <2>1
    <2>5. Count(toFaults', NEXT) \in Nat
      BY <2>4, CountType
    <2> QED
      BY <1>1, <2>1, <2>2, <2>3, <2>5
  <1> QED
    BY <1>2, <1>3 DEF ListenerStep

\* No step begins an iteration without a request or uses one up twice.
LEMMA RequestsStep ==
    ASSUME TypeOK, SafetyInvariant, RequestsCounted, [Next]_vars
    PROVE  RequestsCounted'
  <1> DEFINE S == {START, NEXT, SHUTDOWN}
             Queued == Count(toFaults, NEXT)
  <1> USE DEF RequestsCounted, InHand, Requesting, Iterates
  <1>a. /\ toFaults \in Seq(S) /\ doNextRun \in BOOLEAN
        /\ iterations \in Nat /\ requests \in Nat /\ Queued \in Nat
    BY BoundsAssumption, CountType DEF TypeOK
  <1>b. config' = config
    BY DEF Next, vars, MininetStep, ReceiveSetup, StarterGo, StartNextRun, StarterStop,
           PollIsActive, NetStopBegins, NetStopEnds, AtExit, JoinController, BootController,
           WaitUntilGo, MainStep, MainGo, EndOfRounds, AwaitRequest, WakeFromWait, LeaveWait,
           BeginIteration, GatherReturns, IdleEnds, Deactivate, LogTaskJoined, ListenerJoined,
           TrafficReadRaises, GatherRaises, CrashController, ListenerStep,
           ListenerReceivesRequests, ListenerReceivesShutdown, LoggerStep, LoggerStarts,
           LoggerWrites, InjectorStep, InjectorStarts, InjectorInjects, InjectorEjects,
           InjectorFinishes, InjectorMoves, Terminated
  <1>c. \A m \in S : Count(Append(toFaults, m), NEXT) = Queued + (IF m = NEXT THEN 1 ELSE 0)
    BY <1>a, CountAppend
  <1>d. START # NEXT /\ SHUTDOWN # NEXT
    BY DEF START, NEXT, SHUTDOWN
  <1>1. CASE StarterGo
    BY <1>1, <1>a, <1>b, <1>c, <1>d DEF StarterGo
  <1>2. CASE StartNextRun
    BY <1>2, <1>a, <1>b, <1>c DEF StartNextRun
  <1>3. CASE StarterStop \/ NetStopEnds \/ AtExit
    <2>1. /\ toFaults' = Append(toFaults, SHUTDOWN)
          /\ UNCHANGED <<requests, iterations, doNextRun, main>>
      BY <1>3 DEF StarterStop, NetStopEnds, AtExit
    <2>2. Count(toFaults', NEXT) = Queued
      BY <1>a, <1>c, <1>d, <2>1
    <2> QED
      BY <1>a, <1>b, <2>1, <2>2
  <1>4. CASE WaitUntilGo
    <2>1. toFaults # <<>> /\ toFaults' = SubSeq(toFaults, 2, Len(toFaults))
      BY <1>4, <1>a, TailIsSuffix DEF WaitUntilGo
    <2>2. Count(toFaults', NEXT) <= Queued
      <3>1. 1 \in DOMAIN toFaults
        BY <1>a, <2>1
      <3>2. Count(SubSeq(toFaults, 1 + 1, Len(toFaults)), NEXT) <= Count(toFaults, NEXT)
        BY <1>a, <3>1, CountSuffix
      <3> QED
        BY <2>1, <3>2
    <2>3. toFaults' \in Seq(S)
      BY <1>a, <2>1
    <2>4. Count(toFaults', NEXT) \in Nat
      BY <2>3, CountType
    <2>5. UNCHANGED <<requests, iterations, doNextRun>> /\ main' # "iterate"
      BY <1>4, <1>a DEF WaitUntilGo, SafetyInvariant, LifeCycle
    <2> QED
      BY <1>a, <1>b, <2>2, <2>4, <2>5
  <1>5. CASE LeaveWait
    <2>1. /\ main = "loop" /\ ~MustAwaitRequest /\ UNCHANGED <<requests, iterations, toFaults>>
          /\ doNextRun' = (config.mode = "automatic" /\ doNextRun)
          /\ main' = IF isActive THEN "iterate" ELSE "deactivate"
      BY <1>5 DEF LeaveWait, RequestAfterWait, AfterWait
    <2>2. CASE isActive /\ Requesting
      <3>1. doNextRun /\ ~doNextRun' /\ main # "iterate"
        BY <1>a, <2>1, <2>2 DEF MustAwaitRequest
      <3> QED
        BY <1>a, <1>b, <2>1, <3>1
    <2>3. CASE ~isActive
      <3>1. main' # "iterate" /\ (doNextRun' => doNextRun) /\ main # "iterate"
        BY <1>a, <2>1, <2>3
      <3> QED
        BY <1>a, <1>b, <2>1, <3>1
    <2> QED
      BY <1>b, <2>2, <2>3
  <1>6. CASE BeginIteration
    BY <1>6, <1>a, <1>b DEF BeginIteration
  <1>7. CASE Deactivate
    <2>1. toFaults' = Append(toFaults, SHUTDOWN) /\ main = "deactivate" /\ main' # "iterate"
          /\ UNCHANGED <<requests, iterations, doNextRun>>
      BY <1>7 DEF Deactivate, MessageToSelf, AfterDeactivate
    <2> QED
      BY <1>a, <1>b, <1>c, <1>d, <2>1
  <1>8. CASE ListenerStep
    <2>1. UNCHANGED <<requests, iterations, main>>
      BY <1>8 DEF ListenerStep, ListenerReceivesRequests, ListenerReceivesShutdown
    <2> QED
      BY <1>8, <1>a, <1>b, <2>1, ListenerCounts
  <1>9. CASE UNCHANGED <<requests, iterations, doNextRun, toFaults>>
             /\ (main' = "iterate" => main = "iterate")
    BY <1>9, <1>a, <1>b
  <1>10. \/ ReceiveSetup \/ PollIsActive \/ NetStopBegins \/ JoinController
         \/ BootController \/ LoggerStep \/ (\E e \in Ends : InjectorStep(e)) \/ UNCHANGED vars
         => UNCHANGED <<requests, iterations, doNextRun, toFaults, main>>
    BY DEF ReceiveSetup, PollIsActive, NetStopBegins, JoinController, BootController,
           LoggerStep, LoggerStarts, LoggerWrites, InjectorStep, InjectorStarts,
           InjectorInjects, InjectorEjects, InjectorFinishes, InjectorMoves, vars
  <1>11. \/ MainGo \/ EndOfRounds \/ AwaitRequest \/ WakeFromWait \/ GatherReturns \/ IdleEnds
         \/ LogTaskJoined \/ ListenerJoined \/ TrafficReadRaises \/ GatherRaises
         => UNCHANGED <<requests, iterations, doNextRun, toFaults>> /\ main' # "iterate"
    BY DEF MainGo, EndOfRounds, AwaitRequest, WakeFromWait, GatherReturns, IdleEnds,
           LogTaskJoined, ListenerJoined, TrafficReadRaises, GatherRaises, CrashController
  <1> QED
    BY <1>1, <1>2, <1>3, <1>4, <1>5, <1>6, <1>7, <1>8, <1>9, <1>10, <1>11
    DEF Next, MininetStep, MainStep, Terminated

\* In the modes that wait for requests no interleaving of calls, messages and iterations
\* begins more iterations than start_next_run() was called.
THEOREM RequestsAreNotOverdrawn == Spec => []IterationsNeedRequests
  <1>1. Init => RequestsCounted
    <2> SUFFICES ASSUME Init PROVE RequestsCounted
      OBVIOUS
    <2>1. Count(toFaults, NEXT) = 0
      BY FS_EmptySet DEF Init, Count, Positions
    <2> QED
      BY <2>1 DEF Init, RequestsCounted, InHand
  <1>2. TypeOK /\ SafetyInvariant /\ RequestsCounted /\ [Next]_vars => RequestsCounted'
    BY RequestsStep
  <1>3. TypeOK /\ RequestsCounted => IterationsNeedRequests
    <2> SUFFICES ASSUME TypeOK, RequestsCounted PROVE IterationsNeedRequests
      OBVIOUS
    <2>1. Count(toFaults, NEXT) \in Nat
      BY CountType DEF TypeOK
    <2> QED
      BY <2>1, BoundsAssumption
      DEF TypeOK, RequestsCounted, Requesting, InHand, IterationsNeedRequests
  <1> QED
    BY <1>1, <1>2, <1>3, SafetyInvariantHolds, PTL DEF Spec

(***************************************************************************)
(* That FaultController implements IterationSchedule, for every set of     *)
(* links, every number of calls and every configuration but one:           *)
(* MostUsedLink in repeating mode, whose pool of links has grown to all of *)
(* them when its rounds begin anew (MostUsedRepeating shows the failure).  *)
(***************************************************************************)
PoolGrowsOnce(c) == ~(c.controller = "MostUsedLink" /\ c.mode = "repeating")

(***************************************************************************)
(* The inductive invariant.                                                *)
(***************************************************************************)
Looping == main \in {"loop", "waiting", "iterate"}
Beginning == main \in {"off", "go"}

\* Only these controllers have the loop, and only ConfigFile injects outside of it.
MainFitsController ==
    /\ Looping => Iterates
    /\ main = "injecting" => Iterates \/ config.controller = "ConfigFile"

\* The loop variable stays in the range of the for loop, or one beyond its end.
RoundsInRange ==
    /\ ~Beginning => round >= FirstRound
    /\ Looping => round <= LastRound + 1 \/ round = FirstRound
    /\ main \in {"waiting", "iterate", "injecting"} => round <= LastRound

\* The pool has one link for each round that was begun.
PoolGrowsWithRounds ==
    config.controller = "MostUsedLink" =>
        /\ pool \in SUBSET config.links
        /\ Beginning => pool = {}
        /\ Looping => Cardinality(pool) = round - 1
        /\ main = "injecting" => Cardinality(pool) = round

\* Before main deactivates, only the listener's SHUTDOWN makes it inactive.
ActiveUntilStopped ==
    Looping \/ main \in {"injecting", "idling"} => isActive \/ listener = "done"

\* main deactivates when it was told to, or when nothing is left to do.
DeactivatedForAReason ==
    main = "deactivate" =>
        listener = "done"
        \/ (round > LastRound /\ ~(Iterates /\ config.mode = "repeating"))

RoundsInvariant ==
    /\ PoolGrowsOnce(config)
    /\ MainFitsController /\ RoundsInRange /\ PoolGrowsWithRounds
    /\ ActiveUntilStopped /\ DeactivatedForAReason

(***************************************************************************)
(* Facts about the range of the for loop.                                  *)
(***************************************************************************)
\* The bounds of the loop are numbers, and each controller has the bounds it should.
LEMMA RangeType ==
    ASSUME TypeOK
    PROVE  /\ FirstRound \in Nat \ {0} /\ LastRound \in Nat
           /\ Cardinality(config.links) \in Nat
           /\ config.controller # "RandomLink" => FirstRound = 1
           /\ Iterates => LastRound <= Cardinality(config.links)
           /\ config.controller = "ConfigFile" => LastRound = 1 /\ ~Iterates
           /\ config.controller = "LogOnly" => LastRound = 0 /\ ~Iterates
           /\ config.controller \in {"RandomLink", "MostUsedLink", "ConfigFile", "LogOnly"}
           /\ config.controller \in {"RandomLink", "MostUsedLink"} => Iterates
  <1>1. /\ config.start \in Nat \ {0} /\ config.end \in Nat
        /\ Cardinality(config.links) \in Nat
    BY ConfigType, FS_CardinalityType
  <1>2. config.controller \in {"RandomLink", "MostUsedLink", "ConfigFile", "LogOnly"}
    BY ConfigType DEF ConfigRecords, Controllers
  <1>3. /\ Smaller(config.end, Cardinality(config.links)) \in Nat
        /\ Smaller(config.end, Cardinality(config.links)) <= Cardinality(config.links)
    BY <1>1 DEF Smaller
  <1>4. Iterates => LastRound = Smaller(config.end, Cardinality(config.links))
    BY DEF LastRound, Iterates
  <1>5. config.controller = "ConfigFile" => LastRound = 1 /\ ~Iterates
    BY DEF LastRound, Iterates
  <1>6. config.controller = "LogOnly" => LastRound = 0 /\ ~Iterates
    BY DEF LastRound, Iterates
  <1>7. FirstRound \in Nat \ {0} /\ (config.controller # "RandomLink" => FirstRound = 1)
    BY <1>1 DEF FirstRound
  <1>8. config.controller \in {"RandomLink", "MostUsedLink"} => Iterates
    BY DEF Iterates
  <1> QED
    BY <1>1, <1>2, <1>3, <1>4, <1>5, <1>6, <1>7, <1>8

\* A controller does not change its configuration, so the range is fixed.
LEMMA RangeKept ==
    ASSUME config' = config
    PROVE  /\ FirstRound' = FirstRound /\ LastRound' = LastRound
           /\ Iterates' = Iterates /\ Plan' = Plan
  BY DEF FirstRound, LastRound, Iterates, Plan, Smaller

\* The links with an injector do not change while the injectors do their work.
LEMMA FaultyLinksKept ==
    ASSUME TypeOK, NEW e \in Ends, InjectorStep(e)
    PROVE  FaultyLinks' = FaultyLinks
  <1>1. PICK to \in {"pre", "active", "post", "done", "raised"} :
            phase[e] # "idle" /\ phase' = [phase EXCEPT ![e] = to]
    BY DEF InjectorStep, InjectorStarts, InjectorInjects, InjectorEjects,
           InjectorFinishes, InjectorMoves, OrRaises
  <1>2. \A f \in Ends : phase'[f] # "idle" <=> phase[f] # "idle"
    BY <1>1 DEF TypeOK
  <1>3. \A l \in Links, side \in {0, 1} : <<l, side>> \in Ends
    BY DEF Ends
  <1> QED
    BY <1>2, <1>3 DEF FaultyLinks

\* Most steps are not about the schedule.
QuietStep ==
    \/ MininetStep \/ BootController \/ LoggerStep \/ \E e \in Ends : InjectorStep(e)
    \/ UNCHANGED vars
\* The starter, the logger and the injectors leave main, its loop and its listener alone.
LEMMA QuietKeeps ==
    ASSUME TypeOK, QuietStep
    PROVE  UNCHANGED <<config, main, round, pool, isActive, listener, FaultyLinks>>
  <1>1. CASE MininetStep
    BY <1>1 DEF MininetStep, ReceiveSetup, StarterGo, StartNextRun, StarterStop, PollIsActive,
           NetStopBegins, NetStopEnds, AtExit, JoinController, FaultyLinks
  <1>2. CASE BootController \/ LoggerStep \/ UNCHANGED vars
    BY <1>2 DEF BootController, LoggerStep, LoggerStarts, LoggerWrites, vars, FaultyLinks
  <1>3. ASSUME NEW e \in Ends, InjectorStep(e)
        PROVE  UNCHANGED <<config, main, round, pool, isActive, listener, FaultyLinks>>
    <2>1. UNCHANGED <<config, main, round, pool, isActive, listener>>
      BY <1>3 DEF InjectorStep, InjectorStarts, InjectorInjects, InjectorEjects,
                  InjectorFinishes, InjectorMoves
    <2> QED
      BY <1>3, <2>1, FaultyLinksKept
  <1> QED
    BY <1>1, <1>2, <1>3 DEF QuietStep

\* The injectors of a round are started on exactly the links that were chosen.
LEMMA StartedOnChosen ==
    ASSUME NEW chosen \in SUBSET Links, StartInjectors(chosen)
    PROVE  FaultyLinks' = chosen
  <1>1. \A l \in Links, side \in {0, 1} :
            phase'[<<l, side>>] = IF l \in chosen THEN "created" ELSE "idle"
    <2> SUFFICES ASSUME NEW l \in Links, NEW side \in {0, 1}
                 PROVE  phase'[<<l, side>>] = IF l \in chosen THEN "created" ELSE "idle"
      OBVIOUS
    <2>1. <<l, side>> \in Ends /\ (<<l, side>> \in EndsOf(chosen) <=> l \in chosen)
      BY DEF Ends, EndsOf
    <2> QED
      BY <2>1 DEF StartInjectors
  <1> QED
    BY <1>1 DEF FaultyLinks

\* A round of the loop works on as many links as its number says, and in MostUsedLink
\* these are the pool, which has grown by one.
LEMMA ChosenInRound ==
    ASSUME TypeOK, RoundsInvariant, main = "iterate", NEW chosen \in Selection
    PROVE  chosen \in SUBSET config.links /\ Cardinality(chosen) = round
  <1>1. /\ Iterates /\ round <= LastRound /\ round \in Nat
        /\ IsFiniteSet(config.links) /\ LastRound <= Cardinality(config.links)
        /\ LastRound \in Nat /\ Cardinality(config.links) \in Nat
    BY RangeType, ConfigType
    DEF RoundsInvariant, MainFitsController, RoundsInRange, Looping, TypeOK
  <1>2. CASE config.controller = "RandomLink"
    BY <1>2 DEF Selection
  <1>3. CASE config.controller = "MostUsedLink"
    <2>1. /\ pool \in SUBSET config.links /\ Cardinality(pool) = round - 1
      BY <1>3 DEF RoundsInvariant, PoolGrowsWithRounds, Looping
    <2>2. IsFiniteSet(pool) /\ Cardinality(pool) # Cardinality(config.links)
      BY <1>1, <2>1, FS_Subset
    <2>3. Uninjected # {}
      BY <2>1, <2>2 DEF Uninjected
    <2>4. PICK l \in Uninjected : chosen = pool \cup {l}
      BY <1>3, <2>3 DEF Selection
    <2>5. l \in config.links /\ l \notin pool
      BY <2>4 DEF Uninjected
    <2>6. Cardinality(chosen) = Cardinality(pool) + 1
      BY <2>2, <2>4, <2>5, FS_AddElement
    <2> QED
      BY <1>1, <2>1, <2>4, <2>5, <2>6
  <1> QED
    BY <1>1, <1>2, <1>3 DEF Iterates

\* No step of either process breaks the invariant: a round is begun only within the range,
\* with a pool that has grown by one link a round, and main is inactive only when stopped.
LEMMA RoundsStep ==
    ASSUME TypeOK, SafetyInvariant, RoundsInvariant, [Next]_vars
    PROVE  RoundsInvariant'
  <1> USE DEF RoundsInvariant, MainFitsController, RoundsInRange, PoolGrowsWithRounds,
              ActiveUntilStopped, DeactivatedForAReason, PoolGrowsOnce, Looping, Beginning
  <1>a. /\ FirstRound \in Nat \ {0} /\ LastRound \in Nat /\ round \in Nat
        /\ isActive \in BOOLEAN /\ Cardinality(pool) \in Nat
    <2>1. IsFiniteSet(pool)
      BY LinksAssumption, FS_Subset DEF TypeOK
    <2> QED
      BY <2>1, RangeType, FS_CardinalityType DEF TypeOK
  <1>b. main \in {"off", "go"} => listener = "none"
    BY DEF SafetyInvariant, LifeCycle
  <1>c. config' = config => /\ FirstRound' = FirstRound /\ LastRound' = LastRound
                            /\ Iterates' = Iterates
    BY RangeKept
  <1>1. CASE QuietStep
    <2>1. UNCHANGED <<config, main, round, pool, isActive, listener>>
      BY <1>1, QuietKeeps
    <2> QED
      BY <1>a, <1>c, <2>1
  <1>2. CASE WaitUntilGo
    <2>1. /\ main = "off" /\ main' \in {"off", "go"}
          /\ UNCHANGED <<config, round, pool, isActive, listener>>
      BY <1>2 DEF WaitUntilGo, SafetyInvariant, LifeCycle
    <2> QED
      BY <1>a, <1>c, <2>1
  <1>3. CASE MainGo
    <2>1. /\ main = "go" /\ config' = config /\ pool' = pool /\ round' = FirstRound /\ isActive'
      BY <1>3 DEF MainGo
    <2>2. /\ main' \in {"idling", "injecting", "loop"}
          /\ main' = "injecting" => config.controller = "ConfigFile"
          /\ main' = "loop" => config.controller \notin {"ConfigFile", "LogOnly"}
      BY <1>3 DEF MainGo
    <2>3. /\ main' = "loop" => Iterates
          /\ main' = "injecting" => round' <= LastRound
          /\ config.controller = "MostUsedLink" => round' = 1 /\ pool' = {}
          /\ config.controller = "MostUsedLink" => main' # "injecting"
      BY <1>a, <2>1, <2>2, RangeType
    <2>4. Cardinality({}) = 0
      BY FS_EmptySet
    <2> QED
      BY <1>a, <1>c, <2>1, <2>2, <2>3, <2>4
  <1>4. CASE EndOfRounds
    <2>1. /\ main = "loop" /\ round > LastRound
          /\ UNCHANGED <<config, pool, isActive, listener>>
      BY <1>4, <1>a DEF EndOfRounds, MoreRounds
    <2>2. CASE config.mode = "repeating" /\ isActive
      <3>1. round' = FirstRound /\ main' = "loop"
        BY <1>4, <2>1, <2>2 DEF EndOfRounds
      <3>2. config.controller # "MostUsedLink"
        BY <2>2
      <3> QED
        BY <1>a, <1>c, <2>1, <3>1, <3>2
    <2>3. CASE ~(config.mode = "repeating" /\ isActive)
      <3>1. round' = round /\ main' = "deactivate"
        BY <1>4, <2>3 DEF EndOfRounds
      <3> QED
        BY <1>a, <1>c, <2>1, <2>3, <3>1
    <2> QED
      BY <2>2, <2>3
  <1>5. CASE AwaitRequest \/ WakeFromWait
    <2>1. /\ UNCHANGED <<config, round, pool, isActive, listener>>
          /\ main \in {"loop", "waiting"} /\ main' \in {"loop", "waiting"}
          /\ main' = "waiting" => round <= LastRound
      BY <1>5 DEF AwaitRequest, WakeFromWait, MoreRounds
    <2> QED
      BY <1>a, <1>c, <2>1
  <1>6. CASE LeaveWait
    <2>1. /\ UNCHANGED <<config, round, pool, isActive, listener>>
          /\ main = "loop" /\ round <= LastRound
          /\ main' = IF isActive THEN "iterate" ELSE "deactivate"
      BY <1>6 DEF LeaveWait, MoreRounds, AfterWait
    <2> QED
      BY <1>a, <1>c, <2>1
  <1>7. CASE BeginIteration
    <2>1. /\ UNCHANGED <<config, round, isActive, listener>>
          /\ main = "iterate" /\ main' = "injecting"
      BY <1>7 DEF BeginIteration
    <2>2. config.controller = "MostUsedLink" => pool' \in Selection
      BY <1>7 DEF BeginIteration
    <2>3. config.controller = "MostUsedLink" =>
              pool' \in SUBSET config.links /\ Cardinality(pool') = round
      BY <2>1, <2>2, ChosenInRound
    <2> QED
      BY <1>a, <1>c, <2>1, <2>3
  <1>8. CASE GatherReturns
    <2>1. /\ UNCHANGED <<config, pool, isActive, listener>>
          /\ main = "injecting" /\ round' = round + 1
          /\ main' = IF Iterates THEN "loop" ELSE "deactivate"
      BY <1>8 DEF GatherReturns
    <2>2. ~Iterates => LastRound = 1 /\ FirstRound = 1 /\ config.controller # "MostUsedLink"
      BY <2>1, RangeType
    <2> QED
      BY <1>a, <1>c, <2>1, <2>2
  <1>9. CASE IdleEnds
    <2>1. /\ UNCHANGED <<config, round, pool, isActive, listener>>
          /\ main = "idling" /\ ~isActive /\ main' = "deactivate"
      BY <1>9 DEF IdleEnds
    <2> QED
      BY <1>a, <1>c, <2>1
  <1>10. CASE Deactivate \/ LogTaskJoined \/ ListenerJoined
    <2>1. /\ UNCHANGED <<config, round, pool, listener>>
          /\ main \in {"deactivate", "awaitLog", "awaitListener"}
          /\ main' \in {"awaitLog", "awaitListener", "finished"}
      BY <1>10 DEF Deactivate, AfterDeactivate, LogTaskJoined, ListenerJoined
    <2> QED
      BY <1>a, <1>c, <2>1
  <1>11. CASE TrafficReadRaises \/ GatherRaises
    <2>1. /\ UNCHANGED <<config, round, pool>> /\ main' = "crashed"
          /\ main \in {"iterate", "injecting"}
      BY <1>11 DEF TrafficReadRaises, GatherRaises, CrashController
    <2> QED
      BY <1>a, <1>c, <2>1
  <1>12. CASE ListenerStep
    <2>1. UNCHANGED <<config, main, round, pool>>
      BY <1>12 DEF ListenerStep, ListenerReceivesRequests, ListenerReceivesShutdown
    <2>2. listener' = "done" \/ (isActive' = isActive /\ listener # "done")
      BY <1>12 DEF ListenerStep, ListenerReceivesRequests, ListenerReceivesShutdown,
                   ListenerMayRun
    <2>3. listener # "done"
      BY <1>12 DEF ListenerStep, ListenerReceivesRequests, ListenerReceivesShutdown,
                   ListenerMayRun
    <2> QED
      BY <1>a, <1>c, <2>1, <2>2, <2>3
  <1> QED
    BY <1>1, <1>2, <1>3, <1>4, <1>5, <1>6, <1>7, <1>8, <1>9, <1>10, <1>11, <1>12
    DEF Next, MainStep, QuietStep, Terminated

(***************************************************************************)
(* The refinement.                                                         *)
(***************************************************************************)
Targets == IF main = "injecting" THEN FaultyLinks ELSE {}
Stopped == listener = "done"

\* A step that leaves what the mapping looks at alone is a stutter of the schedule.
LEMMA StutterOfSchedule ==
    ASSUME config' = config, Stage' = Stage, Size' = Size, Targets' = Targets,
           Stopped' = Stopped
    PROVE  UNCHANGED Schedule!vars
  <1>1. Plan' = Plan
    BY RangeKept
  <1> QED
    BY <1>1 DEF Schedule!vars, Targets, Stopped

\* The configuration amounts to a plan the schedule knows.
LEMMA PlanType ==
    ASSUME TypeOK
    PROVE  /\ Plan \in Schedule!Plans
           /\ Plan.links = config.links /\ Plan.first = FirstRound /\ Plan.last = LastRound
           /\ Plan.repeating <=> Iterates /\ config.mode = "repeating"
           /\ Plan.whole <=> config.controller = "ConfigFile"
  <1>1. FirstRound \in Nat \ {0} /\ LastRound \in Nat /\ config.links \in SUBSET Links
    BY RangeType, ConfigType
  <1>2. (Iterates /\ config.mode = "repeating") \in BOOLEAN
        /\ (config.controller = "ConfigFile") \in BOOLEAN
    BY DEF Iterates
  <1> QED
    BY <1>1, <1>2 DEF Plan, Schedule!Plans

\* The schedule counts as the controller does.
LEMMA SameCardinality ==
    ASSUME NEW S
    PROVE  Schedule!Cardinality(S) = Cardinality(S)
  BY DEF Schedule!Cardinality, Cardinality

\* Every step of the controller is one step of the schedule, or none.
LEMMA ScheduleStep ==
    ASSUME TypeOK, TypeOK', SafetyInvariant, RoundsInvariant, [Next]_vars
    PROVE  [Schedule!Next]_Schedule!vars
  <1> DEFINE SNext == [Schedule!Next]_Schedule!vars
  <1>a. /\ FirstRound \in Nat \ {0} /\ LastRound \in Nat /\ round \in Nat /\ round' \in Nat
        /\ isActive \in BOOLEAN /\ (main = "iterate" => isActive)
        /\ listener = "done" => ~isActive
        /\ main \in {"off", "go"} => listener = "none"
    BY RangeType DEF TypeOK, SafetyInvariant, ActiveInIteration, LifeCycle
  <1>b. config' = config =>
            /\ FirstRound' = FirstRound /\ LastRound' = LastRound
            /\ Iterates' = Iterates /\ Plan' = Plan
    BY RangeKept
  <1>c. /\ main = "injecting" => Stage = "injecting" /\ Size = round /\ Targets = FaultyLinks
        /\ Beginning => Stage = "idle" /\ Size = FirstRound - 1 /\ Targets = {}
        /\ Looping \/ main \in {"idling", "deactivate"} =>
               Stage = "idle" /\ Size = round - 1 /\ Targets = {}
        /\ Closed => Stage = "over" /\ Size = round - 1 /\ Targets = {}
        /\ main = "crashed" => Stage = "aborted" /\ Size = round - 1 /\ Targets = {}
    BY DEF Stage, Size, Targets, Beginning, Looping, Closed
  <1>d. /\ main' = "injecting" => Stage' = "injecting" /\ Size' = round' /\ Targets' = FaultyLinks'
        /\ Beginning' => Stage' = "idle" /\ Size' = FirstRound' - 1 /\ Targets' = {}
        /\ Looping' \/ main' \in {"idling", "deactivate"} =>
               Stage' = "idle" /\ Size' = round' - 1 /\ Targets' = {}
        /\ Closed' => Stage' = "over" /\ Size' = round' - 1 /\ Targets' = {}
        /\ main' = "crashed" => Stage' = "aborted" /\ Size' = round' - 1 /\ Targets' = {}
    BY DEF Stage, Size, Targets, Beginning, Looping, Closed
  <1>1. CASE QuietStep
    <2>1. UNCHANGED <<config, main, round, pool, isActive, listener, FaultyLinks>>
      BY <1>1, QuietKeeps
    <2> QED
      BY <1>b, <2>1, StutterOfSchedule DEF Stage, Size, Targets, Stopped
  <1>2. CASE WaitUntilGo
    <2>1. Beginning /\ Beginning' /\ UNCHANGED <<config, round, listener>>
      BY <1>2 DEF WaitUntilGo, SafetyInvariant, LifeCycle, Beginning
    <2> QED
      BY <1>b, <1>c, <1>d, <2>1, StutterOfSchedule DEF Stopped
  <1>3. CASE MainGo
    <2>1. main = "go" /\ config' = config /\ listener' # "done" /\ round' = FirstRound
      BY <1>3 DEF MainGo
    <2>2. main' = CASE config.controller = "LogOnly" -> "idling"
                    [] config.controller = "ConfigFile" -> "injecting"
                    [] OTHER -> "loop"
      BY <1>3 DEF MainGo
    <2>3. CASE config.controller = "ConfigFile"
      <3>1. main' = "injecting" /\ StartInjectors(config.links)
        BY <1>3, <2>2, <2>3 DEF MainGo
      <3>2. FaultyLinks' = config.links
        BY <3>1, ConfigType, StartedOnChosen
      <3>3. FirstRound = 1 /\ LastRound = 1
        BY <2>3, RangeType
      <3>4. /\ Stage = "idle" /\ Stage' = "injecting" /\ Size = 0 /\ Size' = 1
            /\ Targets' = config.links /\ ~Stopped /\ ~Stopped'
        BY <1>a, <1>b, <1>c, <1>d, <2>1, <3>1, <3>2, <3>3 DEF Beginning, Stopped
      <3>5. /\ Plan' = Plan /\ Plan.links = config.links /\ Plan.last = 1 /\ Plan.whole
        BY <1>b, <2>1, <2>3, <3>3, PlanType
      <3>6. Schedule!BeginRound
        BY <3>4, <3>5 DEF Schedule!BeginRound, Schedule!Promised, Targets, Stopped
      <3> QED
        BY <3>6 DEF Schedule!Next
    <2>4. CASE config.controller # "ConfigFile"
      <3>1. main' \in {"idling", "loop"}
        BY <2>2, <2>4
      <3> QED
        BY <1>a, <1>b, <1>c, <1>d, <2>1, <3>1, StutterOfSchedule
        DEF Beginning, Looping, Stopped
    <2> QED
      BY <2>3, <2>4
  <1>4. CASE EndOfRounds
    <2>1. /\ main = "loop" /\ round > LastRound /\ UNCHANGED <<config, isActive, listener>>
      BY <1>4, <1>a DEF EndOfRounds, MoreRounds
    <2>2. CASE config.mode = "repeating" /\ isActive
      <3>1. round' = FirstRound /\ main' = "loop"
        BY <1>4, <2>1, <2>2 DEF EndOfRounds
      <3>2. /\ Stage = "idle" /\ Stage' = "idle" /\ Size = round - 1 /\ Size' = FirstRound - 1
            /\ Targets = {} /\ Targets' = {} /\ ~Stopped /\ ~Stopped'
        BY <1>a, <1>b, <1>c, <1>d, <2>1, <2>2, <3>1 DEF Looping, Stopped
      <3>3. round = LastRound + 1 \/ round = FirstRound
        BY <1>a, <2>1 DEF RoundsInvariant, RoundsInRange, Looping
      <3>4. CASE round = FirstRound
        BY <2>1, <3>2, <3>4, StutterOfSchedule DEF Stopped
      <3>5. CASE round = LastRound + 1
        <4>1. /\ Plan' = Plan /\ Plan.first = FirstRound /\ Plan.last = LastRound
              /\ Plan.repeating
          BY <1>b, <2>1, <2>2, PlanType DEF RoundsInvariant, MainFitsController, Looping
        <4>2. Schedule!BeginAnew
          BY <1>a, <3>2, <3>5, <4>1 DEF Schedule!BeginAnew, Targets, Stopped
        <4> QED
          BY <4>2 DEF Schedule!Next
      <3> QED
        BY <3>3, <3>4, <3>5
    <2>3. CASE ~(config.mode = "repeating" /\ isActive)
      <3>1. round' = round /\ main' = "deactivate"
        BY <1>4, <2>3 DEF EndOfRounds
      <3> QED
        BY <1>a, <1>c, <1>d, <2>1, <3>1, StutterOfSchedule DEF Looping, Stopped
    <2> QED
      BY <2>2, <2>3
  <1>5. CASE AwaitRequest \/ WakeFromWait \/ LeaveWait \/ IdleEnds
    <2>1. /\ UNCHANGED <<config, round, listener>>
          /\ main \in {"loop", "waiting", "idling"}
          /\ main' \in {"loop", "waiting", "iterate", "deactivate"}
      BY <1>5 DEF AwaitRequest, WakeFromWait, LeaveWait, IdleEnds, AfterWait
    <2> QED
      BY <1>a, <1>c, <1>d, <2>1, StutterOfSchedule DEF Looping, Stopped
  <1>6. CASE BeginIteration
    <2>1. PICK chosen \in Selection : StartInjectors(chosen)
      BY <1>6 DEF BeginIteration
    <2>2. /\ main = "iterate" /\ main' = "injecting"
          /\ UNCHANGED <<config, round, isActive, listener>>
      BY <1>6 DEF BeginIteration
    <2>3. chosen \in SUBSET config.links /\ Cardinality(chosen) = round
      BY <2>2, ChosenInRound
    <2>4. FaultyLinks' = chosen
      BY <2>1, <2>3, ConfigType, StartedOnChosen
    <2>5. round <= LastRound /\ Iterates
      BY <2>2 DEF RoundsInvariant, RoundsInRange, MainFitsController, Looping
    <2>6. /\ Stage = "idle" /\ Stage' = "injecting" /\ Size = round - 1 /\ Size' = round
          /\ Targets' = chosen /\ ~Stopped /\ ~Stopped'
      BY <1>a, <1>c, <1>d, <2>2, <2>4 DEF Looping, Stopped
    <2>7. /\ Plan' = Plan /\ Plan.links = config.links /\ Plan.last = LastRound /\ ~Plan.whole
      <3>1. config.controller # "ConfigFile"
        BY <2>5, RangeType
      <3>2. Plan' = Plan
        BY <2>2, RangeKept
      <3>3. Plan.links = config.links /\ Plan.last = LastRound /\ ~Plan.whole
        BY <3>1, PlanType
      <3> QED
        BY <3>2, <3>3
    <2>8. Schedule!BeginRound
      <3>1. /\ Size < Plan.last /\ Size' = Size + 1
            /\ Targets' \in SUBSET Plan.links
            /\ Cardinality(Targets') = round
        BY <1>a, <2>3, <2>5, <2>6, <2>7
      <3>2. Schedule!Cardinality(Targets') = round
        BY <3>1, SameCardinality
      <3>3. Schedule!Promised(Size') = round
        BY <2>6, <2>7 DEF Schedule!Promised
      <3> QED
        BY <2>6, <2>7, <3>1, <3>2, <3>3 DEF Schedule!BeginRound, Targets, Stopped
    <2> QED
      BY <2>8 DEF Schedule!Next
  <1>7. CASE GatherReturns
    <2>1. /\ main = "injecting" /\ main' \in {"loop", "deactivate"} /\ round' = round + 1
          /\ UNCHANGED <<config, listener>>
      BY <1>7 DEF GatherReturns
    <2>2. /\ Stage = "injecting" /\ Stage' = "idle" /\ Size' = Size /\ Targets' = {}
          /\ Plan' = Plan /\ Stopped' = Stopped
      BY <1>a, <1>b, <1>c, <1>d, <2>1 DEF Looping, Stopped
    <2>3. Schedule!EndRound
      BY <2>2 DEF Schedule!EndRound, Targets, Stopped
    <2> QED
      BY <2>3 DEF Schedule!Next
  <1>8. CASE Deactivate
    <2>1. /\ main = "deactivate" /\ Closed' /\ UNCHANGED <<config, round, listener>>
      BY <1>8 DEF Deactivate, AfterDeactivate, Closed
    <2>2. /\ Stage = "idle" /\ Stage' = "over" /\ Size = round - 1 /\ Size' = Size
          /\ Targets' = Targets /\ Plan' = Plan /\ Stopped' = Stopped
      BY <1>a, <1>b, <1>c, <1>d, <2>1 DEF Stopped
    <2>3. Plan.last = LastRound /\ (Plan.repeating <=> Iterates /\ config.mode = "repeating")
      BY PlanType
    <2>4. Stopped \/ (Size >= Plan.last /\ ~Plan.repeating)
      <3>1. Stopped \/ (round > LastRound /\ ~(Iterates /\ config.mode = "repeating"))
        BY <2>1 DEF RoundsInvariant, DeactivatedForAReason, Stopped
      <3>2. round > LastRound => Size >= Plan.last
        BY <1>a, <2>2, <2>3
      <3> QED
        BY <2>3, <3>1, <3>2
    <2>5. Schedule!Finish
      BY <2>2, <2>4 DEF Schedule!Finish, Targets, Stopped
    <2> QED
      BY <2>5 DEF Schedule!Next
  <1>9. CASE LogTaskJoined \/ ListenerJoined
    <2>1. Closed /\ Closed' /\ UNCHANGED <<config, round, listener>>
      BY <1>9 DEF LogTaskJoined, ListenerJoined, Closed
    <2> QED
      BY <1>c, <1>d, <2>1, StutterOfSchedule DEF Stopped
  <1>10. CASE TrafficReadRaises \/ GatherRaises
    <2>1. /\ main \in {"iterate", "injecting"} /\ main' = "crashed"
          /\ UNCHANGED <<config, round>> /\ Stopped' = Stopped
      BY <1>10 DEF TrafficReadRaises, GatherRaises, CrashController, Cancelled, Stopped
    <2>2. round >= FirstRound
      BY <2>1 DEF RoundsInvariant, RoundsInRange, Beginning
    <2>3. /\ Stage \in {"idle", "injecting"} /\ Stage' = "aborted" /\ Targets' = {}
          /\ Size' \in Nat /\ Plan' = Plan
      BY <1>a, <1>b, <1>c, <1>d, <2>1, <2>2 DEF Looping
    <2>4. Schedule!Abort
      BY <2>1, <2>3 DEF Schedule!Abort, Targets, Stopped
    <2> QED
      BY <2>4 DEF Schedule!Next
  <1>11. CASE ListenerStep
    <2>1. UNCHANGED <<config, main, round, phase>> /\ listener # "done"
      BY <1>11 DEF ListenerStep, ListenerReceivesRequests, ListenerReceivesShutdown,
                   ListenerMayRun
    <2>2. Stage' = Stage /\ Size' = Size /\ Targets' = Targets /\ Plan' = Plan
      BY <1>b, <2>1 DEF Stage, Size, Targets, FaultyLinks
    <2>3. CASE Stopped'
      <3>1. Schedule!Stop
        BY <2>1, <2>2, <2>3 DEF Schedule!Stop, Targets, Stopped
      <3> QED
        BY <3>1 DEF Schedule!Next
    <2>4. CASE ~Stopped'
      BY <2>1, <2>2, <2>4, StutterOfSchedule DEF Stopped
    <2> QED
      BY <2>3, <2>4
  <1> QED
    BY <1>1, <1>2, <1>3, <1>4, <1>5, <1>6, <1>7, <1>8, <1>9, <1>10, <1>11
    DEF Next, MainStep, QuietStep, Terminated

\* The controller keeps the promises of its documents: rounds of the promised sizes one
\* after the other, anew only in repeating mode, none after a stop, and an end only when
\* told to stop or when nothing is left to do.
THEOREM ControllerKeepsItsSchedule ==
    ASSUME \A c \in Configs : PoolGrowsOnce(c)
    PROVE  Spec => ImplementsSchedule
  <1>1. Init => RoundsInvariant
    BY DEF Init, RoundsInvariant, MainFitsController, RoundsInRange, PoolGrowsWithRounds,
           ActiveUntilStopped, DeactivatedForAReason, Looping, Beginning
  <1>2. TypeOK /\ SafetyInvariant /\ RoundsInvariant /\ [Next]_vars => RoundsInvariant'
    BY RoundsStep
  <1>3. Spec => []RoundsInvariant
    BY <1>1, <1>2, SafetyInvariantHolds, PTL DEF Spec
  <1>4. TypeOK /\ Init => Schedule!Init
    <2> SUFFICES ASSUME TypeOK, Init PROVE Schedule!Init
      OBVIOUS
    <2>1. /\ Stage = "idle" /\ Size = FirstRound - 1 /\ Targets = {} /\ ~Stopped
      BY DEF Init, Stage, Size, Targets, Stopped
    <2> QED
      BY <2>1, PlanType DEF Schedule!Init, Targets, Stopped
  <1>5. TypeOK /\ TypeOK' /\ SafetyInvariant /\ RoundsInvariant /\ [Next]_vars
            => [Schedule!Next]_Schedule!vars
    BY ScheduleStep
  <1> QED
    BY <1>3, <1>4, <1>5, SafetyInvariantHolds, PTL DEF Spec, ImplementsSchedule, Schedule!Spec

=============================================================================
