--------------------------- MODULE FaultController ---------------------------
(***************************************************************************)
(* The fault controller of Faultynet: the starter, which lives in the      *)
(* Mininet process, and the controller, an asyncio program in a process of *)
(* its own (mininet/fault_controllers/BaseFaultController.py).  They talk  *)
(* over two pipes.  Inside the controller process three kinds of tasks     *)
(* share one event loop: main (the go() coroutine of the concrete          *)
(* controller), the pipe listener and the logger, and one task per         *)
(* injector.                                                               *)
(*                                                                         *)
(* One action is the code a task runs between two suspension points.  Main *)
(* needs several actions for some of its stretches; while main is in one   *)
(* of the HoldingLoop states it has not suspended, so no other task of the *)
(* process may move, but the Mininet process runs in parallel.             *)
(***************************************************************************)
EXTENDS Naturals, Sequences, FiniteSets

CONSTANTS
    Links,        \* links of the net that no blacklisted node touches
    Configs,      \* the configurations the starter may read
    MaxRequests,  \* bound: calls of start_next_run()
    MaxStops      \* bound: calls of stop() other than the one in net.stop()

Controllers == {"ConfigFile", "RandomLink", "MostUsedLink", "LogOnly"}
Modes == {"automatic", "manual", "repeating"}
Times == {"none", "pre", "injection", "post"}

(***************************************************************************)
(* What a controller keeps of its yml file.  "omits" names the first of    *)
(* the three times of a fault that the file leaves out.                    *)
(***************************************************************************)
ConfigRecords ==
    [controller : Controllers, mode : Modes, logging : BOOLEAN,
     links : SUBSET Links, start : Nat \ {0}, end : Nat, omits : Times]

ASSUME LinksAssumption == IsFiniteSet(Links)
ASSUME ConfigsAssumption == Configs \subseteq ConfigRecords
ASSUME BoundsAssumption == MaxRequests \in Nat /\ MaxStops \in Nat

VARIABLES
    config,        \* the configuration the controller was made with
    mininet,       \* where the Mininet process is
    network,       \* the emulated net: up, being torn down by net.stop(), down
    faultsActive,  \* BaseFaultControllerStarter.faults_are_active
    requests,      \* calls of start_next_run() so far
    stops,         \* calls of stop() so far
    toFaults,      \* the pipe from Mininet to the controller
    toMininet,     \* the pipe from the controller to Mininet
    proc,          \* life cycle of the controller process
    main,          \* where the go() coroutine is
    isActive,      \* BaseFaultController.is_active
    doNextRun,     \* do_next_run
    round,         \* number_of_links_to_inject, the loop variable
    pool,          \* links_to_inject of MostUsedLinkFaultController
    iterations,    \* history: iterations begun
    phase,         \* where each injector task is
    injected,      \* the interfaces injected and not ejected since
    listener,      \* the pipe listener task
    logTask,       \* the logger task
    loggerActive   \* FaultLogger.active

starterVars == <<mininet, network, faultsActive, requests, stops>>
pipeVars == <<toFaults, toMininet>>
mainVars == <<proc, main, round, pool, iterations>>
flagVars == <<isActive, doNextRun>>
injectorVars == <<phase, injected>>
taskVars == <<listener, logTask, loggerActive>>
vars == <<config, starterVars, pipeVars, mainVars, flagVars, injectorVars, taskVars>>

START == "m_faultinjector_go"
NEXT == "m_faultinjector_next"
SHUTDOWN == "m_write_logs"
READY == "m_faultinjector_ready"
DONE == "m_faultinjector_done"

\* Each link gets two injectors, one for the interface at each of its ends.
Ends == Links \X {0, 1}
EndsOf(links) == links \X {0, 1}

Contains(pipe, message) == \E i \in DOMAIN pipe : pipe[i] = message

-----------------------------------------------------------------------------
(* Helpers of the iteration loop *)

Smaller(a, b) == IF a < b THEN a ELSE b
Iterates == config.controller \in {"RandomLink", "MostUsedLink"}

\* The range of the for loop.  ConfigFile counts as one round, LogOnly as none.
FirstRound == IF config.controller = "RandomLink" THEN config.start ELSE 1
LastRound ==
    CASE Iterates -> Smaller(config.end, Cardinality(config.links))
      [] config.controller = "ConfigFile" -> 1
      [] OTHER -> 0

\* The constructor of these two controllers computes int(None) without it.
SetupRaises ==
    Iterates /\ config.omits = "injection"

\* random.sample(), or the pool grown by one link not in it while there is one.
Uninjected == config.links \ pool
SelectionWithReplacement ==  \* mutant: random.choices() for random.sample()
    IF config.controller = "RandomLink"
    THEN {s \in SUBSET config.links : s # {} /\ Cardinality(s) <= round}
    ELSE IF Uninjected = {} THEN {pool} ELSE {pool \cup {l} : l \in Uninjected}
Selection ==
    IF config.controller = "RandomLink"
    THEN {s \in SUBSET config.links : Cardinality(s) = round}
    ELSE IF Uninjected = {} THEN {pool} ELSE {pool \cup {l} : l \in Uninjected}

\* Only MostUsedLink reads the interfaces, and only those it has not injected.
ReadsTraffic == config.controller = "MostUsedLink" /\ Uninjected # {}

StartInjectors(links) ==
    phase' = [e \in Ends |-> IF e \in EndsOf(links) THEN "created" ELSE "idle"]

\* gather() of no coroutine at all is a future that is already done.
GatherIsEmpty == main = "injecting" /\ \A e \in Ends : phase[e] = "idle"
HoldingLoop == main \in {"go", "loop", "iterate", "deactivate"} \/ GatherIsEmpty
TaskMayRun == proc = "running" /\ ~HoldingLoop
GatherNotAwaited == TRUE  \* mutant
GatherDone == \A e \in Ends : phase[e] \in {"idle", "done"}

-----------------------------------------------------------------------------
Init ==
    /\ config \in Configs
    /\ mininet = "constructing" /\ network = "up"
    /\ faultsActive = FALSE
    /\ requests = 0 /\ stops = 0
    /\ toFaults = <<>> /\ toMininet = <<>>
    /\ proc = "booting" /\ main = "off"
    /\ isActive = FALSE /\ doNextRun = FALSE
    /\ round = 0 /\ pool = {} /\ iterations = 0
    /\ phase = [e \in Ends |-> "idle"] /\ injected = {}
    /\ listener = "none" /\ logTask = "none" /\ loggerActive = FALSE

-----------------------------------------------------------------------------
(* The Mininet process *)

\* The starter's constructor blocks until the controller has sent anything.
ReceiveSetup ==
    /\ mininet = "constructing"
    /\ toMininet # <<>>
    /\ toMininet' = Tail(toMininet)
    /\ mininet' = "constructed"
    /\ UNCHANGED <<config, network, faultsActive, requests, stops, toFaults,
                   mainVars, flagVars, injectorVars, taskVars>>

StarterGo ==
    /\ mininet = "constructed"
    /\ mininet' = "running"
    /\ faultsActive' = TRUE
    /\ toFaults' = Append(toFaults, START)
    /\ UNCHANGED <<config, network, requests, stops, toMininet,
                   mainVars, flagVars, injectorVars, taskVars>>

\* A program that drives the net may call the starter between two of its steps.
UserMayCall == mininet = "running" /\ network # "stopping"

StartNextRun ==
    /\ UserMayCall
    /\ requests < MaxRequests
    /\ requests' = requests + 1
    /\ toFaults' = Append(toFaults, NEXT)
    /\ UNCHANGED <<config, mininet, network, faultsActive, stops, toMininet,
                   mainVars, flagVars, injectorVars, taskVars>>

StarterStop ==
    /\ UserMayCall
    /\ stops < MaxStops
    /\ stops' = stops + 1
    /\ toFaults' = Append(toFaults, SHUTDOWN)
    /\ UNCHANGED <<config, mininet, network, faultsActive, requests, toMininet,
                   mainVars, flagVars, injectorVars, taskVars>>

AlwaysActive(answer) == TRUE  \* mutant: DONE is not told from other messages
ActiveAfter(answer) == answer # DONE

\* is_active() changes something only when it finds a message to consume.
PollIsActive ==
    /\ UserMayCall
    /\ faultsActive
    /\ toMininet # <<>>
    /\ toMininet' = Tail(toMininet)
    /\ faultsActive' = ActiveAfter(Head(toMininet))
    /\ UNCHANGED <<config, mininet, network, requests, stops, toFaults,
                   mainVars, flagVars, injectorVars, taskVars>>

\* net.stop() stops links, switches and hosts first, the fault controller last.
NetStopBegins ==
    /\ mininet = "running" /\ network = "up"
    /\ network' = "stopping"
    /\ UNCHANGED <<config, mininet, faultsActive, requests, stops, pipeVars,
                   mainVars, flagVars, injectorVars, taskVars>>

NetStopEnds ==
    /\ network = "stopping"
    /\ network' = "down"
    /\ toFaults' = Append(toFaults, SHUTDOWN)
    /\ UNCHANGED <<config, mininet, faultsActive, requests, stops, toMininet,
                   mainVars, flagVars, injectorVars, taskVars>>

\* The atexit hook of go() runs, then multiprocessing joins its child.
AtExit ==
    /\ UserMayCall
    /\ mininet' = "exiting"
    /\ toFaults' = Append(toFaults, SHUTDOWN)
    /\ UNCHANGED <<config, network, faultsActive, requests, stops, toMininet,
                   mainVars, flagVars, injectorVars, taskVars>>

JoinController ==
    /\ mininet = "exiting"
    /\ proc \in {"exited", "crashed"}
    /\ mininet' = "gone"
    /\ UNCHANGED <<config, network, faultsActive, requests, stops, pipeVars,
                   mainVars, flagVars, injectorVars, taskVars>>

-----------------------------------------------------------------------------
(* The controller process: start-up *)

BootController ==
    /\ proc = "booting"
    /\ IF SetupRaises
       THEN proc' = "crashed" /\ UNCHANGED toMininet
       ELSE proc' = "waiting" /\ toMininet' = Append(toMininet, READY)
    /\ UNCHANGED <<config, starterVars, toFaults, main, round, pool, iterations,
                   flagVars, injectorVars, taskVars>>

\* One receive only: any first message other than START ends the process.
WaitUntilGo ==
    /\ proc = "waiting"
    /\ toFaults # <<>>
    /\ toFaults' = Tail(toFaults)
    /\ IF Head(toFaults) = START
       THEN proc' = "running" /\ main' = "go"
       ELSE proc' = "exited" /\ UNCHANGED main
    /\ UNCHANGED <<config, starterVars, toMininet, round, pool, iterations,
                   flagVars, injectorVars, taskVars>>

-----------------------------------------------------------------------------
(* The main task *)

\* super().go(), and the controller's own code up to its first decision.
MainGo ==
    /\ main = "go"
    /\ isActive' = TRUE
    /\ logTask' = IF config.logging THEN "created" ELSE "none"
    /\ listener' = "created"
    /\ round' = FirstRound
    /\ main' = CASE config.controller = "LogOnly" -> "idling"
                 [] config.controller = "ConfigFile" -> "injecting"
                 [] OTHER -> "loop"
    /\ IF config.controller = "ConfigFile"
       THEN StartInjectors(config.links)
       ELSE UNCHANGED phase
    /\ UNCHANGED <<config, starterVars, pipeVars, proc, pool, iterations, doNextRun,
                   injected, loggerActive>>

MoreRoundsExclusive == round < LastRound  \* mutant: range(start, end)
MoreRounds == round <= LastRound

MustAwaitEvenIfStopped == config.mode # "automatic" /\ ~doNextRun  \* mutant
MustAwaitRequest == config.mode # "automatic" /\ ~doNextRun /\ isActive

\* The for loop ran out: repeating mode starts it again, the others leave it.
EndOfRounds ==
    /\ main = "loop" /\ ~MoreRounds
    /\ IF config.mode = "repeating" /\ isActive
       THEN round' = FirstRound /\ UNCHANGED main
       ELSE main' = "deactivate" /\ UNCHANGED round
    /\ UNCHANGED <<config, starterVars, pipeVars, proc, pool, iterations,
                   flagVars, injectorVars, taskVars>>

\* _wait_for_next_run() suspends in sleep(0) until there is a reason to go on.
AwaitRequest ==
    /\ main = "loop" /\ MoreRounds
    /\ MustAwaitRequest
    /\ main' = "waiting"
    /\ UNCHANGED <<config, starterVars, pipeVars, proc, round, pool, iterations,
                   flagVars, injectorVars, taskVars>>

WakeFromWait ==
    /\ main = "waiting"
    /\ ~MustAwaitRequest
    /\ main' = "loop"
    /\ UNCHANGED <<config, starterVars, pipeVars, proc, round, pool, iterations,
                   flagVars, injectorVars, taskVars>>

AfterWaitUnchecked == "iterate"  \* mutant: no check of is_active
AfterWait == IF isActive THEN "iterate" ELSE "deactivate"

RequestKept == doNextRun  \* mutant: the flag is not reset
RequestAfterWait == config.mode = "automatic" /\ doNextRun

\* The wait is over: consume the request, and leave the loops if deactivated.
LeaveWait ==
    /\ main = "loop" /\ MoreRounds
    /\ ~MustAwaitRequest
    /\ doNextRun' = RequestAfterWait
    /\ main' = AfterWait
    /\ UNCHANGED <<config, starterVars, pipeVars, proc, round, pool, iterations,
                   isActive, injectorVars, taskVars>>

BeginIteration ==
    /\ main = "iterate"
    /\ ReadsTraffic => network # "down"
    /\ \E chosen \in Selection :
        /\ StartInjectors(chosen)
        /\ pool' = IF config.controller = "MostUsedLink" THEN chosen ELSE pool
    /\ main' = "injecting"
    /\ iterations' = iterations + 1
    /\ UNCHANGED <<config, starterVars, pipeVars, proc, round, flagVars, injected, taskVars>>

GatherReturns ==
    /\ main = "injecting" /\ GatherDone
    /\ main' = IF Iterates THEN "loop" ELSE "deactivate"
    /\ round' = round + 1
    /\ UNCHANGED <<config, starterVars, pipeVars, proc, pool, iterations,
                   flagVars, injectorVars, taskVars>>

\* LogOnlyFaultController spins in sleep(0) until it is deactivated.
IdleEnds ==
    /\ main = "idling" /\ ~isActive
    /\ main' = "deactivate"
    /\ UNCHANGED <<config, starterVars, pipeVars, proc, round, pool, iterations,
                   flagVars, injectorVars, taskVars>>

WrongMessageToSelf == DONE  \* mutant
MessageToSelf == SHUTDOWN

LogNotAwaited == "awaitListener"  \* mutant: no await of the log task
AfterDeactivate == IF config.logging THEN "awaitLog" ELSE "awaitListener"

\* deactivate_and_send_done_message(), up to its first await.
Deactivate ==
    /\ main = "deactivate"
    /\ isActive' = FALSE
    /\ toMininet' = Append(toMininet, DONE)
    /\ toFaults' = Append(toFaults, MessageToSelf)
    /\ loggerActive' = FALSE
    /\ main' = AfterDeactivate
    /\ UNCHANGED <<config, starterVars, proc, round, pool, iterations, doNextRun,
                   injectorVars, listener, logTask>>

LogTaskJoined ==
    /\ main = "awaitLog" /\ logTask = "written"
    /\ main' = "awaitListener"
    /\ UNCHANGED <<config, starterVars, pipeVars, proc, round, pool, iterations,
                   flagVars, injectorVars, taskVars>>

ListenerJoined ==
    /\ main = "awaitListener" /\ listener = "done"
    /\ main' = "finished" /\ proc' = "exited"
    /\ UNCHANGED <<config, starterVars, pipeVars, round, pool, iterations,
                   flagVars, injectorVars, taskVars>>

\* An exception leaves go(): asyncio.run() cancels every task that is left.
Cancelled(task) == IF task \in {"done", "written", "none"} THEN task ELSE "cancelled"
CrashController ==
    /\ proc' = "crashed" /\ main' = "crashed"
    /\ listener' = Cancelled(listener)
    /\ logTask' = Cancelled(logTask)
    /\ UNCHANGED <<config, starterVars, pipeVars, round, pool, iterations,
                   flagVars, injectorVars, loggerActive>>

\* int('') of the output of ifconfig for an interface that is gone.
TrafficReadRaises ==
    /\ main = "iterate"
    /\ ReadsTraffic /\ network # "up"
    /\ CrashController

GatherRaises ==
    /\ main = "injecting"
    /\ \E e \in Ends : phase[e] = "raised"
    /\ CrashController

-----------------------------------------------------------------------------
(* The pipe listener *)

\* Tasks start in the order they were created: the logger before the listener.
ListenerMayRun ==
    /\ TaskMayRun
    /\ \/ listener = "created" /\ logTask # "created"
       \/ listener = "polling"

NeverNextRun(message) == FALSE  \* mutant: compares bytes with a string
IsNextRun(message) == message = NEXT

ActiveAfterShutdown == FALSE

LoggerUntouched == loggerActive  \* mutant
LoggerActiveAfterShutdown == FALSE

\* The listener does not suspend while the pipe has messages, so it drains it,
\* up to the first SHUTDOWN.
ListenerReceivesRequests ==
    /\ ListenerMayRun
    /\ toFaults # <<>> /\ ~Contains(toFaults, SHUTDOWN)
    /\ doNextRun' = (doNextRun \/ \E i \in DOMAIN toFaults : IsNextRun(toFaults[i]))
    /\ toFaults' = <<>>
    /\ listener' = "polling"
    /\ UNCHANGED <<config, starterVars, toMininet, mainVars, isActive, injectorVars,
                   logTask, loggerActive>>

ListenerReceivesShutdown ==
    /\ ListenerMayRun
    /\ \E k \in DOMAIN toFaults :
        /\ toFaults[k] = SHUTDOWN
        /\ \A i \in 1..(k - 1) : toFaults[i] # SHUTDOWN
        /\ doNextRun' = (doNextRun \/ \E i \in 1..(k - 1) : IsNextRun(toFaults[i]))
        /\ toFaults' = SubSeq(toFaults, k + 1, Len(toFaults))
    /\ isActive' = ActiveAfterShutdown
    /\ loggerActive' = LoggerActiveAfterShutdown
    /\ listener' = "done"
    /\ UNCHANGED <<config, starterVars, toMininet, mainVars, injectorVars, logTask>>

-----------------------------------------------------------------------------
(* The logger task.  Its entries are the subject of FaultInjection. *)

LoggerStarts ==
    /\ TaskMayRun
    /\ logTask = "created"
    /\ logTask' = "logging"
    /\ loggerActive' = TRUE
    /\ UNCHANGED <<config, starterVars, pipeVars, mainVars, flagVars, injectorVars, listener>>

\* The logger looks at its flag only when its interval has passed.
LoggerWrites ==
    /\ TaskMayRun
    /\ logTask = "logging" /\ ~loggerActive
    /\ logTask' = "written"
    /\ UNCHANGED <<config, starterVars, pipeVars, mainVars, flagVars, injectorVars,
                   listener, loggerActive>>

-----------------------------------------------------------------------------
(* The injectors: pre-injection time, injection, post-injection time.  A   *)
(* missing time is float(None), which raises where the time is first used: *)
(* for the injection time that is after the fault was put in place.        *)

InjectorMoves(e, from, to) ==
    /\ TaskMayRun
    /\ phase[e] = from
    /\ phase' = [phase EXCEPT ![e] = to]
    /\ UNCHANGED <<config, starterVars, pipeVars, mainVars, flagVars, taskVars>>

OrRaises(time, next) == IF config.omits = time THEN "raised" ELSE next

InjectorStarts(e) ==
    /\ InjectorMoves(e, "created", OrRaises("pre", "pre"))
    /\ UNCHANGED injected

InjectorInjects(e) ==
    /\ InjectorMoves(e, "pre", OrRaises("injection", "active"))
    /\ injected' = injected \cup {e}

InjectorEjects(e) ==
    /\ InjectorMoves(e, "active", OrRaises("post", "post"))
    /\ injected' = injected \ {e}

InjectorFinishes(e) ==
    /\ InjectorMoves(e, "post", "done")
    /\ UNCHANGED injected

-----------------------------------------------------------------------------
MininetStep ==
    \/ ReceiveSetup \/ StarterGo \/ StartNextRun \/ StarterStop \/ PollIsActive
    \/ NetStopBegins \/ NetStopEnds \/ AtExit \/ JoinController

MainStep ==
    \/ MainGo \/ EndOfRounds \/ AwaitRequest \/ WakeFromWait \/ LeaveWait
    \/ BeginIteration \/ GatherReturns \/ IdleEnds \/ Deactivate
    \/ LogTaskJoined \/ ListenerJoined \/ TrafficReadRaises \/ GatherRaises

ListenerStep == ListenerReceivesRequests \/ ListenerReceivesShutdown
LoggerStep == LoggerStarts \/ LoggerWrites
InjectorStep(e) ==
    InjectorStarts(e) \/ InjectorInjects(e) \/ InjectorEjects(e) \/ InjectorFinishes(e)

\* The Mininet process has ended; nothing is left to run.
Terminated == mininet = "gone" /\ UNCHANGED vars

Next ==
    \/ MininetStep
    \/ BootController \/ WaitUntilGo
    \/ MainStep \/ ListenerStep \/ LoggerStep
    \/ \E e \in Ends : InjectorStep(e)
    \/ Terminated

(***************************************************************************)
(* The event loop is a FIFO of ready tasks and timers fire, so every task  *)
(* that can go on gets its turn; start-up, net.stop() and the join at exit *)
(* are straight-line code.  Nothing obliges a program to call the starter. *)
(***************************************************************************)
Fairness ==
    /\ WF_vars(ReceiveSetup) /\ WF_vars(StarterGo)
    /\ WF_vars(NetStopEnds) /\ WF_vars(JoinController)
    /\ WF_vars(BootController) /\ WF_vars(WaitUntilGo)
    /\ WF_vars(MainStep) /\ WF_vars(ListenerStep) /\ WF_vars(LoggerStep)
    /\ \A e \in Ends : WF_vars(InjectorStep(e))

Spec == Init /\ [][Next]_vars /\ Fairness

-----------------------------------------------------------------------------
(* Properties *)

MainStates ==
    {"off", "go", "loop", "waiting", "iterate", "injecting", "idling", "deactivate",
     "awaitLog", "awaitListener", "finished", "crashed"}

\* The type of every variable.
TypeOK ==
    /\ config \in Configs
    /\ mininet \in {"constructing", "constructed", "running", "exiting", "gone"}
    /\ network \in {"up", "stopping", "down"}
    /\ faultsActive \in BOOLEAN
    /\ requests \in 0..MaxRequests /\ stops \in 0..MaxStops
    /\ toFaults \in Seq({START, NEXT, SHUTDOWN})
    /\ toMininet \in Seq({READY, DONE})
    /\ proc \in {"booting", "waiting", "running", "exited", "crashed"}
    /\ main \in MainStates
    /\ isActive \in BOOLEAN /\ doNextRun \in BOOLEAN
    /\ round \in Nat /\ pool \in SUBSET Links /\ iterations \in Nat
    /\ phase \in [Ends -> {"idle", "created", "pre", "active", "post", "done", "raised"}]
    /\ injected \in SUBSET Ends
    /\ listener \in {"none", "created", "polling", "done", "cancelled"}
    /\ logTask \in {"none", "created", "logging", "written", "cancelled"}
    /\ loggerActive \in BOOLEAN

StarterKnowsDone == mininet \in {"running", "exiting", "gone"} /\ ~faultsActive
DoneVisible == StarterKnowsDone \/ Contains(toMininet, DONE)

\* Once the controller's DONE can be seen (it is in the pipe, or is_active() has
\* turned False because of it) no injector task is under way, no interface carries a
\* fault and the controller is deactivated: programs call net.stop() on the strength
\* of it.
NoInjectorBusy == \A e \in Ends : phase[e] \in {"idle", "done"}
QuietWhenDone == DoneVisible => injected = {} /\ NoInjectorBusy /\ ~isActive

\* A controller process that ends in the normal way has told its starter: the answer of
\* is_active() is already False, or the DONE that will turn it False is in the pipe.
DoneReachesStarter ==
    proc = "exited" /\ mininet = "running" /\ faultsActive => Contains(toMininet, DONE)

\* A process that ends in the normal way has written its log, also when the logger
\* task first ran after the controller had already told it to stop.
LogWrittenAtExit == proc = "exited" /\ config.logging => logTask = "written"

\* start_next_run() is a flag and a queue: in the modes that wait for it no interleaving
\* of calls, polls and iterations ever begins more iterations than it was called.
IterationsNeedRequests ==
    Iterates /\ config.mode # "automatic" => iterations <= requests

\* After the listener has taken a SHUTDOWN no injector task is created any more.
NoIterationAfterShutdown ==
    [][listener = "done" => \A e \in Ends : phase'[e] # "created" \/ phase[e] = "created"]_vars

ShutdownRequested == stops > 0 \/ network = "down" \/ mininet = "exiting"
ControllerEnded == proc \in {"exited", "crashed"}

\* stop(), net.stop() and the exit of Mininet end the controller process: what it does
\* next always reaches a point that notices the SHUTDOWN.
StopEnds == ShutdownRequested ~> ControllerEnded

\* A controller that needs no requests ends by itself.
NeedsNoRequest ==
    config.controller = "ConfigFile" \/ (Iterates /\ config.mode = "automatic")
AutomaticEnds == (main = "go" /\ NeedsNoRequest) ~> ControllerEnded

\* A start_next_run() that finds the controller waiting ends that wait.
RequestIsTaken == (main = "waiting" /\ Contains(toFaults, NEXT)) ~> main # "waiting"

\* What the documents promise, and configurations exist that break it: the log is
\* written whenever the controller process has ended, and the times of a fault have
\* defaults, so leaving them out does not stop the controller.
LogSurvivesShutdown == ControllerEnded /\ config.logging => logTask = "written"
OmittedTimesHaveDefaults == config.omits # "none" => proc # "crashed"

\* The controller keeps the promises of IterationSchedule.
FaultyLinks == {l \in Links : \A side \in {0, 1} : phase[<<l, side>>] # "idle"}
Plan ==
    [links |-> config.links, first |-> FirstRound, last |-> LastRound,
     repeating |-> Iterates /\ config.mode = "repeating",
     whole |-> config.controller = "ConfigFile"]
Stage ==
    CASE main = "injecting" -> "injecting"
      [] main \in {"awaitLog", "awaitListener", "finished"} -> "over"
      [] main = "crashed" -> "aborted"
      [] OTHER -> "idle"
Size ==
    CASE main \in {"off", "go"} -> FirstRound - 1
      [] main = "injecting" -> round
      [] OTHER -> round - 1

Schedule == INSTANCE IterationSchedule WITH
    plan <- Plan, stage <- Stage, size <- Size,
    targets <- IF main = "injecting" THEN FaultyLinks ELSE {},
    stopped <- listener = "done"
ImplementsSchedule == Schedule!Spec

=============================================================================
