# A verification project for Faultynet

Faultynet is a fork of Containernet, itself a fork of Mininet: a Python program that
emulates a network with processes, containers, network namespaces and software switches.
What it adds is fault injection: controllers that put faults (loss, delay, stress, ...) on
interfaces and nodes of a running net by a schedule, and a logger that records them. This
directory holds TLA+ models of the program, the configurations with which TLC checks them and
proofs of their most important properties that TLAPS checks.

File names below are relative to `src/mininet/` unless they start with `src/`.

## Inventory

| Component | State it keeps | Operations | What makes it correct | Module |
|---|---|---|---|---|
| Starter, `fault_controllers/BaseFaultController.py:24-265`, in the Mininet process | `faults_are_active`, the ends of two pipes | constructor, `go`, `stop`, `start_next_run`, `is_active`, atexit hook, resolution of identifiers | learns that the controller is done exactly when it is; stop and exit always end the controller; faults are put where their identifier says | `FaultController`, `NetLifecycle` |
| Controller process, `BaseFaultController.py:268-413` | `is_active`, the listener task, the log task | set-up, `wait_until_go`, `go`, `listen_for_pipe_messages`, `deactivate_and_send_done_message` | tasks end in every order of messages; nothing begins after a SHUTDOWN | `FaultController` |
| `RandomLinkFaultController.py` | mode, `do_next_run`, the range of rounds | `_wait_for_next_run`, `go`, one iteration | rounds of growing size, one per request, in order | `FaultController`, `IterationSchedule` |
| `MostUsedLinkFaultController.py`, `AgnosticLink.py` | the same, the pool `links_to_inject`, traffic per link | the same, reading traffic | the pool grows by the busiest link per round | `FaultController`; traffic counters: none |
| `ConfigFileFaultController.py` | list of injectors | parse, `go` | every fault of the file runs once, with its defaults, on its own link | `FaultController`, `FaultInjection`, `NetLifecycle` |
| `LogOnlyFaultController.py` | none | `go` | ends when told to | `FaultController` |
| Injectors, `fault_injectors.py` | pattern, times; kernel queueing disciplines | inject and eject in persistent, random, burst and degradation patterns | what was injected is ejected; times and values keep their limits | `FaultInjection` |
| `faultlogger.py` | `active`, queue of entries, table of active faults | `go`, `stop`, `set_fault_active`, `set_fault_inactive`, write | the table tells the truth; the log is written before the process ends | `FaultInjection`, `FaultController` |
| `net.py`, `clean.py` | hosts, switches, links, names, next address, the starter | build, start, stop, `waitConnected`, add and remove, clean-up | program and system agree; stop undoes start; a crash can be cleaned up | `NetLifecycle` |
| Ports and links: `node.py`, `link.py` | port maps, interfaces, veth pairs | `newPort`, `addIntf`, `delIntf`, `Link`, `Intf.delete`, `makeIntfPair`, `moveIntf` | both ends agree, a number is not given twice | `NetLifecycle` |
| Topologies: `topo.py`, `topolib.py` | graph, port table | `addNode`, `addLink`, `addPort`, stock topologies | the net that is built is the one drawn | `TopoBuild`, `StockTopologies` |
| Node shell: `node.py:79-709`, `cli.py` | `waiting`, `readbuf`, `lastPid`, the pty | `sendCmd`, `monitor`, `waitOutput`, `cmd`, `sendInt`, `readline` | the output of a command ends at its own sentinel | `NodeShell` |
| Docker hosts and SAPs: `node.py`, `net.py`, `clean.py` | containers and their limits, `resources`, NAT rules | constructor, update of limits, commands, `terminate`, `addExtSAP`, clean-up | records are true; commands reach their own container; nothing is left | `DockerHost` |
| CPU limited hosts: `node.py` | control group, `period_us`, `sched` | `setCPUFrac`, `setCPUs`, `config`, `popen`, `cleanup` | the share asked for is the share given | `CpuLimitedHost` |
| Traffic control: `link.py` | queueing disciplines of an interface | `TCIntf.config`, re-application after attachment | packets pass what was asked for last and nothing else | `TrafficControl` |
| Switches: `node.py`, `nodelib.py` | bridge, ports | `OVSSwitch` start, attach, detach, stop | a bridge has the ports of its links | `NetLifecycle`; other switches: none |
| MiniEdit, `src/examples/miniedit.py` | drawing, links, options, files, a running net | draw, link, delete, dialogs, New, Open, Save, Run, Stop, export | drawing, files, script and net agree | `MiniEdit` |
| Helpers, `util.py` | none | `retry`, `ipAdd`, `moveIntf`, parsers | what their docstrings say, also at the limits | partly `NetLifecycle` |
| Front end and launchers: `src/bin/mn`, `term.py`, `log.py`, `src/mnexec.c` | none that outlives a call | | | none |
| Other examples, installers, VM builder, kernel scheduler patch | | | | none |

Interaction. `Mininet.start()` constructs the starter, which forks the controller process and
blocks until it sends a set-up message; `go()` then sends START. From there the two run in
parallel and talk only over the pipes: START, NEXT and SHUTDOWN one way, READY and DONE the
other. A program polls `isFaultControllerActive()` until it turns False and then calls
`net.stop()`, which tears the net down and, last, sends SHUTDOWN; at exit a hook sends
another one and `multiprocessing` joins the child. Inside the controller process everything
is asyncio: `go()`, the listener, the logger and one task per injector share one event loop
and one set of flags. The injectors act on the kernel by `tc` and `ifconfig` in the
namespaces of nodes, which is where the traffic control of links acts too. Nodes, links and
switches are objects of the Mininet process that stand for processes, interfaces and bridges
of the system; each node owns a shell over a pty, a Docker host in addition a container of
the daemon. MiniEdit keeps a drawing from which it builds such a net.

Hard behaviours: messages that arrive in any order relative to the iterations; a flag that
merges requests; a deactivation that needs its own message to end its listener; a loop that
may not suspend; tasks whose first run comes after they were told to stop; exceptions that
end the process while faults are in place; a net that disappears under a running controller;
faults that share an interface, a queueing discipline or a tag; a sentinel that arrives in any
chunk, or twice after an interrupt; objects that outlive what they stand for; containers and
bridges that outlive the program; limits that a daemon refuses after they were recorded; names
that are looked up after they were given to something else. `PROJECT.json` lists each of these
under `hazards` with the line where it bites.

## Modules

| Module | What it is |
|---|---|
| `FaultController` | starter, pipes, controller process with its tasks, the four controllers |
| `IterationSchedule` | what the documents promise about rounds; `FaultController` implements it |
| `FaultInjection` | injector tasks, the table of active faults, the kernel's queueing disciplines |
| `NodeShell` | one node, its pty and the bash behind it |
| `TopoBuild`, `StockTopologies` | topologies as operators: nodes, links, ports; those that come with the program |
| `NetLifecycle` | a network from its topology (extends `TopoBuild`) to its clean-up, and where faults are aimed |
| `DockerHost` | containers as hosts, their limits and shells, external access points |
| `TrafficControl`, `CpuLimitedHost` | limits of a link and of a host |
| `HostLimits` | the two composed: one program configures both |
| `MiniEdit` | the graphical editor: drawing, model, files, script, running net |
| `MCFaultController`, `MCFaultInjection`, `MCNetLifecycle`, `MCDockerHost`, `MCHostLimits`, `MCMiniEdit` | instances for TLC (`NodeShell` needs none) |
| `FaultControllerProofs` | theorems about `FaultController`: shutdown, log; requests, the schedule |
| `NodeProofs` | theorems about `NodeShell`: node and shell in step, whose output is whose; and about `HostLimits` |
| `FaultInjectionProofs` | theorems about `FaultInjection`: the rhythm of the faults, the kernel, the table |
| `DockerHostProofs` | theorems about `DockerHost`: commands, limits, leftovers |
| `NetLifecycleProofs`, `NetTidyProofs` | theorems about `NetLifecycle`: lists and maps, waiting; what belongs to the network, what stop leaves |
| `MiniEditProofs`, `MiniEditRunProofs` | theorems about `MiniEdit`: items, addresses; links and lists, the network that runs, the script, save and open |

### FaultController

The state follows the code's objects: `faultsActive` is the starter's
`faults_are_active`; `toFaults` and `toMininet` are the pipes; `isActive`, `doNextRun` and
`loggerActive` are the flags; `main`, `listener`, `logTask` and `phase[e]` say at which await
each task is; `round` and `pool` are the loop variable and `links_to_inject`; `injected` is
the set of interfaces injected and not ejected since. `iterations` is a history variable.

An action is what a task does between two suspension points. `main` needs several actions for
some stretches (a round ends, the loop tests its range, the wait is skipped, the iteration
begins); while it is in such a state (`HoldingLoop`) no other task of the process may run, as
in asyncio, but the Mininet process may. So `NoIterationAfterShutdown` is not true by the
shape of the model: it depends on where the code awaits.

The listener drains the pipe up to the first SHUTDOWN in one action, because `recv_bytes()`
does not suspend and only an empty pipe makes the listener await. The logger starts before the
listener because asyncio runs new tasks in the order of their creation. When an exception
leaves `go()`, `asyncio.run()` cancels the other tasks and the process is gone
(`CrashController`); faults in place stay in place.

A configuration is a record with the controller, the mode, whether there is a logger, the links
that no blacklisted node touches, the range of rounds, and the first time that the file omits.

What is abstracted: times (a sleep may end at any later point); which uninjected link has the
most traffic (any of them); the order of links in a random sample; the pattern of an injection
(here always persistent; `FaultInjection` has the patterns); log entries and commands.
ConfigFile's faults are taken to be on links, two interfaces each. The value of `mode` is one of
the three documented ones; with any other value the code logs an error and goes on as in
automatic mode. `start_links` is at least 1. Writing the log file and the commands of the
injectors are taken to succeed; an injector whose command fails, because the net is gone, only
gets a return code. An interrupt from the keyboard, which reaches both processes, is not
modelled.

What the Mininet process may do: between two steps of a program's own code it may call
`start_next_run`, `stop` and `is_active` at any time after `start()` has returned, also after
`stop()`; call `net.stop()` once; and exit at any time. Calls before `go()` are impossible
because `Mininet.start()` makes the starter and calls `go()` in one go.

### IterationSchedule

The prose of `src/FaulControllersREADME.md` as a machine: rounds numbered from `first` to
`last`, each on as many different links as its number, one at a time; again from the start only
in repeating mode; none after a stop; the plan is over only when its last round is through or
it was stopped. The refinement mapping (`Schedule` in `FaultController`) computes the stage
from where `main` is, the number of the latest round from `round`, and the targets from the
injector tasks, so a link counts as a target only if both of its interfaces have an injector.
`stopped` is "the listener has taken a SHUTDOWN".

### FaultInjection

`kernel[e]` is what `tc` and `ifconfig` have made of an interface: a root discipline and who put
it there, the leaf and the filters below a `prio` root, the ingress discipline with its mirrors,
and whether the interface is down. `Accepts` and `After` give the exit status and the effect of
a command (external: the kernel). The operators for the commands (`Netem`, `Redirects`, filters
for protocol and ports, and so on) follow `fault_injectors.py`; what a fault is turned on
and off with is one list of commands each, whose last exit status is recorded. For a pattern that is
neither random nor persistent the code makes no command where the fault is on all protocols, and
raises; where it is on one protocol it makes the `prio` and its filters without the queue they lead
to (`Leaf`), and all of these succeed. `active` is the
table `ACTIVE_FAULTS_DICT`, keyed by tag. `pc[i]` is the sleep that task `i` is in (before the
injection, while the fault is on, between bursts, after it) or how it ended. An action runs from
one sleep to the next, so a burst that ends and a value that climbs are each one step that
commands cannot interrupt. `Raise` collects the errors that the code meets while it
builds commands (no arguments, an integer where a list of ports is expected, a redirection
without a target), at the await where it meets them; `CloseLoop` is `asyncio.run()` cancelling
what is left, with faults in place. Bursts and degradation steps are counted with the integer divisions of
the code; a profile uses milliseconds for which the float quotients are exact.

### NodeShell

The pty is a queue of tokens: a line of output, the sentinel `chr(127)`, and the two halves of
the marker around the process id of a background command, since the marker may be cut by a read
at any place. A read takes any number of tokens up to `ReadSize`. `sendCmd`, `monitor`,
`waitOutput`, `cmd`, `sendInt`, `readline`, `terminate` and the CLI's `waitForNode` and
"stop what runs first" are actions; `user` is where the one thread of the program is. Bash
(external) takes a command, prints, prompts with a sentinel; an interrupt kills what runs and may
flush what is queued; a shell or a container may die. A host gets a new shell only in `cmd()`, a
Docker host on every command, as in the code. `startShell()`, which reads up to the first prompt,
is one action. The wait of two minutes in `sendCmd()` is its outcome: an assertion that fails,
since nothing else can call `monitor()` meanwhile.

### TopoBuild and NetLifecycle

`TopoBuild` gives `addNode`, `addLink` and `addPort` as operators over a record of nodes, links and
ports, `StockTopologies` the topologies that come with the program; `addPort` counts the ports so far, also those that the caller
numbered. `NetLifecycle` holds two worlds: the objects of the program (`node`, `link`, the lists
of `Mininet`, the port maps `intfs` and `ports` of each node) and the system (`proc`, `veth`,
`bridge`, `stale` containers). A veth pair is the set of its two ends, each a namespace and a
name. Building, starting, stopping and waiting visit one object per step; the calls of a
program (`addLink`, `removeLink`, `delLink`, `addHost`, `addDocker`, `addSwitch`, `removeHost`,
`delNode`, `start`, `waitConnected`, `stop`) are actions, with every exception they meet half
way: a port that is deleted twice raises in the middle of a call and leaves the rest undone.
`StartEnds` resolves all identifiers of a fault configuration once, as the starter does.
`Exit`, `Cleanup` and `Restart` are the end of the program, which takes the shells and not the
containers along, `mn -c`, and the next program.

### DockerHost

`con[id]` are the containers of the daemon with their limits, `node` the `Docker` objects,
`named` and `hosts` the tables of `Mininet`, `rules` a bag of the iptables rules of external
access points. The constructor is one action in the order of the code: the option `rm` and its
comparison of names by prefix, the image, creation with two of the limits, start, then the
other limits; every exit on the way leaves what it leaves. Limits reach the container by the daemon
(`update_resources`) or by `cgset` (`updateCpuLimit`, `updateMemoryLimit`), and `CgroupSet`
records the value it reads back. `Cmd` and `Popen` ask by id whether the container runs and tell
`docker exec` the name. `python` is the interpreter, because adding rules calls `unicode()`.

### TrafficControl, CpuLimitedHost, HostLimits

`tree` is the sequence of queueing disciplines of one interface, the root first; `config()` reads
from it whether there is anything to delete, builds the commands of bandwidth, early detection,
delay, loss and queue size, and appends one layer for each that `tc` accepts. `Attach` is
a switch that may clear it and has it built again from the parameters of the interface. `Inject` and
`Eject` are a fault of `fault_injectors.py` on the same root: a `netem` or `tbf` if it is on all
traffic, a `prio` if on one protocol. The code runs the command whatever is at the root and does not
look at its outcome, so `injecting`, the fault that the program takes to be on, is apart from
`tree`: a refused fault is ended all the same, by a deletion that names the kind, which a configured `netem`
or `tbf` root has too; and `config()` deletes whatever `tc` shows without a priomap, a `netem` or
`tbf` fault among it. One fault at a time, as `src/README.md:54` demands; two are the matter of
`FaultInjection`. `taken` and `blocked` are history: the last configuration was taken along by the end
of a fault, or made under a `prio`. `CpuLimitedHost` has the quota and
period of a control group in integers, the smallest quota the kernel takes, real-time
scheduling, the processors of `setCPUs`, and the removal of the group with its retries. `HostLimits` is one program that calls both.

### MiniEdit

The record `m` is the drawing with all that the editor keeps beside it: icons, the table of links
of each icon, `self.links`, options by name, controllers by name, counters for names. Gestures
are actions: a tool and a click, a drag from node to node, delete, dialogs opened, cancelled and
closed with OK, New, Open, Save as the composition of saving and opening, Run, Stop, link up and
down, preferences, Quit. A callback that raises keeps what it did so far (`ForEach`). `RunNet` is
the network that Run builds and starts, the `Script...` operators are what the exported script does.

Links are built in their order (`BuiltLinks`). A container's dialog has rows of addresses for its
further interfaces (`Rows`; two at most here); where one of them is used for a link the options drawn
for that link are not (`MultiLink`). The options of an imported link contain its ends, because
`importTopo()` keeps all that `linkInfo()` gives: `addLink()` is then called with `node1` and `node2`
twice and raises (`CanBuildLink`). Run of such a drawing stops in the middle of `buildLinks()` with
the tools disabled; the exported script, which picks options by name, works. A host's address is one
that its user typed, or a number added to the base (`Address`); an imported host keeps the address
of the topology, which is one above its number (`Offset`). If that address is cleared in the dialog, the
host is given the address of its own number instead, which is the one of the host before it. Containers take their
number from the count of hosts without raising it. The
history variable `trouble` remembers gestures after which the editor contradicts itself by
construction of its tables, so that each property can name the ones it does not survive.

## Runs

| Run | What is explored | Result | States |
|---|---|---|---|
| `driven` | RandomLink and MostUsedLink in manual mode, RandomLink repeating | holds | 118,796 |
| `unattended` | automatic RandomLink and MostUsedLink, ConfigFile with each time omitted, LogOnly | holds | 147,597 |
| `fault_injection` | two injectors of every type and pattern on one interface or two | holds | 66,318 |
| `node_shell` | a host or a container, three commands, an interrupt, a death | holds | 1,005,509 |
| `net_lifecycle` | ten topologies built, started, changed, stopped, cleaned up, built again | holds | 805,391 |
| `miniedit` | five gestures on an empty or an imported drawing | holds | 708,317 |
| `docker_host` | three calls in each of two processes, one trouble | holds | 3,937,330 |
| `host_limits` | four calls that configure a host and its link | holds | 1,395,753 |
| `no_links_repeating` | RandomLink, repeating, no link left | `StopEnds` violated | 6,497 |
| `most_used_repeating` | MostUsedLink, repeating | `ImplementsSchedule` violated | 66,093 |
| `log_lost_at_shutdown` | MostUsedLink, automatic, logging | `LogSurvivesShutdown` violated | 97 |
| `times_omitted` | ConfigFile, one link, times omitted | `OmittedTimesHaveDefaults` violated | 406 |

(The states of the last four are those found before the violation.) Every module has one type
invariant, `TypeOK`, but for `HostLimits`, whose two invariants read most of its state.

### Fault controller (`driven`, `unattended`)

- `QuietWhenDone`: when DONE can be seen, no fault is in place, no injector runs and the
  controller is deactivated. Programs stop the net on the strength of it.
- `DoneReachesStarter`: a normal end of the process is never hidden from `is_active()`.
- `LogWrittenAtExit`: a normal end comes after the log was written, also when the logger task
  first ran after it had been told to stop.
- `IterationsNeedRequests`: in manual and repeating mode there are never more iterations than
  calls of `start_next_run()`.
- `NoIterationAfterShutdown`: no injector is created after the listener has taken a SHUTDOWN.
- `StopEnds`: `stop()`, `net.stop()` and exit lead to the end of the process.
- `AutomaticEnds`: controllers that need no request end by themselves.
- `RequestIsTaken`: a request that finds the controller waiting ends that wait.
- `ImplementsSchedule`: the refinement of `IterationSchedule`.

Bounds. Two links (four injector tasks) are enough for a range of two rounds, for a range
that starts above one, for a choice between links, and for one injector that raises while
another is active. Two calls of `start_next_run` show merged requests and one left over; one
`stop`, the SHUTDOWN of `net.stop()`, the one of the atexit hook and the controller's own give
four SHUTDOWNs in one pipe. `MaxRequests` and `MaxStops` bound the calls, and nothing else is
bounded: the rounds end by themselves, and in repeating mode every round costs a request.
Symmetry is not used: the runs check liveness.

Deadlock is checked: the only state without a successor other than itself is the one where
the Mininet process has ended, which is the explicit disjunct `Terminated`.

Fairness. Each task of the event loop is weakly fair: the loop's ready queue is a FIFO and
timers fire, so a task that can go on does. The fairness of `main` is on `MainStep` as a
whole. Straight-line code (set-up, `net.stop()`, the join at exit) is weakly fair. Nothing
obliges a program to call the starter, to poll it or to exit, so these actions are not fair.

### Fault injection (`fault_injection`)

- `TableTellsTheTruth`: for a fault that is alone on its interface and has its own tag, as the
  documents ask, what is in place is in the table, and an entry with exit status zero is a
  fault that takes effect, if its pattern is one that the injector knows. Also after the loop was
  closed over running injections. A fault on one protocol with another pattern is in the table with
  status zero and has no effect.
- `NothingLeft`: between its bursts and after its end a fault has left nothing, whatever others
  did to the interface; when all are done each interface is as the network made it and the
  table is empty. This holds although the first of two faults on one interface to end removes
  what they share, since the second then has nothing to remove. The interface itself is not left
  as it was where the network's own root is a netem or a tbf (`TakenAlong`: a `TCIntf` with a
  delay and no bandwidth, or with `use_tbf`): the injector takes that one along;
  `src/README.md:55` excludes limited links.
- `KeepsToItsTime`: the rounds of a burst or a degradation fit into the injection time, provided
  that the burst is not longer than its period.
- `DegradationClimbs`: a degradation that starts below its end value never exceeds it and
  never falls. It holds of no degradation whose first value is above the end value: that one is
  not capped.
- `EveryTaskEnds`: `gather()` returns or raises.

Bounds: two injectors, because every interaction in the code is between two (a shared
interface, a shared tag, one that raises while the other has a fault in place). Profiles combine every
type, pattern, port form and argument error with six partners, on the same interface or
another, with the same tag or another; roots of the network are none, `htb`, `tbf` and `netem`.
Fairness: each task and the closing of the loop, as for the controller. Deadlock is not checked, as
all tasks end.

### Node shell (`node_shell`)

- `InStep`: as long as there was no interrupt, a sentinel is to come (in the pty, in an
  incomplete marker, from bash) exactly while the node waits for one. Each interrupt puts node
  and shell out of step by one at most: chr(3) at a prompt prints another sentinel, so the next
  command is taken for complete before it is.
- `OutputBelongs`: what `monitor()` returned for a command is every line that it printed, once and
  in order, and nothing of another one's that is not in the background; `lastPid` is its own
  process id.
- `CmdReturns`: `waitOutput()` returns, unless the shell died or the command never ends.

`OutputBelongs`, `CmdReturns` and the equality of `InStep` are stated for programs that do not call
`readline()`. `readline()` passes the
buffer to `read()` and then prepends it again: lines come twice and a sentinel may be taken for
part of a line; `waitOutput()` after it does not return.

Bounds: commands of two lines and reads of up to two tokens cut output and markers at every place;
three commands let an output, an interrupt and another command meet; `MaxPending` = 3 is the
size of the pty beyond which bash waits. Fairness: bash goes on (`BashTakes`, `BashPrints`) and a
thread in `waitOutput` or `waitForNode` reads what there is; no user is obliged to anything.
Deadlock is not checked, as a program may stop calling.

### Network (`net_lifecycle`)

- `BuiltAsDrawn`: a network is built unless its topology is impossible or remains of an earlier
  run were not cleaned up; objects, interface names and veth pairs then agree with the port
  table of the topology, and no two hosts have one address.
- `LinksAreWired`: through any calls that return, `Mininet.links`, the port maps of the nodes and
  the veth pairs are three views of one network, the next interface name is free, and the bridge
  of a running switch has exactly the ports of its links.
- `StopLeavesNothing`: `stop()` of a network whose calls all returned does not raise, and when it
  returns no process, interface or bridge is left.
- `FaultsStayOnTheirLink`: faults and redirections resolved at the start are at an interface of
  the right node with the right node at the other end, also after more links were added. A
  redirection to `a->b:name` is left out: its pattern has no dash, so names like `h1-eth0`
  are not recognised.
- `WaitTells`: `waitConnected()` answers True only when it has seen every switch connected.
- `WaitReturns`: it does not go on while every switch stays connected.

Bounds: the ten topologies are stock ones of each class, one with parallel links and a
container, one whose explicit port collides with a counted one, and one with ten hosts for nine
addresses (`MaxIP` = 9). Topologies of up to three nodes (`MaxNodes`) are changed by two calls
(`MaxCalls`) up to four links (`MaxLinks`), which is enough to remove what a call added and to
give a port or a name again; larger ones are only built, started, aimed at and stopped. Faults
are aimed at the first seven nodes (`MaxAimed`). Networks of up to two switches (`MaxAwaited`) are
awaited, once, before any change. One trouble (`MaxTroubles`: a death, an interrupt in `stop()` or a
lost controller connection, out of one budget) and two runs of the program (`MaxRuns`). Fairness:
only the waiting thread (`WaitLook`, `WaitRoundEnds`). Deadlock is not checked, as the last program may
have ended.

### MiniEdit (`miniedit`)

- `LinksAgree`: links of the model and of the icons are the same, every node has its options, and
  the list of a switch names the controllers drawn to it, each once.
- `SavedIsLoaded`: what is saved and opened comes back, links in their order, if no name was left
  blank.
- `RunIsWhatIsDrawn`: a running network is the one drawn, with the same links down, and Stop finds
  what it looks up. The options of a link are the ones drawn unless the dialog of an end has addresses
  for further interfaces (the TODO at `miniedit.py:3139`); of such a link only its ends and its
  place are claimed. Drawings whose links cannot be built, which imported ones with links are, never run.
- `ScriptIsTheRun`: the exported script makes the network that Run makes, for drawings whose links Run
  can build (`CanBuild`), without containers and routers (the script has no container, and makes routers
  differently) and without addresses for further interfaces. Of an imported link the two disagree: Run
  raises and the script works.
- `AddressesDistinct`: no two hosts of a drawing made in one session share an address, unless the
  user typed it. Containers are not among these hosts: they do not raise the count from which
  they are numbered, so that they share addresses with each other and with hosts.

Each excludes the gestures that are known to break it, by name: a name given twice
(`nameTaken`), a control link to a container (`dockerControl`), a dialog confirmed after its node
was deleted or a network was started (`staleDialog`), New or Open while a network runs
(`fileWhileRunning`), a file of the first version (`oldFile`), a file at all for the counters of
addresses (`fileOpened`), an imported host whose address was cleared or replaced (`addressReplaced`). No document of the editor speaks of these, so they are not findings.

Bounds: five gestures reach a node with its link, a deletion or a dialog, a run and a change of
it; two imported drawings (a switch and its controller; two hosts linked to each other) save the
first gestures, and two files stand for earlier sessions: one of the first version, and one with a router
and a container that has two links and an address for its second interface. Only safety is checked: a
user is obliged to nothing, and quits in the end (no deadlock check).

### Docker hosts (`docker_host`)

- `RecordTellsTheLimits`: a limit recorded in `resources` of a running container is the one in
  force, after any calls; except after a call that the daemon refused, and for the cores of
  `updateCpuLimit()`, which are not recorded.
- `CommandsReachTheirOwn`: a command is executed in the container made for its node, although
  the check is by id and the execution by name.
- `NothingLeftBehind`: a running container belongs to a host of the network and a rule to an
  access point, unless a constructor raised, a removal failed, the process died or rules were
  added twice; nothing of either is left after `stop()`.

Bounds: two names of which one is a prefix of the other, two objects, three calls per process,
one trouble, two processes, both interpreter versions: enough for a name to be removed, taken
again and removed, in one process or across a crash. Only safety is checked.

### Limits (`host_limits`)

- `QueuesAsAsked`: after any configurations, attachments and faults, also faults whose command was
  refused, packets pass exactly the disciplines of the last configuration, and a fault is in place only
  where nothing was asked for. Two losses are excepted, each until the next configuration: one made while a
  `prio` fault is on is refused, and the end of a `netem` or `tbf` fault takes along a configured root
  that is a `netem` or a `tbf` (`Exposed`); limits by `htb` and `hfsc`, and what is below them,
  survive every fault. Faults on limited links are what `src/README.md:55` tells users not to inject,
  so these losses are no findings.
- `ShareAsAsked`: the host gets the fraction asked for last, to one microsecond of rounding, for
  fractions that periods of the kernel can hold; after a removal that succeeded there is no group.

Bounds: four calls, in which a fault can begin, be configured away or refused, end, and another
configuration follow; fifteen sets of link parameters at and beyond the limits; fractions from a
half to a hundred-thousandth of three processors, zero and the unlimited one.

### What the violations show

- `no_links_repeating`: with no round in its range the outer loop of `go()` in repeating mode
  has no await in it. The listener never runs; `stop()` and `net.stop()` have no effect, and at
  exit Mininet waits for its child forever. The passing runs leave this configuration out.
- `most_used_repeating`: `links_to_inject` is set up once and never emptied. The second pass
  injects all links in its first round. The passing runs have MostUsedLink in the other modes.
- `log_lost_at_shutdown`: `net.stop()` removes interfaces before it tells the controller. An
  iteration of MostUsedLink that begins in between cannot read the traffic of a missing
  interface, raises, and takes the logger with it.
- `times_omitted`: the documented defaults for the times of a fault do not exist; the example
  in `src/README.md` ends its controller with an exception.

### Hazards without a property

- `BaseFaultController.py:61`: if the constructor of a controller raises, the starter waits for a
  set-up message for ever. `CrashController` models the exception, but no configuration of
  the runs raises there; the hang would be its only consequence.
- `BaseFaultController.py:107`: after a crash `is_active()` answers True for ever;
  `DoneReachesStarter` is stated for normal ends because of it.
- `BaseFaultController.py:175`: the pattern without a dash, described above.
- `node.py:273`: `readline()`, described above.
- `fault_injectors.py:531`: the fault on one protocol without effect, described above.
- `src/examples/miniedit.py:3572`, `2283` and `3599`: addresses of imported hosts and of containers, and
  imported links, described above. No document or test says otherwise, so they are not findings.

## Proofs

Eight modules, checked by TLAPS. The first seven theorems hold for every finite set of links, every
set of configurations over it and every number of calls (the three named assumptions of
`FaultController`):

- `TypeCorrect`: `Spec => []TypeOK`;
- `QuietOnceDone`: `Spec => []QuietWhenDone`;
- `StarterLearnsOfTheEnd`: `Spec => []DoneReachesStarter`;
- `LogIsWritten`: `Spec => []LogWrittenAtExit`;
- `ShutdownStopsIterations`: `Spec => NoIterationAfterShutdown`;
- `RequestsAreNotOverdrawn`: `Spec => []IterationsNeedRequests`;
- `ControllerKeepsItsSchedule`: `Spec => ImplementsSchedule`, under the further assumption
  that no configuration is MostUsedLink in repeating mode, which the run
  `most_used_repeating` shows to be needed;
- `NodeTyped`: `Spec => []TypeOK`, `NodeStaysInStep`: `Spec => []InStep` and `OutputsBelong`:
  `Spec => []OutputBelongs` of `NodeShell`, for every length of output, size of reads and number
  of commands, interrupts and deaths (`NodeShellAssumption`: they are naturals, a read is not
  empty);
- `FaultsTyped`: `Spec => []TypeOK`, `FaultsKeepToTheirTime`: `Spec => []KeepsToItsTime`,
  `DegradationsClimb`: `Spec => DegradationClimbs`, `TableIsTrue`: `Spec => []TableTellsTheTruth` and
  `FaultsLeaveNothing`: `Spec => []NothingLeft` of `FaultInjection`, for every set of injectors and
  interfaces. `ProfilesAssumption`: times and pattern arguments are not negative and a link fault is
  on an interface; `InjectorsAssumption`: the names for nobody and for the network are no
  injector's; `NetworksAssumption`: the network's own root is one that `TCIntf` makes;
- `HostGetsItsShare`: `LimitsSpec => []ShareAsAsked` of `HostLimits`, for every number of processors,
  every period the kernel takes, all fractions and any number of retries (`CpuAssumption`);
- `PacketsQueueAsAsked`: `LimitsSpec => []QueuesAsAsked` of `HostLimits`, for every set of parameters of
  a link (`TcAssumption`: they are records of the fields of `config()`);
- `CommandsStayAtHome`: `Spec => []CommandsReachTheirOwn`, `HostsTyped`: `Spec => []TypeOK`,
  `RecordsTell`: `Spec => []RecordTellsTheLimits` and `NothingStaysBehind`: `Spec =>
  []NothingLeftBehind` of `DockerHost`, for all names, limits and numbers of calls, troubles and
  processes (`LimitsAssumption`: limits are records of the fields of `update_resources()`);
- `EditorTyped`: `Spec => []TypeOK`, `AddressesApart`: `Spec => []AddressesDistinct`, `ListsAreDrawn`:
  `Spec => []LinksAgree`, `RunsAreDrawn`: `Spec => []RunIsWhatIsDrawn`, `ScriptMakesTheRun`:
  `Spec => []ScriptIsTheRun` and `DrawingsComeBack`: `Spec => []SavedIsLoaded` of `MiniEdit`, for all
  tools, names and numbers of gestures. `ImportsAssumption`: the nodes of a topology have names of
  their own and no two of its links join the same nodes; `FilesAssumption`: a file is one that the
  editor wrote (`WellFormed`); `KindsAssumption`: the tools are those of the toolbar;
- `NetSound`: `Spec => []Sound`, `NetTyped`: `Spec => []TypeOK`, `NetWaits`: `Spec => WaitTells`,
  `NetOrderly`: `Spec => [](Sound /\ Orderly)`, `NetStops`: `Spec => []StopLeavesNothing`,
  `NetWired`: `Spec => []LinksAreWired`, `NetAims`: `Spec => []FaultsStayOnTheirLink` and `NetBuilt`:
  `Spec => []BuiltAsDrawn` of `NetLifecycle`, for every set of topologies, every program and all bounds.
  `TopologiesAssumption`: nodes of a topology have names of their own, a link is between two of its
  nodes, and nobody asks for port 0 of a switch, which is its loopback interface; `PortsAssumption`: each
  entry of the topology's table of ports is of a link that is in its graph (`addPort()` is called by
  `addLink()` alone, and nothing takes links out of a topology; only a caller that gave two links one key
  would replace the first); `ProgramAssumption`:
  the same of the ports that calls ask for; `BoundsAssumption`: the bounds are naturals.

### The fault controller (`FaultControllerProofs`)

None of the second to the fifth is inductive: each relates a pipe or a task to another task, and
only the place where `main` is connects them. `SafetyInvariant` says how, in six parts:

- `LifeCycle`: the process and `main` go through their lives together;
- `StartIsFirst`: nothing precedes START in the pipe, so `wait_until_go()` never returns early;
- `InjectorsAwaited`: injector tasks are busy only while `main` awaits them, and a fault is in
  place only for an injector that is active or has raised;
- `ActiveInIteration`: when `main` has decided to iterate, the controller is active (no other
  task ran since the test), and it is not active once the listener is done or `main` closes;
- `DoneMeansClosed`: DONE is visible only after `main` has closed, and it is not lost;
- `LogAwaited`: `main` passes its await of the logger only when the log is written.

`SafetyStep` shows that every action preserves it, one step per action; the theorems follow
from it and from `TypeCorrect`. `PipeAppend` and `PipeTail` are the facts about pipes it uses.
TLC agrees with `SafetyInvariant` on the instances of both passing runs.

### Requests (`FaultControllerProofs`)

A request passes through three places before it is an iteration: the pipe, the flag
`do_next_run`, and the decision of `main` to iterate. `RequestsCounted` counts them together:
iterations begun, plus one while `main` has decided, plus one for the flag, plus the NEXTs in the
pipe are at most the calls. The lemmas on `Count` say what a send and a receive do to the number
of messages in a pipe; the listener may merge several NEXTs into the one flag, so the sum may
fall and never rises but by a call.

### The schedule (`FaultControllerProofs`)

Every step of the two processes is one step of `IterationSchedule` or a stutter (`ScheduleStep`).
The invariant it needs, `RoundsInvariant`: `main` is where its controller can be
(`MainFitsController`), a round is within its range while one is under way (`RoundsInRange`),
the pool of MostUsedLink has one link per round so far (`PoolGrowsWithRounds`), the controller is
active until it was stopped or is through, and inactive only for one of these reasons
(`ActiveUntilStopped`, `DeactivatedForAReason`).

### The node shell (`NodeProofs`)

`InStep` is nearly inductive: it needs the shape of the tokens (`ShellType`), because the
number of sentinels that a read takes away from the pty is the number that `monitor()` finds.
`SentinelsConcat` and `SentinelsSplit` count sentinels over concatenation and over the cut of a
read; `CommandCases` and `ReadCases` reduce the calls to what they do to the count;
`InterruptCounts` bounds what an interrupt adds.

`OutputBelongs` looks only at the moment when the node has stopped waiting. What makes it true is
where everything is before that, and `Orderly` says it of the stream, which is the buffer of the
node and then the pty, wherever the reads cut it:

- `InOrder`: the stream holds tokens of the last command or of one in the background, nothing
  follows the sentinel of a command but what background commands print, and a command is
  in one place only: not yet read by bash, running, or through;
- `LinesInOrder`: what was heard, then what is in the stream, is the first lines of the command, and
  bash has the others still to print; when the sentinel has been heard it is all of them;
- `PidInOrder`: the process id is known to the node, or its marker is whole and under way, or bash has
  not printed it;
- `HeardOwn`: nothing heard belongs to another command in the foreground.

`Belongs` claims this while there was no interrupt and no `readline()`. Each action has a lemma
that says what it does to an orderly stream: a fresh command (`FreshOrderly`), bash taking it or
printing a piece (`TakenOrderly`, `PieceOrderly`, `PromptOrderly`), the background (`AsideOrderly`),
a read (`ReadOrderly`, from `MarkerRead` and `HeardAndUnread`), a death (`TerminatedOrderly`). `Kept`
is a recursive function of the length of a sequence; what it computes for a concatenation
(`KeptConcat`) is shown by induction over the numbers up to that length.

### The rhythm of faults (`FaultInjectionProofs`)

`KeepsToItsTime` bounds how often a fault has been turned on, so it needs the guard of every place
that turns one on, which is in the invariant `InRhythm`: a task that has had a round does not
raise, and has had at most `Rounds` of them. `RoundsFit` is the arithmetic of the three patterns:
the quotient that the code rounds down leaves room for all rounds, also where stress faults cut
their sleep to whole seconds. That a task "does not raise" is what makes the period, the divisor,
different from zero. A degradation whose first value is not above its end value stays below it
(`InRhythm`), and `ValueType` says that a step of it does not fall then. `ProfilesAssumption`
excludes negative times and steps, which the code does not check.

### The kernel and the table (`FaultInjectionProofs`)

`TableTellsTheTruth` and `NothingLeft` speak of faults that are alone, or that are off; the steps that
could break them are those of other faults on the same interface. The invariant
`FaultsSound` therefore speaks of all of them. For the set of the faults that are on:

- `Holds`: whatever is on an interface is the network's or is held by a fault that is on and
  whose type puts such a thing there: the root, the queue below it, a filter, an ingress discipline
  with its mirrors, a link that is down (`HeldBy`). A root that the network made and a fault cannot
  take along is still there, which is why every `add` at such a root fails;
- `TableOwned`: every entry of the table belongs to a fault that is on;
- `TableTrue`: for a fault that is alone on its interface and has its own tag, what is present is in the
  table, and an entry with exit status zero has its effect.

A fault runs a list of commands, each of which the kernel takes or refuses. `ExecuteRuns` makes of the
recursive function `Execute` a run of states from one command to the next, by induction over its length;
`CommandsTurnOn` and `TurningOnHolds` say that no command of an injection adds what the fault does not
hold, whichever of them fails, and `CommandsOff` and `TurningOffHolds` that after the one command of a
removal the fault holds nothing, also when the kernel refused that command. `EffectWide`
and `EffectFiltered` are the cases where all commands were taken. `SoundOn`, `SoundOff` and `Untouched`
lift this from an interface to the system. Where nobody holds anything, an interface is as the
network made it (`NobodyHolds`): this is `NothingLeft`.

### The share of a host (`NodeProofs`)

The invariant `Grouped` says what the kernel's group holds of the fraction that was accepted last:
`InfoGivesShare` is the arithmetic of `cfsInfo` (period and quota are adjusted when the quota
would be too small, and the quotients lose less than a microsecond), `PlacedKeeps` and
`RetriesLeft` that a retry of the placement changes none of it. Steps on the links
leave the host alone, as the proof of the composition shows.

### The queues of a link (`NodeProofs`)

`Queued` is `QueuesAsAsked` with the types of the records. It is inductive because it says what is at
the root while a fault is on: a discipline of the injector is there only where the last configuration
meant none, or where it was taken along before; so the end of a fault deletes either its own tree, or
nothing, or a configured root of its kind, which is then `Exposed`. `config()` deletes first what is not
shown with a priomap, and fails at a `prio` fault, which `blocked` keeps. The rest is about `config()` itself: the list of commands that it runs
builds, one after the other, the tree that `Meant` describes at once. `TcAllConcat` cuts the
list in two (by induction over the numbers up to its length), `LimitMade` and `DelayMade` run the part of `bwCmds()` and that of
`delayCmds()`, and `ConfiguredIsMeant` puts them together.

### Commands of containers (`DockerHostProofs`)

A command is sent to a shell that was opened by name, while the object asks by id whether its
container runs. `OwnContainers` says why that is sound: names of containers are unique, a container
that still has the id of an object has the object's name, and an object's shell is none or in its
own container. `AddedKeeps` is the case of the constructor, whose new container takes a new id and a
name that is free, also after the option `rm`; `OwnKept` is the case of all steps that only take
containers away. Container ids are never used again, which is what Docker's are.

### Limits and leftovers of containers (`DockerHostProofs`)

`HostsSound` is what `OwnContainers` becomes when it must also say who is responsible for what:

- `Records`: the limits of every container are ones that the daemon takes, no two objects have one
  container, and each record tells the limits in force, but for the fields that a refused call asked
  for (`RecordTold`). This carries `RecordsTell`;
- `Hosting`: the network's table of names leads to hosts of that name, and every container that runs is
  kept by a host or was lost to a failure that the history names;
- `Rules`: every rule of the NAT table is that of an access point which is up, or is a stray that a
  named failure left.

The three have one step lemma per action each. The lemmas `RecordsLeft`, `HostingLeft` and `RulesLeft`
are for the many actions that leave limits, hosts or access points alone.

### Lists, maps and waiting (`NetLifecycleProofs`)

`Sound` is what holds at all times, whatever raised half way, died or was interrupted. `Shape` is its part
about the world, and every operator that changes the world is shown to keep it:

- `Maps` of a node: what `intfs` gives for a port has that port in `ports`, and an interface other than
  the loopback is an end of a link at this node, under the number that the link keeps. The converse fails
  in the code: a port that is taken twice leaves the first interface in `ports` only;
- `LinkShape`: a link is between two nodes with different names;
- `NodesListed`, `LinksListed`: `hosts` and `switches` have the nodes of `nameToNode`, by their kind, and the
  listed links exist;
- `Todo`: what is left to build is well-formed over the names that are listed or will be before it; what
  is left to start or to stop is on the lists.

Removing a node deletes all its interfaces in the order of its map, and `stop()` terminates all switches
at once. Both are recursive functions of the number of steps (`DeletedIntfs`, `AllTerminated`), and the
lemmas on them are inductions up to that number. Each action has a lemma `...Does` or `...Keeps`;
the first say what an action does without the records of the world, and the second module uses these
as well. `Waiting` is the invariant behind `NetWaits`: a switch that is no longer in `remaining` was seen.

### What belongs to the network (`NetTidyProofs`)

`StopLeavesNothing` looks at the end only. `Orderly` says what the system holds at each moment, with the
nodes, links and switches that are still to be visited (`Owners`, `LinksThere`, `SwitchesThere`):

- `Kept`, while nothing failed: whatever is in the system is the network's. A process is of a node whose
  shell runs (`Owned`), a veth pair is that of a link with both ends in the maps of their nodes (`Live`), a
  bridge is of a switch (`Bridged`), and nodes that the network has forgotten are bare (`BareBut`);
- `Tidy`, while nothing died, was interrupted or failed to be removed: nothing is missing. Every
  node has its shell and its process, every link its pair and its place in both maps, and there are no other
  interfaces (`Whole`);
- `Cleaned`: after `mn -c` there is nothing.

Only the two together are inductive. That a veth pair goes with its link depends on a shell that can run
`ip link del`: a dead shell is started again by the next command, and when a container cannot be, the
namespace and its pairs are gone already. `Ours...` and `Whole...` are one lemma for each kind of step on the
world, `Orderly...` one for each action; `OrderlyLeavesNothing` is the end of `stop()`, where
nobody owns anything any more.

`LinksAreWired` follows from these at rest, but for the bridges. There `Bridges` (`NetBridged`) is the
invariant: the bridge of each switch that `start()` has visited carries the ports of that switch and no
others. Why a bridge that is made later is not one of an older switch needs that the system was clean:
`Quiet` says that calls are made only then, which rests on a bound of the model (a later run builds, starts
and stops its network, and does not change it). That the next link finds free names (`NextPairIsMade`):
`newPort()` is above all ports of the node, and each name in the system is one of those ports.

`FaultsStayOnTheirLink` says where the interfaces are in the kernel that the fault controller was told at
the start. `Aiming` (`NetAimed`) says it of the network's lists: each target fits a listed link between its two
nodes, by the name of the interface at the first (`Fits`), or there was no link between them. That is so of
what `Aims` resolves (`ArrowFits`, `NamedFits`: the last link between the two for an arrow, the first with the
name otherwise; both are the maximum or minimum of a set of positions), and calls that add a node or a link
leave it so, for names are never changed. `NamesItsLink` takes it from the lists to the veth pairs.

`BuiltAsDrawn` compares the network with the topology. `Drawing` (`NetDrawn`) follows it while it is built:
`BuiltOf(h, s, m, k, l)` says that of the `h` hosts, `s` switches and `m` links the first `k` nodes and the
first `l` links are made, that the jobs left are exactly the others, and that link number `j` of the topology
is link object number `j`, between nodes of its names and at its ports (`AsDrawn`). `Numbered` says the same of
addresses. `DrawnPairIsMade` is the argument for failures: in a clean system every veth pair is that of a link
made before, so that a name is taken only if two links of the topology meet at a port; a container's name is
taken only by a container of the network. After that the drawing stays until a call changes the network,
and `WiredAsDrawn` reads each entry of the table of ports off the maps of the nodes, by `HasAll` of `Orderly`.

### The editor (`MiniEditProofs`, `MiniEditRunProofs`)

Deleting, opening and importing are loops over the drawing (`ForEach`) that go on until a callback raises.
`Runs` names such a loop by its operation, and `UpTo` gives the induction along its list. `Shape` is what
all operations keep, also when they raise: nodes, links and entries of options are well-formed, and every
item was handed out once (`NodeAddedShape`, `LinkAddedShape`, `DeleteNodeShape`, ...). `TypeInv` is `Shape`
with the other variables, and `EditorTyped` follows.

`AddressesApart` (`AddressesInv`) needs that the offsets of hosts differ and are behind the count of hosts
(`Numbered`): an imported host's offset is one above its number, which is the count of hosts once it is added.
That is so of an imported topology (`ImportedPart` follows the import node by node), the tools count on,
and a dialog keeps the number. Why a new name has no options that belong to another host needs that names
differ (`Named`), which the property takes from `trouble`. `NextChanges` says once which of these a
step does.

The other four rest on `Good` (`LinksKept`): names differ, each link joins two nodes that know it
and that it may join, a node knows no other links, every node has options of its kind, and a switch lists
only controllers it is linked to, each once. `Managed` is the converse, that who is linked to a
controller lists it; an older file breaks it, since it links routers and legacy switches to its
controller. Within a loop both are false for a while: deleting a node takes a controller from all lists before
the links go, and opening a file enters a list before its links are made. Hence their parameter, the set of
items that are excepted (`Good(d, X)`), and the invariants of the loops (`ManagedBut`, `Reading`, `LinkedTo`).
A file that `saveTopology()` writes of a good drawing is well-formed (`SavedWellFormed`), so that
opening it is a case of opening any file.

`RunInv` adds the network: while one runs the toolbar is disabled, and the network is the one drawn
(`IsRun`). Setting a link down changes the links of the drawing and the network in one step; that they still
agree needs that no two links join the same nodes (`PairsDiffer`), and that the links built do not depend on what
is down (`ChosenAlike` compares two filtered lists place by place). What a link is built from is compared with
what is drawn by `BuiltEnds` (the ends always, the options where no address takes their place) and
`NoRowsNoParams` (no address does if neither end has rows). Run makes links one by one and may raise
after any of them; a link that was made is drawn as up (`Undashed`), which is part of the step. That the script
agrees uses `CanBuild` at one place: the script's options of a link are the drawn ones without the ends,
and are the drawn ones only if these hold no ends.

`SavedIsLoaded` is about one drawing, written and read again; no step of the system is in between, and
`LinksInv` of that drawing is what it needs. The file has every node once, in lists that are
read in turn: controllers, hosts, switches (`SavedInTurn`). Reading it, the drawing so far is compared with the one
that was saved: `Holding(d, e, F)` says that `e` has the nodes `F` of `d`, with the options that `d` has
of them (item numbers are new, so nodes are compared by name and kind). Each entry read puts one node
more into `F` (`ControllerHeld`, `HostHeld`, `SwitchHeld`), and it does not raise, as a switch lists
only controllers, which were read before it. Data links are compared place by place, since their order
decides the ports (`LinkedUpto`); that `loadTopology()` finds both ends by name needs that names differ. Control links are not in the file.
`ControlPairsAre` says that in a drawing that is good and managed they are what the lists of the switches say;
this holds of the old drawing and the new one, and the lists came back.

### Only model-checked

Liveness (`StopEnds`, `AutomaticEnds`, `RequestIsTaken`, `EveryTaskEnds`, `CmdReturns`,
`WaitReturns`) is out of the prover's reach. What a recursive definition computes for every input can be
shown only where it is a recursive function of a number: the library's theorem on well-founded sets
then gives an induction up to a bound (`UpTo` in some of the modules). It is no help for RECURSIVE
operators; `StockTopologies` declares some, so that the theorems on `NetLifecycle` are about any
well-formed topology and not about those.

## Not modelled

Whole components:

- Network controllers (their processes, `checkListening`), `addNAT`, other switch classes
  (`LinuxBridge`, `UserSwitch`, `IVSSwitch`): start and stop of a process by shell commands, without a
  protocol between actors of the program. The batch mode of `start()` is disabled in the source
  (`net.py:640-646`).
- The traffic counters of MostUsedLink (`AgnosticLink.py`): which link is the busiest is a free
  choice.
- Ping and iperf tests, X terminals, logging to the console, option parsing of `src/bin/mn`,
  parsers and formatters of `util.py`, YAML reading: they translate text and keep no state. The
  entries of the fault log are only text, too.
- `mnexec`: a launcher around system calls.
- The cluster edition and the other examples, the VM builder, installers and the vendored kernel
  scheduler: not part of the program.

Within the modelled components:

- Lengths of sleeps; the text of commands; the commands of node and multi faults, whose exit status
  is anything; `startShell()` in parts.
- `NetLifecycle`: addresses other than the default one; waiting after a change; a second trouble.
- `MiniEdit`: several dialogs at once, the steps of a drag, Run with names given twice (what the
  kernel says to that is open). Whether `build()` raises
  is a free choice. Saving is modelled together with the opening of what was saved.
- `DockerHost`: a `cgset` that succeeded is read back as written; the daemon's acceptance is the
  ranges in `Accepts`; whether a control group is found is a free choice; a program names each access
  point once while it is up; build and pull of an image are one choice of success.

## What is left

Traffic counters of MostUsedLink composed with its pool, so that in the n-th round the chosen
link is the busiest since the last; controllers and NAT nodes in `NetLifecycle`; the configuration
parser as operators with a reference definition.
