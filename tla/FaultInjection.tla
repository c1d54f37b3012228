--------------------------- MODULE FaultInjection ---------------------------
(* The injector tasks of one controller process, the table of active faults
   they share with the logger, and the queueing disciplines, redirections and
   link states they leave in the kernel (fault_injectors.py, faultlogger.py).

   A task runs from one await to the next without interruption, so each action
   is what a task does between two sleeps.  How long a sleep lasts is not
   modelled: the commands of other tasks block the event loop, and a sleep may
   end at any later moment.  Times are in milliseconds, and the quotients of
   the code are exact here.  Ports and protocols are kept as far as they decide
   which commands are built.                                                *)
EXTENDS Integers, Sequences, FiniteSets, SequencesExt, FiniteSetsExt, Functions

CONSTANTS
    Injectors,   \* the tasks that gather() runs
    Interfaces,  \* the interfaces they inject on
    Profiles,    \* what the tasks may be: a set of functions from Injectors
    Networks     \* the root qdiscs of the network itself: a set of functions
                 \* from Interfaces

NoOne == "none"
Network == "network"
PortLists == [form : {"int", "list"}, ports : Seq(Nat)]

(* An injector is told from the network and from nobody.  Times, and what the
   arguments of a pattern count, are not negative; a link fault is on one of
   the interfaces. *)
ASSUME InjectorsAssumption == Injectors \cap {NoOne, Network} = {}
ASSUME ProfilesAssumption ==
    \A p \in Profiles : \A i \in Injectors :
        /\ {"time", "patternArgs", "kind", "protocol", "dst", "src", "dev"} \subseteq DOMAIN p[i]
        /\ p[i].time \in Nat /\ p[i].patternArgs \in Seq(Nat)
        /\ p[i].dst \in PortLists /\ p[i].src \in PortLists
        /\ p[i].kind = "link" => p[i].dev \in Interfaces

(* The root of an interface is the kernel's own, or one that TCIntf makes. *)
ASSUME NetworksAssumption ==
    Networks \subseteq [Interfaces -> {"none", "htb", "hfsc", "tbf", "netem"}]

VARIABLES
    fault,       \* fault[i]: the parameters of injector i
    network,     \* network[e]: the network's own root qdisc on e
    kernel,      \* kernel[e]: what the kernel does on interface e
    active,      \* ACTIVE_FAULTS_DICT: from tags to [type, ok]
    pc,          \* pc[i]: the sleep that task i is in, or how it ended
    round,       \* round[i]: how often i has turned its fault on
    value,       \* value[i]: degradation_value, injection_intensity
    loop         \* the event loop: running, failing, closed

vars == <<fault, network, kernel, active, pc, round, value, loop>>

Sleeps == {"pre", "on", "off", "post"}
Ends == {"done", "raised", "cancelled"}

-----------------------------------------------------------------------------
(* The kernel of one interface, as tc and ifconfig change it. *)

Qdisc(kind, by) == [kind |-> kind, by |-> by]
NoQdisc == Qdisc("none", NoOne)

FreshInterface(kind) ==
    [root    |-> IF kind = "none" THEN NoQdisc ELSE Qdisc(kind, Network),
     leaf    |-> NoQdisc,   \* parent 1:1 handle 2:
     filters |-> {},        \* u32 filters at 1:0, as <<injector, what they match>>
     ingress |-> NoOne,     \* qdisc ffff:
     mirrors |-> {},        \* mirred filters at ffff:
     downBy  |-> NoOne]

Cmd(op, object, kind, valid) ==
    [op |-> op, object |-> object, kind |-> kind, valid |-> valid, match |-> "all"]
Matching(cmd, match) == [cmd EXCEPT !.match = match]

(* The exit status: "add" never replaces what is there, and "del" wants the
   qdisc that it names. *)
Accepts(d, c) ==
    /\ c.valid
    /\ CASE c.object = "root" -> d.root.kind = IF c.op = "add" THEN "none" ELSE c.kind
         [] c.object = "leaf" -> d.root.kind = "prio" /\ d.leaf = NoQdisc
         [] c.object = "filter" -> d.root.kind = "prio"
         [] c.object = "ingress" -> (d.ingress = NoOne) <=> (c.op = "add")
         [] c.object = "mirror" -> d.ingress # NoOne
         [] c.object = "link" -> TRUE

After(d, i, c) ==
    IF ~Accepts(d, c) THEN d ELSE
    CASE c.object = "root" /\ c.op = "add" -> [d EXCEPT !.root = Qdisc(c.kind, i)]
      [] c.object = "root" /\ c.op = "del" ->
            [d EXCEPT !.root = NoQdisc, !.leaf = NoQdisc, !.filters = {}]
      [] c.object = "leaf" -> [d EXCEPT !.leaf = Qdisc(c.kind, i)]
      [] c.object = "filter" -> [d EXCEPT !.filters = @ \cup {<<i, c.match>>}]
      [] c.object = "ingress" /\ c.op = "add" -> [d EXCEPT !.ingress = i]
      [] c.object = "ingress" /\ c.op = "del" -> [d EXCEPT !.ingress = NoOne, !.mirrors = {}]
      [] c.object = "mirror" -> [d EXCEPT !.mirrors = @ \cup {<<i, c.match>>}]
      [] c.object = "link" -> [d EXCEPT !.downBy = IF c.op = "add" THEN i ELSE NoOne]

(* The commands of a shell line and the lines of a list, in their order; the
   status recorded is that of the last one. *)
Do(s, i, c) == [dev |-> After(s.dev, i, c), ok |-> Accepts(s.dev, c)]
Execute(d, i, cmds) ==
    LET run[n \in 0..Len(cmds)] ==
            IF n = 0 THEN [dev |-> d, ok |-> TRUE] ELSE Do(run[n - 1], i, cmds[n])
    IN  run[Len(cmds)]

(* What tc accepts of "netem <type> ..." with probability v (for delay: the
   part that is reordered). *)
NetemAccepts(type, v) ==
    type \in {"delay", "loss", "corrupt", "duplicate"} /\ v \in 0..100

-----------------------------------------------------------------------------
(* The commands of a link fault. *)

(* The pattern the commands are built for: a burst is a persistent fault turned
   on and off, a degradation a random one whose probability grows. *)
CommandPattern(c) ==
    CASE c.pattern = "burst" -> "persistent"
      [] c.pattern = "degradation" -> "random"
      [] OTHER -> c.pattern

KnownPattern(c) == CommandPattern(c) \in {"random", "persistent"}
ProtocolWide(c) == c.protocol = "any"

RedirectsAtRoot(op) ==                    \* mutant: ejects like a netem fault
    IF op = "add"
    THEN <<Cmd("add", "ingress", "ingress", TRUE), Cmd("add", "mirror", "mirred", TRUE)>>
    ELSE <<Cmd("del", "root", "netem", TRUE)>>

Redirects(op) ==
    IF op = "add"
    THEN <<Cmd("add", "ingress", "ingress", TRUE), Cmd("add", "mirror", "mirred", TRUE)>>
    ELSE <<Cmd("del", "ingress", "ingress", TRUE)>>

ProtocolWideCommands(c, v, op) ==
    CASE c.type = "redirect" -> Redirects(op)
      [] CommandPattern(c) = "persistent" /\ c.type = "bottleneck" ->
            <<Cmd(op, "root", "tbf", TRUE)>>
      [] CommandPattern(c) = "persistent" /\ c.type = "down" ->
            <<Cmd(op, "link", "down", TRUE)>>
      [] OTHER ->
            <<Cmd(op, "root", "netem",
                  NetemAccepts(c.type, IF CommandPattern(c) = "random" THEN v ELSE 100))>>

(* A filter for each port; the branch for all ports of the protocol hangs on
   the source ports alone. *)
PortFilters(c) ==
    LET Filter(match) == Matching(Cmd("add", "filter", "u32", TRUE), match)
    IN  [n \in 1..Len(c.dst.ports) |-> Filter(<<"dport", c.dst.ports[n]>>)]
        \o IF c.src.ports # <<>>
           THEN [n \in 1..Len(c.src.ports) |-> Filter(<<"sport", c.src.ports[n]>>)]
           ELSE <<Filter(<<"protocol", c.protocol>>)>>

(* The qdisc that the filters lead to; for a pattern that is none of the two, none
   is added, and a redirection is made of the filters themselves. *)
Redirected(c) == c.type = "redirect" /\ CommandPattern(c) = "persistent"
Leaf(c, v) ==
    CASE CommandPattern(c) = "random" ->
            <<Cmd("add", "leaf", "netem", NetemAccepts(c.type, v))>>
      [] CommandPattern(c) = "persistent" /\ c.type = "bottleneck" ->
            <<Cmd("add", "leaf", "tbf", TRUE)>>
      [] CommandPattern(c) = "persistent" /\ c.type \notin {"bottleneck", "redirect"} ->
            <<Cmd("add", "leaf", "netem", NetemAccepts(c.type, 100))>>
      [] OTHER -> <<>>

FilteredCommands(c, v, op) ==
    CASE op = "del" /\ c.type = "redirect" -> <<Cmd("del", "ingress", "ingress", TRUE)>>
      [] op = "del" /\ c.type # "redirect" -> <<Cmd("del", "root", "prio", TRUE)>>
      [] op = "add" /\ Redirected(c) ->
            <<Cmd("add", "ingress", "ingress", TRUE)>>
            \o [n \in 1..Len(PortFilters(c)) |->
                    Matching(Cmd("add", "mirror", "mirred", TRUE), PortFilters(c)[n].match)]
      [] op = "add" /\ ~Redirected(c) ->
            <<IF c.type = "redirect" THEN Cmd("add", "ingress", "ingress", TRUE)
              ELSE Cmd("add", "root", "prio", TRUE)>>
            \o PortFilters(c) \o Leaf(c, v)

(* Building the commands raises when an argument that is indexed is not there,
   when a port is a number and not a list of them, and, for the faults on all
   protocols, when the pattern is none of the two. *)
BuildRaises(c) ==
    \/ c.pattern = "random" /\ c.patternArgs = <<>>
    \/ c.type = "delay" /\ c.args = <<>> /\ KnownPattern(c)
    \/ c.type \in {"bottleneck", "redirect"} /\ c.args = <<>> /\ CommandPattern(c) = "persistent"
    \/ ProtocolWide(c) /\ c.type = "redirect" /\ c.args = <<>>
    \/ ProtocolWide(c) /\ ~KnownPattern(c)
    \/ ~ProtocolWide(c) /\ \E p \in {c.dst, c.src} : p.form = "int" /\ p.ports # <<>>

-----------------------------------------------------------------------------
(* The rhythm of a fault. *)

Div1000(ms) == (ms \div 1000) * 1000     \* int(seconds), in milliseconds

PatternArg(c, n, default) == IF Len(c.patternArgs) >= n THEN c.patternArgs[n] ELSE default

BurstDefaults(c) == c.kind # "link" /\ Len(c.patternArgs) < 2
BurstPeriod(c) == IF BurstDefaults(c) THEN 2000 ELSE c.patternArgs[2]
BurstDuration(c) ==
    LET asked == IF BurstDefaults(c) THEN 1000 ELSE c.patternArgs[1]
    IN  IF c.type = "stress_cpu" THEN Div1000(Max({1000, asked})) ELSE asked

StepLength(c) == PatternArg(c, 2, 1000)
StartValue(c) ==
    CASE c.pattern = "degradation" -> PatternArg(c, 3, 0)
      [] c.pattern = "random" /\ c.patternArgs # <<>> -> c.patternArgs[1]
      [] OTHER -> 0
EndValue(c) ==
    LET asked == PatternArg(c, 4, 100)
    IN  IF c.kind = "link" THEN Min({asked, 100}) ELSE asked
NextValueUncapped(c, v) == v + PatternArg(c, 1, 5)             \* mutant: no end value
NextValue(c, v) == Min({v + PatternArg(c, 1, 5), EndValue(c)})

KnownFault(c) ==
    CASE c.kind = "link" -> TRUE
      [] c.kind = "node" -> /\ c.pattern \in {"burst", "degradation", "persistent"}
                            /\ c.type \in {"custom", "stress_cpu"}
      [] c.kind = "multi" -> c.pattern \in {"burst", "persistent"}

RoundsRoundedUp(c) ==                                          \* mutant: rounds up
    CASE ~KnownFault(c) -> 0
      [] KnownFault(c) /\ c.pattern = "burst" -> 1 + c.time \div BurstPeriod(c)
      [] KnownFault(c) /\ c.pattern = "degradation" -> 1 + c.time \div StepLength(c)
      [] OTHER -> 1

(* How often the fault is turned on. *)
Rounds(c) ==
    CASE ~KnownFault(c) -> 0
      [] KnownFault(c) /\ c.pattern = "burst" -> c.time \div BurstPeriod(c)
      [] KnownFault(c) /\ c.pattern = "degradation" -> c.time \div StepLength(c)
      [] OTHER -> 1

(* The sleeps of one round; a negative one ends at once. *)
OnTime(c) ==
    CASE c.pattern = "burst" -> BurstDuration(c)
      [] c.pattern = "degradation" ->
            IF c.type = "stress_cpu" THEN Div1000(StepLength(c)) ELSE StepLength(c)
      [] OTHER -> c.time
OffTime(c) ==
    IF c.pattern = "burst" THEN Max({0, BurstPeriod(c) - BurstDuration(c)}) ELSE 0

(* The pattern's arguments raise before anything is injected. *)
PatternRaises(c) ==
    \/ c.pattern \in {"burst", "degradation"} /\ ~c.hasPatternArgs
    \/ c.pattern = "burst" /\ c.kind = "link" /\ Len(c.patternArgs) < 2
    \/ c.pattern = "burst" /\ ~BurstDefaults(c) /\ BurstPeriod(c) = 0
    \/ c.pattern = "degradation" /\ StepLength(c) = 0

NodeRaises(c) ==
    CASE c.type = "custom" ->
            \/ ~c.hasArgs
            \/ c.args = <<>> /\ c.pattern \in {"persistent", "degradation"}
      [] c.type = "stress_cpu" ->
            \/ c.cgroup = "unlimited"
            \/ c.cgroup = "unreadable" /\ (c.pattern # "degradation" \/ Rounds(c) > 0)
            \/ ~c.hasArgs /\ c.pattern # "degradation"
      [] OTHER -> FALSE

(* A node fault of unknown pattern only logs; of unknown type, its pattern's
   arguments are read all the same. *)
FaultRaises(c) ==
    /\ c.kind = "node" => c.pattern \in {"burst", "degradation", "persistent"}
    /\ c.kind = "multi" => KnownFault(c)
    /\ \/ PatternRaises(c)
       \/ c.kind = "node" /\ NodeRaises(c)
       \/ c.kind = "link" /\ Rounds(c) > 0 /\ BuildRaises(c)

-----------------------------------------------------------------------------
(* A node's and a multi fault's commands run in the node and are opaque; their
   exit status is anything.  The command None is only logged. *)

RunsCommand(c, enable) ==
    CASE c.kind = "multi" -> TRUE
      [] c.type = "custom" -> IF enable THEN c.args # <<>> ELSE Len(c.args) >= 2
      [] c.type = "stress_cpu" -> enable
      [] OTHER -> TRUE

SetActiveIfOk(table, c, ok) ==            \* mutant: enters only what succeeded
    IF ok THEN [tag \in DOMAIN table \cup {c.tag} |->
                    IF tag = c.tag THEN [type |-> c.type, ok |-> ok] ELSE table[tag]]
    ELSE table

SetActive(table, c, ok) ==
    [tag \in DOMAIN table \cup {c.tag} |->
        IF tag = c.tag THEN [type |-> c.type, ok |-> ok] ELSE table[tag]]
SetInactive(table, c) == Restrict(table, DOMAIN table \ {c.tag})

Commands(c, v, op) ==
    CASE c.kind # "link" -> <<>>
      [] c.kind = "link" /\ ProtocolWide(c) -> ProtocolWideCommands(c, v, op)
      [] OTHER -> FilteredCommands(c, v, op)

(* What turning the fault of i on and off makes of the kernel and the table, a
   pair that one task changes at a time. *)
World == [dev |-> kernel, table |-> active]

TurnOn(w, i, v, ok) ==
    LET c == fault[i]
        r == Execute(w.dev[c.dev], i, Commands(c, v, "add"))
    IN  [dev   |-> [w.dev EXCEPT ![c.dev] = r.dev],
         table |-> SetActive(w.table, c,
                             IF c.kind = "link" THEN r.ok ELSE ok \/ ~RunsCommand(c, TRUE))]

TurnOff(w, i, v) ==
    LET c == fault[i]
    IN  [dev   |-> [w.dev EXCEPT ![c.dev] = Execute(@, i, Commands(c, v, "del")).dev],
         table |-> SetInactive(w.table, c)]

Becomes(w) == kernel' = w.dev /\ active' = w.table

-----------------------------------------------------------------------------
(* target_traffic: an unknown protocol stands for all of them, port 0 for all ports. *)
Protocols == {"ICMP", "IGMP", "IP", "TCP", "UDP", "IPv6", "IPv6-ICMP", "any"}
TargetPort(p) == IF p.form = "int" /\ p.ports = <<0>> THEN [p EXCEPT !.ports = <<>>] ELSE p
TargetTraffic(c) ==
    [c EXCEPT !.protocol = IF @ \in Protocols THEN @ ELSE "any",
              !.dst = TargetPort(@), !.src = TargetPort(@)]

Init ==
    /\ \E config \in Profiles : fault = [i \in Injectors |-> TargetTraffic(config[i])]
    /\ network \in Networks
    /\ kernel = [e \in Interfaces |-> FreshInterface(network[e])]
    /\ active = [tag \in {} |-> [type |-> "", ok |-> FALSE]]
    /\ pc = [i \in Injectors |-> "pre"]
    /\ round = [i \in Injectors |-> 0]
    /\ value = [i \in Injectors |-> StartValue(fault[i])]
    /\ loop = "running"

Runs(i, where) == pc[i] = where /\ loop # "closed"
Goes(i, where) == pc' = [pc EXCEPT ![i] = where]

CountDown(i) == round' = [round EXCEPT ![i] = @ - 1]  \* mutant: the other direction
CountNothing(i) == UNCHANGED round                    \* mutant: the round is not counted
NextRound(i) == round' = [round EXCEPT ![i] = @ + 1]
HasRoundsLeft(i) == round[i] < Rounds(fault[i])

(* The exception leaves the task, and gather() passes it on. *)
Raise(i) ==
    /\ Runs(i, "pre") /\ FaultRaises(fault[i]) = TRUE
    /\ Goes(i, "raised") /\ loop' = "failing"
    /\ UNCHANGED <<fault, network, kernel, active, round, value>>

BeginInjection(i) ==
    /\ Runs(i, "pre") /\ ~FaultRaises(fault[i]) /\ HasRoundsLeft(i)
    /\ \E ok \in BOOLEAN : Becomes(TurnOn(World, i, value[i], ok))
    /\ Goes(i, "on") /\ NextRound(i)
    /\ UNCHANGED <<fault, network, value, loop>>

(* No round fits in the injection time, or nobody knows the pattern. *)
SkipInjection(i) ==
    /\ Runs(i, "pre") /\ ~FaultRaises(fault[i]) /\ ~HasRoundsLeft(i)
    /\ Goes(i, "post")
    /\ UNCHANGED <<fault, network, kernel, active, round, value, loop>>

EndBurst(i) ==
    /\ Runs(i, "on") /\ fault[i].pattern = "burst"
    /\ Becomes(TurnOff(World, i, value[i]))
    /\ Goes(i, "off")
    /\ UNCHANGED <<fault, network, round, value, loop>>

NextBurst(i) ==
    /\ Runs(i, "off")
    /\ \/ /\ HasRoundsLeft(i)
          /\ \E ok \in BOOLEAN : Becomes(TurnOn(World, i, value[i], ok))
          /\ Goes(i, "on") /\ NextRound(i)
       \/ /\ ~HasRoundsLeft(i)
          /\ Goes(i, "post")
          /\ UNCHANGED <<kernel, active, round>>
    /\ UNCHANGED <<fault, network, value, loop>>

(* No await between the end of a step and the begin of the next. *)
NextDegradation(i) ==
    LET v == NextValue(fault[i], value[i])
        w == TurnOff(World, i, value[i])
    IN  /\ Runs(i, "on") /\ fault[i].pattern = "degradation"
        /\ value' = [value EXCEPT ![i] = v]
        /\ \/ /\ HasRoundsLeft(i)
              /\ \E ok \in BOOLEAN : Becomes(TurnOn(w, i, v, ok))
              /\ NextRound(i) /\ UNCHANGED pc
           \/ /\ ~HasRoundsLeft(i)
              /\ Becomes(w)
              /\ Goes(i, "post") /\ UNCHANGED round
        /\ UNCHANGED <<fault, network, loop>>

EndInjection(i) ==
    /\ Runs(i, "on") /\ fault[i].pattern \notin {"burst", "degradation"}
    /\ Becomes(TurnOff(World, i, value[i]))
    /\ Goes(i, "post")
    /\ UNCHANGED <<fault, network, round, value, loop>>

Finish(i) ==
    /\ Runs(i, "post")
    /\ Goes(i, "done")
    /\ UNCHANGED <<fault, network, kernel, active, round, value, loop>>

(* asyncio.run() cancels what is left; no task cleans up behind itself. *)
CloseLoop ==
    /\ loop = "failing"
    /\ loop' = "closed"
    /\ pc' = [i \in Injectors |-> IF pc[i] \in Ends THEN pc[i] ELSE "cancelled"]
    /\ UNCHANGED <<fault, network, kernel, active, round, value>>

Task(i) ==
    \/ Raise(i) \/ BeginInjection(i) \/ SkipInjection(i)
    \/ EndBurst(i) \/ NextBurst(i) \/ NextDegradation(i)
    \/ EndInjection(i) \/ Finish(i)

Next == (\E i \in Injectors : Task(i)) \/ CloseLoop

(* Sleeps end: the event loop runs every task that is due. *)
Spec ==
    /\ Init /\ [][Next]_vars
    /\ \A i \in Injectors : WF_vars(Task(i))
    /\ WF_vars(CloseLoop)

-----------------------------------------------------------------------------
(* Properties. *)

(* The variables have the shape that the code gives them. *)
TypeOK ==
    /\ DOMAIN fault = Injectors
    /\ network \in Networks
    /\ DOMAIN kernel = Interfaces
    /\ DOMAIN active \subseteq {fault[i].tag : i \in Injectors}
    /\ \A tag \in DOMAIN active : active[tag].ok \in BOOLEAN
    /\ pc \in [Injectors -> Sleeps \cup Ends]
    /\ round \in [Injectors -> Nat]
    /\ value \in [Injectors -> Int]
    /\ loop \in {"running", "failing", "closed"}

Link(i) == fault[i].kind = "link"

(* Has i anything in place on its interface? *)
Present(i) ==
    LET d == kernel[fault[i].dev]
    IN  \/ i \in {d.root.by, d.leaf.by, d.ingress, d.downBy}
        \/ \E f \in d.filters \cup d.mirrors : f[1] = i

(* Does the traffic of the interface suffer what the fault of i says? *)
TakesEffect(i) ==
    LET c == fault[i]
        d == kernel[c.dev]
    IN  CASE c.type = "redirect" -> \E m \in d.mirrors : m[1] = i
          [] ProtocolWide(c) /\ c.type = "down" /\ CommandPattern(c) = "persistent" ->
                d.downBy # NoOne
          [] ProtocolWide(c) /\ c.type \notin {"redirect", "down"} -> d.root.by = i
          [] OTHER -> d.leaf.by = i /\ \E f \in d.filters : f[1] = i

(* The documents ask for one fault per interface at a time and for tags that are
   unique. *)
Alone(i) == \A j \in Injectors \ {i} : Link(j) => fault[j].dev # fault[i].dev
OwnTag(i) == \A j \in Injectors \ {i} : fault[j].tag # fault[i].tag

(* The table of active faults, which is what the log shows, against the kernel:
   for a link fault that keeps to the documented limits, what is in place is in
   the table, and an entry with exit status zero is a fault that takes effect.
   Also while tasks fail and after the loop was closed over running injections.
   Not so for a fault on one protocol whose pattern is none of the documented ones:
   its filters lead nowhere, its last command succeeds, and it is logged as active
   (LinkInjector.inject_nics, FaultLogger.set_fault_active). *)
TableTellsTheTruth ==
    \A i \in Injectors : Link(i) /\ Alone(i) /\ OwnTag(i) =>
        /\ Present(i) => fault[i].tag \in DOMAIN active
        /\ /\ fault[i].tag \in DOMAIN active /\ active[fault[i].tag].ok
           /\ KnownPattern(fault[i])
           => TakesEffect(i)

(* Between its bursts, and once it is over, a fault has no queueing discipline,
   no redirection and no interface down, whatever other faults did to the same
   interface meanwhile.  When every task has come to its end, each interface is as
   the network made it and the table is empty, also where faults shared an
   interface and removed each other's disciplines.  Not so where the network's own
   root is a netem or a tbf, which the removal of a fault takes along: TCIntf with a
   delay and no bandwidth, or with use_tbf; the documents exclude limited links
   (LinkInjector._inject_burst_pattern and its siblings). *)
TakenAlong == {"netem", "tbf"}
NothingLeft ==
    /\ \A i \in Injectors : Link(i) /\ pc[i] \in {"off", "post", "done"} =>
          LET d == kernel[fault[i].dev]
          IN  i \notin {d.root.by, d.leaf.by, d.ingress, d.downBy}
    /\ (\A i \in Injectors : pc[i] = "done") =>
          /\ active = <<>>
          /\ \A e \in Interfaces :
                network[e] \notin TakenAlong => kernel[e] = FreshInterface(network[e])

(* The sleeps of a fault's rounds fit into its injection time, given that the
   bursts are not longer than their period. *)
KeepsToItsTime ==
    \A i \in Injectors : round[i] > 0 =>
        LET c == fault[i]
        IN  (c.pattern = "burst" => BurstDuration(c) <= BurstPeriod(c))
            => round[i] * (OnTime(c) + OffTime(c)) <= c.time

(* A degradation that starts below its end value never exceeds it, and its
   value never falls. *)
Climbs(i) ==
    LET c == fault[i]
    IN  c.pattern = "degradation" /\ StartValue(c) <= EndValue(c) =>
            value[i] <= value'[i] /\ value'[i] <= EndValue(c)
DegradationClimbs == [][\A i \in Injectors : Climbs(i)]_vars

(* gather() returns or raises: every task comes to an end. *)
EveryTaskEnds == <>(\A i \in Injectors : pc[i] \in Ends)
=============================================================================
