---------------------------- MODULE NetLifecycle ----------------------------
(* A network from its topology to its clean-up (net.py, node.py, link.py,
   clean.py): the Node, Link and Intf objects of the Mininet process, and what
   they leave in the system: processes, veth pairs in the namespaces of those
   processes, Open vSwitch bridges.

   A namespace is named after its node, <<>> is the root namespace; an interface
   is known to the system as <<namespace, <<node name, port>>>>.  The calls of a
   program are actions; building, starting, stopping and waiting take one step
   per object, so that a crash or an interrupt can come in between.  Processes
   and containers may die by themselves.  Controllers, addresses of interfaces
   other than the default one, and the options of a bridge are left out.     *)
EXTENDS TopoBuild

CONSTANTS
    Topologies,    \* the topologies that Mininet() may be given
    Names,         \* the nodes that may be added later, as [name, kind]
    PortPairs,     \* the pairs of ports a program may ask for, or None
    MaxIP,         \* imax: the last address of the network
    MaxNodes,      \* bound: nodes of a topology that is changed later
    MaxAwaited,    \* bound: switches of a network that waits for them
    MaxLinks,      \* bound: Link objects, where links are added
    MaxCalls,      \* bound: calls that change the network
    MaxTroubles,   \* bound: processes and containers that die, KeyboardInterrupts in
                   \* stop(), switches that lose their controller while awaited
    MaxAimed,      \* bound: the first nodes, which alone the fault configuration names
    MaxRuns        \* bound: Mininet processes, one after the other

Root == <<>>
NodeNames == Seq(Nat) \ {Root}
Kinds == {"host", "docker", "switch"}

(* The nodes of a topology have names of their own, a link is between two of them,
   and nobody asks for port 0 of a switch, which is its loopback interface. *)
NamesOf(list) == {list[k].name : k \in DOMAIN list}
WellFormed(t) ==
    LET nodes == HostsOf(t) \o SwitchesOf(t)
    IN  /\ HostsOf(t) \in Seq([name : NodeNames, kind : {"host", "docker"}])
        /\ SwitchesOf(t) \in Seq([name : NodeNames, kind : {"switch"}])
        /\ \A j, k \in DOMAIN nodes : nodes[j].name = nodes[k].name => j = k
        /\ LinksOf(t) \in Seq([a : NamesOf(nodes), b : NamesOf(nodes), p1 : Nat, p2 : Nat])
        /\ \A k \in DOMAIN LinksOf(t) :
              LET l == LinksOf(t)[k]
              IN  /\ l.a # l.b
                  /\ l.a \in NamesOf(SwitchesOf(t)) => l.p1 # 0
                  /\ l.b \in NamesOf(SwitchesOf(t)) => l.p2 # 0
ASSUME TopologiesAssumption == \A t \in Topologies : WellFormed(t)
(* What the table of ports says is what some addLink() has entered there, and its link
   is still in the graph: no later addLink() was given the key of an earlier one. *)
PortsAreOfLinks(t) ==
    \A name \in DOMAIN t.ports : \A p \in DOMAIN t.ports[name] :
        \E k \in DOMAIN LinksOf(t) :
            LET l == LinksOf(t)[k]
            IN  \/ l.a = name /\ l.p1 = p /\ t.ports[name][p] = <<l.b, l.p2>>
                \/ l.b = name /\ l.p2 = p /\ t.ports[name][p] = <<l.a, l.p1>>
ASSUME PortsAssumption == \A t \in Topologies : PortsAreOfLinks(t)
ASSUME ProgramAssumption ==
    /\ Names \subseteq [name : NodeNames, kind : Kinds]
    /\ PortPairs \subseteq ({None} \cup (Nat \ {0})) \X ({None} \cup (Nat \ {0}))
ASSUME BoundsAssumption ==
    {MaxIP, MaxNodes, MaxAwaited, MaxLinks, MaxCalls, MaxTroubles, MaxAimed, MaxRuns} \subseteq Nat

VARIABLES
    topo,          \* Mininet.topo
    node, link,    \* the Node and Link objects, numbered as they were created
    hosts, switches, links,  \* Mininet.hosts, switches, links
    named,         \* Mininet.nameToNode
    nextIP,        \* Mininet.nextIP
    phase, todo,   \* the call in progress and what it has still to visit
    veth,          \* the veth pairs, each the set of its two ends
    bridge,        \* bridge[name]: the interfaces that are ports of it
    proc,          \* the nodes whose shell or container runs
    stale,         \* the containers that have stopped and are still there
    up,            \* the switches connected to their controller, while awaited
    aim,           \* what the fault controller was told at the start of the network
    wait,          \* waitConnected(): remaining, position, whether it is timed
    history        \* what has happened, for the properties

vars == <<topo, node, link, hosts, switches, links, named, nextIP, phase, todo, veth, bridge,
          proc, stale, up, aim, wait, history>>
lists == <<hosts, switches, links, named, nextIP>>
around == <<topo, aim>>
system == <<veth, bridge, proc, stale>>

NoWait == [remaining |-> <<>>, at |-> 0, timed |-> FALSE, last |-> FALSE,
           seen |-> {}, result |-> "none"]
Fresh == [tidy |-> TRUE, clean |-> TRUE, failed |-> "nothing", started |-> FALSE,
          calls |-> 0, removals |-> 0, troubles |-> 0, runs |-> 1]

(* Everything that the operations below read and change. *)
World == [node |-> node, link |-> link, veth |-> veth, bridge |-> bridge, proc |-> proc,
          raised |-> FALSE]
Becomes(w) ==
    node' = w.node /\ link' = w.link /\ veth' = w.veth /\ bridge' = w.bridge /\ proc' = w.proc

-----------------------------------------------------------------------------
(* Nodes, interfaces, ports. *)

Lo == <<0, 0>>      \* an interface is <<link, side>>; this one belongs to none
Without(f, key) == [x \in DOMAIN f \ {key} |-> f[x]]
With(f, key, value) == [x \in DOMAIN f \cup {key} |-> IF x = key THEN value ELSE f[x]]

NewNode(name, kind, ip) ==
    [name |-> name, kind |-> kind, ip |-> ip, shell |-> TRUE, addr |-> Lo,
     intfs |-> IF kind = "switch" THEN With(<<>>, 0, Lo) ELSE <<>>,
     ports |-> IF kind = "switch" THEN With(<<>>, Lo, 0) ELSE <<>>]

Namespace(nd) == IF nd.kind = "switch" THEN Root ELSE nd.name
IntfName(w, i) == <<w.node[w.link[i[1]].n[i[2]]].name, w.link[i[1]].p[i[2]]>>
End(w, i) == <<Namespace(w.node[w.link[i[1]].n[i[2]]]), IntfName(w, i)>>

NewPort(nd) ==
    IF nd.ports = <<>> THEN (IF nd.kind = "switch" THEN 1 ELSE 0) ELSE Max(Range(nd.ports)) + 1

AddIntf(nd, i, port) ==
    [nd EXCEPT !.intfs = With(@, port, i), !.ports = With(@, i, port)]
DelIntfKeepsPort(nd, i) ==                     \* mutant: one of the two maps only
    IF i \in DOMAIN nd.ports THEN [nd EXCEPT !.intfs = Without(@, nd.ports[i])] ELSE nd
DelIntf(nd, i) ==
    IF i \in DOMAIN nd.ports
    THEN [nd EXCEPT !.intfs = Without(@, nd.ports[i]), !.ports = Without(@, i)]
    ELSE nd
DelIntfRaises(nd, i) == i \in DOMAIN nd.ports /\ nd.ports[i] \notin DOMAIN nd.intfs

DefaultPort(nd) == Min(DOMAIN nd.intfs)

(* A command reaches a host or a switch that has not been terminated, on a new
   shell if the old one died, and a container that runs. *)
Runs(w, n) == w.node[n].shell /\ (w.node[n].kind = "docker" => w.node[n].name \in w.proc)
Woken(w, n) == IF Runs(w, n) THEN [w EXCEPT !.proc = @ \cup {w.node[n].name}] ELSE w

(* A namespace goes with the process that holds it, and its interfaces with the
   namespace, each with its peer. *)
WithoutEnd(pairs, end) == {v \in pairs : end \notin v}
WithoutNamespaces(pairs, names) == {v \in pairs : \A e \in v : e[1] \notin names}

Terminated(w, n) ==
    LET name == w.node[n].name
    IN  IF w.node[n].kind = "docker" /\ name \notin w.proc THEN w
        ELSE [w EXCEPT !.node[n].shell = FALSE,
                       !.proc = IF w.node[n].shell THEN @ \ {name} ELSE @,
                       !.veth = IF w.node[n].shell THEN WithoutNamespaces(@, {name}) ELSE @]

AllTerminated(w, order) ==
    LET after[k \in 0..Len(order)] ==
            IF k = 0 THEN w ELSE Terminated(after[k - 1], order[k])
    IN  after[Len(order)]

(* Open vSwitch: a port can be added to, or deleted from, a bridge that is. *)
PortAdded(w, n, port) ==
    LET b == w.node[n].name
    IN  IF Runs(w, n) /\ b \in DOMAIN w.bridge THEN [w EXCEPT !.bridge[b] = @ \cup {port}] ELSE w
PortDeleted(w, n, port) ==
    LET b == w.node[n].name
    IN  IF Runs(w, n) /\ b \in DOMAIN w.bridge THEN [w EXCEPT !.bridge[b] = @ \ {port}] ELSE w

-----------------------------------------------------------------------------
(* Links. *)

(* Both ends begin in the root namespace, and move to that of their node. *)
Movable(w, n, name) ==
    /\ w.node[n].name \in w.proc
    /\ Namespace(w.node[n]) = Root
       \/ \A v \in w.veth : <<Namespace(w.node[n]), name>> \notin v

(* makeIntfPair(): an existing name raises; a move that fails ends the program. *)
PairResult(w, l) ==
    LET name(s) == IntfName(w, <<l, s>>)
        moves(s) == Movable(w, w.link[l].n[s], name(s))
        end(s, moved) == IF moved THEN End(w, <<l, s>>) ELSE <<Root, name(s)>>
    IN  IF \E v \in w.veth, s \in 1..2 : <<Root, name(s)>> \in v
        THEN [result |-> "raises", pair |-> {}]
        ELSE [result |-> IF moves(1) /\ moves(2) THEN "made" ELSE "exits",
              pair |-> {{end(1, moves(1)), end(2, moves(1) /\ moves(2))}}]

Attached(w, n, i) ==
    IF w.node[n].kind = "switch" THEN PortAdded(Woken(w, n), n, IntfName(w, i)) ELSE w

(* Link(node1, node2, port1, port2): the ports, the pair, the interfaces. *)
WithLink(w, a, b, port1, port2) ==
    LET p1 == IF port1 = None THEN NewPort(w.node[a]) ELSE port1
        p2 == IF port2 = None THEN NewPort(w.node[b]) ELSE port2
    IN  [w EXCEPT !.link = Append(@, [n |-> <<a, b>>, p |-> <<p1, p2>>,
                                      known |-> <<TRUE, TRUE>>])]
Joined(w, l) ==
    LET n == w.link[l].n
        p == w.link[l].p
        w1 == [w EXCEPT !.node[n[1]] = AddIntf(@, <<l, 1>>, p[1])]
        w2 == [w1 EXCEPT !.node[n[2]] = AddIntf(@, <<l, 2>>, p[2])]
    IN  Attached(Attached(w2, n[1], <<l, 1>>), n[2], <<l, 2>>)

(* Intf.delete(): the interface of that name in the namespace of the node, the
   maps of the node, and the port of the bridge. *)
PairDeleted(w, n, i) ==
    IF Runs(w, n) THEN [Woken(w, n) EXCEPT !.veth = WithoutEnd(@, End(w, i))] ELSE w
IntfForgotten(w, n, i) == [w EXCEPT !.node[n] = DelIntf(@, i)]
DeletedIntf(w, i) ==
    LET n == w.link[i[1]].n[i[2]]
        cut == PairDeleted(w, n, i)
        forgotten == IntfForgotten(cut, n, i)
    IN  IF w.raised THEN w
        ELSE IF DelIntfRaises(w.node[n], i) THEN [cut EXCEPT !.raised = TRUE]
        ELSE IF w.node[n].kind = "switch" THEN PortDeleted(forgotten, n, IntfName(w, i))
        ELSE forgotten

DeletedEnd(w, l, s) ==
    LET deleted == DeletedIntf(w, <<l, s>>)
    IN  IF w.raised THEN w
        ELSE IF ~w.link[l].known[s] THEN [w EXCEPT !.raised = TRUE]
        ELSE IF deleted.raised THEN deleted
        ELSE [deleted EXCEPT !.link[l].known[s] = FALSE]

DeletedLink(w, l) == DeletedEnd(DeletedEnd(w, l, 1), l, 2)

(* stop(deleteIntfs = True) of a node; a switch deletes its bridge first.  What an
   exception leaves undone is not done. *)
DeletedIntfs(w, order) ==
    LET after[k \in 0..Len(order)] ==
            IF k = 0 THEN w ELSE DeletedIntf(after[k - 1], order[k])
    IN  after[Len(order)]
WithoutIntfs(w, n) == DeletedIntfs(w, SetToSeq(Range(w.node[n].intfs) \ {Lo}))
StoppedNode(w, n) ==
    LET name == w.node[n].name
        unbridged == IF w.node[n].kind = "switch" /\ Runs(w, n)
                     THEN [Woken(w, n) EXCEPT !.bridge = Without(@, name)] ELSE w
        bare == WithoutIntfs(unbridged, n)
    IN  IF bare.raised THEN bare ELSE Terminated(bare, n)

-----------------------------------------------------------------------------
(* Building. *)

Job(call, of) == [call |-> call, of |-> of]
Jobs(call, list) == [k \in DOMAIN list |-> Job(call, list[k])]
BuildJobs(t) ==
    Jobs("node", HostsOf(t)) \o Jobs("node", SwitchesOf(t)) \o Jobs("link", LinksOf(t))
    \o <<Job("config", 0)>>

Init ==
    /\ topo \in Topologies
    /\ node = <<>> /\ link = <<>>
    /\ hosts = <<>> /\ switches = <<>> /\ links = <<>> /\ named = <<>> /\ nextIP = 1
    /\ phase = "build" /\ todo = BuildJobs(topo)
    /\ veth = {} /\ bridge = <<>> /\ proc = {} /\ stale = {}
    /\ up = {} /\ aim = {} /\ wait = NoWait /\ history = Fresh

(* An exception: out of the constructor the program has no network to stop. *)
Fails(what) ==
    /\ history' = [history EXCEPT !.failed = what]
    /\ phase' = IF phase = "build" THEN "exiting" ELSE phase
    /\ UNCHANGED <<around, node, link, lists, todo, system, up, wait>>

IPTakenTwice == nextIP' = nextIP               \* mutant: the address is not used up
IPUsedUp == nextIP' = nextIP + 1

(* addHost(), addDocker(), addSwitch(); "next" is what is left of the call.  The
   name of a container that exists cannot be used again. *)
CannotCreateTooLate(nd) ==                     \* mutant: one address beyond the last
    \/ nd.kind # "switch" /\ nextIP > MaxIP + 1
    \/ nd.kind = "docker" /\ nd.name \in proc \cup stale
CannotCreate(nd) ==
    \/ nd.kind # "switch" /\ nextIP > MaxIP
    \/ nd.kind = "docker" /\ nd.name \in proc \cup stale
CreateNode(nd, next) ==
    /\ ~CannotCreate(nd)
    /\ node' = Append(node, NewNode(nd.name, nd.kind, IF nd.kind = "switch" THEN 0 ELSE nextIP))
    /\ IF nd.kind = "switch"
       THEN switches' = Append(switches, Len(node')) /\ UNCHANGED <<hosts, nextIP>>
       ELSE hosts' = Append(hosts, Len(node')) /\ IPUsedUp /\ UNCHANGED switches
    /\ named' = With(named, nd.name, Len(node'))
    /\ proc' = proc \cup {nd.name}
    /\ todo' = next
    /\ UNCHANGED <<around, link, links, phase, veth, bridge, stale, up, wait>>

(* addLink(): with what came of the veth pair. *)
Connect(a, b, port1, port2, next) ==
    LET w == WithLink(World, a, b, port1, port2)
        l == Len(w.link)
        made == PairResult(w, l)
    IN  IF made.result = "raises" THEN Fails(phase)
        ELSE /\ IF made.result = "made"
                THEN /\ Becomes(Joined([w EXCEPT !.veth = @ \cup made.pair], l))
                     /\ links' = Append(links, l)
                     /\ phase' = phase
                     /\ history' = [history EXCEPT !.calls = IF phase = "build" THEN @ ELSE @ + 1]
                ELSE /\ veth' = veth \cup made.pair
                     /\ phase' = "exiting"
                     /\ history' = [history EXCEPT !.failed = phase]
                     /\ UNCHANGED <<node, link, links, bridge, proc>>
             /\ todo' = next
             /\ UNCHANGED <<around, hosts, switches, named, nextIP, stale, up, wait>>

BuildNode ==
    /\ phase = "build" /\ todo # <<>> /\ Head(todo).call = "node"
    /\ IF CannotCreate(Head(todo).of) THEN Fails("build")
       ELSE CreateNode(Head(todo).of, Tail(todo)) /\ UNCHANGED history

BuildLink ==
    /\ phase = "build" /\ todo # <<>> /\ Head(todo).call = "link"
    /\ LET l == Head(todo).of IN Connect(named[l.a], named[l.b], l.p1, l.p2, Tail(todo))

(* configHosts(): a host without interfaces loses its address for good. *)
Configured(nd) ==
    IF nd.kind = "switch" THEN nd
    ELSE IF DOMAIN nd.intfs = {} THEN [nd EXCEPT !.ip = 0]
    ELSE [nd EXCEPT !.addr = nd.intfs[DefaultPort(nd)]]
BuildConfig ==
    /\ phase = "build" /\ todo # <<>> /\ Head(todo).call = "config"
    /\ node' = [n \in DOMAIN node |-> Configured(node[n])]
    /\ phase' = "idle" /\ todo' = <<>>
    /\ UNCHANGED <<around, link, lists, system, up, wait, history>>

-----------------------------------------------------------------------------
(* Changes at run time. *)

Small == Len(topo.nodes) <= MaxNodes
MayChange == phase = "idle" /\ Small /\ history.calls < MaxCalls
Called == history' = [history EXCEPT !.calls = @ + 1]

AddNodeCall(nd) ==
    /\ MayChange /\ Len(node) = Len(topo.nodes) /\ nd.name \notin DOMAIN named
    /\ CreateNode(nd, <<>>) /\ Called

AddLinkCall(a, b, port1, port2) ==
    /\ MayChange /\ Len(link) < MaxLinks
    /\ {a, b} \subseteq Range(named) /\ a # b
    /\ Connect(a, b, port1, port2, <<>>)

(* removeLink(), delLink(). *)
Listed(l) == links                             \* mutant: the link stays in the list
Unlisted(l) == RemoveFirst(links, l)
RemoveLinkCall(l) ==
    /\ MayChange /\ l \in Range(links)
    /\ LET w == DeletedLink(World, l)
       IN  /\ Becomes(w)
           /\ links' = IF w.raised THEN links ELSE Unlisted(l)
           /\ history' = [history EXCEPT !.calls = @ + 1, !.removals = @ + 1,
                                         !.tidy = @ /\ ~w.raised,
                                         !.failed = IF w.raised THEN "remove" ELSE @]
    /\ UNCHANGED <<around, hosts, switches, named, nextIP, phase, todo, stale, up, wait>>

(* removeHost() takes the node out of the lists first, delNode() last.  Neither
   looks at the links of the node. *)
Forgotten(n) ==
    /\ hosts' = RemoveFirst(hosts, n)
    /\ switches' = RemoveFirst(switches, n)
    /\ named' = Without(named, node[n].name)
RemovalNoted(n, w) ==
    history' = [history EXCEPT
        !.calls = @ + 1, !.removals = @ + 1,
        !.failed = IF w.raised THEN "remove" ELSE @,
        !.tidy = @ /\ ~w.raised /\ \A l \in Range(links) : n \notin Range(link[l].n)]

RemoveHostCall(n) ==
    /\ MayChange /\ n \in Range(named) \cap Range(hosts)
    /\ LET w == StoppedNode(World, n) IN Becomes(w) /\ RemovalNoted(n, w)
    /\ Forgotten(n)
    /\ UNCHANGED <<around, links, nextIP, phase, todo, stale, up, wait>>
DelNodeCall(n) ==
    /\ MayChange /\ n \in Range(named)
    /\ LET w == StoppedNode(World, n)
       IN  /\ Becomes(w) /\ RemovalNoted(n, w)
           /\ IF w.raised THEN UNCHANGED <<hosts, switches, named>> ELSE Forgotten(n)
    /\ UNCHANGED <<around, links, nextIP, phase, todo, stale, up, wait>>

-----------------------------------------------------------------------------
(* start(), waitConnected(). *)

StartCall ==
    /\ phase = "idle" /\ ~history.started
    /\ phase' = "start" /\ todo' = switches
    /\ history' = [history EXCEPT !.started = TRUE]
    /\ UNCHANGED <<around, node, link, lists, system, up, wait>>

(* OVSSwitch.start() makes the bridge anew, with every port but number 0. *)
SwitchPorts(w, n) ==
    {IntfName(w, i) : i \in {j \in DOMAIN w.node[n].ports : w.node[n].ports[j] # 0}}
StartedSwitch(n) ==
    LET w == Woken(World, n)
    IN  IF Runs(w, n) THEN [w EXCEPT !.bridge = With(@, node[n].name, SwitchPorts(w, n))] ELSE w
StartSwitch ==
    /\ phase = "start" /\ todo # <<>>
    /\ Becomes(StartedSwitch(Head(todo)))
    /\ todo' = Tail(todo)
    /\ UNCHANGED <<around, lists, phase, stale, up, wait, history>>
StartLaterSwitch(n) ==
    /\ phase = "idle" /\ history.started
    /\ n \in Range(switches) /\ node[n].name \notin DOMAIN bridge
    /\ Becomes(StartedSwitch(n))
    /\ UNCHANGED <<around, lists, phase, todo, stale, up, wait, history>>

(* The fault controller is started last.  "a->b" in its configuration stands for
   the interface of the last link between a and b, in either direction. *)
Nowhere == <<0, 0>>
Between(l, a, b) == link[l].n = <<a, b>> \/ link[l].n = <<b, a>>
FirstSide(l, a) == 1                           \* mutant: the first end of every link
SideOf(l, a) == IF link[l].n[1] = a THEN 1 ELSE 2
LinkBetween(a, b) ==
    LET at == {k \in DOMAIN links : Between(links[k], a, b)}
    IN  IF at = {} THEN Nowhere ELSE <<links[Max(at)], SideOf(links[Max(at)], a)>>
(* An identifier of the fault configuration is "a", "a->b" or "a->b:name"; where a
   redirection goes may also be the plain name of an interface. *)
NoIntf == <<>>
Identifier(form, a, b, name) == [form |-> form, a |-> a, b |-> b, name |-> name]
Identifiers ==
    LET known == Range(named) \cap (1..MaxAimed)
        inner == {l \in Range(links) : Range(link[l].n) \subseteq known}
    IN  {Identifier("node", n, n, NoIntf) : n \in known}
        \cup {Identifier("arrow", p[1], p[2], NoIntf) : p \in {q \in known \X known : q[1] # q[2]}}
        \cup {Identifier(f, link[l].n[s], link[l].n[3 - s], IntfName(World, <<l, s>>)) :
                  f \in {"named", "plain"}, l \in inner, s \in 1..2}

NamedLink(id) ==
    LET at == {k \in DOMAIN links :
                  /\ Between(links[k], id.a, id.b)
                  /\ IntfName(World, <<links[k], SideOf(links[k], id.a)>>) = id.name}
    IN  IF at = {} THEN Nowhere ELSE <<links[Min(at)], SideOf(links[Min(at)], id.a)>>

(* A node and an interface of it; neither if there is no such link.  The injectors get
   the process of the node, which stands for its namespace. *)
NodeAndIntf(id) ==
    LET at == IF id.form = "arrow" THEN LinkBetween(id.a, id.b) ELSE NamedLink(id)
    IN  CASE id.form = "node" -> [node |-> id.a, intf |-> NoIntf]
          [] id.form # "node" /\ at = Nowhere -> [node |-> None, intf |-> NoIntf]
          [] OTHER -> [node |-> id.a, intf |-> IntfName(World, at)]
Passable(found) == [pid |-> found.node, intf |-> found.intf]
Target(id) == Passable(NodeAndIntf(id))

(* The first argument of a redirection: "a->b", or the name of an interface.  A name
   with a dash in it, as all have here, is not recognised after "a->b:", so that the
   whole identifier is taken for a name. *)
InArrowPattern(id) == id.form = "arrow"
RedirectsTo(id) ==
    CASE InArrowPattern(id) -> NodeAndIntf(id).intf
      [] id.form = "plain" -> id.name
      [] OTHER -> <<id.a, id.b, id.name>>

(* The injectors, log commands and redirections of a configuration that names
   everything there is. *)
InjectionAt(kind, id) ==
    CASE kind = "link" -> [kind |-> kind, id |-> id, pid |-> Target(id).pid,
                           intf |-> Target(id).intf]
      [] kind = "redirect" -> [kind |-> kind, id |-> id, pid |-> None, intf |-> RedirectsTo(id)]
      [] OTHER -> [kind |-> kind, id |-> id, pid |-> Target(id).pid, intf |-> NoIntf]
Aims ==
    {InjectionAt("link", id) : id \in {i \in Identifiers : i.form \in {"arrow", "named"}}}
    \cup {InjectionAt("redirect", id) : id \in {i \in Identifiers : i.form # "node"}}
    \cup {InjectionAt(kind, id) : kind \in {"multi", "node", "log"},
                                id \in {i \in Identifiers : i.form = "node"}}
StartEnds ==
    /\ phase = "start" /\ todo = <<>> /\ phase' = "idle"
    /\ aim' = Aims
    /\ UNCHANGED <<topo, node, link, lists, todo, system, up, wait, history>>

WaitCall(timed) ==
    /\ phase = "idle" /\ history.started /\ Len(switches) <= MaxAwaited
    /\ wait.result = "none" /\ history.calls = 0  \* bound: one wait, before any change
    /\ phase' = "wait"
    /\ wait' = [NoWait EXCEPT !.remaining = switches, !.at = 1, !.timed = timed]
    /\ up' \in SUBSET {node[n].name : n \in Range(switches)}
    /\ UNCHANGED <<around, node, link, lists, todo, system, history>>

(* A look at one switch.  A round runs over a copy of the list; the last look
   round, after the time is up, runs over the list that it shortens. *)
Sees(n) == node[n].name \in up
WithoutAt(s, k) == SubSeq(s, 1, k - 1) \o SubSeq(s, k + 1, Len(s))
LooksWithoutEnd(w) ==                          \* mutant: never shortens the list
    [w EXCEPT !.at = @ + 1]
LooksAnyway(w) ==                              \* mutant: drops what it did not see
    [w EXCEPT !.remaining = WithoutAt(@, w.at), !.at = IF w.last THEN @ + 1 ELSE @]
Looks(w) ==
    IF Sees(w.remaining[w.at])
    THEN [w EXCEPT !.remaining = WithoutAt(@, w.at), !.seen = @ \cup {w.remaining[w.at]},
                   !.at = IF w.last THEN @ + 1 ELSE @]
    ELSE [w EXCEPT !.at = @ + 1]
WaitLook ==
    /\ phase = "wait" /\ wait.at <= Len(wait.remaining)
    /\ wait' = Looks(wait)
    /\ UNCHANGED <<around, node, link, lists, phase, todo, system, up, history>>
WaitRoundEnds ==
    /\ phase = "wait" /\ wait.at > Len(wait.remaining)
    /\ \/ /\ wait.remaining = <<>> \/ wait.last
          /\ wait' = [NoWait EXCEPT !.result = IF wait.remaining = <<>> THEN "yes" ELSE "no"]
          /\ phase' = "idle" /\ up' = {}
       \/ /\ wait.remaining # <<>> /\ ~wait.last
          /\ \E last \in {FALSE, wait.timed} : wait' = [wait EXCEPT !.at = 1, !.last = last]
          /\ UNCHANGED <<phase, up>>
    /\ UNCHANGED <<around, node, link, lists, todo, system, history>>

-----------------------------------------------------------------------------
(* stop(): links, then the bridges and shells of all switches, then the hosts. *)

StopCall ==
    /\ phase = "idle"
    /\ phase' = "stop links" /\ todo' = links
    /\ UNCHANGED <<around, node, link, lists, system, up, wait, history>>
StopLink ==
    /\ phase = "stop links" /\ todo # <<>>
    /\ LET w == DeletedLink(World, Head(todo))
       IN  /\ Becomes(w)
           /\ IF w.raised
              THEN /\ phase' = "idle" /\ todo' = <<>>
                   /\ history' = [history EXCEPT !.failed = "stop"]
              ELSE todo' = Tail(todo) /\ UNCHANGED <<phase, history>>
    /\ UNCHANGED <<around, lists, stale, up, wait>>
StopSwitches ==
    /\ phase = "stop links" /\ todo = <<>>
    /\ LET names == {node[n].name : n \in Range(switches)}
       IN  Becomes([AllTerminated(World, switches) EXCEPT
                       !.bridge = [b \in DOMAIN @ \ names |-> @[b]]])
    /\ phase' = "stop hosts" /\ todo' = hosts
    /\ UNCHANGED <<around, lists, stale, up, wait, history>>
StopHost ==
    /\ phase = "stop hosts" /\ todo # <<>>
    /\ Becomes(Terminated(World, Head(todo)))
    /\ todo' = Tail(todo)
    /\ UNCHANGED <<around, lists, phase, stale, up, wait, history>>
StopEnds ==
    /\ phase = "stop hosts" /\ todo = <<>> /\ phase' = "stopped"
    /\ UNCHANGED <<around, node, link, lists, todo, system, up, wait, history>>

InterruptStop ==
    /\ phase \in {"stop links", "stop hosts"} /\ history.troubles < MaxTroubles
    /\ phase' = "idle" /\ todo' = <<>>
    /\ history' = [history EXCEPT !.troubles = @ + 1, !.tidy = FALSE]
    /\ UNCHANGED <<around, node, link, lists, system, up, wait>>

-----------------------------------------------------------------------------
(* The world outside. *)

IsContainer(name) == \E n \in DOMAIN node : node[n].name = name /\ node[n].kind = "docker"

(* The end of the Mininet process takes the shells along, not the containers. *)
Exit ==
    /\ phase \in {"build", "idle", "stop links", "stop hosts", "stopped", "exiting"}
    /\ phase' = "exited" /\ todo' = <<>>
    /\ proc' = {name \in proc : IsContainer(name)}
    /\ veth' = WithoutNamespaces(veth, proc \ proc')
    /\ UNCHANGED <<around, node, link, lists, bridge, stale, up, wait, history>>

RemoveJunk ==
    /\ proc' = {} /\ stale' = {}
    /\ veth' = {}
    /\ bridge' = <<>>
Cleanup ==
    /\ phase = "exited"
    /\ RemoveJunk
    /\ phase' = "cleaned"
    /\ UNCHANGED <<around, node, link, lists, todo, up, wait, history>>

Restart ==
    /\ phase \in {"exited", "cleaned"} /\ history.runs < MaxRuns
    /\ node' = <<>> /\ link' = <<>>
    /\ hosts' = <<>> /\ switches' = <<>> /\ links' = <<>> /\ named' = <<>> /\ nextIP' = 1
    /\ phase' = "build" /\ todo' = BuildJobs(topo)
    /\ up' = {} /\ wait' = NoWait
    /\ history' = [Fresh EXCEPT !.runs = history.runs + 1,
                                !.clean = phase = "cleaned", !.calls = MaxCalls]
    /\ aim' = {}
    /\ UNCHANGED <<topo, system>>

ProcessDies(name) ==
    /\ phase = "idle" /\ Small /\ name \in proc /\ history.troubles < MaxTroubles
    /\ proc' = proc \ {name}
    /\ stale' = IF IsContainer(name) THEN stale \cup {name} ELSE stale
    /\ veth' = WithoutNamespaces(veth, {name})
    /\ history' = [history EXCEPT !.troubles = @ + 1, !.tidy = FALSE]
    /\ UNCHANGED <<around, node, link, lists, phase, todo, bridge, up, wait>>

Connects(n) ==
    /\ phase = "wait" /\ n \in Range(switches) /\ node[n].name \notin up
    /\ up' = up \cup {node[n].name}
    /\ UNCHANGED <<around, node, link, lists, phase, todo, system, wait, history>>
Disconnects(n) ==
    /\ phase = "wait" /\ n \in Range(switches) /\ node[n].name \in up
    /\ history.troubles < MaxTroubles
    /\ up' = up \ {node[n].name}
    /\ history' = [history EXCEPT !.troubles = @ + 1]
    /\ UNCHANGED <<around, node, link, lists, phase, todo, system, wait>>

Program ==
    \/ BuildNode \/ BuildLink \/ BuildConfig
    \/ \E nd \in Names : AddNodeCall(nd)
    \/ \E a, b \in DOMAIN node, p \in PortPairs : AddLinkCall(a, b, p[1], p[2])
    \/ \E l \in Range(links) : RemoveLinkCall(l)
    \/ \E n \in DOMAIN node : RemoveHostCall(n) \/ DelNodeCall(n)
    \/ StartCall \/ StartSwitch \/ StartEnds
    \/ \E n \in Range(switches) : StartLaterSwitch(n)
    \/ \E timed \in BOOLEAN : WaitCall(timed)
    \/ WaitLook \/ WaitRoundEnds
    \/ StopCall \/ StopLink \/ StopSwitches \/ StopHost \/ StopEnds

Outside ==
    \/ InterruptStop \/ Exit \/ Cleanup \/ Restart
    \/ \E name \in proc : ProcessDies(name)
    \/ \E n \in DOMAIN node : Connects(n) \/ Disconnects(n)

Next == Program \/ Outside

(* Waiting goes on: nothing else holds the thread. *)
Spec == Init /\ [][Next]_vars /\ WF_vars(WaitLook) /\ WF_vars(WaitRoundEnds)

-----------------------------------------------------------------------------
(* Properties. *)

Ends(l) == {End(World, <<l, 1>>), End(World, <<l, 2>>)}
EndsAt(n) == {e \in Range(links) \X {1, 2} : link[e[1]].n[e[2]] = n}

(* Types, and the invariants of the counters. *)
TypeOK ==
    /\ \A n \in DOMAIN node :
          /\ node[n].kind \in Kinds
          /\ node[n].ip \in 0..MaxIP /\ node[n].shell \in BOOLEAN
    /\ \A l \in DOMAIN link : Range(link[l].n) \subseteq DOMAIN node
    /\ Range(hosts) \cup Range(switches) \cup Range(named) \subseteq DOMAIN node
    /\ Range(links) \subseteq DOMAIN link
    /\ nextIP \in 1..(MaxIP + 1)
    /\ phase \in {"build", "idle", "start", "wait", "stop links", "stop hosts", "stopped",
                  "exiting", "exited", "cleaned"}
    /\ \A v \in veth : Cardinality(v) = 2
    /\ wait.result \in {"none", "yes", "no"}

(* A network is built unless its topology cannot be: two links on one port, more
   hosts than addresses.  The remains of an earlier run stop it unless they were
   cleaned up.  When it has been built, the topology's table of ports says which two
   ports are wired to each other: the objects of both nodes, the numbers in the
   names of the interfaces and the veth pairs agree with it.  No two hosts have
   one address (Topo.addPort, Mininet.buildFromTopo, addLink, Link.__init__,
   Node.addIntf, addHost, Cleanup.cleanup). *)
BuiltAsDrawn ==
    LET impossible ==
            \/ Len(HostsOf(topo)) > MaxIP
            \/ \E m, n \in DOMAIN LinksOf(topo) :
                  LET k == LinksOf(topo)[m] l == LinksOf(topo)[n]
                  IN  m # n /\ {<<k.a, k.p1>>, <<k.b, k.p2>>} \cap {<<l.a, l.p1>>, <<l.b, l.p2>>} # {}
        wired(name, p) ==
            LET i == node[named[name]].intfs[p]
                peer == IntfName(World, <<i[1], 3 - i[2]>>)
            IN  /\ IntfName(World, i) = <<name, p>>
                /\ topo.ports[name][p] = peer
                /\ Ends(i[1]) \in veth
    IN  /\ history.failed = "build" /\ history.clean => impossible
        /\ phase = "idle" /\ history.calls = 0 /\ history.tidy =>
              /\ \A name \in DOMAIN topo.ports : \A p \in DOMAIN topo.ports[name] : wired(name, p)
              /\ \A m, n \in Range(hosts) :
                    m # n /\ node[m].ip # 0 => node[m].ip # node[n].ip

(* While every call returned, Mininet.links, the ports of the nodes and the veth
   pairs of the system are three views of one network, through any sequence of
   addLink, removeLink, addHost and removal of unlinked nodes: nothing that was
   deleted on one side is known on the other, and no name is taken that a port of
   newPort() would give to the next interface.  The bridge of a running switch
   carries the ports of its links and no other, whether a link was made before
   start() or after it, is still there or was detached. *)
LinksAreWired ==
    LET views ==
            /\ veth = {Ends(l) : l \in Range(links)}
            /\ \A n \in Range(named) :
                  LET nd == node[n]
                  IN  /\ DOMAIN nd.ports \ {Lo} = EndsAt(n)
                      /\ \A i \in EndsAt(n) : nd.ports[i] = link[i[1]].p[i[2]]
                      /\ \A p \in DOMAIN nd.intfs : nd.ports[nd.intfs[p]] = p
                      /\ \A i \in DOMAIN nd.ports : nd.intfs[nd.ports[i]] = i
        free ==
            \A a, b \in Range(named) :
                a # b => PairResult(WithLink(World, a, b, None, None), Len(link) + 1).result = "made"
        bridges ==
            \A n \in {k \in Range(switches) : node[k].name \in DOMAIN bridge} :
                bridge[node[n].name] =
                    {IntfName(World, i) : i \in {e \in EndsAt(n) : link[e[1]].p[e[2]] # 0}}
    IN  phase = "idle" /\ history.tidy =>
            /\ history.clean => views /\ free
            /\ history.started => bridges

(* stop() of a tidy network does not raise.  When it returns, and no call raised
   before, no process, interface or bridge is left, whatever died, was removed or
   interrupted it in between. *)
StopLeavesNothing ==
    history.clean =>
        /\ history.tidy => history.failed # "stop"
        /\ phase = "stopped" /\ history.failed = "nothing" =>
              proc = {} /\ veth = {} /\ DOMAIN bridge = {}

(* What the fault controller was told at the start stays so while nothing is removed,
   however many links are added: a fault at "a->b" or "a->b:name", and a redirection
   to "a->b" or to a name, are at an interface of a, with its other end at b, and of
   that name if one was given (the configuration of the fault controllers,
   Node.newPort). *)
FaultsStayOnTheirLink ==
    history.tidy /\ history.removals = 0 /\ phase \in {"idle", "wait"} =>
        \A t \in {i \in aim : i.kind = "link" \/ (i.kind = "redirect" /\ i.id.form # "named")} :
            LET joined == \E l \in Range(links) : Between(l, t.id.a, t.id.b)
            IN  IF t.intf = NoIntf
                THEN t.id.form = "arrow" /\ (joined => history.calls > 0)
                ELSE /\ t.intf[1] = node[t.id.a].name
                     /\ t.id.form # "arrow" => t.intf = t.id.name
                     /\ \E v \in veth : /\ <<Namespace(node[t.id.a]), t.intf>> \in v
                                        /\ \E e \in v : e[2][1] = node[t.id.b].name

(* waitConnected() answers True only when it has seen every switch connected. *)
WaitTells ==
    [][wait.result = "none" /\ wait'.result = "yes" => wait.seen = Range(switches)]_vars

(* waitConnected() does not go on while every switch stays connected. *)
WaitReturns ==
    phase = "wait" ~> (phase # "wait" \/ \E n \in Range(switches) : node[n].name \notin up)
=============================================================================
