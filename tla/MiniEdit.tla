------------------------------ MODULE MiniEdit ------------------------------
(* The graphical editor (examples/miniedit.py): the drawing, the model kept
   beside it, dialogs, files, and the network run from it.

   The drawing and its model are one record m:
     canvas       the nodes in the order drawn (widgetToItem): item, kind, text
     links        the links in the order drawn (self.links)
     ends         the links table of each icon: ends[<<a, b>>] is the link of a to b
     hostOpts, switchOpts, controllers    options, by name
     counts       of hosts, containers, switches and controllers
     next         the next canvas item
     gone         nodes off the canvas that a link of the model still has
   A callback that raises keeps what it did so far: an operator that may raise
   returns [m |-> .., ok |-> ..].  The item an operation is applied to is the
   one selected.                                                             *)
EXTENDS Integers, Sequences, FiniteSets, SequencesExt, Functions, TLC

CONSTANTS
    Kinds,        \* the tools the user takes
    DialogNames,  \* names the user types, or leaves blank
    Imports,      \* topologies given on the command line
    OldFiles,     \* files of earlier sessions
    MaxGestures   \* bound: what the user does in a session

AllKinds == {"Host", "Docker", "Switch", "LegacySwitch", "LegacyRouter", "Controller"}
ASSUME KindsAssumption == Kinds \subseteq AllKinds /\ MaxGestures \in Nat

Listing(s) == s \in Seq(ToSet(s))
Once(s) == Listing(s) /\ \A i, j \in DOMAIN s : s[i] = s[j] => i = j

(* The topologies of --topo: the names of their nodes differ, and no two links
   join the same nodes. *)
ASSUME ImportsAssumption ==
    \A t \in Imports :
        LET c == ToSet(t.controllers)
            s == ToSet(t.switches)
            h == ToSet(t.hosts)
        IN  /\ Once(t.controllers) /\ Once(t.switches) /\ Once(t.hosts) /\ Listing(t.links)
            /\ c \cap s = {} /\ c \cap h = {} /\ s \cap h = {}
            /\ \A i \in DOMAIN t.links :
                  /\ {t.links[i][1], t.links[i][2]} \subseteq s \cup h
                  /\ t.links[i][1] # t.links[i][2]
                  /\ \A j \in DOMAIN t.links :
                        {t.links[i][1], t.links[i][2]} = {t.links[j][1], t.links[j][2]} => i = j

VARIABLES
    m,         \* the drawing and its model
    prefs,     \* appPrefs: the class of default switches
    tools,     \* the toolbar: "normal", "disabled"; "closed" when the window is
    net,       \* the running network, or NoNet
    dialog,    \* the open dialog: its item and the name it was opened for
    gestures,  \* how many gestures were made
    trouble    \* history: kinds of gestures known to go wrong

vars == <<m, prefs, tools, net, dialog, gestures, trouble>>

NoName == <<"", 0>>
NoItem == 0
NoNet == [running |-> FALSE]
NoDialog == [item |-> NoItem]
NoList == [k \in {NoItem} |-> NoItem]    \* no sequence

Ok(model) == [m |-> model, ok |-> TRUE]
Raise(model) == [m |-> model, ok |-> FALSE]

(* Does Op for every element of seq in turn, up to the first that raises. *)
ForEach(seq, r0, Op(_, _)) ==
    LET after[k \in 0..Len(seq)] ==
            IF k = 0 THEN r0
            ELSE LET r == after[k - 1] IN IF r.ok THEN Op(r.m, seq[k]) ELSE r
    IN  after[Len(seq)]

(* The elements of seq that are in S, in their order. *)
Chosen(seq, S) ==
    LET after[k \in 0..Len(seq)] ==
            IF k = 0 THEN <<>>
            ELSE IF seq[k] \in S THEN Append(after[k - 1], seq[k]) ELSE after[k - 1]
    IN  after[Len(seq)]

Each(seq, F(_)) == [k \in DOMAIN seq |-> F(seq[k])]
With(f, key, value) == [k \in DOMAIN f \cup {key} |-> IF k = key THEN value ELSE f[k]]

Prefix(kind) == CASE kind = "Host" -> "h" [] kind = "Docker" -> "d"
                  [] kind = "LegacyRouter" -> "r" [] kind = "Controller" -> "c"
                  [] OTHER -> "s"
SwitchLike == {"Switch", "LegacySwitch", "LegacyRouter"}
HostLike == {"Host", "Docker"}

EmptyModel == [canvas |-> <<>>, links |-> <<>>, ends |-> <<>>,
               hostOpts |-> <<>>, switchOpts |-> <<>>, controllers |-> <<>>,
               counts |-> [host |-> 0, docker |-> 0, switch |-> 0, controller |-> 0],
               next |-> 1, gone |-> {}]

-----------------------------------------------------------------------------
(* Nodes *)

Nodes(d) == ToSet(d.canvas)
Items(d) == {w.item : w \in Nodes(d)}
Widget(d, item) == CHOOSE w \in Nodes(d) : w.item = item
NodesLike(d, kinds) == Chosen(d.canvas, {w \in Nodes(d) : w.kind \in kinds})
FindWidgetByName(d, name) ==
    LET like == {k \in DOMAIN d.canvas : d.canvas[k].name = name}
    IN  IF like = {} THEN NoItem ELSE d.canvas[Min(like)].item

Counter(kind) == CASE kind = "Host" -> "host" [] kind = "Docker" -> "docker"
                   [] kind = "Controller" -> "controller" [] OTHER -> "switch"
Counted(d, kind) == [d EXCEPT !.counts[Counter(kind)] = @ + 1]

AddNamedNodeReusingItem(d, kind, name) ==    \* mutant: no new item
    [d EXCEPT !.canvas = Append(@, [item |-> d.next, kind |-> kind, name |-> name])]
AddNamedNode(d, kind, name) ==
    [d EXCEPT !.canvas = Append(@, [item |-> d.next, kind |-> kind, name |-> name]),
              !.next = @ + 1]

AddNode(d, kind, name) == AddNamedNode(Counted(d, kind), kind, name)

HostOpts(kind, num, name, extra) ==
    [num |-> num, hostname |-> name, docker |-> kind = "Docker", extra |-> extra]
SwitchOpts(type, num, name, list, extra) ==
    [num |-> num, hostname |-> name, type |-> type, controllers |-> list, extra |-> extra]

SetHostOpts(d, name, o) == [d EXCEPT !.hostOpts = With(@, name, o)]
SetSwitchOpts(d, name, o) == [d EXCEPT !.switchOpts = With(@, name, o)]
SetController(d, name, type) == [d EXCEPT !.controllers = With(@, name, type)]

(* The tools: the node number of a container is the count of hosts; controllers
   are counted from 0. *)
NewSwitch(d, kind) ==
    LET c == Counted(d, kind)
        name == <<Prefix(kind), c.counts.switch>>
        type == CASE kind = "Switch" -> "default" [] kind = "LegacySwitch" -> "legacySwitch"
                  [] OTHER -> "legacyRouter"
        list == IF kind = "LegacyRouter" THEN NoList ELSE <<>>
    IN  AddNamedNode(SetSwitchOpts(c, name, SwitchOpts(type, c.counts.switch, name, list, {})),
                     kind, name)
NewHost(d, kind) ==
    LET c == Counted(d, kind)
        name == <<Prefix(kind), c.counts[Counter(kind)]>>
    IN  AddNamedNode(SetHostOpts(c, name, HostOpts(kind, c.counts.host, name, {})), kind, name)
NewController(d) ==
    LET name == <<Prefix("Controller"), d.counts.controller>>
    IN  AddNamedNode(Counted(SetController(d, name, "ref"), "Controller"), "Controller", name)

NewNode(d, kind) == IF kind \in SwitchLike THEN NewSwitch(d, kind)
                    ELSE IF kind \in HostLike THEN NewHost(d, kind)
                    ELSE NewController(d)

-----------------------------------------------------------------------------
(* Links *)

LinkItems(d) == {l.item : l \in ToSet(d.links)}
Link(d, item) == CHOOSE l \in ToSet(d.links) : l.item = item

AddLink(d, src, dest, type, opts) ==
    [d EXCEPT !.ends = With(With(@, <<dest, src>>, d.next), <<src, dest>>, d.next),
              !.links = Append(@, [item |-> d.next, type |-> type, src |-> src,
                                   dest |-> dest, opts |-> opts, down |-> FALSE]),
              !.next = @ + 1]

(* What self.switchOpts[name]['controllers'] finds without a KeyError. *)
HasList(d, name) == name \in DOMAIN d.switchOpts /\ d.switchOpts[name].controllers # NoList
WithList(d, name, list) == [d EXCEPT !.switchOpts[name].controllers = list]
Unlist(d, switch, controller) ==
    IF HasList(d, switch)
    THEN Ok(WithList(d, switch, RemoveFirst(d.switchOpts[switch].controllers, controller)))
    ELSE Raise(d)

(* finishLink(): the pairs it will not link. *)
Refused(a, b) ==
    \/ {a, b} = {"Host"}
    \/ /\ "Controller" \in {a, b}
       /\ {a, b} \cap {"LegacyRouter", "LegacySwitch", "Host"} # {}
    \/ {a, b} = {"Controller"}

(* The controller is entered in the list of the switch after the link is made;
   a container is taken for a switch. *)
FinishLink(d, a, b) ==
    LET control == "Controller" \in {a.kind, b.kind}
        linked == AddLink(d, a.item, b.item, IF control THEN "control" ELSE "data", {})
        switch == IF a.kind = "Controller" THEN b.name ELSE a.name
        controller == IF a.kind = "Controller" THEN a.name ELSE b.name
    IN  IF ~control THEN Ok(linked)
        ELSE IF ~HasList(d, switch) THEN Raise(linked)
        ELSE Ok(WithList(linked, switch, Append(d.switchOpts[switch].controllers, controller)))

Unended(d, a, b) == [d EXCEPT !.ends = Restrict(@, DOMAIN @ \ {<<a, b>>})]
Unlinked(d, item) == [d EXCEPT !.links = Chosen(@, {k \in ToSet(@) : k.item # item})]

DeleteLinkKeepsList(d, item) ==    \* mutant: the list of the switch is forgotten
    LET l == Link(d, item)
    IN  Ok(Unlinked(Unended(Unended(d, l.src, l.dest), l.dest, l.src), item))
(* deleteLink(): the tables of the icons first, then the list of the switch,
   the model last. *)
DeleteLink(d, item) ==
    LET l == Link(d, item)
        half == Unended(d, l.src, l.dest)
        apart == Unended(half, l.dest, l.src)
        src == Widget(d, l.src)
        dest == Widget(d, l.dest)
        unlisted == IF l.type # "control" THEN Ok(apart)
                    ELSE IF src.kind = "Controller" THEN Unlist(apart, dest.name, src.name)
                    ELSE Unlist(apart, src.name, dest.name)
    IN  IF <<l.src, l.dest>> \notin DOMAIN d.ends THEN Raise(d)
        ELSE IF <<l.dest, l.src>> \notin DOMAIN d.ends THEN Raise(half)
        ELSE IF l.src \notin Items(d) THEN Raise(apart)
        ELSE IF ~unlisted.ok THEN unlisted
        ELSE Ok(Unlinked(unlisted.m, item))

(* deleteNode(): a controller leaves the lists of all switches, then the links
   go, then the node; its options stay. *)
UnlistEverywhere(d, controller) ==
    ForEach(NodesLike(d, {"Switch"}), Ok(d), LAMBDA e, v : Unlist(e, v.name, controller))
LinksTo(d, item) ==
    LET known == {d.ends[e] : e \in {x \in DOMAIN d.ends : x[1] = item}}
    IN  Each(Chosen(d.links, {l \in ToSet(d.links) : l.item \in known}), LAMBDA l : l.item)
DeleteLinks(r, items) == ForEach(items, r, DeleteLink)
DeleteNode(d, item) ==
    LET w == Widget(d, item)
        unlisted == IF w.kind = "Controller" THEN UnlistEverywhere(d, w.name) ELSE Ok(d)
        unlinked == DeleteLinks(unlisted, LinksTo(d, item))
        Kept(v) == \E l \in ToSet(unlinked.m.links) : v.item \in {l.src, l.dest}
    IN  IF ~unlinked.ok THEN unlinked
        ELSE Ok([unlinked.m EXCEPT !.canvas = Chosen(@, {v \in ToSet(@) : v.item # item}),
                                   !.gone = {v \in @ \cup {w} : Kept(v)}])

DeleteItemAtAnyTime(d, t, item) ==    \* mutant: the guard is dropped
    IF item \in LinkItems(d) THEN DeleteLink(d, item)
    ELSE IF item \in Items(d) THEN DeleteNode(d, item)
    ELSE Ok(d)
(* "Don't delete while network is running." *)
DeleteItem(d, t, item) ==
    IF t = "disabled" THEN Ok(d)
    ELSE IF item \in LinkItems(d) THEN DeleteLink(d, item)
    ELSE IF item \in Items(d) THEN DeleteNode(d, item)
    ELSE Ok(d)

DeleteItems(d, t) == ForEach(d.canvas, Ok(d), LAMBDA e, w : DeleteItem(e, t, w.item))
NewTopology(d, t) ==
    LET cleared == DeleteItems(d, t)
    IN  IF ~cleared.ok THEN cleared
        ELSE Ok([EmptyModel EXCEPT !.canvas = cleared.m.canvas, !.ends = cleared.m.ends,
                                   !.next = cleared.m.next])

-----------------------------------------------------------------------------
(* Files *)

Text(d, item) == (CHOOSE w \in Nodes(d) \cup d.gone : w.item = item).name

AllHaveOpts(d) ==
    \A w \in Nodes(d) :
        /\ w.kind \in HostLike => w.name \in DOMAIN d.hostOpts
        /\ w.kind \in SwitchLike => w.name \in DOMAIN d.switchOpts
        /\ w.kind = "Controller" => w.name \in DOMAIN d.controllers

DataLinks(d) == Chosen(d.links, {l \in ToSet(d.links) : l.type = "data"})

(* saveTopology(); without options for a node it raises before it writes. *)
Saved(d, p) ==
    [version |-> 2, prefs |-> p,
     hosts |-> Each(NodesLike(d, HostLike), LAMBDA w : d.hostOpts[w.name]),
     switches |-> Each(NodesLike(d, SwitchLike), LAMBDA w : d.switchOpts[w.name]),
     controllers |-> Each(NodesLike(d, {"Controller"}),
                          LAMBDA w : [hostname |-> w.name, type |-> d.controllers[w.name]]),
     links |-> Each(DataLinks(d), LAMBDA l : [src |-> Text(d, l.src), dest |-> Text(d, l.dest),
                                              opts |-> l.opts])]

(* What the editor writes to a file: a switch lists controllers of the file, each
   once; a link joins two nodes that are no controllers, and no others join them. *)
Names(controllers) == {c.hostname : c \in ToSet(controllers)}
ListsControllers(f, o) ==
    o.controllers # NoList =>
        /\ Once(o.controllers) /\ ToSet(o.controllers) \subseteq Names(f.controllers)
        /\ o.type \in {"legacySwitch", "legacyRouter"} => o.controllers = <<>>
JoinsOthers(f, i) ==
    /\ f.links[i].src # f.links[i].dest
    /\ {f.links[i].src, f.links[i].dest} \cap Names(f.controllers) = {}
    /\ \A j \in DOMAIN f.links :
          {f.links[i].src, f.links[i].dest} = {f.links[j].src, f.links[j].dest} => i = j
WellFormed(f) ==
    /\ f.version \in {1, 2} /\ f.prefs \in {"ovs", "user"}
    /\ Listing(f.controllers) /\ Listing(f.hosts) /\ Listing(f.switches) /\ Listing(f.links)
    /\ f.version = 1 => Names(f.controllers) = {<<"c", 0>>}
    /\ \A o \in ToSet(f.hosts) :
          o = HostOpts(IF o.docker THEN "Docker" ELSE "Host", o.num, o.hostname, o.extra)
    /\ \A o \in ToSet(f.switches) :
          /\ o = SwitchOpts(o.type, o.num, o.hostname, o.controllers, o.extra)
          /\ ListsControllers(f, o)
    /\ \A i \in DOMAIN f.links : JoinsOthers(f, i)

ASSUME FilesAssumption == \A f \in OldFiles : WellFormed(f)

(* loadTopology(): what an older file leaves out is filled in. *)
LoadController(d, c) ==
    Ok(SetController(AddNode(d, "Controller", c.hostname), c.hostname, c.type))

LoadHostAsHost(d, o) ==    \* mutant: containers come back as hosts
    Ok(SetHostOpts(AddNode(d, "Host", o.hostname), o.hostname, o))
LoadHost(d, o) ==
    LET name == IF o.hostname = NoName THEN <<"h", o.num>> ELSE o.hostname
        added == AddNode(d, IF o.docker THEN "Docker" ELSE "Host", name)
    IN  Ok(SetHostOpts(added, name, [o EXCEPT !.hostname = name]))

(* A name that no node has is a KeyError in widgetToItem. *)
LinkByName(d, a, b, type, opts) ==
    LET src == FindWidgetByName(d, a)
        dest == FindWidgetByName(d, b)
    IN  IF NoItem \in {src, dest} THEN Raise(d) ELSE Ok(AddLink(d, src, dest, type, opts))

LinkControllers(r, name, controllers) ==
    ForEach(controllers, r, LAMBDA d, c : LinkByName(d, name, c, "control", {}))
LoadSwitch(d, o, version) ==
    LET name == IF o.hostname = NoName THEN <<"s", o.num>> ELSE o.hostname
        kind == CASE o.type = "legacySwitch" -> "LegacySwitch"
                  [] o.type = "legacyRouter" -> "LegacyRouter"
                  [] OTHER -> "Switch"
        list == IF o.controllers = NoList THEN <<>> ELSE o.controllers
        added == SetSwitchOpts(AddNode(d, kind, name), name,
                               [o EXCEPT !.hostname = name, !.controllers = list])
    IN  LinkControllers(Ok(added), name, IF version > 1 THEN list ELSE <<<<"c", 0>>>>)

LoadLink(d, l) == LinkByName(d, l.src, l.dest, "data", l.opts)

LoadControllers(r, controllers) == ForEach(controllers, r, LoadController)
LoadHosts(r, hosts) == ForEach(hosts, r, LoadHost)
LoadSwitches(r, switches, version) ==
    ForEach(switches, r, LAMBDA d, o : LoadSwitch(d, o, version))
LoadLinks(r, links) == ForEach(links, r, LoadLink)
Loaded(d, t, f) ==
    LET controllers == LoadControllers(NewTopology(d, t), f.controllers)
        hosts == LoadHosts(controllers, f.hosts)
        switches == LoadSwitches(hosts, f.switches, f.version)
    IN  LoadLinks(switches, f.links)

(* importTopo(): every switch is linked to every controller; hosts and switches
   are counted from 0, and the hosts keep their addresses. *)
ImportController(d, name) ==
    Ok(SetController(AddNode(d, "Controller", name), name, "ref"))
ImportControl(d, name, c) ==
    LinkByName(WithList(d, name, Append(d.switchOpts[name].controllers, c)), name, c, "control", {})
ImportControls(r, name, controllers) ==
    ForEach(controllers, r, LAMBDA d, c : ImportControl(d, name, c))
ImportSwitch(d, name, controllers) ==
    LET opts == SwitchOpts("default", d.counts.switch, name, <<>>, {})
        added == AddNode(SetSwitchOpts(d, name, opts), "Switch", name)
    IN  ImportControls(Ok(added), name, controllers)
ImportHost(d, name) ==
    Ok(AddNode(SetHostOpts(d, name, HostOpts("Host", d.counts.host, name, {"imported"})),
               "Host", name))
(* The options of an imported link hold its ends: node1, node2, port1 and port2. *)
ImportLink(d, l) == LinkByName(d, l[1], l[2], "data", {"ends"})

ImportControllers(r, names) == ForEach(names, r, ImportController)
ImportSwitches(r, names, controllers) ==
    ForEach(names, r, LAMBDA d, n : ImportSwitch(d, n, controllers))
ImportHosts(r, names) == ForEach(names, r, ImportHost)
ImportLinks(r, links) == ForEach(links, r, ImportLink)
Imported(t) ==
    LET controllers == ImportControllers(Ok(EmptyModel), t.controllers)
        switches == ImportSwitches(controllers, t.switches, t.controllers)
        hosts == ImportHosts(switches, t.hosts)
    IN  ImportLinks(hosts, t.links).m

-----------------------------------------------------------------------------
(* The network run from the drawing, and the one that the exported script makes.
   An address is its offset in the range, or one the user gave.  Mininet gave the
   imported hosts the first ones, from 1. *)

Class(type, p) == IF type = "default" THEN p ELSE type

NoAddress == <<"none">>
Given == <<"own">>
Offset(o) == IF "imported" \in o.extra THEN o.num + 1 ELSE o.num
Address(o) == IF "ip" \in o.extra THEN Given ELSE <<"offset", Offset(o)>>
HostClass(o) == IF "cpu" \in o.extra THEN "CPULimitedHost" ELSE "Host"

(* buildNodes() *)
Built(d, p, w) ==
    LET host == d.hostOpts[w.name]
        Made(class, address) == [name |-> w.name, class |-> class, ip |-> address]
    IN  CASE w.kind = "Switch" -> Made(Class(d.switchOpts[w.name].type, p), NoAddress)
          [] w.kind = "LegacySwitch" -> Made("standalone", NoAddress)
          [] w.kind = "LegacyRouter" -> Made("LegacyRouter", <<"next">>)
          [] w.kind = "Host" -> Made(HostClass(host), Address(host))
          [] w.kind = "Docker" -> Made("Docker", Address(host))
          [] w.kind = "Controller" -> Made(d.controllers[w.name], NoAddress)

NodeNames(d) == {w.name : w \in Nodes(d)}

DrawnLinks(d) ==
    Each(DataLinks(d), LAMBDA l : <<Text(d, l.src), Text(d, l.dest), l.opts>>)

(* The addresses of a container's further interfaces, in its dialog; two rows at
   most here. *)
Rows == <<"eth1", "eth2">>
HasRow(d, name, n) ==
    name \in DOMAIN d.hostOpts /\ n \in DOMAIN Rows /\ Rows[n] \in d.hostOpts[name].extra

(* intfList() before link k is made: the loopback of a switch comes first. *)
Interfaces(d, k, name) ==
    LET links == DrawnLinks(d)
        loopback == \E w \in Nodes(d) : w.name = name /\ w.kind \in {"Switch", "LegacySwitch"}
    IN  Cardinality({j \in 1..(k - 1) : name \in {links[j][1], links[j][2]}})
            + (IF loopback THEN 1 ELSE 0)
Params == <<"params1", "params2">>
MultiLink(d, k) ==
    {Params[e] : e \in {i \in DOMAIN Params :
                           LET name == DrawnLinks(d)[k][i]
                           IN  HasRow(d, name, Interfaces(d, k, name))}}

(* buildLinks(): addresses of further interfaces take the place of the options. *)
BuiltLinks(d) ==
    LET links == DrawnLinks(d)
    IN  [k \in DOMAIN links |->
            IF MultiLink(d, k) = {} THEN links[k]
            ELSE <<links[k][1], links[k][2], MultiLink(d, k)>>]
(* addLink() takes no second node1 and node2 among the options. *)
CanBuildLink(d, k) ==
    LET link == DrawnLinks(d)[k]
    IN  /\ {link[1], link[2]} \subseteq NodeNames(d)
        /\ MultiLink(d, k) = {} => "ends" \notin link[3]
CanBuild(d) == \A k \in DOMAIN DataLinks(d) : CanBuildLink(d, k)

(* start(): each switch is given the controllers of its list. *)
StartedWith(d, w) ==
    <<w.name, IF w.kind = "Switch" THEN d.switchOpts[w.name].controllers ELSE <<>> >>
CanStart(d, w) ==
    w.kind = "Switch" => ToSet(d.switchOpts[w.name].controllers) \subseteq NodeNames(d)

(* The commands that nodes have of their own are run once all is started. *)
PostStartSetup(d) ==
    {w.name : w \in {v \in ToSet(NodesLike(d, {"Host"})) : "commands" \in d.hostOpts[v.name].extra}
              \cup {v \in ToSet(NodesLike(d, {"Switch"})) : "commands" \in d.switchOpts[v.name].extra}}
(* NetFlow and sFlow are turned on in the switches that ask for them, if the
   preferences name a collector: the dialog sets it with the switch class. *)
Collector(p) == p = "user"
FlowSwitches(d, p) ==
    {w.name : w \in {v \in ToSet(NodesLike(d, {"Switch"})) :
                        Collector(p) /\ "flows" \in d.switchOpts[v.name].extra}}

(* build(), then start(): a controller of the list that the network does not have
   ends it. *)
RunNet(d, p) ==
    LET switches == NodesLike(d, {"Switch", "LegacySwitch"})
        reached == {k \in DOMAIN switches : \A j \in 1..k : CanStart(d, switches[j])}
    IN  [running |-> TRUE, prefs |-> p, down |-> {},
         nodes |-> {Built(d, p, w) : w \in Nodes(d)}, links |-> BuiltLinks(d),
         started |-> {StartedWith(d, switches[k]) : k \in reached},
         commands |-> IF reached = DOMAIN switches THEN PostStartSetup(d) ELSE {},
         flows |-> IF reached = DOMAIN switches THEN FlowSwitches(d, p) ELSE {}]

(* stop() looks up every host and switch in the network and in its options. *)
CanStop(d, n) ==
    \A w \in Nodes(d) : w.kind \in {"Host", "Switch"} =>
        /\ w.name \in {b.name : b \in n.nodes}
        /\ w.name \in DOMAIN IF w.kind = "Host" THEN d.hostOpts ELSE d.switchOpts

(* exportScript(): controllers, switches, hosts, links, starts. *)
ScriptController(d, w) == [name |-> w.name, class |-> d.controllers[w.name], ip |-> NoAddress]
ScriptSwitch(d, p, w) ==
    CASE w.kind = "LegacyRouter" -> [name |-> w.name, class |-> "Node", ip |-> <<"0.0.0.0">>]
      [] w.kind = "LegacySwitch" -> [name |-> w.name, class |-> "standalone", ip |-> NoAddress]
      [] w.kind = "Switch" ->
            [name |-> w.name, class |-> Class(d.switchOpts[w.name].type, p), ip |-> NoAddress]
ScriptHost(d, w) ==
    LET o == d.hostOpts[w.name]
    IN  [name |-> w.name, class |-> HostClass(o), ip |-> Address(o)]
ScriptNodes(d, p) ==
    {ScriptController(d, w) : w \in ToSet(NodesLike(d, {"Controller"}))}
    \cup {ScriptSwitch(d, p, w) : w \in ToSet(NodesLike(d, SwitchLike))}
    \cup {ScriptHost(d, w) : w \in ToSet(NodesLike(d, {"Host"}))}
ScriptAllLinks(d) ==    \* mutant: links to controllers are exported too
    Each(d.links, LAMBDA l : <<Text(d, l.src), Text(d, l.dest), l.opts \ {"ends"}>>)
(* Of the options the script has those of the link's dialog. *)
ScriptLinks(d) ==
    Each(DataLinks(d), LAMBDA l : <<Text(d, l.src), Text(d, l.dest), l.opts \ {"ends"}>>)
ScriptStarts(d) ==
    {<<w.name, d.switchOpts[w.name].controllers>> :
        w \in ToSet(NodesLike(d, {"Switch", "LegacySwitch"}))}
ScriptCommands(d) ==
    LET Has(w, opts) == "commands" \in opts[w.name].extra
    IN  {w.name : w \in {v \in Nodes(d) : \/ v.kind = "Host" /\ Has(v, d.hostOpts)
                                          \/ v.kind = "Switch" /\ Has(v, d.switchOpts)}}
ScriptFlows(d, p) ==
    IF ~Collector(p) THEN {}
    ELSE {n \in NodeNames(d) : \E w \in Nodes(d) :
              w.name = n /\ w.kind = "Switch" /\ "flows" \in d.switchOpts[n].extra}

-----------------------------------------------------------------------------
(* Gestures *)

DistinctNames(d) == Cardinality(NodeNames(d)) = Len(d.canvas)

(* The new model d of a gesture, which made the troubles given. *)
Then(d, troubles) ==
    /\ m' = d
    /\ trouble' = trouble \cup troubles
                  \cup (IF DistinctNames(m') THEN {} ELSE {"nameTaken"})
When(cond, name) == IF cond THEN {name} ELSE {}

Gesture ==
    /\ tools # "closed"
    /\ gestures < MaxGestures
    /\ gestures' = gestures + 1

Init ==
    /\ m \in {EmptyModel} \cup {Imported(t) : t \in Imports}
    /\ prefs = "ovs" /\ tools = "normal" /\ net = NoNet /\ dialog = NoDialog
    /\ gestures = 0 /\ trouble = {}

ClickNode(kind) ==
    /\ Gesture /\ tools = "normal"
    /\ Then(NewNode(m, kind), {})
    /\ UNCHANGED <<prefs, tools, net, dialog>>

(* From the press on one node to the release on another. *)
DragLink(a, b) ==
    /\ Gesture /\ tools = "normal"
    /\ a # b
    /\ {<<a.item, b.item>>, <<b.item, a.item>>} \cap DOMAIN m.ends = {}
    /\ ~Refused(a.kind, b.kind)
    /\ Then(FinishLink(m, a, b).m,
            When({a.kind, b.kind} = {"Docker", "Controller"}, "dockerControl"))
    /\ UNCHANGED <<prefs, tools, net, dialog>>

DeleteSelection(item) ==
    /\ Gesture
    /\ Then(DeleteItem(m, tools, item).m, {})
    /\ UNCHANGED <<prefs, tools, net, dialog>>

(* hostDetails(), dockerDetails(), switchDetails(): the editor goes on while the
   dialog is open.  One dialog is open at a time here. *)
OpenDetails(w) ==
    /\ Gesture
    /\ dialog = NoDialog /\ ~net.running
    /\ w.kind \in {"Host", "Docker", "Switch"}
    /\ w.name \in DOMAIN IF w.kind = "Switch" THEN m.switchOpts ELSE m.hostOpts
    /\ dialog' = w
    /\ UNCHANGED <<m, prefs, tools, net, trouble>>

CancelDetails ==
    /\ Gesture
    /\ dialog # NoDialog
    /\ dialog' = NoDialog
    /\ UNCHANGED <<m, prefs, tools, net, trouble>>

(* What the dialogs return: the name typed, a limit of the host, a class of the
   switch, commands and flows; and what box holds: the address of a host, which
   the user left, cleared or typed, or the rows of addresses of a container. *)
HostResult(typed, box) == [hostname |-> typed, extra |-> {"cpu", "commands"} \cup box]
DockerResult(typed, box) == [hostname |-> typed, extra |-> box]
SwitchResult(typed) == [hostname |-> typed, type |-> "user", extra |-> {"commands", "flows"}]
ControllerResult(typed) == [hostname |-> typed, type |-> "remote"]
LinkResult == {"bw"}

Boxes(d, w) ==
    CASE w.kind = "Host" -> {{}, {"ip"}, d.hostOpts[w.name].extra \cap {"ip", "imported"}}
      [] w.kind = "Docker" -> {{Rows[i] : i \in 1..n} : n \in 0..Len(Rows)}
      [] w.kind = "Switch" -> {{}}

Renamed(d, item, name) ==
    LET New(w) == IF w.item = item THEN [w EXCEPT !.name = name] ELSE w
    IN  [d EXCEPT !.canvas = Each(@, New), !.gone = {New(w) : w \in @}]
NameFrom(result, old) == IF result.hostname = NoName THEN old ELSE result.hostname

ApplyDetailsRenumbering(d, w, typed, box) ==    \* mutant: the number is not kept
    LET name == NameFrom(HostResult(typed, box), w.name)
        renamed == Renamed(d, w.item, name)
    IN  IF w.kind = "Switch"
        THEN SetSwitchOpts(renamed, name, SwitchOpts("user", d.counts.switch, typed,
                                                     d.switchOpts[w.name].controllers, {}))
        ELSE SetHostOpts(renamed, name, HostOpts(w.kind, d.counts.host, typed, box))
(* The number and the controllers stay, and the entry under the old name. *)
ApplyDetails(d, w, typed, box) ==
    LET r == CASE w.kind = "Switch" -> SwitchResult(typed)
               [] w.kind = "Host" -> HostResult(typed, box)
               [] w.kind = "Docker" -> DockerResult(typed, box)
        name == NameFrom(r, w.name)
        renamed == Renamed(d, w.item, name)
    IN  IF w.kind = "Switch"
        THEN LET old == d.switchOpts[w.name]
             IN  SetSwitchOpts(renamed, name,
                               SwitchOpts(r.type, old.num, r.hostname, old.controllers, r.extra))
        ELSE SetHostOpts(renamed, name,
                         HostOpts(w.kind, d.hostOpts[w.name].num, r.hostname, r.extra))

OkDetails(typed) ==
    LET found == dialog.name \in DOMAIN IF dialog.kind = "Switch" THEN m.switchOpts ELSE m.hostOpts
        stale == When(net.running \/ dialog \notin Nodes(m), "staleDialog")
        Replaced(box) == /\ dialog.kind = "Host" /\ "imported" \notin box
                         /\ "imported" \in m.hostOpts[dialog.name].extra
    IN  /\ Gesture
        /\ dialog # NoDialog
        /\ \/ ~found /\ Then(m, stale)
           \/ /\ found
              /\ \E box \in Boxes(m, dialog) :
                    Then(ApplyDetails(m, dialog, typed, box),
                         stale \cup When(Replaced(box), "addressReplaced"))
        /\ dialog' = NoDialog
        /\ UNCHANGED <<prefs, tools, net>>

(* controllerDetails(): the lists of the switches follow a new name. *)
Relist(d, switch, old, name) ==
    LET list == d.switchOpts[switch].controllers
    IN  IF ~HasList(d, switch) THEN Raise(d)
        ELSE IF old \notin ToSet(list) THEN Ok(d)
        ELSE Ok(WithList(d, switch, Append(RemoveFirst(list, old), name)))
RelistEverywhere(d, old, name) ==
    ForEach(NodesLike(d, {"Switch"}), Ok(d), LAMBDA e, v : Relist(e, v.name, old, name))
RenameController(d, w, typed) ==
    LET r == ControllerResult(typed)
        name == NameFrom(r, w.name)
        renamed == SetController(Renamed(d, w.item, name), name, r.type)
    IN  IF name = w.name THEN Ok(renamed) ELSE RelistEverywhere(renamed, w.name, name)

ControllerDetails(w, typed) ==
    /\ Gesture /\ ~net.running
    /\ w.kind = "Controller"
    /\ Then(IF w.name \in DOMAIN m.controllers THEN RenameController(m, w, typed).m ELSE m, {})
    /\ UNCHANGED <<prefs, tools, net, dialog>>

WithLink(d, item, F(_)) ==
    [d EXCEPT !.links = Each(@, LAMBDA l : IF l.item = item THEN F(l) ELSE l)]

LinkDetails(l) ==
    /\ Gesture /\ ~net.running
    /\ l.type = "data"
    /\ Then(WithLink(m, l.item, LAMBDA k : [k EXCEPT !.opts = LinkResult]), {})
    /\ UNCHANGED <<prefs, tools, net, dialog>>

(* Every link between the two nodes; an error message if there is none. *)
ConfigLinkStatus(n, pair, down) ==
    LET wired == \E k \in ToSet(n.links) : {k[1], k[2]} = pair
    IN  [n EXCEPT !.down = IF ~wired THEN @ ELSE IF down THEN @ \cup {pair} ELSE @ \ {pair}]

(* linkUp() and linkDown(): the link of the network, then the drawn one. *)
SetLinkDown(l, down) ==
    /\ Gesture /\ net.running
    /\ l.type = "data"
    /\ net' = ConfigLinkStatus(net, {Text(m, l.src), Text(m, l.dest)}, down)
    /\ Then(WithLink(m, l.item, LAMBDA k : [k EXCEPT !.down = down]), {})
    /\ UNCHANGED <<prefs, tools, dialog>>

PrefDetails ==
    /\ Gesture
    /\ prefs' = "user"
    /\ UNCHANGED <<m, tools, net, dialog, trouble>>

WhileRunning == When(tools = "disabled", "fileWhileRunning")

FileNew ==
    /\ Gesture
    /\ Then(NewTopology(m, tools).m, WhileRunning)
    /\ UNCHANGED <<prefs, tools, net, dialog>>

FileOpen(f) ==
    /\ Gesture
    /\ Then(Loaded(m, tools, f).m,
            {"fileOpened"} \cup WhileRunning \cup When(f.version = 1, "oldFile"))
    /\ prefs' = IF NewTopology(m, tools).ok THEN f.prefs ELSE prefs
    /\ UNCHANGED <<tools, net, dialog>>

(* What there is to open; without options for a node nothing is saved. *)
Files == OldFiles \cup (IF AllHaveOpts(m) THEN {Saved(m, prefs)} ELSE {})

(* A link that is made is no longer drawn as one that is down. *)
Undashed(d, made) ==
    [d EXCEPT !.links = Each(@, LAMBDA l : IF l \in made THEN [l EXCEPT !.down = FALSE] ELSE l)]

(* Names given twice are not run here: what the kernel says to them is open. *)
DoRun ==
    /\ Gesture
    /\ DistinctNames(m)
    /\ tools' = "disabled"
    /\ \/ net.running /\ UNCHANGED <<net, m>>
       \/ /\ ~net.running /\ AllHaveOpts(m) /\ CanBuild(m)
          /\ net' = RunNet(m, prefs)
          /\ m' = Undashed(m, ToSet(m.links))
       \/ /\ ~net.running
          /\ \E k \in 0..Len(DataLinks(m)) :    \* build() raises after k links
                /\ \A j \in 1..k : CanBuildLink(m, j)
                /\ m' = Undashed(m, {DataLinks(m)[j] : j \in 1..k})
          /\ UNCHANGED net
    /\ UNCHANGED <<prefs, dialog, trouble>>

Stopped == net.running => CanStop(m, net)

DoStop ==
    /\ Gesture
    /\ Stopped
    /\ net' = NoNet /\ tools' = "normal"
    /\ UNCHANGED <<m, prefs, dialog, trouble>>

Quit ==
    /\ Gesture
    /\ Stopped
    /\ net' = NoNet /\ tools' = "closed"
    /\ UNCHANGED <<m, prefs, dialog, trouble>>

Next ==
    \/ \E kind \in Kinds : ClickNode(kind)
    \/ \E a, b \in Nodes(m) : DragLink(a, b)
    \/ \E item \in Items(m) \cup LinkItems(m) : DeleteSelection(item)
    \/ \E w \in Nodes(m) : OpenDetails(w)
    \/ CancelDetails
    \/ \E typed \in DialogNames : OkDetails(typed)
    \/ \E w \in Nodes(m), typed \in DialogNames : ControllerDetails(w, typed)
    \/ \E l \in ToSet(m.links) : LinkDetails(l)
    \/ \E l \in ToSet(m.links), down \in BOOLEAN : SetLinkDown(l, down)
    \/ PrefDetails
    \/ FileNew
    \/ \E f \in Files : FileOpen(f)
    \/ DoRun
    \/ DoStop
    \/ Quit

Spec == Init /\ [][Next]_vars

-----------------------------------------------------------------------------
(* Properties *)

Troubles == {"nameTaken", "dockerControl", "staleDialog", "fileWhileRunning",
             "fileOpened", "oldFile", "addressReplaced"}
Without(troubles) == trouble \cap troubles = {}

(* The variables stay in their domains. *)
TypeOK ==
    /\ \A w \in Nodes(m) : w.item \in 1..(m.next - 1)
    /\ Cardinality(Items(m)) = Len(m.canvas)
    /\ \A l \in ToSet(m.links) : l.item \in 1..(m.next - 1) /\ l.type \in {"data", "control"}
    /\ prefs \in {"ovs", "user"}
    /\ tools \in {"normal", "disabled", "closed"}
    /\ net.running \in BOOLEAN
    /\ gestures \in 0..MaxGestures
    /\ trouble \subseteq Troubles

(* The controllers a drawn switch is linked to, by their names now. *)
DrawnControllers(item) ==
    {Text(m, IF l.src = item THEN l.dest ELSE l.src) :
        l \in {k \in ToSet(m.links) : k.type = "control" /\ item \in {k.src, k.dest}}}

Orderly == Without({"nameTaken", "dockerControl", "staleDialog", "fileWhileRunning", "oldFile"})

(* A link of the model joins two icons that both know it, and an icon knows no link
   but those of the model.  Whatever is linked, cut, deleted and renamed: every node
   has its options, and the list of a switch names the controllers drawn to it, each
   once (addLink(), deleteLink(), deleteNode()). *)
LinksAgree ==
    /\ Without({"nameTaken", "dockerControl", "staleDialog", "fileWhileRunning"}) =>
          /\ \A l \in ToSet(m.links) :
                /\ {l.src, l.dest} \subseteq Items(m)
                /\ {<<l.src, l.dest>>, <<l.dest, l.src>>} \subseteq DOMAIN m.ends
                /\ m.ends[<<l.src, l.dest>>] = l.item /\ m.ends[<<l.dest, l.src>>] = l.item
          /\ \A e \in DOMAIN m.ends :
                \E l \in ToSet(m.links) : l.item = m.ends[e] /\ {l.src, l.dest} = {e[1], e[2]}
    /\ Orderly =>
          /\ AllHaveOpts(m)
          /\ \A w \in Nodes(m) : w.kind = "Switch" =>
                LET list == m.switchOpts[w.name].controllers
                IN  /\ ToSet(list) = DrawnControllers(w.item)
                    /\ Len(list) = Cardinality(ToSet(list))

(* What of a drawing a file has to keep. *)
Topology(d) ==
    [hosts |-> {<<w.name, w.kind, d.hostOpts[w.name]>> : w \in ToSet(NodesLike(d, HostLike))},
     switches |-> {<<w.name, w.kind, d.switchOpts[w.name].num, d.switchOpts[w.name].type>> :
                        w \in ToSet(NodesLike(d, SwitchLike))},
     managed |-> {<<w.name, d.switchOpts[w.name].controllers>> :
                        w \in ToSet(NodesLike(d, {"Switch"}))},
     controllers |-> {<<w.name, d.controllers[w.name]>> : w \in ToSet(NodesLike(d, {"Controller"}))},
     data |-> DrawnLinks(d),
     control |-> {{Text(d, l.src), Text(d, l.dest)} :
                        l \in {k \in ToSet(d.links) : k.type = "control"}}]

Unnamed(d) ==
    \E w \in Nodes(d) :
        \/ w.kind \in HostLike /\ d.hostOpts[w.name].hostname = NoName
        \/ w.kind \in SwitchLike /\ d.switchOpts[w.name].hostname = NoName

(* A drawing that is saved and opened comes back as it was, links in their
   order, if no name was left blank in a dialog. *)
SavedIsLoaded ==
    Orderly /\ ~Unnamed(m) =>
        \A file \in {Saved(m, prefs)} : \A loaded \in {Loaded(m, "normal", file)} :
            loaded.ok /\ Topology(loaded.m) = Topology(m)

Addressed(d, name) == \E n \in DOMAIN Rows : HasRow(d, name, n)
LinksAreDrawn(d, links) ==
    LET drawn == DrawnLinks(d)
    IN  /\ DOMAIN links = DOMAIN drawn
        /\ \A k \in DOMAIN drawn :
              /\ links[k][1] = drawn[k][1] /\ links[k][2] = drawn[k][2]
              /\ ~Addressed(d, drawn[k][1]) /\ ~Addressed(d, drawn[k][2]) =>
                    links[k][3] = drawn[k][3]

(* While a network runs it is the one drawn: the nodes, the links in order, the
   controllers each switch was started with, the links set down; and stop()
   finds everything it looks up.  The options of a link are those drawn unless
   the dialog of an end has addresses for its further interfaces: those can push
   the options out (buildLinks(), the TODO).  A drawing whose links cannot be
   built, as an imported one, is never running. *)
RunIsWhatIsDrawn ==
    Orderly /\ net.running =>
        /\ net.nodes = {Built(m, net.prefs, w) : w \in Nodes(m)}
        /\ LinksAreDrawn(m, net.links)
        /\ {<<s[1], ToSet(s[2])>> : s \in net.started} =
              {<<w.name, DrawnControllers(w.item)>> :
                    w \in ToSet(NodesLike(m, {"Switch", "LegacySwitch"}))}
        /\ net.down = {{Text(m, l.src), Text(m, l.dest)} : l \in {k \in ToSet(m.links) : k.down}}
        /\ CanStop(m, net)

(* The exported script makes the network that Run makes, of a drawing without
   containers and routers, which it leaves out or makes differently, and without
   addresses for further interfaces; and if Run can build the links: of an imported
   link it cannot, and the script can. *)
ScriptIsTheRun ==
    /\ Orderly /\ CanBuild(m)
    /\ NodesLike(m, {"Docker", "LegacyRouter"}) = <<>>
    /\ \A name \in DOMAIN m.hostOpts : ~Addressed(m, name)
    =>  LET run == RunNet(m, prefs)
        IN  /\ ScriptNodes(m, prefs) = run.nodes
            /\ ScriptLinks(m) = run.links
            /\ ScriptStarts(m) = run.started
            /\ ScriptCommands(m) = run.commands
            /\ ScriptFlows(m, prefs) = run.flows

(* No two hosts of a drawing that was not opened from a file share an address,
   whether imported, drawn or both; those that the user gave are the user's.  An
   imported host whose address was cleared or replaced in its dialog is left out: its
   number gives it the address of the one before. *)
AddressesDistinct ==
    Without({"nameTaken", "staleDialog", "fileOpened", "fileWhileRunning", "addressReplaced"}) =>
        \A v, w \in ToSet(NodesLike(m, {"Host"})) :
            Address(m.hostOpts[v.name]) = Address(m.hostOpts[w.name])
                => v = w \/ Address(m.hostOpts[v.name]) = Given
=============================================================================
