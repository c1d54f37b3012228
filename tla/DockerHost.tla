------------------------------ MODULE DockerHost ------------------------------
(* Containers as hosts, and external access points (class Docker, node.py; class
   Containernet, net.py; clean.py): the objects of the program, the containers
   of the Docker daemon with their limits, the shells that the program runs in
   them, and the iptables rules of access points with NAT.

   The name of a container is a sequence of parts, for constructors that compare
   names compare prefixes.  A node is the number of its object; a container has
   an id that is never used again.                                           *)
EXTENDS Integers, SequencesExt, Bags

CONSTANTS
    Names,       \* what hosts are named
    Limits,      \* the limits hosts are made with, and update_resources() is given
    CpuCalls,    \* the arguments of updateCpuLimit()
    MemoryCalls, \* the arguments of updateMemoryLimit()
    None,        \* a limit that is not given
    Saps, Nets,  \* external access points, the networks of their addresses
    MaxCalls,    \* bound: calls of one process
    MaxNodes,    \* bound: Docker objects of one process
    MaxTroubles, \* bound: containers and shells that die, API errors, crashes
    MaxRuns      \* bound: processes, one after the other

VARIABLES
    python,    \* the major version of the interpreter
    phase,     \* of the process: "up", "stopping", "stopped", "dead"
    hasImage,  \* the image is there
    con,       \* con[id]: name, status and limits of a container
    node,      \* the Docker objects in the order of their creation
    hosts,     \* Mininet.hosts
    named,     \* Mininet.nameToNode
    saps,      \* SAPswitches, and whether their bridge is still up
    rules,     \* the rules of iptables, a bag
    history    \* what has happened, for the properties

vars == <<python, phase, hasImage, con, node, hosts, named, saps, rules, history>>
docker == <<hasImage, con, node, hosts, named>>
nat == <<saps, rules>>

Fresh == [orphans |-> {}, served |-> {}, strays |-> {}, lastId |-> 0,
          calls |-> 0, troubles |-> 0, runs |-> 1]

Init ==
    /\ python \in {2, 3} /\ phase = "up" /\ hasImage \in BOOLEAN
    /\ con = <<>> /\ node = <<>> /\ hosts = <<>> /\ named = <<>>
    /\ saps = <<>> /\ rules = EmptyBag
    /\ history = Fresh

MayCall == phase = "up" /\ history.calls < MaxCalls
MayFail == history.troubles < MaxTroubles
Called == [history EXCEPT !.calls = @ + 1]
Without(f, keys) == [x \in DOMAIN f \ keys |-> f[x]]

-----------------------------------------------------------------------------
(* Limits: the names are those of self.resources. *)

Fields == {"cpu_quota", "cpu_period", "cpu_shares", "cpuset_cpus", "mem_limit", "memswap_limit"}
Unlimited == 9999
AllCores == {0, 1}
NewLimits == [cpu_quota |-> -1, cpu_period |-> 100000, cpu_shares |-> 1024,
              cpuset_cpus |-> AllCores, mem_limit |-> Unlimited, memswap_limit |-> Unlimited]
NotGiven == [f \in Fields |-> IF f = "cpu_quota" THEN -1 ELSE None]
ASSUME LimitsAssumption == \A want \in Limits : want = [f \in Fields |-> want[f]]

Given(want) == {f \in Fields : want[f] # None}
Over(old, want) == [f \in Fields |-> IF want[f] # None THEN want[f] ELSE old[f]]

(* What the daemon and the kernel take. *)
Accepts(l) ==
    /\ l.cpu_quota = -1 \/ l.cpu_quota >= 1000
    /\ l.cpu_period \in 1000..1000000
    /\ l.cpuset_cpus \subseteq AllCores
    /\ l.mem_limit <= l.memswap_limit

(* create_host_config(): two of the limits; the daemon doubles the memory. *)
CreateLimits(want) ==
    [NewLimits EXCEPT !.mem_limit = IF want.mem_limit = None THEN @ ELSE want.mem_limit,
                      !.memswap_limit = IF want.mem_limit = None THEN @ ELSE 2 * want.mem_limit,
                      !.cpuset_cpus = IF want.cpuset_cpus = None THEN @ ELSE want.cpuset_cpus]

-----------------------------------------------------------------------------
(* Containers and the shells in them *)

Running(id) == id \in DOMAIN con /\ con[id].status = "running"
Named(c, name) == {id \in DOMAIN c : c[id].name = name}

IsRunningByName(nd) == \E id \in Named(con, nd.name) : Running(id)  \* mutant: asked by name
(* _is_container_running() asks by id, docker exec is told the name. *)
IsRunning(nd) == Running(nd.id)
ExecedIn(nd) == CHOOSE id \in Named(con, nd.name) : TRUE

(* _check_shell(): the shell that the next command goes to, or none. *)
ShellLives(nd) == nd.shell # 0 /\ ~nd.dead /\ Running(nd.shell)
Checked(nd) ==
    IF ~IsRunning(nd) THEN [nd EXCEPT !.shell = 0]
    ELSE IF ShellLives(nd) THEN nd
    ELSE [nd EXCEPT !.shell = ExecedIn(nd), !.dead = FALSE]
Served(nd, id) == IF id = 0 THEN {} ELSE {<<nd.id, id>>}

(* cmd(), sendCmd(); start() runs the CMD of the image this way. *)
Cmd(n) ==
    /\ MayCall
    /\ LET nd == Checked(node[n])
       IN  /\ node' = [node EXCEPT ![n] = nd]
           /\ history' = [Called EXCEPT !.served = @ \cup Served(nd, nd.shell)]
    /\ UNCHANGED <<python, phase, hasImage, con, hosts, named, nat>>

Popen(n) ==
    /\ MayCall
    /\ history' = [Called EXCEPT !.served =
           @ \cup Served(node[n], IF IsRunning(node[n]) THEN ExecedIn(node[n]) ELSE 0)]
    /\ UNCHANGED <<python, phase, docker, nat>>

ShellDies(n) ==
    /\ MayFail /\ ShellLives(node[n])
    /\ node' = [node EXCEPT ![n].dead = TRUE]
    /\ history' = [history EXCEPT !.troubles = @ + 1]
    /\ UNCHANGED <<python, phase, hasImage, con, hosts, named, nat>>
ContainerExits(id) ==
    /\ MayFail /\ Running(id)
    /\ con' = [con EXCEPT ![id].status = "exited"]
    /\ history' = [history EXCEPT !.troubles = @ + 1]
    /\ UNCHANGED <<python, phase, hasImage, node, hosts, named, nat>>

-----------------------------------------------------------------------------
(* Docker(): the constructor in its order *)

(* The option rm looks for the name within the names of all containers, and for
   each that it finds removes the one of its own name: the second such removal,
   or the first if there is none of that name, raises. *)
Similar(name) == {id \in DOMAIN con : IsPrefix(name, con[id].name)}
AfterRm(name, rm) == IF rm THEN Without(con, Named(con, name)) ELSE con
RmRaises(name, rm) == rm /\ ~(Similar(name) \subseteq Named(con, name))

(* _check_image_exists(): a pull that fails is taken for one that succeeds. *)
Pulled == IF hasImage THEN {TRUE} ELSE BOOLEAN

NewId == history.lastId + 1
Created(c, name, status, limits) ==
    [id \in DOMAIN c \cup {NewId} |->
        IF id = NewId THEN [name |-> name, status |-> status, limits |-> limits] ELSE c[id]]

Raised(c, lost) ==
    /\ con' = c
    /\ history' = [Called EXCEPT !.lastId = NewId, !.orphans = @ \cup lost,
                                 !.troubles = IF lost = {} THEN @ ELSE @ + 1]
    /\ UNCHANGED <<node, hosts, named>>

New(name, rm, want) ==
    /\ MayCall /\ Len(node) < MaxNodes
    /\ hasImage' \in Pulled
    /\ LET c == AfterRm(name, rm)
           made == CreateLimits(want)
       IN  IF RmRaises(name, rm) \/ Named(c, name) # {} \/ ~hasImage' \/ ~Accepts(made)
           THEN Raised(c, {})
           ELSE \/ MayFail /\ Raised(Created(c, name, "created", made), {NewId})
                \/ IF Accepts(Over(made, want))
                   THEN /\ con' = Created(c, name, "running", Over(made, want))
                        /\ node' = Append(node, [name |-> name, id |-> NewId, resources |-> want,
                                                 astray |-> {}, shell |-> NewId, dead |-> FALSE])
                        /\ hosts' = Append(hosts, Len(node'))
                        /\ named' = [x \in DOMAIN named \cup {name} |->
                                         IF x = name THEN Len(node') ELSE named[x]]
                        /\ history' = [Called EXCEPT !.lastId = NewId]
                   ELSE Raised(Created(c, name, "running", made), {NewId})
    /\ UNCHANGED <<python, phase, nat>>

-----------------------------------------------------------------------------
(* Limits at run time *)

Exists(n) == node[n].id \in DOMAIN con
Limit(n, l) == con' = IF Exists(n) THEN [con EXCEPT ![node[n].id].limits = l] ELSE con
Current(n) == IF Exists(n) THEN con[node[n].id].limits ELSE NewLimits
Recorded(n, r, astray) == node' = [node EXCEPT ![n].resources = r, ![n].astray = astray]

(* update_resources(): the record is changed before the daemon may refuse, and
   all that it holds is sent. *)
UpdateResources(n, want) ==
    /\ MayCall /\ n \in Range(hosts)
    /\ LET r == Over(node[n].resources, want)
           taken == Exists(n) /\ Accepts(Over(Current(n), r))
       IN  /\ IF taken THEN Limit(n, Over(Current(n), r)) ELSE UNCHANGED con
           /\ Recorded(n, r, IF taken THEN {} ELSE node[n].astray \cup Given(want))
    /\ history' = Called
    /\ UNCHANGED <<python, phase, hasImage, hosts, named, nat>>

(* cgroupSet(): tells the value that it read back, or None. *)
CgroupSetUnread(s, f, v, found) ==           \* mutant: tells what was asked for
    [limits |-> IF found /\ Accepts([s.limits EXCEPT ![f] = v])
                THEN [s.limits EXCEPT ![f] = v] ELSE s.limits,
     resources |-> [s.resources EXCEPT ![f] = v], astray |-> s.astray \ {f}]
CgroupSet(s, f, v, found) ==
    IF found /\ Accepts([s.limits EXCEPT ![f] = v])
    THEN [limits |-> [s.limits EXCEPT ![f] = v],
          resources |-> [s.resources EXCEPT ![f] = v], astray |-> s.astray \ {f}]
    ELSE [s EXCEPT !.resources[f] = None, !.astray = @ \ {f}]

(* A file of the control group: found, if the daemon made it where the program
   looks for it.  A quota may be negative. *)
Held(n) ==
    [limits |-> Current(n), resources |-> node[n].resources, astray |-> node[n].astray]
Written(s, f, v, found) == IF f = "cpu_quota" \/ v >= 0 THEN CgroupSet(s, f, v, found) ELSE s

(* updateCpuLimit(): the cores are not recorded. *)
UpdateCpuLimit(n, call) ==
    /\ MayCall /\ n \in Range(hosts)
    /\ \E found \in BOOLEAN :
          LET there == found /\ IsRunning(node[n])
              quota == Written(Held(n), "cpu_quota", call.quota, there)
              period == Written(quota, "cpu_period", call.period, there)
              s == Written(period, "cpu_shares", call.shares, there)
              pinned == Exists(n) /\ call.cores # {}
                        /\ Accepts([s.limits EXCEPT !.cpuset_cpus = call.cores])
          IN  /\ Limit(n, IF pinned THEN [s.limits EXCEPT !.cpuset_cpus = call.cores] ELSE s.limits)
              /\ Recorded(n, s.resources, s.astray \cup IF pinned THEN {"cpuset_cpus"} ELSE {})
    /\ history' = Called
    /\ UNCHANGED <<python, phase, hasImage, hosts, named, nat>>

UpdateMemoryLimit(n, call) ==
    /\ MayCall /\ n \in Range(hosts)
    /\ \E found \in BOOLEAN :
          LET there == found /\ IsRunning(node[n])
              mem == Written(Held(n), "mem_limit", call.mem, there)
              s == Written(mem, "memswap_limit", call.memswap, there)
          IN  Limit(n, s.limits) /\ Recorded(n, s.resources, s.astray)
    /\ history' = Called
    /\ UNCHANGED <<python, phase, hasImage, hosts, named, nat>>

-----------------------------------------------------------------------------
(* The end of a container *)

(* terminate(): a container that has stopped is left; an API error leaves one
   that runs.  Its node has no shell afterwards. *)
Terminated(n) ==
    IF ~IsRunning(node[n]) THEN UNCHANGED <<con, node, history>>
    ELSE /\ \/ con' = Without(con, {node[n].id}) /\ UNCHANGED history
            \/ /\ MayFail
               /\ history' = [history EXCEPT !.orphans = @ \cup {node[n].id}, !.troubles = @ + 1]
               /\ UNCHANGED con
         /\ node' = [node EXCEPT ![n].shell = 0]

(* removeDocker(): by name, the object that had it last. *)
RemoveDockerKeepsName(name) ==    \* mutant: it is still to be found by name
    /\ MayCall /\ name \in DOMAIN named
    /\ Terminated(named[name])
    /\ hosts' = RemoveFirst(hosts, named[name])
    /\ UNCHANGED <<python, phase, hasImage, named, nat>>
RemoveDocker(name) ==
    /\ MayCall /\ name \in DOMAIN named
    /\ Terminated(named[name])
    /\ hosts' = RemoveFirst(hosts, named[name])
    /\ named' = Without(named, {name})
    /\ UNCHANGED <<python, phase, hasImage, nat>>

-----------------------------------------------------------------------------
(* External access points *)

Rule(s) == SetToBag({<<s, saps[s].net>>})
UsesUnicode == python = 2      \* unicode() is unknown to Python 3: a NameError

RulesKept(s) == rules          \* mutant: removeExtSAP() leaves the rules
RulesWithout(s) == IF UsesUnicode THEN rules (-) Rule(s) ELSE rules

(* addExtSAP(): the switch is there when addSAPNAT() raises. *)
AddExtSAP(s, net, isNat) ==
    /\ MayCall
    /\ s \in DOMAIN saps => ~saps[s].up      \* a program names each switch once
    /\ saps' = [x \in DOMAIN saps \cup {s} |->
                   IF x = s THEN [net |-> net, up |-> TRUE] ELSE saps[x]]
    /\ rules' = IF isNat /\ UsesUnicode THEN rules (+) SetToBag({<<s, net>>}) ELSE rules
    /\ history' = [Called EXCEPT !.strays = @ \cup {r \in DOMAIN rules' : rules'[r] > 1}]
    /\ UNCHANGED <<python, phase, docker>>
AddSAPNAT(s) ==
    /\ MayCall /\ s \in DOMAIN saps /\ saps[s].up /\ UsesUnicode
    /\ rules' = rules (+) Rule(s)
    /\ history' = [Called EXCEPT !.strays = @ \cup {r \in DOMAIN rules' : rules'[r] > 1}]
    /\ UNCHANGED <<python, phase, docker, saps>>
(* removeExtSAP(): the entry stays. *)
RemoveExtSAP(s) ==
    /\ MayCall /\ s \in DOMAIN saps
    /\ rules' = RulesWithout(s)
    /\ saps' = [saps EXCEPT ![s].up = FALSE]
    /\ history' = Called
    /\ UNCHANGED <<python, phase, docker>>

-----------------------------------------------------------------------------
(* stop(), the end of the process, mn -c *)

StopCall ==
    /\ phase = "up" /\ phase' = "stopping"
    /\ UNCHANGED <<python, docker, nat, history>>
StopHost ==
    /\ phase = "stopping" /\ hosts # <<>>
    /\ Terminated(Head(hosts))
    /\ hosts' = Tail(hosts)
    /\ UNCHANGED <<python, phase, hasImage, named, nat>>
StopEnds ==
    /\ phase = "stopping" /\ hosts = <<>>
    /\ phase' = "stopped"
    /\ rules' = IF UsesUnicode
                THEN rules (-) SetToBag({<<s, saps[s].net>> : s \in DOMAIN saps}) ELSE rules
    /\ UNCHANGED <<python, docker, saps, history>>

(* The process is gone; the containers and the rules are not. *)
Crash ==
    /\ phase \in {"up", "stopping"} /\ MayFail
    /\ phase' = "dead"
    /\ history' = [history EXCEPT !.troubles = @ + 1, !.orphans = @ \cup DOMAIN con,
                                  !.strays = @ \cup DOMAIN rules]
    /\ UNCHANGED <<python, docker, nat>>

(* Cleanup.cleanup(): every container with the label, every rule with the prefix. *)
Cleanup ==
    /\ phase \in {"stopped", "dead"}
    /\ con' = <<>> /\ rules' = EmptyBag
    /\ history' = [history EXCEPT !.orphans = {}, !.strays = {}]
    /\ UNCHANGED <<python, phase, hasImage, node, hosts, named, saps>>

StartAgain ==
    /\ phase \in {"stopped", "dead"} /\ history.runs < MaxRuns
    /\ phase' = "up" /\ node' = <<>> /\ hosts' = <<>> /\ named' = <<>> /\ saps' = <<>>
    /\ history' = [history EXCEPT !.runs = @ + 1, !.calls = 0, !.served = {}]
    /\ UNCHANGED <<python, hasImage, con, rules>>

Next ==
    \/ \E name \in Names, rm \in BOOLEAN, want \in Limits : New(name, rm, want)
    \/ \E n \in DOMAIN node :
          \/ Cmd(n) \/ Popen(n) \/ ShellDies(n)
          \/ \E want \in Limits : UpdateResources(n, want)
          \/ \E call \in CpuCalls : UpdateCpuLimit(n, call)
          \/ \E call \in MemoryCalls : UpdateMemoryLimit(n, call)
    \/ \E id \in DOMAIN con : ContainerExits(id)
    \/ \E name \in Names : RemoveDocker(name)
    \/ \E s \in Saps, net \in Nets, isNat \in BOOLEAN : AddExtSAP(s, net, isNat)
    \/ \E s \in Saps : AddSAPNAT(s) \/ RemoveExtSAP(s)
    \/ StopCall \/ StopHost \/ StopEnds \/ Crash \/ Cleanup \/ StartAgain
Spec == Init /\ [][Next]_vars

-----------------------------------------------------------------------------
(* Properties *)

(* What the daemon holds and what the objects hold: names of containers are
   unique, every object had a container of its own, limits in force are such as the
   daemon takes, a host that is found by its name is one of the network. *)
TypeOK ==
    /\ python \in {2, 3} /\ phase \in {"up", "stopping", "stopped", "dead"}
    /\ \A a, b \in DOMAIN con : con[a].name = con[b].name => a = b
    /\ \A a, b \in DOMAIN node : node[a].id = node[b].id => a = b
    /\ \A id \in DOMAIN con :
          id \in 1..history.lastId /\ Accepts(con[id].limits)
          /\ con[id].status \in {"created", "running", "exited"}
    /\ Range(hosts) \subseteq DOMAIN node
    /\ phase = "up" => Range(named) \subseteq Range(hosts)
    /\ DOMAIN saps \subseteq Saps /\ IsABag(rules)

(* A limit that the object of a running container records ("to have them available
   through the Mininet API later on") is the one in force, after any calls of
   __init__(), update_resources(), updateCpuLimit() and updateMemoryLimit(): but
   for a call that the daemon refused, and for the cores of updateCpuLimit(). *)
RecordTellsTheLimits ==
    \A n \in DOMAIN node :
        LET nd == node[n] IN
        Running(nd.id) =>
            \A f \in Given(nd.resources) \ nd.astray : nd.resources[f] = con[nd.id].limits[f]

(* A command runs in the container that was made for its node, although that is
   checked by id and docker exec is told a name which a later node may have taken
   (_is_container_running(), startShell(), popen()). *)
CommandsReachTheirOwn == \A s \in history.served : s[1] = s[2]

(* A container that runs belongs to a host of the network, unless its constructor
   raised, its removal failed or the process died before; and so does a rule to an
   access point.  Nothing of either is left when stop() has ended. *)
NothingLeftBehind ==
    LET own == {node[n].id : n \in Range(hosts)}
        ends == IF phase = "stopped" THEN {} ELSE {<<s, saps[s].net>> : s \in DOMAIN saps}
    IN  /\ \A id \in DOMAIN con : Running(id) => id \in own \cup history.orphans
        /\ BagToSet(rules) \subseteq ends \cup history.strays
=============================================================================
