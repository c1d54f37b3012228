----------------------------- MODULE TopoBuild ------------------------------
(* Topologies (topo.py): what a Topo records of the nodes and links it is given,
   and the port numbers it hands out.

   A name is a sequence of numbers: the letter, then the digits; the natural
   order of the code is then the lexicographic one.                          *)
EXTENDS Integers, Sequences, FiniteSets, SequencesExt, FiniteSetsExt, Functions, TLC

D == 1      \* the letters, in their order: containers, hosts, switches
H == 2
S == 3
None == -1  \* an argument left out

EmptyTopo == [nodes |-> <<>>, links |-> <<>>, ports |-> <<>>, explicit |-> FALSE]

AddNode(t, name, kind) ==
    [t EXCEPT !.nodes = Append(SelectSeq(@, LAMBDA n : n.name # name),
                               [name |-> name, kind |-> kind])]

IsSwitch(t, name) == \E n \in ToSet(t.nodes) : n.name = name /\ n.kind = "switch"

PortsOf(t, name) == IF name \in DOMAIN t.ports THEN t.ports[name] ELSE <<>>

(* New port: number of outlinks + base. *)
NextPort(t, name) ==
    Cardinality(DOMAIN PortsOf(t, name)) + (IF IsSwitch(t, name) THEN 1 ELSE 0)

WithPort(ports, name, port, peer) ==
    (name :> ((port :> peer) @@ (IF name \in DOMAIN ports THEN ports[name] ELSE <<>>))) @@ ports

(* addLink() with addPort(): both numbers are taken before either is entered;
   a number given by the caller is entered as it is. *)
AddLink(t, a, b, port1, port2) ==
    LET p1 == IF port1 = None THEN NextPort(t, a) ELSE port1
        p2 == IF port2 = None THEN NextPort(t, b) ELSE port2
    IN  [t EXCEPT
            !.links = Append(@, [a |-> a, b |-> b, p1 |-> p1, p2 |-> p2]),
            !.ports = WithPort(WithPort(@, a, p1, <<b, p2>>), b, p2, <<a, p1>>),
            !.explicit = @ \/ port1 # None \/ port2 # None]

LinkUp(t, a, b) == AddLink(t, a, b, None, None)

-----------------------------------------------------------------------------
(* hosts(), switches() and links() in natural order.  Links are compared by
   their ends alone; parallel ones keep their order. *)

Precedes(s, t) ==
    \E n \in 0..Len(s) :
        /\ n < Len(t) /\ SubSeq(s, 1, n) = SubSeq(t, 1, n)
        /\ n = Len(s) \/ s[n + 1] < t[n + 1]

NodesOf(t, kinds) ==
    SortSeq(SelectSeq(t.nodes, LAMBDA n : n.kind \in kinds),
            LAMBDA m, n : Precedes(m.name, n.name))

HostsOf(t) == NodesOf(t, {"host", "docker"})
SwitchesOf(t) == NodesOf(t, {"switch"})

LinksOf(t) ==
    LET Before(m, n) ==
            LET k == t.links[m] l == t.links[n]
            IN  \/ Precedes(k.a, l.a)
                \/ k.a = l.a /\ Precedes(k.b, l.b)
                \/ k.a = l.a /\ k.b = l.b /\ m < n
        order == SortSeq([n \in DOMAIN t.links |-> n], Before)
    IN  [n \in DOMAIN order |-> t.links[order[n]]]
=============================================================================
