--------------------------- MODULE MCNetLifecycle ---------------------------
(* Instances of NetLifecycle for TLC: stock topologies, one with ports given by
   the caller, one with a container, one whose ports collide,
   one with more hosts than addresses. *)
EXTENDS NetLifecycle, StockTopologies

h1 == <<H, 1>>
h2 == <<H, 2>>
d1 == <<D, 1>>
s1 == <<S, 1>>
s2 == <<S, 2>>

Host(t, name) == AddNode(t, name, "host")

(* A container, a host and a switch, the host on two parallel links. *)
Mixed ==
    LET nodes == Switch(Host(AddNode(EmptyTopo, d1, "docker"), h1), s1)
    IN  LinkUp(LinkUp(LinkUp(nodes, d1, s1), h1, s1), h1, s1)

(* The second number that addPort() counts is one that the caller has used. *)
Colliding == LinkUp(AddLink(Switch(Host(Host(EmptyTopo, h1), h2), s1), s1, h1, 2, None), s1, h2)

Lone == Switch(Host(Host(EmptyTopo, h1), h2), s1)

MCTopologies ==
    {Mixed, Colliding, Lone, SingleSwitchTopo(10), SingleSwitchReversedTopo(2), LinearTopo(2, 1), LinearTopo(2, 2),
     TreeTopo(2, 2), ContainerTreeTopo(1, 2), TorusTopo(3, 3, 1)}
MCPortPairs == {<<None, None>>, <<1, None>>}
MCNames == {[name |-> d1, kind |-> "docker"], [name |-> s2, kind |-> "switch"]}
=============================================================================
