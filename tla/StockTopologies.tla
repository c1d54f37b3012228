-------------------------- MODULE StockTopologies ---------------------------
(* The topologies that come with the program (topo.py, topolib.py), each by the
   calls of addNode() and addLink() that build it.                          *)
EXTENDS TopoBuild

Switch(t, name) == AddNode(t, name, "switch")
Leaf(t, name, kind, switch) == LinkUp(AddNode(t, name, kind), name, switch)

SingleSwitchTopo(k) ==
    FoldLeft(LAMBDA t, h : Leaf(t, <<H, h>>, "host", <<S, 1>>),
             Switch(EmptyTopo, <<S, 1>>), [h \in 1..k |-> h])

SingleSwitchReversedTopo(k) ==
    FoldLeft(LAMBDA t, h : AddLink(AddNode(t, <<H, h>>, "host"), <<H, h>>, <<S, 1>>,
                                   0, k - h + 1),
             Switch(EmptyTopo, <<S, 1>>), [h \in 1..k |-> h])

LinearTopo(k, n) ==
    LET HostName(i, j) == IF n = 1 THEN <<H, i>> ELSE <<H, j, S, i>>
        WithSwitch(t, i) ==
            LET hosts == FoldLeft(LAMBDA u, j : Leaf(u, HostName(i, j), "host", <<S, i>>),
                                  Switch(t, <<S, i>>), [j \in 1..n |-> j])
            IN  IF i = 1 THEN hosts ELSE LinkUp(hosts, <<S, i>>, <<S, i - 1>>)
    IN  FoldLeft(WithSwitch, EmptyTopo, [i \in 1..k |-> i])

(* addTree(): the numbers of hosts and switches run on through the subtrees. *)
RECURSIVE AddTree(_, _, _, _)
AddTree(s, depth, fanout, kind) ==
    IF depth = 0
    THEN LET name == <<IF kind = "docker" THEN D ELSE H, s.hosts + 1>>
         IN  [s EXCEPT !.topo = AddNode(@, name, kind), !.hosts = @ + 1, !.last = name]
    ELSE LET name == <<S, s.switches + 1>>
             own == [s EXCEPT !.topo = Switch(@, name), !.switches = @ + 1]
             Child(u, c) ==
                LET v == AddTree(u, depth - 1, fanout, kind)
                IN  [v EXCEPT !.topo = LinkUp(@, name, v.last)]
         IN  [FoldLeft(Child, own, [c \in 1..fanout |-> c]) EXCEPT !.last = name]

TreeOf(depth, fanout, kind) ==
    AddTree([topo |-> EmptyTopo, hosts |-> 0, switches |-> 0, last |-> <<>>],
            depth, fanout, kind).topo
TreeTopo(depth, fanout) == TreeOf(depth, fanout, "host")
ContainerTreeTopo(depth, fanout) == TreeOf(depth, fanout, "docker")

TorusTopo(x, y, n) ==
    LET Places == [k \in 1..(x * y) |-> <<(k - 1) \div y, (k - 1) % y>>]
        At(i, j) == <<S, i + 1, j + 1>>
        HostName(i, j, k) == IF n = 1 THEN <<H, i + 1, j + 1>> ELSE <<H, i + 1, j + 1, k>>
        Wired(t, l) == FoldLeft(LAMBDA u, k : Leaf(u, HostName(l[1], l[2], k), "host", At(l[1], l[2])),
                                Switch(t, At(l[1], l[2])), [k \in 1..n |-> k])
        Joined(t, l) == LinkUp(LinkUp(t, At(l[1], l[2]), At(l[1], (l[2] + 1) % y)),
                               At(l[1], l[2]), At((l[1] + 1) % x, l[2]))
    IN  FoldLeft(Joined, FoldLeft(Wired, EmptyTopo, Places), Places)
=============================================================================
