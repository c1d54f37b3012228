-------------------------- MODULE MCFaultInjection --------------------------
(* Instances of FaultInjection for TLC: two injectors, on one interface or on
   two, with tags of their own or a common one. *)
EXTENDS FaultInjection

CONSTANTS i1, i2, e1, e2

AllPorts == [form |-> "list", ports |-> <<>>]
Ports(form, s) == [form |-> form, ports |-> s]

Base == [kind |-> "link", type |-> "loss", pattern |-> "persistent", time |-> 2000,
         patternArgs |-> <<>>, hasPatternArgs |-> FALSE,
         args |-> <<"5">>, hasArgs |-> TRUE, protocol |-> "any",
         dst |-> AllPorts, src |-> AllPorts, cgroup |-> "limited"]

Patterned(c, pattern, args) ==
    [c EXCEPT !.pattern = pattern, !.patternArgs = args, !.hasPatternArgs = TRUE]
Typed(c, type) == [c EXCEPT !.type = type]
Tcp(c, dst, src) ==
    [c EXCEPT !.protocol = "TCP", !.dst = Ports("list", dst), !.src = Ports("list", src)]
Node(c, type, args) == [c EXCEPT !.kind = "node", !.type = type, !.args = args]

LinkFaults ==
    {Typed(Base, t) : t \in {"delay", "loss", "bottleneck", "redirect", "down", "reorder"}}
    \cup {Patterned(Base, "burst", <<500, 1000>>),
          Patterned(Base, "burst", <<1500, 1000>>),
          Patterned(Typed(Base, "redirect"), "burst", <<300, 900>>),
          Patterned(Base, "degradation", <<60>>),
          Patterned(Typed(Base, "delay"), "degradation", <<30, 700, 10, 50>>),
          Patterned(Base, "degradation", <<10, 3000, 200>>),
          Patterned(Base, "random", <<40>>),
          Patterned(Base, "random", <<400>>),
          Patterned(Base, "burst", <<500>>),
          Patterned(Base, "unknown", <<>>),
          [Base EXCEPT !.pattern = "degradation"],
          [Typed(Base, "delay") EXCEPT !.args = <<>>]}
    \cup {Tcp(Typed(Base, t), p[1], p[2]) :
              t \in {"loss", "redirect", "bottleneck", "down"},
              p \in {<<<<>>, <<>>>>, <<<<80>>, <<>>>>, <<<<>>, <<80>>>>}}
    \cup {[Tcp(Base, <<>>, <<>>) EXCEPT !.src = Ports("int", <<port>>)] : port \in {0, 80}}
    \cup {[Base EXCEPT !.protocol = "SCTP", !.dst = Ports("int", <<0>>)]}
    \cup {Tcp(Patterned(Typed(Base, "redirect"), "random", <<40>>), <<80>>, <<>>)}
    \cup {Tcp(Patterned(Typed(Base, t), "unknown", <<>>), <<80>>, <<>>) : t \in {"loss", "redirect"}}

NodeFaults ==
    {Node(Base, "custom", <<"start", "stop">>),
     Patterned(Node(Base, "custom", <<"start">>), "burst", <<>>),
     Patterned(Node(Base, "custom", <<>>), "burst", <<200, 1000>>),
     Patterned(Node(Base, "stress_cpu", <<"50">>), "burst", <<200, 1500>>),
     Patterned(Node(Base, "stress_cpu", <<"50">>), "degradation", <<70, 700, 50, 150>>),
     [Node(Base, "stress_cpu", <<"50">>) EXCEPT !.cgroup = "unlimited"],
     Node(Base, "custom", <<>>),
     [Base EXCEPT !.kind = "multi"],
     Patterned([Base EXCEPT !.kind = "multi"], "degradation", <<5>>)}

Placed(c, dev, tag) ==
    [p \in DOMAIN c \cup {"dev", "tag"} |->
        CASE p = "dev" -> dev [] p = "tag" -> tag [] OTHER -> c[p]]

Pair(c1, dev1, tag1, c2, dev2, tag2) ==
    [i \in {i1, i2} |-> IF i = i1 THEN Placed(c1, dev1, tag1) ELSE Placed(c2, dev2, tag2)]

(* What the second injector may be, beside any of the others. *)
Partners ==
    {Base, Typed(Base, "redirect"), Typed(Base, "down"),
     Patterned(Base, "burst", <<500, 1000>>), Tcp(Base, <<>>, <<>>),
     [Base EXCEPT !.pattern = "degradation"]}

MCProfiles ==
    {Pair(c, e1, "a", d, p[1], p[2]) :
        c \in LinkFaults \cup NodeFaults, d \in Partners,
        p \in {<<e1, "b">>, <<e2, "b">>, <<e2, "a">>}}

MCNetworks == {[e \in {e1, e2} |-> IF e = e1 THEN q ELSE "none"] : q \in {"none", "htb", "tbf", "netem"}}
=============================================================================
