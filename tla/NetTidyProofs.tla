--------------------------- MODULE NetTidyProofs ----------------------------
EXTENDS NetLifecycleProofs

(***************************************************************************)
(* What belongs to the network, and what is left when it stops: as long as *)
(* the calls return, every process, veth end and bridge in the system is   *)
(* of a node, link or switch that the lists still name, none of those is   *)
(* missing (NetOrderly), and stop() leaves nothing (NetStops).  While that *)
(* is so, lists, port maps, veth pairs and the bridges of started switches *)
(* are views of one network (NetBridged, NetWired), what the fault         *)
(* controller was told at the start is of the links it names (NetAimed,    *)
(* NetAims), and a network that was built is the one that its topology     *)
(* draws (NetDrawn, NetBuilt).                                             *)
(***************************************************************************)

(***************************************************************************)
(* What there is in the system belongs to the network: N its nodes, L its  *)
(* links.                                                                  *)
(***************************************************************************)
Pair(w, l) == {End(w, <<l, 1>>), End(w, <<l, 2>>)}
HeldAt(w, l, s) ==
    LET n == w.link[l].n[s]
        p == w.link[l].p[s]
    IN  Runs(w, n) /\ p \in DOMAIN w.node[n].intfs /\ w.node[n].intfs[p] = <<l, s>>
Held(w, l) == HeldAt(w, l, 1) /\ HeldAt(w, l, 2)
Live(w, L) == \A v \in w.veth : \E l \in L : v = Pair(w, l) /\ Held(w, l)
Owned(w, N) == \A x \in w.proc : \E n \in N : w.node[n].name = x /\ w.node[n].shell
Bridged(w, N) == \A b \in DOMAIN w.bridge : \E n \in N : w.node[n].name = b /\ w.node[n].shell
Over(w, N) == \A n \in DOMAIN w.node \ N : w.node[n].kind = "docker" \/ ~w.node[n].shell

(* The nodes of the network have names of their own, and they alone have interfaces. *)
Distinct(w, N) ==
    N \subseteq DOMAIN w.node /\ \A m, n \in N : w.node[m].name = w.node[n].name => m = n
BareBut(w, N) == \A n \in DOMAIN w.node \ N : Range(w.node[n].intfs) \subseteq {Lo}

(* The nodes and links of one world are in another.  *)
Within(w, r) ==
    /\ \A n \in DOMAIN w.node :
          n \in DOMAIN r.node /\ r.node[n].name = w.node[n].name /\ r.node[n].kind = w.node[n].kind
    /\ \A l \in DOMAIN w.link :
          l \in DOMAIN r.link /\ r.link[l].n = w.link[l].n /\ r.link[l].p = w.link[l].p

\* The same is within.
LEMMA SameWithin ==
    ASSUME NEW w, NEW r, Same(w, r)
    PROVE  Within(w, r)
  BY DEF Same, Within

\* The ends of a link have the same names.
LEMMA WithinNames ==
    ASSUME NEW w, Shape(w), NEW r, Within(w, r), NEW l \in DOMAIN w.link
    PROVE  /\ Pair(r, l) = Pair(w, l)
           /\ \A s \in {1, 2} : /\ IntfName(r, <<l, s>>) = IntfName(w, <<l, s>>)
                                /\ End(r, <<l, s>>) = End(w, <<l, s>>)
  <1>1. ASSUME NEW s \in {1, 2}
        PROVE  /\ IntfName(r, <<l, s>>) = IntfName(w, <<l, s>>)
               /\ End(r, <<l, s>>) = End(w, <<l, s>>)
    <2>1. PICK n : n = w.link[l].n[s]
      OBVIOUS
    <2>2. n \in DOMAIN w.node
      BY <2>1 DEF Shape, LinkShape
    <2>3. /\ r.link[l].n[s] = n /\ r.link[l].p[s] = w.link[l].p[s]
          /\ r.node[n].name = w.node[n].name /\ r.node[n].kind = w.node[n].kind
      BY <2>1, <2>2 DEF Within
    <2>4. <<l, s>>[1] = l /\ <<l, s>>[2] = s
      OBVIOUS
    <2> QED
      BY <2>1, <2>3, <2>4 DEF IntfName, End, Namespace
  <1> QED
    BY <1>1 DEF Pair

KeepsIntf(nd, md, p) ==
    p \in DOMAIN nd.intfs => p \in DOMAIN md.intfs /\ md.intfs[p] = nd.intfs[p]
\* An end that is held as long as its node runs.
LEMMA HeldStays ==
    ASSUME NEW w, Shape(w), NEW r, Within(w, r), NEW l \in DOMAIN w.link, NEW s \in {1, 2},
           HeldAt(w, l, s), NEW n, n = w.link[l].n[s], NEW p, p = w.link[l].p[s],
           r.node[n].shell = w.node[n].shell,
           KeepsIntf(w.node[n], r.node[n], p),
           w.node[n].kind = "docker" /\ w.node[n].name \in w.proc => w.node[n].name \in r.proc
    PROVE  HeldAt(r, l, s)
  <1>1. n \in DOMAIN w.node
    BY DEF Shape, LinkShape
  <1>2. /\ r.link[l].n[s] = n /\ r.link[l].p[s] = p
        /\ r.node[n].name = w.node[n].name /\ r.node[n].kind = w.node[n].kind
    BY <1>1 DEF Within
  <1> QED
    BY <1>2 DEF HeldAt, Runs, KeepsIntf

(* The links that are still there, of a pair that is still there.  *)
Survives(w, r, v, l) == v = Pair(w, l) /\ Held(w, l) => Held(r, l)
\* Pairs of links that survive.
LEMMA LiveKept ==
    ASSUME NEW w, Shape(w), NEW r, Within(w, r), NEW L, L \subseteq DOMAIN w.link, Live(w, L),
           NEW K, NEW v, v \in w.veth,
           \A l \in L : Survives(w, r, v, l) /\ (v = Pair(w, l) /\ Held(w, l) => l \in K)
    PROVE  \E l \in K : v = Pair(r, l) /\ Held(r, l)
  <1>1. PICK l \in L : v = Pair(w, l) /\ Held(w, l)
    BY DEF Live
  <1>2. l \in K /\ Held(r, l)
    BY <1>1 DEF Survives
  <1>3. Pair(r, l) = Pair(w, l)
    BY <1>1, WithinNames
  <1> QED
    BY <1>1, <1>2, <1>3

\* The shells and maps of all nodes stay, and no process ends.
LEMMA LiveOn ==
    ASSUME NEW w, Shape(w), NEW r, Within(w, r), NEW L, L \subseteq DOMAIN w.link, Live(w, L),
           r.veth = w.veth, w.proc \subseteq r.proc,
           \A n \in DOMAIN w.node : /\ r.node[n].shell = w.node[n].shell
                                    /\ r.node[n].intfs = w.node[n].intfs
    PROVE  Live(r, L)
  <1>1. ASSUME NEW v \in w.veth, NEW l \in L PROVE Survives(w, r, v, l)
    <2>1. ASSUME NEW s \in {1, 2}, HeldAt(w, l, s) PROVE HeldAt(r, l, s)
      <3>1. PICK n, p : n = w.link[l].n[s] /\ p = w.link[l].p[s]
        OBVIOUS
      <3>2. n \in DOMAIN w.node
        BY <3>1 DEF Shape, LinkShape
      <3> QED
        BY <2>1, <3>1, <3>2, HeldStays DEF KeepsIntf
    <2> QED
      BY <2>1 DEF Survives, Held
  <1>2. ASSUME NEW v \in r.veth PROVE \E l \in L : v = Pair(r, l) /\ Held(r, l)
    BY <1>1, LiveKept
  <1> QED
    BY <1>2 DEF Live

(* N the nodes, P those whose shells may still run, L the links, B the switches whose
   bridges may still be there.  *)
Ours(w, N, P, L, B) == Over(w, N) /\ Owned(w, P) /\ Live(w, L) /\ Bridged(w, B)

\* There is nothing, and it belongs to anybody.
LEMMA OursMore ==
    ASSUME NEW w, NEW N, NEW P, NEW L, NEW B, Ours(w, N, P, L, B),
           NEW P2, P \subseteq P2, NEW L2, L \subseteq L2, NEW B2, B \subseteq B2
    PROVE  Ours(w, N, P2, L2, B2)
  <1>1. Owned(w, P2)
    BY DEF Ours, Owned
  <1>2. Live(w, L2)
    BY DEF Ours, Live
  <1>3. Bridged(w, B2)
    BY DEF Ours, Bridged
  <1> QED
    BY <1>1, <1>2, <1>3 DEF Ours

\* A new node.
LEMMA OursNode ==
    ASSUME NEW w, Shape(w), NEW r, NEW N, NEW L, L \subseteq DOMAIN w.link, NEW B,
           N \subseteq DOMAIN w.node, B \subseteq N,
           Ours(w, N, N, L, B), NEW name, NEW kind, NEW ip, NEW k,
           NodeMade(w, name, kind, ip, k, r), r.veth = w.veth, r.bridge = w.bridge,
           r.proc = w.proc \cup {name},
           NEW N2, N2 = N \cup {k + 1}, NEW B2, B \subseteq B2
    PROVE  Ours(r, N2, N2, L, B2)
  <1>1. PICK m : m = k + 1
    OBVIOUS
  <1>2. /\ DOMAIN r.node = DOMAIN w.node \cup {m} /\ m \notin DOMAIN w.node
        /\ \A n \in DOMAIN w.node : r.node[n] = w.node[n]
        /\ r.node[m].name = name /\ r.node[m].shell = TRUE /\ r.link = w.link
    BY <1>1 DEF NodeMade
  <1>3. Within(w, r)
    BY <1>2 DEF Within
  <1>4. Live(r, L)
    BY <1>2, <1>3, LiveOn DEF Ours
  <1>5. Over(r, N2)
    BY <1>1, <1>2 DEF Ours, Over
  <1>6. Owned(r, N2)
    <2> SUFFICES ASSUME NEW x \in r.proc
                 PROVE  \E n \in N2 : r.node[n].name = x /\ r.node[n].shell
      BY DEF Owned
    <2>1. CASE x = name
      BY <1>1, <1>2, <2>1
    <2>2. CASE x \in w.proc
      <3>1. PICK n \in N : w.node[n].name = x /\ w.node[n].shell
        BY <2>2 DEF Ours, Owned
      <3> QED
        BY <1>2, <3>1
    <2> QED
      BY <2>1, <2>2
  <1>7. Bridged(r, B2)
    <2> SUFFICES ASSUME NEW b \in DOMAIN r.bridge
                 PROVE  \E n \in B2 : r.node[n].name = b /\ r.node[n].shell
      BY DEF Bridged
    <2>1. PICK n \in B : w.node[n].name = b /\ w.node[n].shell
      BY DEF Ours, Bridged
    <2> QED
      BY <1>2, <2>1
  <1> QED
    BY <1>4, <1>5, <1>6, <1>7 DEF Ours

\* The same nodes with the same shells and interfaces, pairs and bridges; some more of
\* them may run, and have bridges.
Awake(w, N, x) == \E n \in N : w.node[n].name = x /\ w.node[n].shell

\* What a step adds is of nodes that are awake, and the ends of the links
\* stay: all is still ours.
LEMMA OursSame ==
    ASSUME NEW w, Shape(w), NEW r, Within(w, r), DOMAIN r.node = DOMAIN w.node, NEW N, NEW P, NEW L,
           L \subseteq DOMAIN w.link, NEW B,
           P \subseteq DOMAIN w.node, B \subseteq DOMAIN w.node,
           Ours(w, N, P, L, B), r.veth = w.veth, w.proc \subseteq r.proc,
           \A n \in DOMAIN w.node : /\ r.node[n].shell = w.node[n].shell
                                    /\ r.node[n].intfs = w.node[n].intfs,
           \A x \in r.proc : x \in w.proc \/ Awake(w, P, x),
           \A b \in DOMAIN r.bridge : b \in DOMAIN w.bridge \/ Awake(w, B, b)
    PROVE  Ours(r, N, P, L, B)
  <1>1. Live(r, L)
    BY LiveOn DEF Ours
  <1>2. Over(r, N)
    BY DEF Ours, Over, Within
  <1>3. Owned(r, P)
    <2> SUFFICES ASSUME NEW x \in r.proc
                 PROVE  \E n \in P : r.node[n].name = x /\ r.node[n].shell
      BY DEF Owned
    <2>1. PICK n \in P : w.node[n].name = x /\ w.node[n].shell
      BY DEF Ours, Owned, Awake
    <2> QED
      BY <2>1 DEF Within
  <1>4. Bridged(r, B)
    <2> SUFFICES ASSUME NEW b \in DOMAIN r.bridge
                 PROVE  \E n \in B : r.node[n].name = b /\ r.node[n].shell
      BY DEF Bridged
    <2>1. PICK n \in B : w.node[n].name = b /\ w.node[n].shell
      BY DEF Ours, Bridged, Awake
    <2> QED
      BY <2>1 DEF Within
  <1> QED
    BY <1>1, <1>2, <1>3, <1>4 DEF Ours

\* A switch of the network that is started.
LEMMA OursBridge ==
    ASSUME NEW w, Shape(w), NEW r, Same(w, r), NEW N, NEW L, L \subseteq DOMAIN w.link, NEW B,
           N \subseteq DOMAIN w.node, B \subseteq N, Ours(w, N, N, L, B), NEW n \in B,
           BridgeMade(w, n, r)
    PROVE  Ours(r, N, N, L, B)
  <1>1. Within(w, r) /\ DOMAIN r.node = DOMAIN w.node
    BY SameWithin DEF Same
  <1>2. Runs(w, n) => Awake(w, B, w.node[n].name) /\ Awake(w, N, w.node[n].name)
    BY DEF Runs, Awake
  <1>3. /\ r.veth = w.veth /\ w.proc \subseteq r.proc /\ r.node = w.node
        /\ \A x \in r.proc : x \in w.proc \/ Awake(w, N, x)
        /\ \A b \in DOMAIN r.bridge : b \in DOMAIN w.bridge \/ Awake(w, B, b)
    BY <1>2 DEF BridgeMade
  <1> QED
    BY <1>1, <1>3, OursSame

\* A process or container that dies.
LEMMA OursDeath ==
    ASSUME NEW w, Shape(w), NEW r, Same(w, r), NEW N, NEW P, NEW L, L \subseteq DOMAIN w.link, NEW B,
           Ours(w, N, P, L, B), NEW name, r.node = w.node, r.link = w.link,
           r.proc = w.proc \ {name}, r.veth = WithoutNamespaces(w.veth, {name}),
           r.bridge = w.bridge
    PROVE  Ours(r, N, P, L, B)
  <1>1. Within(w, r)
    BY SameWithin
  <1>2. Over(r, N) /\ Owned(r, P) /\ Bridged(r, B)
    BY DEF Ours, Over, Owned, Bridged
  <1>3. ASSUME NEW v \in r.veth PROVE \E l \in L : v = Pair(r, l) /\ Held(r, l)
    <2>1. v \in w.veth /\ \A e \in v : e[1] # name
      BY DEF WithoutNamespaces
    <2>2. ASSUME NEW l \in L, v = Pair(w, l), NEW s \in {1, 2}, HeldAt(w, l, s)
          PROVE  HeldAt(r, l, s)
      <3>1. PICK n, p : n = w.link[l].n[s] /\ p = w.link[l].p[s]
        OBVIOUS
      <3>2. End(w, <<l, s>>) \in v
        BY <2>2 DEF Pair
      <3>3. End(w, <<l, s>>)[1] = Namespace(w.node[n])
        <4>1. <<l, s>>[1] = l /\ <<l, s>>[2] = s
          OBVIOUS
        <4> QED
          BY <3>1, <4>1 DEF End
      <3>4. w.node[n].kind = "docker" => w.node[n].name # name
        BY <2>1, <3>2, <3>3 DEF Namespace
      <3> QED
        BY <1>1, <2>2, <3>1, <3>4, HeldStays DEF KeepsIntf
    <2>3. \A l \in L : Survives(w, r, v, l) /\ (v = Pair(w, l) /\ Held(w, l) => l \in L)
      BY <2>2 DEF Survives, Held
    <2> QED
      BY <1>1, <2>1, <2>3, LiveKept DEF Ours
  <1> QED
    BY <1>2, <1>3 DEF Ours, Live

\* A link between two nodes of the network.
LEMMA OursJoined ==
    ASSUME NEW w, Shape(w), NEW r, Shape(r), NEW N, NEW L, L \subseteq DOMAIN w.link, NEW B,
           Distinct(w, N), B \subseteq N, Ours(w, N, N, L, B), NEW a \in N, NEW b \in N,
           w.node[a].name # w.node[b].name,
           NEW p1, NEW p2, NEW l, Joins(w, a, b, p1, p2, l, r)
    PROVE  Within(w, r) /\ Ours(r, N, N, L \cup {l}, B) /\ Distinct(r, N)
  <1>1. /\ \A k \in DOMAIN w.link : r.link[k] = w.link[k]
        /\ l \notin DOMAIN w.link /\ l \in DOMAIN r.link /\ DOMAIN w.link \subseteq DOMAIN r.link
        /\ r.link[l].n[1] = a /\ r.link[l].n[2] = b /\ r.link[l].p[1] = p1 /\ r.link[l].p[2] = p2
        /\ DOMAIN r.node = DOMAIN w.node
        /\ \A m \in DOMAIN w.node : m \notin {a, b} => r.node[m] = w.node[m]
        /\ \A m \in DOMAIN w.node : r.node[m].name = w.node[m].name /\ r.node[m].kind = w.node[m].kind
        /\ Gains(w.node[a], <<l, 1>>, p1, r.node[a]) /\ Gains(w.node[b], <<l, 2>>, p2, r.node[b])
        /\ w.node[a].name \in w.proc /\ w.node[b].name \in w.proc
        /\ NewPair(w, l, r) /\ NewWakes(w, a, b, r)
        /\ DOMAIN r.bridge = DOMAIN w.bridge
    BY DEF Joins, NewPorts
  <1>2. Within(w, r)
    BY <1>1 DEF Within
  <1>3. N \subseteq DOMAIN w.node /\ a # b
    BY DEF Distinct
  <1>4. \A m \in DOMAIN w.node : r.node[m].shell = w.node[m].shell
    BY <1>1, <1>3 DEF Gains
  <1>5. w.proc \subseteq r.proc
    BY <1>1 DEF NewWakes
  <1>6. Over(r, N)
    BY <1>1, <1>4 DEF Ours, Over
  <1>7. Owned(r, N)
    <2> SUFFICES ASSUME NEW x \in r.proc
                 PROVE  \E n \in N : r.node[n].name = x /\ r.node[n].shell
      BY DEF Owned
    <2>1. CASE x \in w.proc
      <3>1. PICK n \in N : w.node[n].name = x /\ w.node[n].shell
        BY <2>1 DEF Ours, Owned
      <3> QED
        BY <1>1, <1>3, <1>4, <3>1
    <2>2. CASE x \notin w.proc
      <3>1. PICK n \in {a, b} : x = w.node[n].name /\ IsSwitchIn(w, n)
        BY <1>1, <2>2 DEF NewWakes
      <3>2. w.node[n].shell
        BY <3>1 DEF IsSwitchIn, Runs
      <3> QED
        BY <1>1, <1>3, <1>4, <3>1, <3>2
    <2> QED
      BY <2>1, <2>2
  <1>8. Bridged(r, B)
    <2> SUFFICES ASSUME NEW c \in DOMAIN r.bridge
                 PROVE  \E n \in B : r.node[n].name = c /\ r.node[n].shell
      BY DEF Bridged
    <2>1. PICK n \in B : w.node[n].name = c /\ w.node[n].shell
      BY <1>1 DEF Ours, Bridged
    <2> QED
      BY <1>1, <1>3, <1>4, <2>1
  <1>9. /\ r.veth = w.veth \cup {Pair(r, l)}
        /\ \A v \in w.veth : End(r, <<l, 1>>) \notin v /\ End(r, <<l, 2>>) \notin v
    BY <1>1 DEF NewPair, Pair
  <1>10. Held(r, l)
    <2>1. ASSUME NEW n \in {a, b} PROVE Runs(r, n)
      <3>1. PICK m \in N : w.node[m].name = w.node[n].name /\ w.node[m].shell
        BY <1>1, <2>1 DEF Ours, Owned
      <3>2. m = n
        BY <2>1, <3>1 DEF Distinct
      <3>3. r.node[n].shell /\ r.node[n].name \in r.proc
        BY <1>1, <1>3, <1>4, <1>5, <2>1, <3>1, <3>2
      <3> QED
        BY <3>3 DEF Runs
    <2>2. /\ p1 \in DOMAIN r.node[a].intfs /\ r.node[a].intfs[p1] = <<l, 1>>
          /\ p2 \in DOMAIN r.node[b].intfs /\ r.node[b].intfs[p2] = <<l, 2>>
      BY <1>1 DEF Gains
    <2>3. HeldAt(r, l, 1)
      BY <1>1, <2>1, <2>2 DEF HeldAt
    <2>4. HeldAt(r, l, 2)
      BY <1>1, <2>1, <2>2 DEF HeldAt
    <2> QED
      BY <2>3, <2>4 DEF Held
  <1>11. ASSUME NEW v \in w.veth, NEW k \in L, v = Pair(w, k), NEW s \in {1, 2}, HeldAt(w, k, s)
         PROVE  HeldAt(r, k, s)
    <2>1. PICK n, p : n = w.link[k].n[s] /\ p = w.link[k].p[s]
      OBVIOUS
    <2>2. k \in DOMAIN w.link /\ n \in DOMAIN w.node
      BY <2>1 DEF Shape, LinkShape
    <2>3. End(w, <<k, s>>) \in v /\ End(w, <<k, s>>) = End(r, <<k, s>>)
      BY <1>2, <1>11, <2>2, WithinNames DEF Pair
    <2>4. r.link[k].n[s] = n /\ r.link[k].p[s] = p
      BY <1>1, <2>1, <2>2
    <2>5. ~(n = a /\ p = p1)
      <3>1. n = a /\ p = p1 => End(r, <<k, s>>) = End(r, <<l, 1>>)
        <4>1. <<k, s>>[1] = k /\ <<k, s>>[2] = s /\ <<l, 1>>[1] = l /\ <<l, 1>>[2] = 1
          OBVIOUS
        <4> QED
          BY <1>1, <2>4, <4>1 DEF End, IntfName
      <3> QED
        BY <1>9, <2>3, <3>1
    <2>6. ~(n = b /\ p = p2)
      <3>1. n = b /\ p = p2 => End(r, <<k, s>>) = End(r, <<l, 2>>)
        <4>1. <<k, s>>[1] = k /\ <<k, s>>[2] = s /\ <<l, 2>>[1] = l /\ <<l, 2>>[2] = 2
          OBVIOUS
        <4> QED
          BY <1>1, <2>4, <4>1 DEF End, IntfName
      <3> QED
        BY <1>9, <2>3, <3>1
    <2>7. KeepsIntf(w.node[n], r.node[n], p)
      BY <1>1, <2>2, <2>5, <2>6 DEF Gains, KeepsIntf
    <2>8. r.node[n].shell = w.node[n].shell
      BY <1>4, <2>2, ZenonT(60)
    <2>9. w.node[n].kind = "docker" /\ w.node[n].name \in w.proc => w.node[n].name \in r.proc
      BY <1>5, ZenonT(60)
    <2>10. Shape(w) /\ Within(w, r)
      BY <1>2
    <2> QED
      BY <1>11, <2>1, <2>2, <2>7, <2>8, <2>9, <2>10, HeldStays, ZenonT(60)
  <1>12. ASSUME NEW v \in w.veth PROVE \E k \in L \cup {l} : v = Pair(r, k) /\ Held(r, k)
    <2>1. \A k \in L : /\ Survives(w, r, v, k)
                       /\ v = Pair(w, k) /\ Held(w, k) => k \in L \cup {l}
      BY <1>11 DEF Survives, Held
    <2>2. Live(w, L)
      BY DEF Ours
    <2>3. PICK K : K = L \cup {l}
      OBVIOUS
    <2>4. \A k \in L : /\ Survives(w, r, v, k)
                       /\ v = Pair(w, k) /\ Held(w, k) => k \in K
      BY <2>1, <2>3
    <2>5. \E k \in K : v = Pair(r, k) /\ Held(r, k)
      BY <1>2, <2>2, <2>4, LiveKept
    <2> QED
      BY <2>3, <2>5
  <1>13. Live(r, L \cup {l})
    BY <1>9, <1>10, <1>12 DEF Live
  <1>14. Distinct(r, N)
    BY <1>1 DEF Distinct
  <1> QED
    BY <1>2, <1>6, <1>7, <1>8, <1>13, <1>14 DEF Ours

\* A link that is deleted.
LEMMA OursUnlinked ==
    ASSUME NEW w, Shape(w), NEW r, Same(w, r), NEW N, NEW L, L \subseteq DOMAIN w.link, NEW B,
           N \subseteq DOMAIN w.node, B \subseteq DOMAIN w.node,
           Ours(w, N, N, L, B), NEW l \in L, LinkGone(w, l, r), NEW K, K = L \ {l}
    PROVE  Ours(r, N, N, K, B)
  <1>1. /\ \A m \in DOMAIN w.node : m \notin {w.link[l].n[1], w.link[l].n[2]} => r.node[m] = w.node[m]
        /\ \A s \in {1, 2} : Lacks(w.node[w.link[l].n[s]], <<l, s>>, r.node[w.link[l].n[s]])
        /\ PairsLeft(w, l, r) /\ Wakes(w, l, r)
        /\ DOMAIN r.bridge = DOMAIN w.bridge
    BY DEF LinkGone
  <1>2. Within(w, r) /\ DOMAIN r.node = DOMAIN w.node
    BY SameWithin DEF Same
  <1>3. \A m \in DOMAIN w.node : r.node[m].shell = w.node[m].shell
    BY <1>1 DEF Lacks
  <1>4. w.proc \subseteq r.proc
    BY <1>1 DEF Wakes
  <1>5. \A s \in {1, 2} : w.link[l].n[s] \in DOMAIN w.node
    BY DEF Shape, LinkShape
  <1>6. Over(r, N)
    BY <1>2, <1>3 DEF Ours, Over, Within
  <1>7. Owned(r, N)
    <2> SUFFICES ASSUME NEW x \in r.proc
                 PROVE  \E n \in N : r.node[n].name = x /\ r.node[n].shell
      BY DEF Owned
    <2>1. CASE x \in w.proc
      <3>1. PICK n \in N : w.node[n].name = x /\ w.node[n].shell
        BY <2>1 DEF Ours, Owned
      <3> QED
        BY <1>2, <1>3, <3>1 DEF Within
    <2>2. CASE x \notin w.proc
      <3>1. PICK s \in {1, 2} : Runs(w, w.link[l].n[s]) /\ x = w.node[w.link[l].n[s]].name
        BY <1>1, <2>2 DEF Wakes
      <3>2. PICK n : n = w.link[l].n[s]
        OBVIOUS
      <3>3. n \in DOMAIN w.node /\ Runs(w, n) /\ x = w.node[n].name
        BY <1>5, <3>1, <3>2
      <3>4. n \in N
        BY <2>2, <3>3 DEF Ours, Over, Runs
      <3> QED
        BY <1>2, <1>3, <3>3, <3>4 DEF Within, Runs
    <2> QED
      BY <2>1, <2>2
  <1>8. Bridged(r, B)
    <2> SUFFICES ASSUME NEW c \in DOMAIN r.bridge
                 PROVE  \E n \in B : r.node[n].name = c /\ r.node[n].shell
      BY DEF Bridged
    <2>1. PICK n \in B : w.node[n].name = c /\ w.node[n].shell
      BY <1>1 DEF Ours, Bridged
    <2> QED
      BY <1>2, <1>3, <2>1 DEF Within
  <1>9. ASSUME NEW v \in r.veth PROVE \E k \in K : v = Pair(r, k) /\ Held(r, k)
    <2>1. v \in w.veth /\ \A s \in {1, 2} : Runs(w, w.link[l].n[s]) => End(w, <<l, s>>) \notin v
      BY <1>1 DEF PairsLeft
    <2>2. ASSUME NEW k \in L, v = Pair(w, k), Held(w, k) PROVE k \in K
      <3>1. k # l
        <4>1. SUFFICES ASSUME k = l PROVE FALSE
          OBVIOUS
        <4>2. HeldAt(w, l, 1) /\ End(w, <<l, 1>>) \in v
          BY <2>2, <4>1 DEF Held, Pair
        <4>3. Runs(w, w.link[l].n[1])
          BY <4>2 DEF HeldAt
        <4> QED
          BY <2>1, <4>2, <4>3
      <3> QED
        BY <3>1
    <2>3. ASSUME NEW k \in L, v = Pair(w, k), NEW t \in {1, 2}, HeldAt(w, k, t)
          PROVE  HeldAt(r, k, t)
      <3>1. PICK n, p : n = w.link[k].n[t] /\ p = w.link[k].p[t]
        OBVIOUS
      <3>2. k \in DOMAIN w.link /\ n \in DOMAIN w.node /\ Runs(w, n)
        BY <2>3, <3>1 DEF Shape, LinkShape, HeldAt
      <3>3. End(w, <<k, t>>) \in v
        BY <2>3 DEF Pair
      <3>4. ASSUME NEW s \in {1, 2}, n = w.link[l].n[s], <<l, s>> \in DOMAIN w.node[n].ports,
                   w.node[n].ports[<<l, s>>] = p
            PROVE  FALSE
        <4>1. NodeShape(w.node[n], n, w.link) /\ l \in DOMAIN w.link
          BY <3>2 DEF Shape
        <4>2. <<l, s>> # Lo
          BY <4>1, NotLo
        <4>3. <<l, s>>[1] = l /\ <<l, s>>[2] = s /\ <<k, t>>[1] = k /\ <<k, t>>[2] = t
          OBVIOUS
        <4>4. w.link[l].p[s] = p
          BY <3>4, <4>1, <4>2, <4>3 DEF NodeShape, Maps
        <4>5. End(w, <<k, t>>) = End(w, <<l, s>>)
          BY <3>1, <3>4, <4>3, <4>4 DEF End, IntfName
        <4> QED
          BY <2>1, <3>2, <3>3, <3>4, <4>5
      <3>5. KeepsIntf(w.node[n], r.node[n], p)
        <4>1. CASE n \notin {w.link[l].n[1], w.link[l].n[2]}
          BY <1>1, <3>2, <4>1 DEF KeepsIntf
        <4>2. ASSUME NEW s \in {1, 2}, n = w.link[l].n[s]
              PROVE  KeepsIntf(w.node[n], r.node[n], p)
          <5>1. PICK i, nd, md : i = <<l, s>> /\ nd = w.node[n] /\ md = r.node[n]
            OBVIOUS
          <5>2. Lacks(nd, i, md)
            BY <1>1, <4>2, <5>1
          <5>3. i \in DOMAIN nd.ports => nd.ports[i] # p
            BY <3>4, <4>2, <5>1
          <5>4. KeepsIntf(nd, md, p)
            BY <5>2, <5>3 DEF Lacks, KeepsIntf
          <5> QED
            BY <5>1, <5>4
        <4> QED
          BY <4>1, <4>2
      <3> QED
        BY <1>2, <1>3, <1>4, <2>3, <3>1, <3>2, <3>5, HeldStays
    <2>4. \A k \in L : Survives(w, r, v, k) /\ (v = Pair(w, k) /\ Held(w, k) => k \in K)
      BY <2>2, <2>3 DEF Survives, Held
    <2> QED
      BY <1>2, <2>1, <2>4, LiveKept DEF Ours
  <1> QED
    BY <1>6, <1>7, <1>8, <1>9 DEF Ours, Live

\* The interface of an end that is held is one of its node, which the network has.
LEMMA HeldIsOwn ==
    ASSUME NEW w, Shape(w), NEW l \in DOMAIN w.link, NEW s \in {1, 2}, HeldAt(w, l, s), NEW n,
           n = w.link[l].n[s]
    PROVE  n \in DOMAIN w.node /\ Runs(w, n) /\ <<l, s>> \in OwnIntfs(w, n)
  <1>1. n \in DOMAIN w.node
    BY DEF Shape, LinkShape
  <1>2. <<l, s>> # Lo
    BY NotLo
  <1>3. <<l, s>> \in Range(w.node[n].intfs) /\ Runs(w, n)
    BY DEF HeldAt, Range
  <1> QED
    BY <1>1, <1>2, <1>3 DEF OwnIntfs

\* A node that is taken out.
LEMMA OursBereft ==
    ASSUME NEW w, Shape(w), NEW r, Same(w, r), NEW N, Distinct(w, N), BareBut(w, N),
           NEW L, L \subseteq DOMAIN w.link, NEW B, B \subseteq N,
           Ours(w, N, N, L, B), NEW n \in N, NodeGone(w, n, r), NEW N2, N2 = N \ {n},
           NEW B2, B2 = B \ {n}, \A m \in B : w.node[m].kind = "switch"
    PROVE  Ours(r, N2, N2, L, B2) /\ BareBut(r, N2) /\ Distinct(r, N2)
  <1>1. /\ r.link = w.link
        /\ \A m \in DOMAIN w.node : m # n => r.node[m] = w.node[m]
        /\ r.node[n].shell = IF Skips(w, n) THEN w.node[n].shell ELSE FALSE
        /\ Range(r.node[n].intfs) \subseteq {Lo}
        /\ PairsOfOthers(w, n, r) /\ ProcsOfOthers(w, n, r) /\ BridgesOfOthers(w, n, r)
    BY DEF NodeGone
  <1>2. Within(w, r) /\ DOMAIN r.node = DOMAIN w.node
    BY SameWithin DEF Same
  <1>3. N \subseteq DOMAIN w.node /\ n \in DOMAIN w.node
    BY DEF Distinct
  <1>4. Over(r, N2)
    <2> SUFFICES ASSUME NEW m \in DOMAIN r.node \ N2
                 PROVE  r.node[m].kind = "docker" \/ ~r.node[m].shell
      BY DEF Over
    <2>1. CASE m = n
      BY <1>1, <1>2, <1>3, <2>1 DEF Within, Skips
    <2>2. CASE m # n
      BY <1>1, <1>2, <2>2 DEF Ours, Over
    <2> QED
      BY <2>1, <2>2
  <1>5. Owned(r, N2)
    <2> SUFFICES ASSUME NEW x \in r.proc
                 PROVE  \E m \in N2 : r.node[m].name = x /\ r.node[m].shell
      BY DEF Owned
    <2>1. x \in w.proc /\ ~(w.node[n].shell /\ x = w.node[n].name)
      BY <1>1 DEF ProcsOfOthers
    <2>2. PICK m \in N : w.node[m].name = x /\ w.node[m].shell
      BY <2>1 DEF Ours, Owned
    <2>3. m # n
      BY <2>1, <2>2
    <2> QED
      BY <1>1, <1>3, <2>2, <2>3
  <1>6. Bridged(r, B2)
    <2> SUFFICES ASSUME NEW c \in DOMAIN r.bridge
                 PROVE  \E m \in B2 : r.node[m].name = c /\ r.node[m].shell
      BY DEF Bridged
    <2>1. c \in DOMAIN w.bridge /\ ~(w.node[n].kind = "switch" /\ Runs(w, n) /\ c = w.node[n].name)
      BY <1>1 DEF BridgesOfOthers
    <2>2. PICK m \in B : w.node[m].name = c /\ w.node[m].shell
      BY <2>1 DEF Ours, Bridged
    <2>3. m # n
      BY <2>1, <2>2 DEF Runs
    <2> QED
      BY <1>1, <1>3, <2>2, <2>3
  <1>7. ASSUME NEW v \in r.veth PROVE \E l \in L : v = Pair(r, l) /\ Held(r, l)
    <2>1. /\ v \in w.veth
          /\ Runs(w, n) => \A i \in OwnIntfs(w, n) : End(w, i) \notin v
      BY <1>1 DEF PairsOfOthers
    <2>2. ASSUME NEW l \in L, v = Pair(w, l), NEW s \in {1, 2}, HeldAt(w, l, s)
          PROVE  HeldAt(r, l, s)
      <3>1. PICK m, p : m = w.link[l].n[s] /\ p = w.link[l].p[s]
        OBVIOUS
      <3>2. m \in DOMAIN w.node /\ Runs(w, m) /\ <<l, s>> \in OwnIntfs(w, m)
        BY <2>2, <3>1, HeldIsOwn
      <3>3. End(w, <<l, s>>) \in v
        BY <2>2 DEF Pair
      <3>4. m # n
        BY <2>1, <3>2, <3>3
      <3>5. m \in N
        BY <3>2 DEF BareBut, OwnIntfs
      <3>6. w.node[m].name # w.node[n].name
        BY <3>4, <3>5 DEF Distinct
      <3>7. w.node[m].kind = "docker" /\ w.node[m].name \in w.proc => w.node[m].name \in r.proc
        BY <1>1, <3>6 DEF ProcsOfOthers
      <3>8. r.node[m] = w.node[m]
        BY <1>1, <3>2, <3>4
      <3>9. KeepsIntf(w.node[m], r.node[m], p)
        BY <3>8 DEF KeepsIntf
      <3> QED
        BY <1>2, <2>2, <3>1, <3>7, <3>8, <3>9, HeldStays
    <2>3. \A l \in L : Survives(w, r, v, l) /\ (v = Pair(w, l) /\ Held(w, l) => l \in L)
      BY <2>2 DEF Survives, Held
    <2> QED
      BY <1>2, <2>1, <2>3, LiveKept DEF Ours
  <1>8. BareBut(r, N2)
    BY <1>1, <1>2 DEF BareBut
  <1>9. Distinct(r, N2)
    BY <1>1, <1>2, <1>3 DEF Distinct
  <1> QED
    BY <1>4, <1>5, <1>6, <1>7, <1>8, <1>9 DEF Ours, Live

\* Switches that are terminated, with their bridges, when there are no links.
LEMMA OursDown ==
    ASSUME NEW w, Shape(w), NEW r, Same(w, r), NEW N, NEW P, P \subseteq N, NEW B, B \subseteq N,
           N \subseteq DOMAIN w.node, N = P \cup B, P \cap B = {}, Ours(w, N, N, {}, B),
           \A m \in DOMAIN w.node \ B : r.node[m] = w.node[m],
           \A m \in B : r.node[m].shell = FALSE,
           r.veth \subseteq w.veth,
           \A x : x \in r.proc <=> x \in w.proc /\ \A m \in B : ~(w.node[m].shell /\ x = w.node[m].name),
           \A b \in DOMAIN r.bridge : b \in DOMAIN w.bridge /\ \A m \in B : w.node[m].name # b
    PROVE  Ours(r, N, P, {}, {})
  <1>1. DOMAIN r.node = DOMAIN w.node
    BY DEF Same
  <1>2. Over(r, N)
    BY <1>1 DEF Ours, Over
  <1>3. Live(r, {})
    BY DEF Ours, Live
  <1>4. Bridged(r, {})
    BY DEF Ours, Bridged
  <1>5. Owned(r, P)
    <2> SUFFICES ASSUME NEW x \in r.proc
                 PROVE  \E n \in P : r.node[n].name = x /\ r.node[n].shell
      BY DEF Owned
    <2>1. PICK n \in N : w.node[n].name = x /\ w.node[n].shell
      BY DEF Ours, Owned
    <2>2. n \in P /\ n \notin B
      BY <2>1
    <2> QED
      BY <2>1, <2>2
  <1> QED
    BY <1>2, <1>3, <1>4, <1>5 DEF Ours

\* A host whose shell ends.
LEMMA OursHostDown ==
    ASSUME NEW w, Shape(w), NEW r, Same(w, r), NEW N, NEW P, P \subseteq DOMAIN w.node, NEW n \in P,
           Ours(w, N, P, {}, {}), ShellEnded(w, n, r), NEW P2, P = P2 \cup {n}
    PROVE  Ours(r, N, P2, {}, {})
  <1>1. /\ r.bridge = w.bridge /\ \A m \in DOMAIN w.node : m # n => r.node[m] = w.node[m]
        /\ r.node[n].shell = IF Skips(w, n) THEN w.node[n].shell ELSE FALSE
        /\ r.proc = IF w.node[n].shell /\ ~Skips(w, n) THEN w.proc \ {w.node[n].name} ELSE w.proc
        /\ r.veth \subseteq w.veth
    BY DEF ShellEnded, WithoutNamespaces
  <1>2. DOMAIN r.node = DOMAIN w.node /\ r.node[n].kind = w.node[n].kind
    BY DEF Same
  <1>3. Over(r, N)
    <2> SUFFICES ASSUME NEW m \in DOMAIN r.node \ N
                 PROVE  r.node[m].kind = "docker" \/ ~r.node[m].shell
      BY DEF Over
    <2>1. w.node[m].kind = "docker" \/ ~w.node[m].shell
      BY <1>2 DEF Ours, Over
    <2>2. CASE m = n
      BY <1>1, <1>2, <2>1, <2>2
    <2>3. CASE m # n
      BY <1>1, <1>2, <2>1, <2>3
    <2> QED
      BY <2>2, <2>3
  <1>4. Live(r, {})
    BY <1>1 DEF Ours, Live
  <1>5. Bridged(r, {})
    BY <1>1 DEF Ours, Bridged
  <1>6. Owned(r, P2)
    <2> SUFFICES ASSUME NEW x \in r.proc
                 PROVE  \E m \in P2 : r.node[m].name = x /\ r.node[m].shell
      BY DEF Owned
    <2>1. x \in w.proc
      BY <1>1
    <2>2. PICK m \in P : w.node[m].name = x /\ w.node[m].shell
      BY <2>1 DEF Ours, Owned
    <2>3. m # n
      BY <1>1, <2>1, <2>2 DEF Skips
    <2> QED
      BY <1>1, <2>2, <2>3
  <1> QED
    BY <1>3, <1>4, <1>5, <1>6 DEF Ours

(***************************************************************************)
(* Nothing of the network is missing in the system: the shells of its      *)
(* nodes run, its links have their pairs and their interfaces, and its     *)
(* nodes have no others.                                                   *)
(***************************************************************************)
Up(w, N) == \A n \in N : w.node[n].shell /\ w.node[n].name \in w.proc
JointAt(w, l, s, N) ==
    LET n == w.link[l].n[s]
        p == w.link[l].p[s]
    IN  /\ w.link[l].known[s] /\ n \in N /\ <<l, s>> \in DOMAIN w.node[n].ports
        /\ p \in DOMAIN w.node[n].intfs /\ w.node[n].intfs[p] = <<l, s>>
Joint(w, l, N) == Pair(w, l) \in w.veth /\ JointAt(w, l, 1, N) /\ JointAt(w, l, 2, N)
PortsIn(w, N, L) == \A n \in N : \A i \in DOMAIN w.node[n].ports \ {Lo} : i[1] \in L
Whole(w, N, L) == Up(w, N) /\ (\A l \in L : Joint(w, l, N)) /\ PortsIn(w, N, L)

KeepsPort(nd, md, i) == i \in DOMAIN nd.ports => i \in DOMAIN md.ports

\* An end of a link that is still one of its node.
LEMMA JointAtKept ==
    ASSUME NEW w, Shape(w), NEW r, Within(w, r), NEW l \in DOMAIN w.link, NEW s \in {1, 2},
           NEW N, JointAt(w, l, s, N), r.link[l].known[s] = w.link[l].known[s],
           NEW n, n = w.link[l].n[s], NEW p, p = w.link[l].p[s], NEW N2, n \in N2,
           KeepsIntf(w.node[n], r.node[n], p), KeepsPort(w.node[n], r.node[n], <<l, s>>)
    PROVE  JointAt(r, l, s, N2)
  <1>1. r.link[l].n[s] = n /\ r.link[l].p[s] = p
    BY DEF Within
  <1>2. PICK i : i = <<l, s>>
    OBVIOUS
  <1>3. /\ w.link[l].known[s] /\ i \in DOMAIN w.node[n].ports
        /\ p \in DOMAIN w.node[n].intfs /\ w.node[n].intfs[p] = i
    BY <1>2 DEF JointAt
  <1>4. i \in DOMAIN r.node[n].ports /\ p \in DOMAIN r.node[n].intfs /\ r.node[n].intfs[p] = i
    BY <1>2, <1>3 DEF KeepsIntf, KeepsPort
  <1> QED
    BY <1>1, <1>2, <1>3, <1>4 DEF JointAt

\* A link whose nodes have the interfaces that they had.
LEMMA JointKept ==
    ASSUME NEW w, Shape(w), NEW r, Within(w, r), NEW l \in DOMAIN w.link, NEW N, Joint(w, l, N),
           Pair(w, l) \in r.veth, r.link = w.link, NEW N2, N \subseteq N2,
           \A n \in N : r.node[n].intfs = w.node[n].intfs /\ r.node[n].ports = w.node[n].ports
    PROVE  Joint(r, l, N2)
  <1>1. Pair(r, l) \in r.veth
    BY WithinNames
  <1>2. ASSUME NEW s \in {1, 2}, JointAt(w, l, s, N) PROVE JointAt(r, l, s, N2)
    <2>1. PICK n, p : n = w.link[l].n[s] /\ p = w.link[l].p[s]
      OBVIOUS
    <2>2. n \in N /\ n \in N2
      BY <1>2, <2>1 DEF JointAt
    <2>3. KeepsIntf(w.node[n], r.node[n], p) /\ KeepsPort(w.node[n], r.node[n], <<l, s>>)
      BY <2>2 DEF KeepsIntf, KeepsPort
    <2>4. r.link[l].known[s] = w.link[l].known[s]
      OBVIOUS
    <2> QED
      BY <1>2, <2>1, <2>2, <2>3, <2>4, JointAtKept
  <1> QED
    BY <1>1, <1>2 DEF Joint

\* The nodes and links are as they were, and no process or pair is gone.
LEMMA WholeSame ==
    ASSUME NEW w, Shape(w), NEW r, Within(w, r), NEW N, N \subseteq DOMAIN w.node,
           NEW L, L \subseteq DOMAIN w.link, Whole(w, N, L),
           w.proc \subseteq r.proc, w.veth \subseteq r.veth, r.link = w.link,
           \A n \in DOMAIN w.node : /\ r.node[n].shell = w.node[n].shell
                                    /\ r.node[n].intfs = w.node[n].intfs
                                    /\ r.node[n].ports = w.node[n].ports
    PROVE  Whole(r, N, L)
  <1>1. Up(r, N)
    BY DEF Whole, Up, Within
  <1>2. PortsIn(r, N, L)
    BY DEF Whole, PortsIn
  <1>3. ASSUME NEW l \in L PROVE Joint(r, l, N)
    <2>1. l \in DOMAIN w.link /\ Joint(w, l, N) /\ Pair(w, l) \in r.veth
      BY DEF Whole, Joint
    <2> QED
      BY <2>1, JointKept
  <1> QED
    BY <1>1, <1>2, <1>3 DEF Whole

\* A new node.
LEMMA WholeNode ==
    ASSUME NEW w, Shape(w), NEW r, NEW N, N \subseteq DOMAIN w.node,
           NEW L, L \subseteq DOMAIN w.link, Whole(w, N, L), NEW name, NEW kind, NEW ip, NEW k,
           NodeMade(w, name, kind, ip, k, r), r.veth = w.veth, r.proc = w.proc \cup {name},
           NEW N2, N2 = N \cup {k + 1}
    PROVE  Whole(r, N2, L)
  <1>1. PICK m : m = k + 1
    OBVIOUS
  <1>2. /\ DOMAIN r.node = DOMAIN w.node \cup {m} /\ m \notin DOMAIN w.node
        /\ \A n \in DOMAIN w.node : r.node[n] = w.node[n]
        /\ r.node[m].name = name /\ r.node[m].shell = TRUE /\ r.link = w.link
        /\ DOMAIN r.node[m].ports \subseteq {Lo}
    BY <1>1 DEF NodeMade
  <1>3. Within(w, r)
    BY <1>2 DEF Within
  <1>4. Up(r, N2)
    BY <1>1, <1>2 DEF Whole, Up
  <1>5. PortsIn(r, N2, L)
    BY <1>1, <1>2 DEF Whole, PortsIn
  <1>6. ASSUME NEW l \in L PROVE Joint(r, l, N2)
    <2>1. l \in DOMAIN w.link /\ Joint(w, l, N) /\ Pair(w, l) \in r.veth
      BY DEF Whole, Joint
    <2>2. \A n \in N : r.node[n].intfs = w.node[n].intfs /\ r.node[n].ports = w.node[n].ports
      BY <1>2
    <2> QED
      BY <1>2, <1>3, <2>1, <2>2, JointKept
  <1> QED
    BY <1>4, <1>5, <1>6 DEF Whole

\* An interface that is another than those of a node.
LEMMA GainsOther ==
    ASSUME NEW nd, NEW i, NEW port, NEW md, Gains(nd, i, port, md), NEW p, p # port
    PROVE  KeepsIntf(nd, md, p)
  BY DEF Gains, KeepsIntf

\* An end of a link has another name than those of a new one.
LEMMA EndsDiffer ==
    ASSUME NEW w, Shape(w), NEW r, NEW a, NEW b, NEW p1, NEW p2, NEW l, Joins(w, a, b, p1, p2, l, r),
           Within(w, r), NEW k \in DOMAIN w.link, NEW t \in {1, 2}, Pair(w, k) \in w.veth,
           NEW s \in {1, 2}
    PROVE  ~(r.link[k].n[t] = r.link[l].n[s] /\ r.link[k].p[t] = r.link[l].p[s])
  <1>1. SUFFICES ASSUME r.link[k].n[t] = r.link[l].n[s], r.link[k].p[t] = r.link[l].p[s]
                 PROVE  FALSE
    OBVIOUS
  <1>2. End(r, <<l, s>>) \notin Pair(w, k)
    BY DEF Joins, NewPair
  <1>3. /\ <<l, s>>[1] = l /\ <<l, s>>[2] = s /\ <<k, t>>[1] = k /\ <<k, t>>[2] = t
    OBVIOUS
  <1>4. End(r, <<k, t>>) = End(r, <<l, s>>)
    BY <1>1, <1>3 DEF End, IntfName
  <1>5. End(r, <<k, t>>) = End(w, <<k, t>>)
    BY WithinNames
  <1> QED
    BY <1>2, <1>4, <1>5 DEF Pair

(* A node that may have got an end of link l.  *)
Grown(nd, md, l) ==
    /\ md.shell = nd.shell /\ DOMAIN nd.ports \subseteq DOMAIN md.ports
    /\ \A i \in DOMAIN md.ports : i \in DOMAIN nd.ports \/ i[1] = l

\* What a node has after two have been joined.
LEMMA NodeGrown ==
    ASSUME NEW w, NEW r, NEW a, NEW b, NEW p1, NEW p2, NEW l, Joins(w, a, b, p1, p2, l, r),
           NEW n \in DOMAIN w.node
    PROVE  Grown(w.node[n], r.node[n], l)
  <1>1. CASE n \notin {a, b}
    BY <1>1 DEF Joins, Grown
  <1>2. ASSUME NEW s \in {1, 2}, NEW port, Gains(w.node[n], <<l, s>>, port, r.node[n])
        PROVE  Grown(w.node[n], r.node[n], l)
    <2>1. <<l, s>>[1] = l
      OBVIOUS
    <2> QED
      BY <1>2, <2>1 DEF Grown, Gains
  <1>3. n = a => Gains(w.node[n], <<l, 1>>, p1, r.node[n])
    BY DEF Joins
  <1>4. n = b => Gains(w.node[n], <<l, 2>>, p2, r.node[n])
    BY DEF Joins
  <1> QED
    BY <1>1, <1>2, <1>3, <1>4

\* The other ports of a node stay.
LEMMA NodeKeeps ==
    ASSUME NEW w, NEW r, NEW a, NEW b, NEW p1, NEW p2, NEW l, Joins(w, a, b, p1, p2, l, r),
           NEW n \in DOMAIN w.node, NEW p, n # a \/ p # p1, n # b \/ p # p2
    PROVE  KeepsIntf(w.node[n], r.node[n], p)
  <1>1. CASE n \notin {a, b}
    BY <1>1 DEF Joins, KeepsIntf
  <1>2. n = a => Gains(w.node[n], <<l, 1>>, p1, r.node[n])
    BY DEF Joins
  <1>3. n = b => Gains(w.node[n], <<l, 2>>, p2, r.node[n])
    BY DEF Joins
  <1> QED
    BY <1>1, <1>2, <1>3, GainsOther

\* The new link is whole.
LEMMA NewJoint ==
    ASSUME NEW w, NEW r, NEW a, NEW b, NEW p1, NEW p2, NEW l, Joins(w, a, b, p1, p2, l, r),
           NEW N, a \in N, b \in N
    PROVE  Joint(r, l, N)
  <1>1. Pair(r, l) \in r.veth
    BY DEF Joins, NewPair, Pair
  <1>2. ASSUME NEW s \in {1, 2}, NEW c, c = <<l, s>>, NEW n \in N, NEW port, NEW nd,
               n = r.link[l].n[s], port = r.link[l].p[s],
               r.link[l].known[s] = TRUE, Gains(nd, c, port, r.node[n])
        PROVE  JointAt(r, l, s, N)
    <2>1. /\ c \in DOMAIN r.node[n].ports /\ port \in DOMAIN r.node[n].intfs
          /\ r.node[n].intfs[port] = c
      BY <1>2 DEF Gains
    <2> QED
      BY <1>2, <2>1 DEF JointAt
  <1>3. JointAt(r, l, 1, N)
    <2>1. PICK c : c = <<l, 1>>
      OBVIOUS
    <2>2. /\ Gains(w.node[a], c, p1, r.node[a]) /\ r.link[l].n[1] = a /\ r.link[l].p[1] = p1
          /\ r.link[l].known[1] = TRUE
      BY <2>1 DEF Joins
    <2> QED
      BY <1>2, <2>1, <2>2
  <1>4. JointAt(r, l, 2, N)
    <2>1. PICK c : c = <<l, 2>>
      OBVIOUS
    <2>2. /\ Gains(w.node[b], c, p2, r.node[b]) /\ r.link[l].n[2] = b /\ r.link[l].p[2] = p2
          /\ r.link[l].known[2] = TRUE
      BY <2>1 DEF Joins
    <2> QED
      BY <1>2, <2>1, <2>2
  <1> QED
    BY <1>1, <1>3, <1>4 DEF Joint

\* A link between two nodes of the network.
LEMMA WholeJoined ==
    ASSUME NEW w, Shape(w), NEW r, NEW N, N \subseteq DOMAIN w.node,
           NEW L, L \subseteq DOMAIN w.link, Whole(w, N, L), NEW a \in N, NEW b \in N, a # b,
           NEW p1, NEW p2, NEW l, Joins(w, a, b, p1, p2, l, r), Within(w, r),
           NEW K, K = L \cup {l}
    PROVE  Whole(r, N, K)
  <1>1. /\ w.proc \subseteq r.proc /\ w.veth \subseteq r.veth /\ l \notin DOMAIN w.link
        /\ \A k \in DOMAIN w.link : r.link[k] = w.link[k]
        /\ r.link[l].n[1] = a /\ r.link[l].n[2] = b /\ r.link[l].p[1] = p1 /\ r.link[l].p[2] = p2
    BY DEF Joins, NewWakes, NewPair
  <1>2. Up(r, N)
    <2> SUFFICES ASSUME NEW n \in N
                 PROVE  r.node[n].shell /\ r.node[n].name \in r.proc
      BY DEF Up
    <2>1. w.node[n].shell /\ w.node[n].name \in w.proc
      BY DEF Whole, Up
    <2>2. Grown(w.node[n], r.node[n], l)
      BY NodeGrown
    <2> QED
      BY <1>1, <2>1, <2>2 DEF Grown, Within
  <1>3. PortsIn(r, N, K)
    <2> SUFFICES ASSUME NEW n \in N, NEW i \in DOMAIN r.node[n].ports \ {Lo}
                 PROVE  i[1] \in K
      BY DEF PortsIn
    <2>1. Grown(w.node[n], r.node[n], l)
      BY NodeGrown
    <2> QED
      BY <2>1 DEF Grown, Whole, PortsIn
  <1>4. ASSUME NEW k \in L PROVE Joint(r, k, N)
    <2>1. k \in DOMAIN w.link /\ Joint(w, k, N) /\ Pair(w, k) \in w.veth /\ r.link[k] = w.link[k]
      BY <1>1 DEF Whole, Joint
    <2>2. Pair(r, k) \in r.veth
      BY <1>1, <2>1, WithinNames, ZenonT(60)
    <2>3. ASSUME NEW t \in {1, 2}, JointAt(w, k, t, N) PROVE JointAt(r, k, t, N)
      <3>1. PICK n, p : n = w.link[k].n[t] /\ p = w.link[k].p[t]
        OBVIOUS
      <3>2. n \in N /\ n \in DOMAIN w.node
        BY <2>3, <3>1 DEF JointAt
      <3>3. (n # a \/ p # p1) /\ (n # b \/ p # p2)
        BY <1>1, <2>1, <3>1, EndsDiffer
      <3>4. KeepsIntf(w.node[n], r.node[n], p) /\ KeepsPort(w.node[n], r.node[n], <<k, t>>)
        <4>1. KeepsIntf(w.node[n], r.node[n], p)
          BY <3>2, <3>3, NodeKeeps
        <4>2. Grown(w.node[n], r.node[n], l)
          BY <3>2, NodeGrown
        <4> QED
          BY <4>1, <4>2 DEF Grown, KeepsPort
      <3> QED
        BY <2>1, <2>3, <3>1, <3>2, <3>4, JointAtKept
    <2> QED
      BY <2>1, <2>2, <2>3 DEF Joint
  <1> QED
    BY <1>2, <1>3, <1>4, NewJoint DEF Whole

\* Two ends of one name are one.
LEMMA EndsApart ==
    ASSUME NEW w, Shape(w), NEW N, Distinct(w, N), NEW l, NEW s, NEW k, NEW t,
           JointAt(w, l, s, N), JointAt(w, k, t, N), End(w, <<l, s>>) = End(w, <<k, t>>)
    PROVE  <<l, s>> = <<k, t>>
  <1>1. PICK m, p, n, q : m = w.link[l].n[s] /\ p = w.link[l].p[s] /\ n = w.link[k].n[t] /\ q = w.link[k].p[t]
    OBVIOUS
  <1>2. /\ <<l, s>>[1] = l /\ <<l, s>>[2] = s /\ <<k, t>>[1] = k /\ <<k, t>>[2] = t
    OBVIOUS
  <1>3. /\ End(w, <<l, s>>)[2] = <<w.node[m].name, p>> /\ End(w, <<k, t>>)[2] = <<w.node[n].name, q>>
    BY <1>1, <1>2 DEF End, IntfName
  <1>4. w.node[m].name = w.node[n].name /\ p = q
    BY <1>3
  <1>5. m \in N /\ n \in N /\ w.node[m].intfs[p] = <<l, s>> /\ w.node[n].intfs[q] = <<k, t>>
    BY <1>1 DEF JointAt
  <1>6. m = n
    BY <1>4, <1>5 DEF Distinct
  <1> QED
    BY <1>4, <1>5, <1>6

\* What a node has after a link has been deleted.
LEMMA NodeShrunk ==
    ASSUME NEW w, Shape(w), NEW r, NEW l \in DOMAIN w.link, LinkGone(w, l, r), NEW n \in DOMAIN w.node
    PROVE  /\ r.node[n].shell = w.node[n].shell
           /\ DOMAIN r.node[n].ports \subseteq DOMAIN w.node[n].ports
           /\ Range(r.node[n].intfs) \subseteq Range(w.node[n].intfs)
  <1>1. CASE n \notin {w.link[l].n[1], w.link[l].n[2]}
    BY <1>1 DEF LinkGone
  <1>2. ASSUME NEW nd, NEW i, NEW md, Lacks(nd, i, md)
        PROVE  /\ md.shell = nd.shell /\ DOMAIN md.ports \subseteq DOMAIN nd.ports
               /\ Range(md.intfs) \subseteq Range(nd.intfs)
    <2>1. DOMAIN md.intfs \subseteq DOMAIN nd.intfs /\ \A p \in DOMAIN md.intfs : md.intfs[p] = nd.intfs[p]
      BY <1>2 DEF Lacks
    <2> QED
      BY <1>2, <2>1 DEF Lacks, Range
  <1>3. ASSUME NEW s \in {1, 2}, n = w.link[l].n[s]
        PROVE  Lacks(w.node[n], <<l, s>>, r.node[n])
    BY <1>3 DEF LinkGone
  <1> QED
    BY <1>1, <1>2, <1>3

\* It has no end of the link any more.
LEMMA NodeWithout ==
    ASSUME NEW w, Shape(w), NEW r, NEW l \in DOMAIN w.link, LinkGone(w, l, r), NEW n \in DOMAIN w.node,
           NEW i \in DOMAIN r.node[n].ports \ {Lo}
    PROVE  i[1] # l /\ i \in DOMAIN w.node[n].ports
  <1>1. i \in DOMAIN w.node[n].ports
    BY NodeShrunk
  <1>2. NodeShape(w.node[n], n, w.link)
    BY DEF Shape
  <1>3. i = <<i[1], i[2]>> /\ i[2] \in {1, 2} /\ w.link[i[1]].n[i[2]] = n
    BY <1>1, <1>2 DEF NodeShape, Maps
  <1>4. i[1] # l
    <2>1. SUFFICES ASSUME i[1] = l PROVE FALSE
      OBVIOUS
    <2>2. PICK s \in {1, 2} : s = i[2]
      BY <1>3
    <2>3. i = <<l, s>> /\ n = w.link[l].n[s]
      BY <1>3, <2>1, <2>2
    <2>4. Lacks(w.node[n], i, r.node[n])
      BY <2>3 DEF LinkGone
    <2> QED
      BY <2>4 DEF Lacks
  <1> QED
    BY <1>1, <1>4

\* The ends of other links stay.
LEMMA NodeRetains ==
    ASSUME NEW w, Shape(w), NEW r, NEW l \in DOMAIN w.link, LinkGone(w, l, r), NEW n \in DOMAIN w.node,
           NEW k, k # l, NEW t, NEW p, w.node[n].intfs[p] = <<k, t>>, NEW N, Joint(w, l, N)
    PROVE  KeepsIntf(w.node[n], r.node[n], p) /\ KeepsPort(w.node[n], r.node[n], <<k, t>>)
  <1>1. CASE n \notin {w.link[l].n[1], w.link[l].n[2]}
    BY <1>1 DEF LinkGone, KeepsIntf, KeepsPort
  <1>2. ASSUME NEW s \in {1, 2}, n = w.link[l].n[s]
        PROVE  KeepsIntf(w.node[n], r.node[n], p) /\ KeepsPort(w.node[n], r.node[n], <<k, t>>)
    <2>1. PICK i, j, nd, md : i = <<l, s>> /\ j = <<k, t>> /\ nd = w.node[n] /\ md = r.node[n]
      OBVIOUS
    <2>2. Lacks(nd, i, md) /\ i # j /\ nd.intfs[p] = j
      BY <1>2, <2>1 DEF LinkGone
    <2>3. NodeShape(nd, n, w.link)
      BY <2>1 DEF Shape
    <2>4. i # Lo
      BY <2>1, NotLo
    <2>5. PICK q : q = w.link[l].p[s]
      OBVIOUS
    <2>6. JointAt(w, l, s, N)
      BY DEF Joint
    <2>7. q \in DOMAIN nd.intfs /\ nd.intfs[q] = i
      BY <1>2, <2>1, <2>5, <2>6 DEF JointAt
    <2>8. nd.ports[i] = q
      BY <2>3, <2>7 DEF NodeShape, Maps
    <2>9. KeepsPort(nd, md, j)
      BY <2>2 DEF Lacks, KeepsPort
    <2>10. KeepsIntf(nd, md, p)
      BY <2>2, <2>7, <2>8 DEF Lacks, KeepsIntf
    <2> QED
      BY <2>1, <2>9, <2>10
  <1> QED
    BY <1>1, <1>2

\* A link that is deleted.
LEMMA WholeUnlinked ==
    ASSUME NEW w, Shape(w), NEW r, Same(w, r), NEW N, Distinct(w, N),
           NEW L, L \subseteq DOMAIN w.link, Whole(w, N, L), NEW l \in L, LinkGone(w, l, r),
           NEW K, K = L \ {l}
    PROVE  Whole(r, N, K)
  <1>1. Within(w, r) /\ N \subseteq DOMAIN w.node /\ l \in DOMAIN w.link /\ Joint(w, l, N)
    BY SameWithin DEF Distinct, Whole
  <1>2. w.proc \subseteq r.proc /\ \A k \in DOMAIN w.link : k # l => r.link[k] = w.link[k]
    BY DEF LinkGone, Wakes
  <1>3. Up(r, N)
    <2> SUFFICES ASSUME NEW n \in N
                 PROVE  r.node[n].shell /\ r.node[n].name \in r.proc
      BY DEF Up
    <2>1. w.node[n].shell /\ w.node[n].name \in w.proc
      BY DEF Whole, Up
    <2>2. r.node[n].shell = w.node[n].shell /\ r.node[n].name = w.node[n].name
      BY <1>1, NodeShrunk DEF Within
    <2> QED
      BY <1>2, <2>1, <2>2
  <1>4. PortsIn(r, N, K)
    <2> SUFFICES ASSUME NEW n \in N, NEW i \in DOMAIN r.node[n].ports \ {Lo}
                 PROVE  i[1] \in K
      BY DEF PortsIn
    <2>1. i[1] # l /\ i \in DOMAIN w.node[n].ports
      BY <1>1, NodeWithout
    <2> QED
      BY <2>1 DEF Whole, PortsIn
  <1>5. ASSUME NEW k \in K PROVE Joint(r, k, N)
    <2>1. k \in DOMAIN w.link /\ Joint(w, k, N) /\ Pair(w, k) \in w.veth /\ r.link[k] = w.link[k] /\ k # l
      BY <1>2 DEF Whole, Joint
    <2>2. Pair(r, k) \in r.veth
      <3>1. \A s \in {1, 2} : JointAt(w, l, s, N) /\ JointAt(w, k, s, N)
        BY <1>1, <2>1 DEF Joint
      <3>2. \A s, t \in {1, 2} : <<l, s>> # <<k, t>>
        BY <2>1
      <3>3. \A s, t \in {1, 2} : End(w, <<l, s>>) # End(w, <<k, t>>)
        BY <3>1, <3>2, EndsApart
      <3>4. \A s \in {1, 2} : End(w, <<l, s>>) \notin Pair(w, k)
        BY <3>3 DEF Pair
      <3>5. Pair(w, k) \in r.veth
        BY <2>1, <3>4 DEF LinkGone, PairsLeft
      <3> QED
        BY <1>1, <2>1, <3>5, WithinNames
    <2>3. ASSUME NEW t \in {1, 2}, JointAt(w, k, t, N) PROVE JointAt(r, k, t, N)
      <3>1. PICK n, p : n = w.link[k].n[t] /\ p = w.link[k].p[t]
        OBVIOUS
      <3>2. n \in N /\ n \in DOMAIN w.node /\ w.node[n].intfs[p] = <<k, t>>
        BY <1>1, <2>3, <3>1 DEF JointAt
      <3>3. KeepsIntf(w.node[n], r.node[n], p) /\ KeepsPort(w.node[n], r.node[n], <<k, t>>)
        BY <1>1, <2>1, <3>2, NodeRetains
      <3> QED
        BY <1>1, <2>1, <2>3, <3>1, <3>2, <3>3, JointAtKept
    <2> QED
      BY <2>1, <2>2, <2>3 DEF Joint
  <1> QED
    BY <1>3, <1>4, <1>5 DEF Whole

\* A node without links has no interface but the loopback one.
LEMMA NoOwnIntfs ==
    ASSUME NEW w, Shape(w), NEW N, NEW L, L \subseteq DOMAIN w.link, PortsIn(w, N, L), NEW n \in N,
           n \in DOMAIN w.node, \A l \in L : n # w.link[l].n[1] /\ n # w.link[l].n[2],
           NEW i \in OwnIntfs(w, n)
    PROVE  FALSE
  <1>1. /\ i # Lo /\ i[2] \in {1, 2} /\ w.link[i[1]].n[i[2]] = n /\ i \in DOMAIN w.node[n].ports
    BY OwnIntf
  <1>2. i[1] \in L
    BY <1>1 DEF PortsIn
  <1> QED
    BY <1>1, <1>2

\* An end of a link that is not in the namespace of some node.
LEMMA EndElsewhere ==
    ASSUME NEW w, Shape(w), NEW N, Distinct(w, N), NEW n \in N, NEW l, NEW s, JointAt(w, l, s, N),
           w.link[l].n[s] # n
    PROVE  End(w, <<l, s>>)[1] # w.node[n].name
  <1>1. PICK m : m = w.link[l].n[s]
    OBVIOUS
  <1>2. <<l, s>>[1] = l /\ <<l, s>>[2] = s
    OBVIOUS
  <1>3. End(w, <<l, s>>)[1] = Namespace(w.node[m])
    BY <1>1, <1>2 DEF End
  <1>4. m \in N /\ m # n /\ m \in DOMAIN w.node /\ n \in DOMAIN w.node
    BY <1>1 DEF JointAt, Distinct
  <1>5. w.node[m].name # w.node[n].name
    BY <1>4 DEF Distinct
  <1>6. NodeShape(w.node[n], n, w.link)
    BY <1>4 DEF Shape
  <1>7. w.node[n].name # Root
    BY <1>6 DEF NodeShape, NodeNames
  <1> QED
    BY <1>3, <1>5, <1>7 DEF Namespace

\* A node without links that is taken out.
LEMMA WholeBereft ==
    ASSUME NEW w, Shape(w), NEW r, Same(w, r), NEW N, Distinct(w, N),
           NEW L, L \subseteq DOMAIN w.link, Whole(w, N, L), NEW n \in N, NodeGone(w, n, r),
           \A l \in L : n # w.link[l].n[1] /\ n # w.link[l].n[2], NEW N2, N2 = N \ {n}
    PROVE  Whole(r, N2, L)
  <1>1. Within(w, r) /\ N \subseteq DOMAIN w.node /\ r.link = w.link
    BY SameWithin DEF Distinct, NodeGone
  <1>2. \A m \in N2 : m \in N /\ m \in DOMAIN w.node /\ r.node[m] = w.node[m] /\ w.node[m].name # w.node[n].name
    BY <1>1 DEF NodeGone, Distinct
  <1>3. OwnIntfs(w, n) = {}
    BY <1>1, NoOwnIntfs DEF Whole
  <1>4. Up(r, N2)
    <2> SUFFICES ASSUME NEW m \in N2
                 PROVE  r.node[m].shell /\ r.node[m].name \in r.proc
      BY DEF Up
    <2>1. w.node[m].shell /\ w.node[m].name \in w.proc
      BY <1>2 DEF Whole, Up
    <2> QED
      BY <1>2, <2>1 DEF NodeGone, ProcsOfOthers
  <1>5. PortsIn(r, N2, L)
    BY <1>2 DEF Whole, PortsIn
  <1>6. ASSUME NEW l \in L PROVE Joint(r, l, N2)
    <2>1. /\ l \in DOMAIN w.link /\ Joint(w, l, N) /\ Pair(w, l) \in w.veth
          /\ JointAt(w, l, 1, N) /\ JointAt(w, l, 2, N) /\ n # w.link[l].n[1] /\ n # w.link[l].n[2]
      BY DEF Whole, Joint
    <2>2. JointAt(w, l, 1, N2) /\ JointAt(w, l, 2, N2)
      BY <2>1 DEF JointAt
    <2>3. Joint(w, l, N2)
      BY <2>1, <2>2 DEF Joint
    <2>4. End(w, <<l, 1>>)[1] # w.node[n].name /\ End(w, <<l, 2>>)[1] # w.node[n].name
      BY <2>1, EndElsewhere
    <2>5. Pair(w, l) \in WithoutNamespaces(w.veth, {w.node[n].name})
      BY <2>1, <2>4 DEF Pair, WithoutNamespaces
    <2>6. Pair(w, l) \in r.veth
      BY <1>3, <2>1, <2>5 DEF NodeGone, PairsOfOthers
    <2>7. \A m \in N2 : r.node[m].intfs = w.node[m].intfs /\ r.node[m].ports = w.node[m].ports
      BY <1>2
    <2> QED
      BY <1>1, <2>1, <2>3, <2>6, <2>7, JointKept
  <1> QED
    BY <1>4, <1>5, <1>6 DEF Whole

\* A network whose links are whole deletes one without an exception.
LEMMA WholeTells ==
    ASSUME NEW w, Shape(w), NEW N, N \subseteq DOMAIN w.node, NEW l, Joint(w, l, N), NEW s \in {1, 2}
    PROVE  w.link[l].known[s] /\ ~DelIntfRaises(w.node[w.link[l].n[s]], <<l, s>>)
  <1>1. PICK n, p, i : n = w.link[l].n[s] /\ p = w.link[l].p[s] /\ i = <<l, s>>
    OBVIOUS
  <1>2. JointAt(w, l, s, N)
    BY DEF Joint
  <1>3. w.link[l].known[s] /\ n \in DOMAIN w.node /\ p \in DOMAIN w.node[n].intfs /\ w.node[n].intfs[p] = i
    BY <1>1, <1>2 DEF JointAt
  <1>4. NodeShape(w.node[n], n, w.link)
    BY <1>3 DEF Shape
  <1>5. w.node[n].ports[i] = p
    BY <1>3, <1>4 DEF NodeShape, Maps
  <1> QED
    BY <1>1, <1>3, <1>5 DEF DelIntfRaises

(* All other nodes have no interface.  *)
\* More nodes of the network.
LEMMA BareNode ==
    ASSUME NEW w, NEW N, BareBut(w, N), NEW r, NEW name, NEW kind, NEW ip, NEW k,
           NodeMade(w, name, kind, ip, k, r), NEW N2, N2 = N \cup {k + 1}
    PROVE  BareBut(r, N2)
  <1>1. PICK m : m = k + 1
    OBVIOUS
  <1>2. DOMAIN r.node = DOMAIN w.node \cup {m} /\ \A n \in DOMAIN w.node : r.node[n] = w.node[n]
    BY <1>1 DEF NodeMade
  <1> QED
    BY <1>1, <1>2 DEF BareBut

\* A link between nodes of the network.
LEMMA BareJoined ==
    ASSUME NEW w, NEW N, BareBut(w, N), NEW r, NEW a \in N, NEW b \in N,
           NEW p1, NEW p2, NEW l, Joins(w, a, b, p1, p2, l, r)
    PROVE  BareBut(r, N)
  BY DEF Joins, BareBut

\* A link that is deleted.
LEMMA BareUnlinked ==
    ASSUME NEW w, Shape(w), NEW N, BareBut(w, N), NEW r, Same(w, r), NEW l \in DOMAIN w.link,
           LinkGone(w, l, r)
    PROVE  BareBut(r, N)
  <1> SUFFICES ASSUME NEW n \in DOMAIN w.node \ N
               PROVE  Range(r.node[n].intfs) \subseteq {Lo}
    BY DEF BareBut, Same
  <1>1. Range(r.node[n].intfs) \subseteq Range(w.node[n].intfs)
    BY NodeShrunk
  <1> QED
    BY <1>1 DEF BareBut

\* The interfaces as they were.
LEMMA BareSame ==
    ASSUME NEW w, NEW N, BareBut(w, N), NEW r, DOMAIN r.node = DOMAIN w.node,
           \A n \in DOMAIN w.node : r.node[n].intfs = w.node[n].intfs
    PROVE  BareBut(r, N)
  BY DEF BareBut

(***************************************************************************)
(* What is in the system belongs to the network until it stops, and, as    *)
(* long as every call returned, nothing of the network is missing.         *)
(***************************************************************************)
Resting == {"build", "idle", "start", "wait"}
InCall == Resting \cup {"stop links", "stop hosts", "stopped"}

(* The nodes that may still run, the links and the switches that may still be there. *)
Owners == IF phase = "stop hosts" THEN Range(todo) ELSE IF phase = "stopped" THEN {} ELSE Range(named)
LinksThere ==
    IF phase = "stop links" THEN Range(todo)
    ELSE IF phase \in {"stop hosts", "stopped"} THEN {} ELSE Range(links)
SwitchesThere == IF phase \in {"stop hosts", "stopped"} THEN {} ELSE Range(switches)

Belongs(w, N, P, L, B) == Ours(w, N, P, L, B) /\ BareBut(w, N)
Watched == history.clean /\ phase \in InCall /\ (history.tidy \/ history.failed = "nothing")
Kept == Watched => Belongs(World, Range(named), Owners, LinksThere, SwitchesThere)
Tidy ==
    history.tidy =>
        /\ history.failed \notin {"stop", "remove"}
        /\ phase \in Resting \cup {"stop links"} => Whole(World, Range(named), LinksThere)
Cleaned == phase = "cleaned" => proc = {} /\ veth = {} /\ DOMAIN bridge = {}
HistoryFields == {"tidy", "clean", "failed", "started", "calls", "removals", "troubles", "runs"}
IsNote(h) == h = [f \in HistoryFields |-> h[f]]
Note(h) ==
    /\ IsNote(h)
    /\ h.tidy \in BOOLEAN /\ h.clean \in BOOLEAN /\ h.started \in BOOLEAN
    /\ h.calls \in Nat /\ h.removals \in Nat /\ h.troubles \in Nat /\ h.runs \in Nat
Noted == Note(history) /\ (phase = "build" => ~history.started)
Orderly == Kept /\ Tidy /\ Cleaned /\ Noted

(* What the lists say of the world at rest.  *)
OwnsAll == Belongs(World, Range(named), Range(named), Range(links), Range(switches))
HasAll == Whole(World, Range(named), Range(links))

\* At rest, the lists say what there is.
LEMMA AtRest ==
    ASSUME Orderly, phase \in Resting
    PROVE  /\ Watched => OwnsAll
           /\ history.tidy => HasAll /\ history.failed \notin {"stop", "remove"}
  <1>1. Owners = Range(named) /\ LinksThere = Range(links) /\ SwitchesThere = Range(switches)
    BY DEF Resting, Owners, LinksThere, SwitchesThere
  <1> QED
    BY <1>1 DEF Orderly, Kept, Tidy, OwnsAll, HasAll

\* And again after a step.
LEMMA RestsAgain ==
    ASSUME phase' \in Resting, Noted', Watched' => OwnsAll',
           history'.tidy => HasAll' /\ history'.failed \notin {"stop", "remove"}
    PROVE  Orderly'
  <1>1. /\ Owners' = Range(named') /\ LinksThere' = Range(links') /\ SwitchesThere' = Range(switches')
        /\ phase' # "cleaned"
    BY DEF Resting, Owners, LinksThere, SwitchesThere
  <1>2. Kept'
    BY <1>1 DEF Kept, OwnsAll
  <1>3. Tidy'
    BY <1>1 DEF Tidy, HasAll
  <1> QED
    BY <1>1, <1>2, <1>3 DEF Orderly, Cleaned

\* A program that ends has nothing to keep, but to clean up.
LEMMA EndsOrderly ==
    ASSUME phase' \in {"exiting", "exited", "cleaned"}, Note(history'),
           history'.tidy => history'.failed \notin {"stop", "remove"},
           phase' = "cleaned" => proc' = {} /\ veth' = {} /\ DOMAIN bridge' = {}
    PROVE  Orderly'
  <1>1. Kept' /\ Tidy'
    BY DEF Kept, Tidy, Watched, InCall, Resting
  <1> QED
    BY <1>1 DEF Orderly, Cleaned, Noted

\* What the lists say does not change with what they do not mention.
LEMMA AllTheSame ==
    ASSUME UNCHANGED <<node, link, veth, bridge, proc, links, switches, named>>
    PROVE  (OwnsAll => OwnsAll') /\ (HasAll => HasAll')
  <1>1. World' = World
    BY DEF World
  <1> QED
    BY <1>1 DEF OwnsAll, HasAll

\* The note of the fields that a call changes.
LEMMA NoteFailed ==
    ASSUME Noted, NEW what, history' = [history EXCEPT !.failed = what]
    PROVE  /\ Note(history') /\ history'.failed = what /\ history'.tidy = history.tidy
           /\ history'.clean = history.clean /\ history'.started = history.started
           /\ history'.calls = history.calls /\ history'.removals = history.removals
  BY DEF Noted, Note, IsNote, HistoryFields

\* The note of another call.
LEMMA NoteCall ==
    ASSUME Noted, NEW building \in BOOLEAN,
           history' = [history EXCEPT !.calls = IF building THEN @ ELSE @ + 1]
    PROVE  /\ Note(history') /\ history'.failed = history.failed /\ history'.tidy = history.tidy
           /\ history'.clean = history.clean /\ history'.started = history.started
           /\ history'.calls = IF building THEN history.calls ELSE history.calls + 1
           /\ history'.removals = history.removals
  BY DEF Noted, Note, IsNote, HistoryFields

\* The note of a start.
LEMMA NoteStarted ==
    ASSUME Noted, history' = [history EXCEPT !.started = TRUE]
    PROVE  /\ Note(history') /\ history'.failed = history.failed /\ history'.tidy = history.tidy
           /\ history'.clean = history.clean /\ history'.started = TRUE
           /\ history'.calls = history.calls /\ history'.removals = history.removals
  BY DEF Noted, Note, IsNote, HistoryFields

\* The note of a removal.
LEMMA NoteRemoval ==
    ASSUME Noted, NEW well, NEW what,
           history' = [history EXCEPT !.calls = @ + 1, !.removals = @ + 1,
                                      !.tidy = well, !.failed = what],
           well \in BOOLEAN
    PROVE  /\ Note(history') /\ history'.failed = what /\ history'.tidy = well
           /\ history'.clean = history.clean /\ history'.started = history.started
           /\ history'.calls = history.calls + 1 /\ history'.removals = history.removals + 1
  <1>1. /\ history'.tidy = well /\ history'.failed = what
        /\ history'.clean = history.clean /\ history'.started = history.started
        /\ history'.calls = history.calls + 1 /\ history'.removals = history.removals + 1
        /\ history'.troubles = history.troubles /\ history'.runs = history.runs
        /\ IsNote(history')
    BY DEF Noted, Note, IsNote, HistoryFields
  <1>2. history'.tidy \in BOOLEAN
    BY <1>1
  <1>3. /\ history.clean \in BOOLEAN /\ history.started \in BOOLEAN
        /\ history.calls \in Nat /\ history.removals \in Nat /\ history.troubles \in Nat
        /\ history.runs \in Nat
    BY DEF Noted, Note
  <1>4. history'.clean \in BOOLEAN /\ history'.started \in BOOLEAN
    BY <1>1, <1>3
  <1>5. /\ history'.calls \in Nat /\ history'.removals \in Nat /\ history'.troubles \in Nat
        /\ history'.runs \in Nat
    BY <1>1, <1>3
  <1>6. Note(history')
    BY <1>1, <1>2, <1>4, <1>5 DEF Note
  <1> QED
    BY <1>1, <1>6

\* The note of trouble from outside.
LEMMA NoteTrouble ==
    ASSUME Noted, history' = [history EXCEPT !.troubles = @ + 1, !.tidy = FALSE]
    PROVE  /\ Note(history') /\ history'.failed = history.failed /\ ~history'.tidy
           /\ history'.clean = history.clean /\ history'.started = history.started
           /\ history'.calls = history.calls /\ history'.removals = history.removals
  <1>1. /\ history'.tidy = FALSE /\ history'.failed = history.failed
        /\ history'.clean = history.clean /\ history'.started = history.started
        /\ history'.calls = history.calls /\ history'.removals = history.removals
        /\ history'.troubles = history.troubles + 1 /\ history'.runs = history.runs
        /\ IsNote(history')
    BY DEF Noted, Note, IsNote, HistoryFields
  <1>2. history'.tidy \in BOOLEAN /\ ~history'.tidy
    BY <1>1
  <1>3. /\ history.clean \in BOOLEAN /\ history.started \in BOOLEAN
        /\ history.calls \in Nat /\ history.removals \in Nat /\ history.troubles \in Nat
        /\ history.runs \in Nat
    BY DEF Noted, Note
  <1>4. history'.clean \in BOOLEAN /\ history'.started \in BOOLEAN
    BY <1>1, <1>3
  <1>5. /\ history'.calls \in Nat /\ history'.removals \in Nat /\ history'.troubles \in Nat
        /\ history'.runs \in Nat
    BY <1>1, <1>3
  <1>6. Note(history')
    BY <1>1, <1>2, <1>4, <1>5 DEF Note
  <1> QED
    BY <1>1, <1>2, <1>6

\* The note of a switch that lost its controller.
LEMMA NoteDisconnected ==
    ASSUME Noted, history' = [history EXCEPT !.troubles = @ + 1]
    PROVE  /\ Note(history') /\ history'.failed = history.failed /\ history'.tidy = history.tidy
           /\ history'.clean = history.clean /\ history'.started = history.started
           /\ history'.calls = history.calls /\ history'.removals = history.removals
  BY DEF Noted, Note, IsNote, HistoryFields

\* What the lists of the program are in the world.
LEMMA ListedInWorld ==
    ASSUME Sound
    PROVE  /\ Shape(World) /\ Distinct(World, Range(named))
           /\ Range(named) \subseteq DOMAIN World.node /\ Range(links) \subseteq DOMAIN World.link
           /\ Range(switches) \subseteq Range(named) /\ Range(hosts) \subseteq Range(named)
           /\ \A m \in Range(switches) : World.node[m].kind = "switch"
  <1>1. Shape(World) /\ NodesListed(node, hosts, switches, named) /\ Range(links) \subseteq DOMAIN link
    BY DEF Sound, ShapeNow, Lists, LinksListed
  <1>2. World.node = node /\ World.link = link
    BY WorldIs
  <1>3. ASSUME NEW n \in Range(named) PROVE n \in DOMAIN node /\ named[node[n].name] = n
    BY <1>1 DEF NodesListed, Range
  <1>4. Distinct(World, Range(named))
    BY <1>2, <1>3 DEF Distinct
  <1> QED
    BY <1>1, <1>2, <1>3, <1>4 DEF NodesListed

\* The history that says what it said.
SameNote == /\ Note(history') /\ history'.failed = history.failed /\ history'.tidy = history.tidy
            /\ history'.clean = history.clean /\ history'.started = history.started
\* A call that returns, or a step of one.
LEMMA OnlyWatched ==
    ASSUME Noted, SameNote, phase \in Resting
    PROVE  Watched' => Watched
  BY DEF SameNote, Watched, InCall, Resting

\* A step at rest, with nothing to tell.
LEMMA OrderlyQuiet ==
    ASSUME Orderly, SameNote, phase \in Resting, phase' \in Resting, phase' = "build" => phase = "build",
           UNCHANGED <<node, link, veth, bridge, proc, links, switches, named>>
    PROVE  Orderly'
  <1>1. /\ Watched => OwnsAll
        /\ history.tidy => HasAll /\ history.failed \notin {"stop", "remove"}
    BY AtRest
  <1>2. /\ Watched' => Watched
        /\ Noted'
    BY OnlyWatched DEF Orderly, Noted, SameNote
  <1>3. Watched' => OwnsAll'
    BY <1>1, <1>2, AllTheSame
  <1>4. history'.tidy => HasAll' /\ history'.failed \notin {"stop", "remove"}
    BY <1>1, AllTheSame DEF SameNote
  <1> QED
    BY <1>2, <1>3, <1>4, RestsAgain

\* A node that is created.
LEMMA OrderlyNode ==
    ASSUME Sound, Orderly, SameNote, phase \in {"build", "idle"}, phase' = phase, NEW nd, NEW k,
           NodeCreated(nd, k), NEW next, CreateNode(nd, next)
    PROVE  Orderly'
  <1>1. /\ Shape(World) /\ Range(named) \subseteq DOMAIN World.node
        /\ Range(links) \subseteq DOMAIN World.link /\ Range(switches) \subseteq Range(named)
    BY ListedInWorld
  <1>2. phase \in Resting /\ phase' \in Resting
    BY DEF Resting
  <1>3. /\ Watched => OwnsAll
        /\ history.tidy => HasAll /\ history.failed \notin {"stop", "remove"}
    BY <1>2, AtRest
  <1>4. PICK ip : NodeMade(World, nd.name, nd.kind, ip, k, World')
    BY DEF NodeCreated
  <1>5. PICK N2 : N2 = Range(named) \cup {k + 1}
    OBVIOUS
  <1>6. /\ World'.veth = World.veth /\ World'.bridge = World.bridge
        /\ World'.proc = World.proc \cup {nd.name}
    BY WorldIs, WorldThen DEF CreateNode
  <1>7. /\ Range(named') = N2 /\ links' = links /\ Range(switches) \subseteq Range(switches')
    BY <1>5 DEF NodeCreated, NameMore, CreateNode
  <1>8. OwnsAll => OwnsAll'
    <2>1. SUFFICES ASSUME OwnsAll PROVE OwnsAll'
      OBVIOUS
    <2>2. PICK L : L = Range(links)
      OBVIOUS
    <2>3. /\ Ours(World, Range(named), Range(named), L, Range(switches))
          /\ BareBut(World, Range(named))
      BY <2>1, <2>2 DEF OwnsAll, Belongs
    <2>4. Ours(World', N2, N2, L, Range(switches'))
      BY <1>1, <1>4, <1>5, <1>6, <1>7, <2>2, <2>3, OursNode
    <2>5. BareBut(World', N2)
      BY <1>4, <1>5, <2>3, BareNode
    <2> QED
      BY <1>7, <2>2, <2>4, <2>5 DEF OwnsAll, Belongs
  <1>9. HasAll => HasAll'
    <2>1. SUFFICES ASSUME HasAll PROVE HasAll'
      OBVIOUS
    <2>2. PICK L : L = Range(links)
      OBVIOUS
    <2>3. Whole(World, Range(named), L)
      BY <2>1, <2>2 DEF HasAll
    <2>4. Whole(World', N2, L)
      BY <1>1, <1>4, <1>5, <1>6, <2>2, <2>3, WholeNode
    <2> QED
      BY <1>7, <2>2, <2>4 DEF HasAll
  <1>10. /\ Watched' => Watched
         /\ Noted'
    BY <1>2, OnlyWatched DEF Orderly, Noted, SameNote
  <1>11. history'.tidy => HasAll' /\ history'.failed \notin {"stop", "remove"}
    BY <1>3, <1>9 DEF SameNote
  <1> QED
    BY <1>2, <1>3, <1>8, <1>10, <1>11, RestsAgain

\* BuildNode, AddNodeCall.
LEMMA OrderlyBuildNode ==
    ASSUME Sound, Orderly, BuildNode
    PROVE  Orderly'
  <1>1. CASE Fails("build")
    <2>1. phase' = "exiting" /\ history' = [history EXCEPT !.failed = "build"]
      BY <1>1 DEF Fails, BuildNode
    <2>2. Note(history') /\ history'.failed = "build"
      BY <2>1, NoteFailed DEF Orderly
    <2> QED
      BY <2>1, <2>2, EndsOrderly
  <1>2. CASE /\ \E k \in Nat : NodeCreated(todo[1].of, k)
             /\ CreateNode(todo[1].of, Tail(todo)) /\ NodeJob(todo[1].of, named)
             /\ phase = "build" /\ phase' = "build" /\ history' = history
    <2>1. SameNote
      BY <1>2 DEF SameNote, Orderly, Noted
    <2> QED
      BY <1>2, <2>1, OrderlyNode
  <1> QED
    BY <1>1, <1>2, BuildNodeDoes

\* addHost() and addSwitch() keep it.
LEMMA OrderlyAddNode ==
    ASSUME Sound, Orderly, NEW nd \in Names, AddNodeCall(nd)
    PROVE  Orderly'
  <1>1. MayChange /\ (\E k \in Nat : NodeCreated(nd, k)) /\ CreateNode(nd, <<>>)
    BY AddNodeCallDoes
  <1>2. phase = "idle" /\ phase' = phase
    BY <1>1 DEF MayChange, CreateNode
  <1>3. history' = [history EXCEPT !.calls = IF FALSE THEN @ ELSE @ + 1]
    BY DEF AddNodeCall, Called
  <1>4. SameNote
    BY <1>3, NoteCall DEF SameNote, Orderly
  <1> QED
    BY <1>1, <1>2, <1>4, OrderlyNode

\* A link that is made, or not.
LEMMA OrderlyJoined ==
    ASSUME Sound, Orderly, phase \in {"build", "idle"}, NEW next, NEW a \in Range(named), NEW b \in Range(named),
           node[a].name # node[b].name, NEW port1, NEW port2, NEW p1, NEW p2, NEW l,
           Connected(a, b, port1, port2, p1, p2, l, next)
    PROVE  Orderly'
  <1>1. /\ Shape(World) /\ Range(named) \subseteq DOMAIN World.node /\ Distinct(World, Range(named))
        /\ Range(links) \subseteq DOMAIN World.link /\ Range(switches) \subseteq Range(named)
    BY ListedInWorld
  <1>2. phase \in Resting /\ phase' \in Resting
    BY DEF Resting, Connected
  <1>3. /\ Watched => OwnsAll
        /\ history.tidy => HasAll /\ history.failed \notin {"stop", "remove"}
    BY <1>2, AtRest
  <1>4. /\ Shape(World') /\ Joins(World, a, b, p1, p2, l, World')
        /\ switches' = switches /\ named' = named /\ phase' = phase
        /\ links' = Append(links, l) /\ UNCHANGED <<hosts, nextIP>>
    BY DEF Connected, ShapeNow
  <1>5. Range(links') = Range(links) \cup {l}
    BY <1>4, ListsJoined DEF Sound
  <1>6. World.node[a].name # World.node[b].name /\ a # b
    BY WorldIs
  <1>7. Within(World, World')
    BY <1>1, <1>4 DEF Joins, Within
  <1>8. OwnsAll => OwnsAll'
    <2>1. SUFFICES ASSUME OwnsAll PROVE OwnsAll'
      OBVIOUS
    <2>2. PICK L, N, B : L = Range(links) /\ N = Range(named) /\ B = Range(switches)
      OBVIOUS
    <2>3. Ours(World, N, N, L, B) /\ BareBut(World, N)
      BY <2>1, <2>2 DEF OwnsAll, Belongs
    <2>4. Ours(World', N, N, L \cup {l}, B)
      BY <1>1, <1>4, <1>6, <2>2, <2>3, OursJoined
    <2>5. BareBut(World', N)
      BY <1>4, <2>2, <2>3, BareJoined
    <2> QED
      BY <1>4, <1>5, <2>2, <2>4, <2>5 DEF OwnsAll, Belongs
  <1>9. HasAll => HasAll'
    <2>1. SUFFICES ASSUME HasAll PROVE HasAll'
      OBVIOUS
    <2>2. PICK L, N, K : L = Range(links) /\ N = Range(named) /\ K = L \cup {l}
      OBVIOUS
    <2>3. Whole(World, N, L)
      BY <2>1, <2>2 DEF HasAll
    <2>4. Whole(World', N, K)
      BY <1>1, <1>4, <1>6, <1>7, <2>2, <2>3, WholeJoined
    <2> QED
      BY <1>4, <1>5, <2>2, <2>4 DEF HasAll
  <1>10. SameNote
    <2>1. PICK building \in BOOLEAN : building = (phase = "build")
      OBVIOUS
    <2>2. history' = [history EXCEPT !.calls = IF building THEN @ ELSE @ + 1]
      BY <2>1 DEF Connected
    <2> QED
      BY <2>2, NoteCall DEF SameNote, Orderly
  <1>11. /\ Watched' => Watched
         /\ Noted'
    BY <1>2, <1>4, <1>10, OnlyWatched DEF Orderly, Noted, SameNote
  <1>12. history'.tidy => HasAll' /\ history'.failed \notin {"stop", "remove"}
    BY <1>3, <1>9, <1>10 DEF SameNote
  <1> QED
    BY <1>2, <1>3, <1>8, <1>11, <1>12, RestsAgain

\* An exception while building ends the program; at rest nothing happened.
LEMMA OrderlyFails ==
    ASSUME Orderly, phase \in {"build", "idle"}, Fails(phase)
    PROVE  Orderly'
  <1>1. /\ history' = [history EXCEPT !.failed = phase]
        /\ phase' = IF phase = "build" THEN "exiting" ELSE phase
        /\ UNCHANGED <<node, link, lists, todo, system, up, wait>>
    BY DEF Fails
  <1>2. /\ Note(history') /\ history'.failed = phase /\ history'.tidy = history.tidy
        /\ history'.clean = history.clean /\ history'.started = history.started
    BY <1>1, NoteFailed DEF Orderly
  <1>3. CASE phase = "build"
    BY <1>1, <1>2, <1>3, EndsOrderly
  <1>4. CASE phase = "idle"
    <2>1. phase \in Resting /\ phase' \in Resting /\ phase' # "build"
      BY <1>1, <1>4 DEF Resting
    <2>2. /\ Watched => OwnsAll
          /\ history.tidy => HasAll /\ history.failed \notin {"stop", "remove"}
      BY <2>1, AtRest
    <2>3. Watched' => Watched
      BY <1>1, <1>2, <1>4 DEF Watched
    <2>4. (OwnsAll => OwnsAll') /\ (HasAll => HasAll')
      BY <1>1, AllTheSame DEF lists, system
    <2>5. Noted'
      BY <1>2, <2>1 DEF Noted
    <2>6. history'.tidy => HasAll' /\ history'.failed \notin {"stop", "remove"}
      BY <1>2, <1>4, <2>2, <2>4
    <2> QED
      BY <2>1, <2>2, <2>3, <2>4, <2>5, <2>6, RestsAgain
  <1> QED
    BY <1>3, <1>4

\* A link between two nodes of the network.
LEMMA OrderlyLinkCall ==
    ASSUME Sound, Orderly, phase \in {"build", "idle"}, NEW next, LinkCall(next)
    PROVE  Orderly'
  <1>1. CASE CutShort(next)
    <2>1. phase' = "exiting" /\ history' = [history EXCEPT !.failed = phase]
      BY <1>1 DEF CutShort
    <2>2. Note(history') /\ history'.failed = phase
      BY <2>1, NoteFailed DEF Orderly
    <2> QED
      BY <2>1, <2>2, EndsOrderly
  <1>2. ASSUME NEW a \in Range(named), NEW b \in Range(named), NEW port1, NEW port2,
               NEW p1, NEW p2, NEW l, Connected(a, b, port1, port2, p1, p2, l, next),
               node[a].name # node[b].name
        PROVE  Orderly'
    BY <1>2, OrderlyJoined
  <1> QED
    BY <1>1, <1>2, OrderlyFails DEF LinkCall

\* configHosts().
LEMMA OrderlyConfig ==
    ASSUME Sound, Orderly, BuildConfig
    PROVE  Orderly'
  <1>1. /\ Addressed(World, World') /\ Same(World, World')
        /\ UNCHANGED <<link, veth, bridge, proc, lists, history>> /\ phase = "build" /\ phase' = "idle"
    BY BuildConfigDoes
  <1>2. /\ Shape(World) /\ Range(named) \subseteq DOMAIN World.node
        /\ Range(links) \subseteq DOMAIN World.link /\ Range(switches) \subseteq Range(named)
    BY ListedInWorld
  <1>3. phase \in Resting /\ phase' \in Resting /\ phase' # "build"
    BY <1>1 DEF Resting
  <1>4. /\ Watched => OwnsAll
        /\ history.tidy => HasAll /\ history.failed \notin {"stop", "remove"}
    BY <1>3, AtRest
  <1>5. PICK w, r : w = World /\ r = World'
    OBVIOUS
  <1>6. /\ Within(w, r) /\ DOMAIN r.node = DOMAIN w.node /\ r.link = w.link
        /\ r.veth = w.veth /\ r.bridge = w.bridge /\ r.proc = w.proc
        /\ \A n \in DOMAIN w.node : /\ r.node[n].shell = w.node[n].shell
                                    /\ r.node[n].intfs = w.node[n].intfs
                                    /\ r.node[n].ports = w.node[n].ports
    BY <1>1, <1>5, WorldIs, WorldThen, SameWithin DEF Addressed
  <1>7. PICK L, N, B : L = Range(links) /\ N = Range(named) /\ B = Range(switches)
    OBVIOUS
  <1>8. L = Range(links') /\ N = Range(named') /\ B = Range(switches')
    BY <1>1, <1>7 DEF lists
  <1>9. OwnsAll => OwnsAll'
    <2>1. SUFFICES ASSUME OwnsAll PROVE OwnsAll'
      OBVIOUS
    <2>2. Ours(w, N, N, L, B) /\ BareBut(w, N)
      BY <1>5, <1>7, <2>1 DEF OwnsAll, Belongs
    <2>3. Shape(w) /\ N \subseteq DOMAIN w.node /\ B \subseteq DOMAIN w.node /\ L \subseteq DOMAIN w.link
      BY <1>2, <1>5, <1>7
    <2>4. Ours(r, N, N, L, B)
      BY <1>6, <2>2, <2>3, OursSame
    <2>5. BareBut(r, N)
      BY <1>6, <2>2, BareSame
    <2> QED
      BY <1>5, <1>8, <2>4, <2>5 DEF OwnsAll, Belongs
  <1>10. HasAll => HasAll'
    <2>1. SUFFICES ASSUME HasAll PROVE HasAll'
      OBVIOUS
    <2>2. Whole(w, N, L)
      BY <1>5, <1>7, <2>1 DEF HasAll
    <2>3. Shape(w) /\ N \subseteq DOMAIN w.node /\ L \subseteq DOMAIN w.link
      BY <1>2, <1>5, <1>7
    <2>4. Whole(r, N, L)
      BY <1>6, <2>2, <2>3, WholeSame
    <2> QED
      BY <1>5, <1>8, <2>4 DEF HasAll
  <1>11. SameNote
    BY <1>1 DEF SameNote, Orderly, Noted
  <1>12. /\ Watched' => Watched
         /\ Noted'
    BY <1>3, <1>11, OnlyWatched DEF Orderly, Noted, SameNote
  <1>13. history'.tidy => HasAll' /\ history'.failed \notin {"stop", "remove"}
    BY <1>4, <1>10, <1>11 DEF SameNote
  <1> QED
    BY <1>3, <1>4, <1>9, <1>12, <1>13, RestsAgain

\* A switch whose bridge is made.
LEMMA OrderlyUp ==
    ASSUME Sound, Orderly, phase \in Resting, phase' = phase, NEW n \in Range(switches), SwitchUp(n)
    PROVE  Orderly'
  <1>1. /\ BridgeMade(World, n, World') /\ Same(World, World') /\ UNCHANGED <<lists, history>>
    BY DEF SwitchUp
  <1>2. /\ Shape(World) /\ Range(named) \subseteq DOMAIN World.node
        /\ Range(links) \subseteq DOMAIN World.link /\ Range(switches) \subseteq Range(named)
    BY ListedInWorld
  <1>4. /\ Watched => OwnsAll
        /\ history.tidy => HasAll /\ history.failed \notin {"stop", "remove"}
    BY AtRest
  <1>5. PICK w, r : w = World /\ r = World'
    OBVIOUS
  <1>6. /\ Within(w, r) /\ DOMAIN r.node = DOMAIN w.node /\ r.link = w.link
        /\ r.veth = w.veth /\ r.node = w.node /\ w.proc \subseteq r.proc
    BY <1>1, <1>5, SameWithin DEF BridgeMade
  <1>7. PICK L, N, B : L = Range(links) /\ N = Range(named) /\ B = Range(switches)
    OBVIOUS
  <1>8. L = Range(links') /\ N = Range(named') /\ B = Range(switches')
    BY <1>1, <1>7 DEF lists
  <1>9. OwnsAll => OwnsAll'
    <2>1. SUFFICES ASSUME OwnsAll PROVE OwnsAll'
      OBVIOUS
    <2>2. Ours(w, N, N, L, B) /\ BareBut(w, N)
      BY <1>5, <1>7, <2>1 DEF OwnsAll, Belongs
    <2>3. Shape(w) /\ N \subseteq DOMAIN w.node /\ B \subseteq N /\ L \subseteq DOMAIN w.link /\ n \in B
      BY <1>2, <1>5, <1>7
    <2>4. Ours(r, N, N, L, B)
      BY <1>1, <1>5, <2>2, <2>3, OursBridge
    <2>5. BareBut(r, N)
      BY <1>6, <2>2, BareSame
    <2> QED
      BY <1>5, <1>8, <2>4, <2>5 DEF OwnsAll, Belongs
  <1>10. HasAll => HasAll'
    <2>1. SUFFICES ASSUME HasAll PROVE HasAll'
      OBVIOUS
    <2>2. Whole(w, N, L)
      BY <1>5, <1>7, <2>1 DEF HasAll
    <2>3. Shape(w) /\ N \subseteq DOMAIN w.node /\ L \subseteq DOMAIN w.link
      BY <1>2, <1>5, <1>7
    <2>4. Whole(r, N, L)
      BY <1>6, <2>2, <2>3, WholeSame
    <2> QED
      BY <1>5, <1>8, <2>4 DEF HasAll
  <1>11. SameNote
    BY <1>1 DEF SameNote, Orderly, Noted
  <1>12. /\ Watched' => Watched
         /\ Noted'
    BY <1>11, OnlyWatched DEF Orderly, Noted, SameNote
  <1>13. history'.tidy => HasAll' /\ history'.failed \notin {"stop", "remove"}
    BY <1>4, <1>10, <1>11 DEF SameNote
  <1> QED
    BY <1>4, <1>9, <1>12, <1>13, RestsAgain

\* removeLink().
LEMMA OrderlyRemoveLink ==
    ASSUME Sound, Orderly, NEW l \in Range(links), RemoveLinkCall(l)
    PROVE  Orderly'
  <1>1. /\ MayChange /\ phase' = "idle" /\ UNCHANGED <<hosts, switches, named, nextIP>>
    BY RemoveLinkCallDoes
  <1>2. PICK raised \in BOOLEAN :
           /\ LinkOut(l, raised)
           /\ Range(links') = IF raised THEN Range(links) ELSE Range(links) \ {l}
           /\ history' = [history EXCEPT !.calls = @ + 1, !.removals = @ + 1,
                                         !.tidy = @ /\ ~raised,
                                         !.failed = IF raised THEN "remove" ELSE @]
    BY RemoveLinkCallDoes
  <1>3. phase \in Resting /\ phase' \in Resting /\ phase' # "build" /\ phase = "idle"
    BY <1>1 DEF Resting, MayChange
  <1>4. /\ Watched => OwnsAll
        /\ history.tidy => HasAll /\ history.failed \notin {"stop", "remove"}
    BY <1>3, AtRest
  <1>5. PICK well \in BOOLEAN : well = (history.tidy /\ ~raised)
    OBVIOUS
  <1>6. PICK what : what = IF raised THEN "remove" ELSE history.failed
    OBVIOUS
  <1>7. history' = [history EXCEPT !.calls = @ + 1, !.removals = @ + 1,
                                   !.tidy = well, !.failed = what]
    BY <1>2, <1>5, <1>6
  <1>8. /\ Note(history') /\ history'.failed = what /\ history'.tidy = well
        /\ history'.clean = history.clean /\ history'.started = history.started
    BY <1>7, NoteRemoval DEF Orderly
  <1>9. history'.tidy => history.tidy /\ ~raised
    BY <1>5, <1>8
  <1>10. Watched' => Watched /\ ~raised
    BY <1>3, <1>6, <1>8, <1>9 DEF Watched, InCall
  <1>11. PICK w, r, L, N, B, K : /\ w = World /\ r = World' /\ L = Range(links) /\ N = Range(named)
                                /\ B = Range(switches) /\ K = L \ {l}
    OBVIOUS
  <1>12. /\ Shape(w) /\ N \subseteq DOMAIN w.node /\ B \subseteq N /\ L \subseteq DOMAIN w.link /\ l \in L
         /\ Distinct(w, N) /\ Same(w, r) /\ B \subseteq DOMAIN w.node
    BY <1>2, <1>11, ListedInWorld DEF LinkOut
  <1>13. ~raised => LinkGone(w, l, r) /\ K = Range(links')
    BY <1>2, <1>11 DEF LinkOut
  <1>14. N = Range(named') /\ B = Range(switches')
    BY <1>1, <1>11
  <1>15. OwnsAll /\ ~raised => OwnsAll'
    <2>1. SUFFICES ASSUME OwnsAll, ~raised PROVE OwnsAll'
      OBVIOUS
    <2>2. Ours(w, N, N, L, B) /\ BareBut(w, N)
      BY <1>11, <2>1 DEF OwnsAll, Belongs
    <2>3. Ours(r, N, N, K, B)
      BY <1>11, <1>12, <1>13, <2>1, <2>2, OursUnlinked
    <2>4. BareBut(r, N)
      BY <1>12, <1>13, <2>1, <2>2, BareUnlinked
    <2> QED
      BY <1>11, <1>13, <1>14, <2>1, <2>3, <2>4 DEF OwnsAll, Belongs
  <1>16. HasAll /\ ~raised => HasAll'
    <2>1. SUFFICES ASSUME HasAll, ~raised PROVE HasAll'
      OBVIOUS
    <2>2. Whole(w, N, L)
      BY <1>11, <2>1 DEF HasAll
    <2>3. Whole(r, N, K)
      BY <1>11, <1>12, <1>13, <2>1, <2>2, WholeUnlinked
    <2> QED
      BY <1>11, <1>13, <1>14, <2>1, <2>3 DEF HasAll
  <1>17. Watched' => OwnsAll'
    BY <1>4, <1>10, <1>15
  <1>18. history'.tidy => HasAll' /\ history'.failed \notin {"stop", "remove"}
    BY <1>4, <1>6, <1>8, <1>9, <1>16
  <1>19. Noted'
    BY <1>3, <1>8 DEF Noted
  <1> QED
    BY <1>3, <1>17, <1>18, <1>19, RestsAgain

\* The ends of a link, one by one.
LEMMA EndsOfLink ==
    ASSUME NEW w, Shape(w), NEW l \in DOMAIN w.link, NEW n, n \notin Range(w.link[l].n)
    PROVE  n # w.link[l].n[1] /\ n # w.link[l].n[2]
  <1>1. IsLink(w.link[l])
    BY DEF Shape, LinkShape
  <1>2. PICK k : k = w.link[l].n
    OBVIOUS
  <1>3. k = [s \in {1, 2} |-> k[s]]
    BY <1>1, <1>2 DEF IsLink
  <1>4. 1 \in DOMAIN k /\ 2 \in DOMAIN k
    BY <1>3
  <1>5. k[1] \in Range(k) /\ k[2] \in Range(k)
    BY <1>4 DEF Range
  <1> QED
    BY <1>2, <1>5

\* removeHost(), delNode().
LEMMA OrderlyOut ==
    ASSUME Sound, Orderly, MayChange, phase' = "idle", NEW n \in Range(named), NodeOut(n)
    PROVE  Orderly'
  <1>1. /\ Same(World, World') /\ NodeGone(World, n, World')
        /\ Range(named') = Range(named) \ {n} /\ Range(switches') = Range(switches) \ {n}
        /\ links' = links
    BY DEF NodeOut
  <1>2. PICK well \in BOOLEAN : well = (history.tidy /\ \A l \in Range(links) : n \notin Range(link[l].n))
    OBVIOUS
  <1>3. phase \in Resting /\ phase' \in Resting /\ phase' # "build" /\ phase = "idle"
    BY DEF Resting, MayChange
  <1>4. /\ Watched => OwnsAll
        /\ history.tidy => HasAll /\ history.failed \notin {"stop", "remove"}
    BY <1>3, AtRest
  <1>5. history' = [history EXCEPT !.calls = @ + 1, !.removals = @ + 1,
                                   !.tidy = well, !.failed = history.failed]
    <2>1. history' = [history EXCEPT !.calls = @ + 1, !.removals = @ + 1, !.tidy = well]
      BY <1>2 DEF NodeOut
    <2> QED
      BY <2>1 DEF Orderly, Noted, Note, IsNote, HistoryFields
  <1>6. /\ Note(history') /\ history'.failed = history.failed /\ history'.tidy = well
        /\ history'.clean = history.clean /\ history'.started = history.started
    BY <1>5, NoteRemoval DEF Orderly
  <1>7. Watched' => Watched
    BY <1>2, <1>3, <1>6 DEF Watched, InCall
  <1>8. PICK w, r, L, N, B, N2, B2 :
           /\ w = World /\ r = World' /\ L = Range(links) /\ N = Range(named) /\ B = Range(switches)
           /\ N2 = N \ {n} /\ B2 = B \ {n}
    OBVIOUS
  <1>9. /\ Shape(w) /\ N \subseteq DOMAIN w.node /\ B \subseteq N /\ L \subseteq DOMAIN w.link /\ n \in N
        /\ Distinct(w, N) /\ \A m \in B : w.node[m].kind = "switch"
    BY <1>8, ListedInWorld
  <1>10. Same(w, r) /\ NodeGone(w, n, r) /\ N2 = Range(named') /\ B2 = Range(switches') /\ L = Range(links')
    BY <1>1, <1>8
  <1>11. OwnsAll => OwnsAll'
    <2>1. SUFFICES ASSUME OwnsAll PROVE OwnsAll'
      OBVIOUS
    <2>2. Ours(w, N, N, L, B) /\ BareBut(w, N)
      BY <1>8, <2>1 DEF OwnsAll, Belongs
    <2>3. Ours(r, N2, N2, L, B2) /\ BareBut(r, N2)
      <3>1. N2 = N \ {n} /\ B2 = B \ {n}
        BY <1>8
      <3>2. Same(w, r) /\ NodeGone(w, n, r)
        BY <1>10
      <3> QED
        BY <1>9, <2>2, <3>1, <3>2, OursBereft
    <2> QED
      BY <1>8, <1>10, <2>3 DEF OwnsAll, Belongs
  <1>12. HasAll /\ history'.tidy => HasAll'
    <2>1. SUFFICES ASSUME HasAll, history'.tidy PROVE HasAll'
      OBVIOUS
    <2>2. Whole(w, N, L)
      BY <1>8, <2>1 DEF HasAll
    <2>3. \A l \in L : n \notin Range(w.link[l].n)
      BY <1>2, <1>6, <1>8, <2>1, WorldIs
    <2>4. \A l \in L : n # w.link[l].n[1] /\ n # w.link[l].n[2]
      BY <1>9, <2>3, EndsOfLink
    <2>5. Whole(r, N2, L)
      BY <1>8, <1>9, <1>10, <2>2, <2>4, WholeBereft
    <2> QED
      BY <1>8, <1>10, <2>5 DEF HasAll
  <1>13. history'.tidy => HasAll' /\ history'.failed \notin {"stop", "remove"}
    BY <1>2, <1>4, <1>6, <1>12
  <1>14. Noted'
    BY <1>3, <1>6 DEF Noted
  <1> QED
    BY <1>3, <1>4, <1>7, <1>11, <1>13, <1>14, RestsAgain

\* start().
LEMMA OrderlyStart ==
    ASSUME Sound, Orderly, StartCall
    PROVE  Orderly'
  <1>1. /\ phase = "idle" /\ phase' = "start" /\ history' = [history EXCEPT !.started = TRUE]
        /\ UNCHANGED <<node, link, lists, system>>
    BY DEF StartCall
  <1>2. /\ Note(history') /\ history'.failed = history.failed /\ history'.tidy = history.tidy
        /\ history'.clean = history.clean
    BY <1>1, NoteStarted DEF Orderly
  <1>3. phase \in Resting /\ phase' \in Resting /\ phase' # "build"
    BY <1>1 DEF Resting
  <1>4. /\ Watched => OwnsAll
        /\ history.tidy => HasAll /\ history.failed \notin {"stop", "remove"}
    BY <1>3, AtRest
  <1>5. (OwnsAll => OwnsAll') /\ (HasAll => HasAll')
    BY <1>1, AllTheSame DEF lists, system
  <1>6. Watched' => Watched
    BY <1>2, <1>3 DEF Watched, InCall
  <1>7. Noted' /\ (history'.tidy => HasAll' /\ history'.failed \notin {"stop", "remove"})
    BY <1>2, <1>3, <1>4, <1>5 DEF Noted
  <1> QED
    BY <1>3, <1>4, <1>5, <1>6, <1>7, RestsAgain

\* A switch that starts, in start() or later, keeps it.
LEMMA OrderlySwitches ==
    ASSUME Sound, Orderly, StartSwitch \/ \E n \in Range(switches) : StartLaterSwitch(n)
    PROVE  Orderly'
  <1>1. CASE StartSwitch
    <2>1. PICK n : SwitchUp(n) /\ n \in Range(switches)
      BY <1>1, StartSwitchDoes
    <2>2. phase \in Resting /\ phase' = phase
      BY <1>1, StartSwitchDoes DEF Resting
    <2> QED
      BY <2>1, <2>2, OrderlyUp
  <1>2. ASSUME NEW n \in Range(switches), StartLaterSwitch(n) PROVE Orderly'
    <2>1. SwitchUp(n) /\ phase = "idle" /\ phase' = "idle"
      BY <1>2, StartLaterSwitchDoes
    <2>2. phase \in Resting
      BY <2>1 DEF Resting
    <2> QED
      BY <2>1, <2>2, OrderlyUp
  <1> QED
    BY <1>1, <1>2

\* Steps at rest that change nothing of the network.
LEMMA OrderlyIdle ==
    ASSUME Sound, Orderly,
           \/ StartEnds \/ WaitLook \/ WaitRoundEnds
           \/ \E timed \in BOOLEAN : WaitCall(timed)
           \/ \E n \in DOMAIN node : Connects(n) \/ Disconnects(n)
    PROVE  Orderly'
  <1>1. ASSUME history' = history PROVE SameNote
    BY <1>1 DEF SameNote, Orderly, Noted
  <1>2. CASE StartEnds \/ WaitLook \/ WaitRoundEnds \/ \E timed \in BOOLEAN : WaitCall(timed)
    <2>1. /\ history' = history /\ phase \in Resting /\ phase' \in Resting /\ phase' # "build"
          /\ UNCHANGED <<node, link, veth, bridge, proc, links, switches, named>>
      BY <1>2 DEF StartEnds, WaitLook, WaitRoundEnds, WaitCall, Resting, lists, system
    <2> QED
      BY <1>1, <2>1, OrderlyQuiet
  <1>3. ASSUME NEW n \in DOMAIN node, Connects(n) PROVE Orderly'
    <2>1. /\ history' = history /\ phase \in Resting /\ phase' \in Resting /\ phase' # "build"
          /\ UNCHANGED <<node, link, veth, bridge, proc, links, switches, named>>
      BY <1>3 DEF Connects, Resting, lists, system
    <2> QED
      BY <1>1, <2>1, OrderlyQuiet
  <1>4. ASSUME NEW n \in DOMAIN node, Disconnects(n) PROVE Orderly'
    <2>1. /\ phase \in Resting /\ phase' \in Resting /\ phase' # "build"
          /\ UNCHANGED <<node, link, veth, bridge, proc, links, switches, named>>
          /\ history' = [history EXCEPT !.troubles = @ + 1]
      BY <1>4 DEF Disconnects, Resting, lists, system
    <2>2. SameNote
      BY <2>1, NoteDisconnected DEF SameNote, Orderly
    <2> QED
      BY <2>1, <2>2, OrderlyQuiet
  <1> QED
    BY <1>2, <1>3, <1>4

\* stop() begins with all links.
LEMMA OrderlyStop ==
    ASSUME Sound, Orderly, StopCall
    PROVE  Orderly'
  <1>1. /\ phase = "idle" /\ phase' = "stop links" /\ history' = history /\ todo' = links
        /\ UNCHANGED <<node, link, veth, bridge, proc, links, switches, named>>
    BY DEF StopCall, lists, system
  <1>2. phase \in Resting /\ phase \in InCall /\ phase' \in InCall
    BY <1>1 DEF Resting, InCall
  <1>3. /\ Watched => OwnsAll
        /\ history.tidy => HasAll /\ history.failed \notin {"stop", "remove"}
    BY <1>2, AtRest
  <1>4. (OwnsAll => OwnsAll') /\ (HasAll => HasAll')
    BY <1>1, AllTheSame
  <1>5. Owners' = Range(named') /\ LinksThere' = Range(links') /\ SwitchesThere' = Range(switches')
    BY <1>1 DEF Owners, LinksThere, SwitchesThere
  <1>6. Kept'
    BY <1>1, <1>2, <1>3, <1>4, <1>5 DEF Kept, Watched, OwnsAll
  <1>7. Tidy'
    BY <1>1, <1>3, <1>4, <1>5 DEF Tidy, HasAll
  <1> QED
    BY <1>1, <1>6, <1>7 DEF Orderly, Noted, Cleaned

\* A step of stop().
LEMMA StopsOn ==
    ASSUME Noted', phase' \in {"stop links", "stop hosts", "stopped"}, Kept',
           history'.tidy => history'.failed \notin {"stop", "remove"},
           phase' = "stop links" /\ history'.tidy => Whole(World', Range(named'), LinksThere')
    PROVE  Orderly'
  BY DEF Orderly, Tidy, Cleaned, Resting

\* stop(): one link.
LEMMA OrderlyStopLink ==
    ASSUME Sound, Orderly, StopLink
    PROVE  Orderly'
  <1>1. phase = "stop links" /\ UNCHANGED lists
    BY StopLinkDoes
  <1>2. PICK l, raised : LinkStopped(l, raised)
    BY StopLinkDoes
  <1>3. /\ LinkOut(l, raised) /\ l \in Range(todo) /\ l \in Range(links)
    BY <1>2 DEF LinkStopped
  <1>4. PICK w, r, L, N, B, K : /\ w = World /\ r = World' /\ L = Range(todo) /\ N = Range(named)
                                /\ B = Range(switches) /\ K = L \ {l}
    OBVIOUS
  <1>5. LinksThere = L /\ Owners = N /\ SwitchesThere = B /\ phase \in InCall
    BY <1>1, <1>4 DEF LinksThere, Owners, SwitchesThere, InCall
  <1>6. /\ Shape(w) /\ N \subseteq DOMAIN w.node /\ B \subseteq N /\ L \subseteq DOMAIN w.link /\ l \in L
        /\ Distinct(w, N) /\ Same(w, r) /\ B \subseteq DOMAIN w.node
    BY <1>1, <1>3, <1>4, ListedInWorld DEF LinkOut, Sound, Todo, Part
  <1>7. N = Range(named') /\ B = Range(switches')
    BY <1>1, <1>4 DEF lists
  <1>8. history.tidy => ~raised /\ Whole(w, N, L) /\ history.failed \notin {"stop", "remove"}
    <2>1. SUFFICES ASSUME history.tidy PROVE ~raised /\ Whole(w, N, L) /\ history.failed \notin {"stop", "remove"}
      OBVIOUS
    <2>2. Whole(w, N, L) /\ history.failed \notin {"stop", "remove"}
      BY <1>1, <1>4, <1>5, <2>1 DEF Orderly, Tidy
    <2>3. Joint(w, l, N)
      BY <1>6, <2>2 DEF Whole
    <2>4. \A s \in {1, 2} : w.link[l].known[s] /\ ~DelIntfRaises(w.node[w.link[l].n[s]], <<l, s>>)
      BY <1>6, <2>3, WholeTells
    <2>5. \A s \in {1, 2} : link[l].known[s] /\ ~DelIntfRaises(node[link[l].n[s]], <<l, s>>)
      BY <1>4, <2>4, WorldIs
    <2> QED
      BY <1>3, <2>2, <2>5 DEF LinkOut
  <1>9. CASE raised
    <2>1. phase' = "idle" /\ history' = [history EXCEPT !.failed = "stop"]
      BY <1>2, <1>9 DEF LinkStopped
    <2>2. /\ Note(history') /\ history'.failed = "stop" /\ history'.tidy = history.tidy
      BY <2>1, NoteFailed DEF Orderly
    <2>3. ~history'.tidy /\ ~Watched'
      BY <1>8, <1>9, <2>2 DEF Watched
    <2>4. phase' \in Resting /\ Noted'
      BY <2>1, <2>2 DEF Resting, Noted
    <2> QED
      BY <2>3, <2>4, RestsAgain
  <1>10. CASE ~raised
    <2>1. /\ phase' = "stop links" /\ history' = history /\ K = Range(todo') /\ LinkGone(w, l, r)
      BY <1>2, <1>3, <1>4, <1>10 DEF LinkStopped, LinkOut
    <2>2. LinksThere' = K /\ Owners' = N /\ SwitchesThere' = B
      BY <1>7, <2>1 DEF LinksThere, Owners, SwitchesThere
    <2>3. Kept'
      <3>1. SUFFICES ASSUME Watched' PROVE Belongs(r, N, N, K, B)
        BY <1>4, <1>7, <2>2 DEF Kept
      <3>2. Ours(w, N, N, L, B) /\ BareBut(w, N)
        BY <1>4, <1>5, <2>1, <3>1 DEF Watched, Orderly, Kept, Belongs
      <3>3. Ours(r, N, N, K, B)
        BY <1>4, <1>6, <2>1, <3>2, OursUnlinked
      <3>4. BareBut(r, N)
        BY <1>6, <2>1, <3>2, BareUnlinked
      <3> QED
        BY <3>3, <3>4 DEF Belongs
    <2>4. history'.tidy => Whole(World', Range(named'), LinksThere')
      <3>1. SUFFICES ASSUME history.tidy PROVE Whole(r, N, K)
        BY <1>4, <1>7, <2>1, <2>2
      <3>2. Whole(w, N, L)
        BY <1>8, <3>1
      <3> QED
        BY <1>4, <1>6, <2>1, <3>2, WholeUnlinked
    <2>5. Noted'
      BY <2>1 DEF Orderly, Noted
    <2> QED
      BY <1>8, <2>1, <2>3, <2>4, <2>5, StopsOn
  <1>11. raised \in BOOLEAN
    BY <1>3 DEF LinkOut
  <1> QED
    BY <1>9, <1>10, <1>11

\* stop(): the switches.
LEMMA OrderlyStopSwitches ==
    ASSUME Sound, Orderly, StopSwitches
    PROVE  Orderly'
  <1>1. /\ SwitchesDown /\ phase = "stop links" /\ todo = <<>>
        /\ phase' = "stop hosts" /\ todo' = hosts /\ UNCHANGED <<lists, history>>
    BY StopSwitchesDoes
  <1>2. PICK w, r, N, P, B : /\ w = World /\ r = World' /\ N = Range(named)
                             /\ B = Range(switches) /\ P = Range(hosts)
    OBVIOUS
  <1>3. LinksThere = {} /\ Owners = N /\ SwitchesThere = B /\ phase \in InCall
    <2>1. Range(todo) = {}
      BY <1>1, NothingIsList
    <2> QED
      BY <1>1, <1>2, <2>1 DEF LinksThere, Owners, SwitchesThere, InCall
  <1>4. LinksThere' = {} /\ Owners' = P /\ SwitchesThere' = {} /\ N = Range(named')
    BY <1>1, <1>2 DEF LinksThere, Owners, SwitchesThere, lists
  <1>5. /\ Shape(w) /\ N \subseteq DOMAIN w.node /\ B \subseteq N /\ P \subseteq N
        /\ w.node = node /\ w.proc = proc /\ w.veth = veth /\ w.bridge = bridge
        /\ r.node = node' /\ r.proc = proc' /\ r.veth = veth' /\ r.bridge = bridge'
    BY <1>2, ListedInWorld, WorldIs, WorldThen
  <1>6. N = P \cup B /\ P \cap B = {}
    BY <1>2 DEF Sound, Lists, NodesListed
  <1>7. /\ Same(w, r)
        /\ \A m \in DOMAIN w.node \ B : r.node[m] = w.node[m]
        /\ \A m \in B : r.node[m].shell = FALSE /\ r.node[m].intfs = w.node[m].intfs
        /\ r.veth \subseteq w.veth
    <2>1. Same(World, World')
      BY <1>1 DEF SwitchesDown
    <2>2. \A m \in DOMAIN node \ Range(switches) : node'[m] = node[m]
      BY <1>1 DEF SwitchesDown
    <2>3. \A m \in Range(switches) : node'[m].shell = FALSE /\ node'[m].intfs = node[m].intfs
      BY <1>1 DEF SwitchesDown
    <2>4. veth' \subseteq veth
      BY <1>1 DEF SwitchesDown
    <2>5. w.node = node /\ r.node = node' /\ w.veth = veth /\ r.veth = veth' /\ B = Range(switches)
      BY <1>2, <1>5
    <2>6. Same(w, r)
      BY <1>2, <2>1
    <2>7. \A m \in DOMAIN w.node \ B : r.node[m] = w.node[m]
      BY <2>2, <2>5
    <2>8. \A m \in B : r.node[m].shell = FALSE /\ r.node[m].intfs = w.node[m].intfs
      BY <2>3, <2>5
    <2> QED
      BY <2>4, <2>5, <2>6, <2>7, <2>8
  <1>8. ASSUME NEW x
        PROVE  x \in r.proc <=> x \in w.proc /\ \A m \in B : ~(w.node[m].shell /\ x = w.node[m].name)
    <2>1. x \in proc' <=> x \in proc /\ \A m \in Range(switches) : ~(node[m].shell /\ x = node[m].name)
      BY <1>1 DEF SwitchesDown
    <2>2. w.node = node /\ r.proc = proc' /\ w.proc = proc /\ B = Range(switches)
      BY <1>2, <1>5
    <2> QED
      BY <2>1, <2>2
  <1>11. ASSUME NEW b \in DOMAIN r.bridge, NEW m \in B
         PROVE  b \in DOMAIN w.bridge /\ w.node[m].name # b
    <2>1. DOMAIN bridge' = DOMAIN bridge \ SwitchNames
      BY <1>1 DEF SwitchesDown
    <2>2. w.node = node /\ r.bridge = bridge' /\ w.bridge = bridge /\ B = Range(switches)
      BY <1>2, <1>5
    <2>3. node[m].name \in SwitchNames
      BY <2>2 DEF SwitchNames
    <2> QED
      BY <2>1, <2>2, <2>3
  <1>12. \A b \in DOMAIN r.bridge : b \in DOMAIN w.bridge /\ \A m \in B : w.node[m].name # b
    <2>1. SUFFICES ASSUME NEW b \in DOMAIN r.bridge
                   PROVE  b \in DOMAIN w.bridge /\ \A m \in B : w.node[m].name # b
      OBVIOUS
    <2>2. b \in DOMAIN w.bridge
      <3>1. DOMAIN bridge' \subseteq DOMAIN bridge
        BY <1>1 DEF SwitchesDown
      <3> QED
        BY <1>5, <3>1
    <2> QED
      BY <1>11, <2>2
  <1>9. Kept'
    <2>1. SUFFICES ASSUME Watched' PROVE Belongs(r, N, P, {}, {})
      BY <1>2, <1>4 DEF Kept
    <2>2. Ours(w, N, N, {}, B) /\ BareBut(w, N)
      BY <1>1, <1>2, <1>3, <2>1 DEF Watched, Orderly, Kept, Belongs
    <2>3. Ours(r, N, P, {}, {})
      BY <1>5, <1>6, <1>7, <1>8, <1>12, <2>2, OursDown
    <2>4. DOMAIN r.node = DOMAIN w.node
      BY <1>7 DEF Same
    <2>5. \A n \in DOMAIN w.node : r.node[n].intfs = w.node[n].intfs
      BY <1>7
    <2>6. BareBut(r, N)
      BY <2>2, <2>4, <2>5, BareSame
    <2> QED
      BY <2>3, <2>6 DEF Belongs
  <1>10. Noted' /\ (history'.tidy => history'.failed \notin {"stop", "remove"})
    BY <1>1 DEF Orderly, Noted, Tidy
  <1> QED
    BY <1>1, <1>9, <1>10, StopsOn

\* stop(): one host.
LEMMA OrderlyStopHost ==
    ASSUME Sound, Orderly, StopHost
    PROVE  Orderly'
  <1>1. phase = "stop hosts" /\ phase' = "stop hosts" /\ UNCHANGED <<lists, history>>
    BY StopHostDoes
  <1>2. PICK n : HostDown(n)
    BY StopHostDoes
  <1>3. PICK w, r, N, P, P2 : /\ w = World /\ r = World' /\ N = Range(named)
                              /\ P = Range(todo) /\ P2 = Range(todo')
    OBVIOUS
  <1>4. LinksThere = {} /\ Owners = P /\ SwitchesThere = {} /\ phase \in InCall
    BY <1>1, <1>3 DEF LinksThere, Owners, SwitchesThere, InCall
  <1>5. LinksThere' = {} /\ Owners' = P2 /\ SwitchesThere' = {} /\ N = Range(named')
    BY <1>1, <1>3 DEF LinksThere, Owners, SwitchesThere, lists
  <1>6. /\ Shape(w) /\ N \subseteq DOMAIN w.node /\ Range(hosts) \subseteq N
    BY <1>3, ListedInWorld
  <1>7. P \subseteq Range(hosts)
    BY <1>1, <1>3 DEF Sound, Todo, Part
  <1>8. Same(w, r) /\ ShellEnded(w, n, r) /\ P = P2 \cup {n} /\ n \in P /\ P \subseteq DOMAIN w.node
    BY <1>2, <1>3, <1>6, <1>7 DEF HostDown
  <1>9. Kept'
    <2>1. SUFFICES ASSUME Watched' PROVE Belongs(r, N, P2, {}, {})
      BY <1>3, <1>5 DEF Kept
    <2>2. Ours(w, N, P, {}, {}) /\ BareBut(w, N)
      BY <1>1, <1>3, <1>4, <2>1 DEF Watched, Orderly, Kept, Belongs
    <2>3. Ours(r, N, P2, {}, {})
      BY <1>6, <1>8, <2>2, OursHostDown
    <2>4. DOMAIN r.node = DOMAIN w.node
      BY <1>8 DEF Same
    <2>5. \A m \in DOMAIN w.node : r.node[m].intfs = w.node[m].intfs
      BY <1>8 DEF ShellEnded
    <2>6. BareBut(r, N)
      BY <2>2, <2>4, <2>5, BareSame
    <2> QED
      BY <2>3, <2>6 DEF Belongs
  <1>10. Noted' /\ (history'.tidy => history'.failed \notin {"stop", "remove"})
    BY <1>1 DEF Orderly, Noted, Tidy
  <1> QED
    BY <1>1, <1>9, <1>10, StopsOn

\* stop() returns.
LEMMA OrderlyStopEnds ==
    ASSUME Sound, Orderly, StopEnds
    PROVE  Orderly'
  <1>1. /\ phase = "stop hosts" /\ todo = <<>> /\ phase' = "stopped" /\ history' = history
        /\ UNCHANGED <<node, link, veth, bridge, proc, links, switches, named>>
    BY DEF StopEnds, lists, system
  <1>2. /\ Owners = {} /\ LinksThere = {} /\ SwitchesThere = {} /\ phase \in InCall
        /\ Owners' = {} /\ LinksThere' = {} /\ SwitchesThere' = {}
    <2>1. Range(todo) = {}
      BY <1>1, NothingIsList
    <2> QED
      BY <1>1, <2>1 DEF Owners, LinksThere, SwitchesThere, InCall
  <1>3. World' = World
    BY <1>1 DEF World
  <1>4. Kept'
    BY <1>1, <1>2, <1>3 DEF Orderly, Kept, Watched
  <1>5. Noted' /\ (history'.tidy => history'.failed \notin {"stop", "remove"})
    BY <1>1 DEF Orderly, Noted, Tidy
  <1> QED
    BY <1>1, <1>4, <1>5, StopsOn

\* An interrupt: all that is left belongs to the network as before.
LEMMA OrderlyInterrupt ==
    ASSUME Sound, Orderly, InterruptStop
    PROVE  Orderly'
  <1>1. /\ phase \in {"stop links", "stop hosts"} /\ phase' = "idle"
        /\ history' = [history EXCEPT !.troubles = @ + 1, !.tidy = FALSE]
        /\ UNCHANGED <<node, link, veth, bridge, proc, links, switches, named>>
    BY DEF InterruptStop, lists, system
  <1>2. /\ Note(history') /\ history'.failed = history.failed /\ ~history'.tidy
        /\ history'.clean = history.clean
    BY <1>1, NoteTrouble DEF Orderly
  <1>3. World' = World
    BY <1>1 DEF World
  <1>4. Range(hosts) \subseteq Range(named)
    BY ListedInWorld
  <1>5. /\ phase = "stop links" => Range(todo) \subseteq Range(links)
        /\ phase = "stop hosts" => Range(todo) \subseteq Range(hosts)
    BY DEF Sound, Todo, Part
  <1>6. Owners \subseteq Range(named) /\ LinksThere \subseteq Range(links) /\ SwitchesThere \subseteq Range(switches)
    BY <1>1, <1>4, <1>5 DEF Owners, LinksThere, SwitchesThere
  <1>7. Watched' => OwnsAll'
    <2>1. SUFFICES ASSUME Watched' PROVE OwnsAll
      BY <1>1, AllTheSame
    <2>2. Ours(World, Range(named), Owners, LinksThere, SwitchesThere) /\ BareBut(World, Range(named))
      BY <1>1, <1>2, <2>1 DEF Watched, InCall, Orderly, Kept, Belongs
    <2>3. Ours(World, Range(named), Range(named), Range(links), Range(switches))
      BY <1>6, <2>2, OursMore
    <2> QED
      BY <2>2, <2>3 DEF OwnsAll, Belongs
  <1>8. phase' \in Resting /\ Noted'
    BY <1>1, <1>2 DEF Resting, Noted
  <1> QED
    BY <1>2, <1>7, <1>8, RestsAgain

\* The end of the program, and what is cleaned up after it.
LEMMA OrderlyEnd ==
    ASSUME Sound, Orderly, Exit \/ Cleanup
    PROVE  Orderly'
  <1>1. history' = history /\ phase' \in {"exited", "cleaned"}
    BY DEF Exit, Cleanup
  <1>2. phase' = "cleaned" => proc' = {} /\ veth' = {} /\ DOMAIN bridge' = {}
    BY DEF Exit, Cleanup, RemoveJunk
  <1>3. Note(history') /\ (history'.tidy => history'.failed \notin {"stop", "remove"})
    BY <1>1 DEF Orderly, Noted, Tidy
  <1> QED
    BY <1>1, <1>2, <1>3, EndsOrderly

\* A network without nodes, in an empty system.
LEMMA NothingBelongs ==
    ASSUME NEW w, w.node = <<>>, w.proc = {}, w.veth = {}, DOMAIN w.bridge = {}, NEW N, NEW P, NEW L, NEW B
    PROVE  Belongs(w, N, P, L, B)
  <1>1. DOMAIN w.node = {}
    OBVIOUS
  <1>2. Over(w, N) /\ BareBut(w, N)
    BY <1>1 DEF Over, BareBut
  <1>3. Owned(w, P) /\ Live(w, L) /\ Bridged(w, B)
    BY DEF Owned, Live, Bridged
  <1> QED
    BY <1>2, <1>3 DEF Belongs, Ours

\* Nothing is missing in it.
LEMMA NothingIsWhole ==
    ASSUME NEW w, NEW N, N = {}, NEW L, L = {}
    PROVE  Whole(w, N, L)
  BY DEF Whole, Up, PortsIn

\* A fresh history.
LEMMA NoteFresh ==
    ASSUME NEW h, h = Fresh
    PROVE  Note(h) /\ h.tidy /\ h.clean /\ h.failed = "nothing" /\ ~h.started /\ h.calls = 0 /\ h.removals = 0
  BY DEF Note, IsNote, HistoryFields, Fresh

\* The note of another run.
LEMMA NoteRestart ==
    ASSUME Noted, NEW clean, clean \in BOOLEAN,
           history' = [Fresh EXCEPT !.runs = history.runs + 1, !.clean = clean, !.calls = MaxCalls]
    PROVE  /\ Note(history') /\ history'.tidy /\ history'.clean = clean /\ history'.failed = "nothing"
           /\ ~history'.started /\ history'.calls = MaxCalls /\ history'.removals = 0
  <1>1. MaxCalls \in Nat /\ history.runs \in Nat
    BY BoundsAssumption DEF Noted, Note
  <1>2. /\ history'.tidy = TRUE /\ history'.clean = clean /\ history'.failed = "nothing"
        /\ history'.started = FALSE /\ history'.calls = MaxCalls /\ history'.removals = 0
        /\ history'.troubles = 0 /\ history'.runs = history.runs + 1
        /\ IsNote(history')
    BY DEF IsNote, HistoryFields, Fresh
  <1>3. history'.tidy \in BOOLEAN /\ history'.clean \in BOOLEAN /\ history'.started \in BOOLEAN
    BY <1>2
  <1>4. /\ history'.calls \in Nat /\ history'.removals \in Nat /\ history'.troubles \in Nat
        /\ history'.runs \in Nat
    BY <1>1, <1>2
  <1>5. Note(history')
    BY <1>2, <1>3, <1>4 DEF Note
  <1> QED
    BY <1>2, <1>5

\* Another run finds the remains of the last, or nothing.
LEMMA OrderlyRestart ==
    ASSUME Sound, Orderly, Restart
    PROVE  Orderly'
  <1>1. PICK clean \in BOOLEAN : clean = (phase = "cleaned")
    OBVIOUS
  <1>2. history' = [Fresh EXCEPT !.runs = history.runs + 1, !.clean = clean, !.calls = MaxCalls]
    BY <1>1 DEF Restart
  <1>3. /\ Note(history') /\ history'.clean = clean /\ history'.failed = "nothing" /\ ~history'.started
    BY <1>2, NoteRestart DEF Orderly
  <1>4. /\ node' = <<>> /\ links' = <<>> /\ named' = <<>> /\ switches' = <<>> /\ phase' = "build"
        /\ proc' = proc /\ veth' = veth /\ bridge' = bridge
    BY DEF Restart, system
  <1>5. Watched' => OwnsAll'
    <2>1. SUFFICES ASSUME Watched' PROVE OwnsAll'
      OBVIOUS
    <2>2. phase = "cleaned"
      BY <1>1, <1>3, <2>1 DEF Watched
    <2>3. World'.node = <<>> /\ World'.proc = {} /\ World'.veth = {} /\ DOMAIN World'.bridge = {}
      BY <1>4, <2>2, WorldThen DEF Orderly, Cleaned
    <2> QED
      BY <2>3, NothingBelongs DEF OwnsAll
  <1>6. HasAll'
    <2>1. Range(named') = {} /\ Range(links') = {}
      BY <1>4 DEF Range
    <2> QED
      BY <2>1, NothingIsWhole DEF HasAll
  <1>7. phase' \in Resting /\ Noted'
    BY <1>3, <1>4 DEF Resting, Noted
  <1> QED
    BY <1>3, <1>5, <1>6, <1>7, RestsAgain

\* A process or container that dies at rest.
LEMMA OrderlyDeath ==
    ASSUME Sound, Orderly, NEW name, ProcessDies(name)
    PROVE  Orderly'
  <1>1. /\ phase = "idle" /\ phase' = "idle"
        /\ history' = [history EXCEPT !.troubles = @ + 1, !.tidy = FALSE]
        /\ node' = node /\ link' = link /\ bridge' = bridge
        /\ proc' = proc \ {name} /\ veth' = WithoutNamespaces(veth, {name})
        /\ links' = links /\ switches' = switches /\ named' = named
    BY DEF ProcessDies, lists
  <1>2. /\ Note(history') /\ history'.failed = history.failed /\ ~history'.tidy
        /\ history'.clean = history.clean
    BY <1>1, NoteTrouble DEF Orderly
  <1>3. phase \in Resting /\ phase' \in Resting /\ Noted'
    BY <1>1, <1>2 DEF Resting, Noted
  <1>4. Watched => OwnsAll
    BY <1>3, AtRest
  <1>5. Watched' => OwnsAll'
    <2>1. SUFFICES ASSUME Watched' PROVE OwnsAll'
      OBVIOUS
    <2>2. OwnsAll
      BY <1>1, <1>2, <1>4, <2>1 DEF Watched
    <2>3. PICK w, r, N, L, B : /\ w = World /\ r = World' /\ N = Range(named) /\ L = Range(links)
                               /\ B = Range(switches)
      OBVIOUS
    <2>4. /\ Shape(w) /\ L \subseteq DOMAIN w.link /\ Ours(w, N, N, L, B) /\ BareBut(w, N)
      BY <2>2, <2>3, ListedInWorld DEF OwnsAll, Belongs
    <2>5. /\ r.node = w.node /\ r.link = w.link /\ r.proc = w.proc \ {name}
          /\ r.veth = WithoutNamespaces(w.veth, {name}) /\ r.bridge = w.bridge
      BY <1>1, <2>3, WorldIs, WorldThen
    <2>6. Same(w, r)
      BY <2>5 DEF Same
    <2>7. Ours(r, N, N, L, B)
      BY <2>4, <2>5, <2>6, OursDeath
    <2>8. BareBut(r, N)
      BY <2>4, <2>5, BareSame
    <2> QED
      BY <1>1, <2>3, <2>7, <2>8 DEF OwnsAll, Belongs
  <1> QED
    BY <1>2, <1>3, <1>5, RestsAgain

\* At first there is nothing.
LEMMA OrderlyFirst ==
    ASSUME Init
    PROVE  Orderly
  <1>1. /\ node = <<>> /\ links = <<>> /\ named = <<>> /\ switches = <<>> /\ phase = "build"
        /\ proc = {} /\ veth = {} /\ bridge = <<>> /\ history = Fresh
    BY DEF Init
  <1>2. Note(history) /\ history.failed = "nothing" /\ ~history.started
    BY <1>1, NoteFresh
  <1>3. Owners = Range(named) /\ LinksThere = Range(links) /\ SwitchesThere = Range(switches)
    BY <1>1 DEF Owners, LinksThere, SwitchesThere
  <1>4. Kept
    <2>1. World.node = <<>> /\ World.proc = {} /\ World.veth = {} /\ DOMAIN World.bridge = {}
      BY <1>1, WorldIs
    <2> QED
      BY <2>1, NothingBelongs DEF Kept
  <1>5. Tidy
    <2>1. Range(named) = {} /\ Range(links) = {}
      BY <1>1 DEF Range
    <2> QED
      BY <1>2, <1>3, <2>1, NothingIsWhole DEF Tidy
  <1> QED
    BY <1>1, <1>2, <1>4, <1>5 DEF Orderly, Noted, Cleaned

\* Every step keeps it.
LEMMA OrderlyNext ==
    ASSUME Sound, Orderly, [Next]_vars
    PROVE  Orderly'
  <1>1. CASE UNCHANGED vars
    <2>1. /\ node' = node /\ link' = link /\ veth' = veth /\ bridge' = bridge /\ proc' = proc
          /\ named' = named /\ links' = links /\ switches' = switches /\ todo' = todo
          /\ phase' = phase /\ history' = history
      BY <1>1 DEF vars
    <2>2. World' = World
      BY <2>1 DEF World
    <2>3. Range(named') = Range(named) /\ Range(links') = Range(links) /\ Range(switches') = Range(switches)
          /\ Range(todo') = Range(todo)
      BY <2>1
    <2>4. Owners' = Owners /\ LinksThere' = LinksThere /\ SwitchesThere' = SwitchesThere
      BY <2>1, <2>3 DEF Owners, LinksThere, SwitchesThere
    <2>5. Watched' = Watched
      BY <2>1 DEF Watched
    <2>6. Kept'
      BY <2>2, <2>3, <2>4, <2>5 DEF Orderly, Kept
    <2>7. Tidy'
      BY <2>1, <2>2, <2>3, <2>4 DEF Orderly, Tidy
    <2>8. Cleaned' /\ Noted'
      BY <2>1 DEF Orderly, Cleaned, Noted
    <2> QED
      BY <2>6, <2>7, <2>8 DEF Orderly
  <1>2. CASE Program
    <2>1. CASE BuildNode \/ BuildConfig \/ StartCall \/ StopCall \/ StopLink \/ StopSwitches \/ StopHost \/ StopEnds
      BY <2>1, OrderlyBuildNode, OrderlyConfig, OrderlyStart, OrderlyStop, OrderlyStopLink,
         OrderlyStopSwitches, OrderlyStopHost, OrderlyStopEnds
    <2>2. CASE BuildLink
      <3>1. LinkCall(Tail(todo)) /\ phase = "build"
        BY <2>2, BuildLinkDoes
      <3> QED
        BY <3>1, OrderlyLinkCall
    <2>3. ASSUME NEW nd \in Names, AddNodeCall(nd) PROVE Orderly'
      BY <2>3, OrderlyAddNode
    <2>4. ASSUME NEW a \in DOMAIN node, NEW b \in DOMAIN node, NEW p \in PortPairs,
                 AddLinkCall(a, b, p[1], p[2])
          PROVE  Orderly'
      <3>1. LinkCall(<<>>) /\ phase = "idle"
        BY <2>4, AddLinkCallDoes DEF MayChange
      <3> QED
        BY <3>1, OrderlyLinkCall
    <2>5. ASSUME NEW l \in Range(links), RemoveLinkCall(l) PROVE Orderly'
      BY <2>5, OrderlyRemoveLink
    <2>6. ASSUME NEW n \in DOMAIN node, RemoveHostCall(n) \/ DelNodeCall(n) PROVE Orderly'
      <3>1. MayChange /\ n \in Range(named) /\ phase' = "idle" /\ NodeOut(n)
        BY <2>6, RemoveHostCallDoes, DelNodeCallDoes
      <3> QED
        BY <3>1, OrderlyOut
    <2>7. CASE StartSwitch \/ \E n \in Range(switches) : StartLaterSwitch(n)
      BY <2>7, OrderlySwitches
    <2>8. CASE \/ StartEnds \/ WaitLook \/ WaitRoundEnds
               \/ \E timed \in BOOLEAN : WaitCall(timed)
      BY <2>8, OrderlyIdle
    <2> QED
      BY <1>2, <2>1, <2>2, <2>3, <2>4, <2>5, <2>6, <2>7, <2>8 DEF Program
  <1>3. CASE Outside
    BY <1>3, OrderlyInterrupt, OrderlyEnd, OrderlyRestart, OrderlyDeath, OrderlyIdle DEF Outside
  <1> QED
    BY <1>1, <1>2, <1>3 DEF Next

\* What there is belongs to the network, and nothing is missing while it is tidy.
THEOREM NetOrderly == Spec => [](Sound /\ Orderly)
  <1>1. Init => Sound /\ Orderly
    BY InitIsSound, OrderlyFirst
  <1>2. Sound /\ Orderly /\ [Next]_vars => (Sound /\ Orderly)'
    BY SoundNext, OrderlyNext
  <1> QED
    BY <1>1, <1>2, PTL DEF Spec

\* stop() leaves nothing behind.
LEMMA OrderlyLeavesNothing ==
    ASSUME Orderly
    PROVE  StopLeavesNothing
  <1>1. history.tidy => history.failed # "stop"
    BY DEF Orderly, Tidy
  <1>2. ASSUME history.clean, phase = "stopped", history.failed = "nothing"
        PROVE  proc = {} /\ veth = {} /\ DOMAIN bridge = {}
    <2>1. Owners = {} /\ LinksThere = {} /\ SwitchesThere = {} /\ phase \in InCall
      BY <1>2 DEF Owners, LinksThere, SwitchesThere, InCall
    <2>2. Ours(World, Range(named), {}, {}, {})
      BY <1>2, <2>1 DEF Orderly, Kept, Watched, Belongs
    <2>3. World.proc = {} /\ World.veth = {} /\ DOMAIN World.bridge = {}
      BY <2>2 DEF Ours, Owned, Live, Bridged
    <2> QED
      BY <2>3, WorldIs
  <1> QED
    BY <1>1, <1>2 DEF StopLeavesNothing

\* stop() after which no call failed leaves no process, no veth end and no
\* bridge of the network in the system, and stop() of a tidy network does
\* not raise, for every topology and program.
THEOREM NetStops == Spec => []StopLeavesNothing
  <1>1. Sound /\ Orderly => StopLeavesNothing
    BY OrderlyLeavesNothing
  <1> QED
    BY <1>1, NetOrderly, PTL

(***************************************************************************)
(* The bridge of a switch has the ports of its links.                      *)
(***************************************************************************)
PortOf(w, n, x) == \E i \in DOMAIN w.node[n].ports \ {Lo} : x = IntfName(w, i)
BridgeIs(w, n) ==
    w.node[n].name \in DOMAIN w.bridge => \A x : x \in w.bridge[w.node[n].name] <=> PortOf(w, n, x)

\* A port of a node, and its name.
LEMMA PortNamed ==
    ASSUME NEW w, Shape(w), NEW n \in DOMAIN w.node, NEW i \in DOMAIN w.node[n].ports \ {Lo}
    PROVE  /\ i = <<i[1], i[2]>> /\ i[1] \in DOMAIN w.link /\ i[2] \in {1, 2}
           /\ w.link[i[1]].n[i[2]] = n /\ w.node[n].ports[i] = w.link[i[1]].p[i[2]]
           /\ IntfName(w, i) = <<w.node[n].name, w.node[n].ports[i]>>
  <1>1. Maps(w.node[n].intfs, w.node[n].ports, w.node[n].kind, n, w.link)
    BY DEF Shape, NodeShape
  <1>2. /\ i = <<i[1], i[2]>> /\ i[1] \in DOMAIN w.link /\ i[2] \in {1, 2}
        /\ w.link[i[1]].n[i[2]] = n /\ w.node[n].ports[i] = w.link[i[1]].p[i[2]]
    BY <1>1 DEF Maps
  <1> QED
    BY <1>2 DEF IntfName

\* It has the same name as long as the node is there.
LEMMA PortRenamed ==
    ASSUME NEW w, Shape(w), NEW r, Within(w, r), NEW n \in DOMAIN w.node,
           NEW i \in DOMAIN w.node[n].ports \ {Lo}
    PROVE  IntfName(r, i) = IntfName(w, i)
  <1>1. PICK k, s : k = i[1] /\ s = i[2]
    OBVIOUS
  <1>2. i = <<k, s>> /\ k \in DOMAIN w.link /\ s \in {1, 2}
    BY <1>1, PortNamed
  <1> QED
    BY <1>2, WithinNames

\* A switch with the ports that it had, and its bridge.
LEMMA BridgeKept ==
    ASSUME NEW w, Shape(w), NEW r, Within(w, r), NEW n \in DOMAIN w.node, BridgeIs(w, n),
           r.node[n].ports = w.node[n].ports,
           w.node[n].name \in DOMAIN r.bridge =>
              /\ w.node[n].name \in DOMAIN w.bridge
              /\ r.bridge[w.node[n].name] = w.bridge[w.node[n].name]
    PROVE  BridgeIs(r, n)
  <1>1. r.node[n].name = w.node[n].name
    BY DEF Within
  <1>2. ASSUME NEW x PROVE PortOf(r, n, x) <=> PortOf(w, n, x)
    BY PortRenamed DEF PortOf
  <1> QED
    BY <1>1, <1>2 DEF BridgeIs

\* A link that is made adds its ports.
LEMMA BridgeJoined ==
    ASSUME NEW w, Shape(w), NEW r, NEW N, Distinct(w, N), NEW n \in N, w.node[n].kind = "switch",
           w.node[n].shell, BridgeIs(w, n), NEW a \in N, NEW b \in N, a # b,
           NEW p1, NEW p2, NEW l, Joins(w, a, b, p1, p2, l, r), Within(w, r)
    PROVE  BridgeIs(r, n)
  <1>1. n \in DOMAIN w.node /\ a \in DOMAIN w.node /\ b \in DOMAIN w.node
    BY DEF Distinct
  <1>2. /\ r.node[n].name = w.node[n].name /\ DOMAIN r.bridge = DOMAIN w.bridge
        /\ r.link[l].n[1] = a /\ r.link[l].n[2] = b /\ r.link[l].p[1] = p1 /\ r.link[l].p[2] = p2
        /\ l \in Nat /\ l > 0
    BY <1>1 DEF Joins, NewPorts
  <1>3. /\ n = a <=> w.node[n].name = w.node[a].name
        /\ n = b <=> w.node[n].name = w.node[b].name
    BY DEF Distinct
  <1>4. Runs(w, n)
    BY DEF Runs
  <1>5. ASSUME NEW x, w.node[n].name \in DOMAIN w.bridge
        PROVE  x \in r.bridge[w.node[n].name] <=>
                  \/ x \in w.bridge[w.node[n].name]
                  \/ n = a /\ x = <<w.node[a].name, p1>>
                  \/ n = b /\ x = <<w.node[b].name, p2>>
    <2>1. n = a => IsSwitchIn(w, a)
      BY <1>4 DEF IsSwitchIn
    <2>2. n = b => IsSwitchIn(w, b)
      BY <1>4 DEF IsSwitchIn
    <2> QED
      BY <1>3, <1>5, <2>1, <2>2 DEF Joins, NewPorts
  <1>6. IntfName(r, <<l, 1>>) = <<w.node[a].name, p1>> /\ IntfName(r, <<l, 2>>) = <<w.node[b].name, p2>>
    <2>1. r.node[a].name = w.node[a].name /\ r.node[b].name = w.node[b].name
      BY <1>1 DEF Joins
    <2>2. <<l, 1>>[1] = l /\ <<l, 1>>[2] = 1 /\ <<l, 2>>[1] = l /\ <<l, 2>>[2] = 2
      OBVIOUS
    <2> QED
      BY <1>2, <2>1, <2>2 DEF IntfName
  <1>7. ASSUME NEW x
        PROVE  PortOf(r, n, x) <=> \/ PortOf(w, n, x)
                                   \/ n = a /\ x = <<w.node[a].name, p1>>
                                   \/ n = b /\ x = <<w.node[b].name, p2>>
    <2>1. <<l, 1>> # Lo /\ <<l, 2>> # Lo
      BY <1>2 DEF Lo
    <2>2. DOMAIN r.node[n].ports = IF n = a THEN DOMAIN w.node[n].ports \cup {<<l, 1>>}
                                   ELSE IF n = b THEN DOMAIN w.node[n].ports \cup {<<l, 2>>}
                                   ELSE DOMAIN w.node[n].ports
      BY <1>1, ZenonT(60) DEF Joins, Gains
    <2>3. \A i \in DOMAIN w.node[n].ports \ {Lo} : IntfName(r, i) = IntfName(w, i)
      BY <1>1, PortRenamed
    <2>4. CASE n = a
      <3>1. DOMAIN r.node[n].ports \ {Lo} = (DOMAIN w.node[n].ports \ {Lo}) \cup {<<l, 1>>}
        BY <2>1, <2>2, <2>4
      <3> QED
        BY <1>6, <2>3, <2>4, <3>1 DEF PortOf
    <2>5. CASE n = b
      <3>1. DOMAIN r.node[n].ports \ {Lo} = (DOMAIN w.node[n].ports \ {Lo}) \cup {<<l, 2>>}
        BY <2>1, <2>2, <2>5
      <3> QED
        BY <1>6, <2>3, <2>5, <3>1 DEF PortOf
    <2>6. CASE n # a /\ n # b
      <3>1. DOMAIN r.node[n].ports = DOMAIN w.node[n].ports
        BY <2>2, <2>6
      <3> QED
        BY <2>3, <2>6, <3>1 DEF PortOf
    <2> QED
      BY <2>4, <2>5, <2>6
  <1> QED
    BY <1>2, <1>5, <1>7 DEF BridgeIs

\* A link that is deleted takes its ports with it, and no other.
LEMMA BridgeUnlinked ==
    ASSUME NEW w, Shape(w), NEW r, Same(w, r), NEW N, Distinct(w, N), NEW n \in N,
           w.node[n].kind = "switch", BridgeIs(w, n),
           NEW L, L \subseteq DOMAIN w.link, Whole(w, N, L), NEW l \in L, LinkGone(w, l, r)
    PROVE  BridgeIs(r, n)
  <1>1. /\ Within(w, r) /\ n \in DOMAIN w.node /\ l \in DOMAIN w.link /\ Joint(w, l, N)
    BY SameWithin DEF Distinct, Whole
  <1>2. PICK a, b : a = w.link[l].n[1] /\ b = w.link[l].n[2]
    OBVIOUS
  <1>3. a \in N /\ b \in N /\ w.node[a].name # w.node[b].name
    <2>1. LinkShape(w, l)
      BY <1>1 DEF Shape
    <2> QED
      BY <1>1, <1>2, <2>1 DEF Joint, JointAt, LinkShape
  <1>4. Runs(w, n)
    BY DEF Whole, Up, Runs
  <1>5. r.node[n].name = w.node[n].name /\ DOMAIN r.bridge = DOMAIN w.bridge
    BY <1>1 DEF Within, LinkGone
  <1>6. ASSUME NEW x, w.node[n].name \in DOMAIN w.bridge
        PROVE  x \in r.bridge[w.node[n].name] <=>
                  /\ x \in w.bridge[w.node[n].name]
                  /\ ~(n = a /\ x = IntfName(w, <<l, 1>>))
                  /\ ~(n = b /\ x = IntfName(w, <<l, 2>>))
    <2>1. /\ w.node[n].name = w.node[a].name <=> n = a
          /\ w.node[n].name = w.node[b].name <=> n = b
      BY <1>3 DEF Distinct
    <2>2. x \in r.bridge[w.node[n].name] <=>
             /\ x \in w.bridge[w.node[n].name]
             /\ \A s \in {1, 2} : ~(/\ w.node[w.link[l].n[s]].kind = "switch" /\ Runs(w, w.link[l].n[s])
                                    /\ w.node[n].name = w.node[w.link[l].n[s]].name
                                    /\ x = IntfName(w, <<l, s>>))
      BY <1>6 DEF LinkGone, PortsLeft
    <2> QED
      BY <1>2, <1>4, <2>1, <2>2
  <1>7. DOMAIN r.node[n].ports = DOMAIN w.node[n].ports \ {i \in {<<l, 1>>, <<l, 2>>} :
                                    (n = a /\ i = <<l, 1>>) \/ (n = b /\ i = <<l, 2>>)}
    <2>1. /\ Lacks(w.node[a], <<l, 1>>, r.node[a]) /\ Lacks(w.node[b], <<l, 2>>, r.node[b])
          /\ n \notin {a, b} => r.node[n] = w.node[n]
      BY <1>1, <1>2 DEF LinkGone
    <2> QED
      BY <1>3, <2>1 DEF Lacks
  <1>8. ASSUME NEW i \in DOMAIN w.node[n].ports \ {Lo}, NEW s \in {1, 2}, w.link[l].n[s] = n,
               IntfName(w, i) = IntfName(w, <<l, s>>)
        PROVE  i = <<l, s>>
    <2>1. PICK k, t : k = i[1] /\ t = i[2]
      OBVIOUS
    <2>2. i = <<k, t>> /\ t \in {1, 2} /\ w.link[k].n[t] = n
      BY <1>1, <2>1, PortNamed
    <2>3. k \in L
      BY <2>1 DEF Whole, PortsIn
    <2>4. JointAt(w, k, t, N) /\ JointAt(w, l, s, N)
      BY <1>1, <2>2, <2>3 DEF Whole, Joint
    <2>5. /\ <<l, s>>[1] = l /\ <<l, s>>[2] = s /\ <<k, t>>[1] = k /\ <<k, t>>[2] = t
      OBVIOUS
    <2>6. End(w, <<k, t>>) = End(w, <<l, s>>)
      BY <1>8, <2>2, <2>5 DEF End
    <2> QED
      BY <2>2, <2>4, <2>6, EndsApart
  <1>9. ASSUME NEW x
        PROVE  PortOf(r, n, x) <=> /\ PortOf(w, n, x)
                                   /\ ~(n = a /\ x = IntfName(w, <<l, 1>>))
                                   /\ ~(n = b /\ x = IntfName(w, <<l, 2>>))
    <2>1. \A i \in DOMAIN w.node[n].ports \ {Lo} : IntfName(r, i) = IntfName(w, i)
      BY <1>1, PortRenamed
    <2>2. ASSUME NEW i \in DOMAIN r.node[n].ports \ {Lo}, x = IntfName(r, i)
          PROVE  /\ PortOf(w, n, x)
                 /\ ~(n = a /\ x = IntfName(w, <<l, 1>>))
                 /\ ~(n = b /\ x = IntfName(w, <<l, 2>>))
      <3>1. i \in DOMAIN w.node[n].ports \ {Lo}
        BY <1>7
      <3>2. x = IntfName(w, i)
        BY <2>1, <2>2, <3>1
      <3>3. ~(n = a /\ x = IntfName(w, <<l, 1>>))
        BY <1>2, <1>7, <1>8, <3>1, <3>2
      <3>4. ~(n = b /\ x = IntfName(w, <<l, 2>>))
        BY <1>2, <1>7, <1>8, <3>1, <3>2
      <3> QED
        BY <3>1, <3>2, <3>3, <3>4 DEF PortOf
    <2>3. ASSUME NEW i \in DOMAIN w.node[n].ports \ {Lo}, x = IntfName(w, i),
                 ~(n = a /\ x = IntfName(w, <<l, 1>>)), ~(n = b /\ x = IntfName(w, <<l, 2>>))
          PROVE  PortOf(r, n, x)
      <3>1. i \in DOMAIN r.node[n].ports \ {Lo}
        BY <1>7, <2>3
      <3> QED
        BY <2>1, <2>3, <3>1 DEF PortOf
    <2> QED
      BY <2>2, <2>3 DEF PortOf
  <1> QED
    BY <1>5, <1>6, <1>9 DEF BridgeIs

\* A switch that starts has all its ports on its bridge.
LEMMA BridgeStarted ==
    ASSUME NEW w, Shape(w), NEW r, Same(w, r), NEW N, Distinct(w, N), NEW m \in N, NEW n \in N,
           w.node[m].kind = "switch", w.node[m].shell, n # m => BridgeIs(w, n), BridgeMade(w, m, r)
    PROVE  BridgeIs(r, n)
  <1>1. Within(w, r) /\ n \in DOMAIN w.node /\ m \in DOMAIN w.node /\ r.node = w.node
    BY SameWithin DEF Distinct, BridgeMade
  <1>2. CASE n # m
    <2>1. w.node[n].name # w.node[m].name
      BY <1>2 DEF Distinct
    <2>2. w.node[n].name \in DOMAIN r.bridge =>
             /\ w.node[n].name \in DOMAIN w.bridge
             /\ r.bridge[w.node[n].name] = w.bridge[w.node[n].name]
      BY <2>1 DEF BridgeMade
    <2> QED
      BY <1>1, <1>2, <2>2, BridgeKept
  <1>3. CASE n = m
    <2>1. Runs(w, m)
      BY DEF Runs
    <2>2. r.bridge[w.node[n].name] = SwitchPorts(w, n)
      BY <1>3, <2>1 DEF BridgeMade
    <2>3. ASSUME NEW i \in DOMAIN w.node[n].ports PROVE w.node[n].ports[i] # 0 <=> i # Lo
      <3>1. CASE i = Lo
        <4>1. w.node[n].ports[Lo] = 0
          BY <1>1, <1>3 DEF Shape, NodeShape, Maps
        <4> QED
          BY <3>1, <4>1
      <3>2. CASE i # Lo
        <4>1. /\ i[1] \in DOMAIN w.link /\ i[2] \in {1, 2} /\ w.link[i[1]].n[i[2]] = n
              /\ w.node[n].ports[i] = w.link[i[1]].p[i[2]]
          BY <1>1, <3>2, PortNamed
        <4>2. LinkShape(w, i[1])
          BY <4>1 DEF Shape
        <4> QED
          BY <1>3, <3>2, <4>1, <4>2 DEF LinkShape
      <3> QED
        BY <3>1, <3>2
    <2>4. ASSUME NEW x PROVE x \in SwitchPorts(w, n) <=> PortOf(w, n, x)
      BY <2>3 DEF SwitchPorts, PortOf
    <2>5. ASSUME NEW x PROVE PortOf(r, n, x) <=> PortOf(w, n, x)
      BY <1>1, PortRenamed DEF PortOf
    <2> QED
      BY <1>1, <2>2, <2>4, <2>5 DEF BridgeIs
  <1> QED
    BY <1>2, <1>3

(***************************************************************************)
(* While every call returned, the bridges of the switches that have been   *)
(* started have the ports of their links; and changes are made in a system *)
(* that was clean.                                                         *)
(***************************************************************************)
Running == {"idle", "start", "wait"}
Started == IF phase = "start" THEN Range(switches) \ Range(todo) ELSE Range(switches)
Bridges ==
    history.tidy /\ history.started /\ phase \in Running => \A n \in Started : BridgeIs(World, n)
Quiet == history.calls < MaxCalls => history.clean

\* There is no switch with a bridge.
LEMMA NoBridges ==
    ASSUME ~history'.tidy \/ ~history'.started \/ phase' \notin Running \/ Started' = {}
    PROVE  Bridges'
  BY DEF Bridges

\* The bridges as they were.
LEMMA BridgesSame ==
    ASSUME Bridges, UNCHANGED <<node, link, bridge>>, Started' \subseteq Started, phase \in Running,
           history'.tidy => history.tidy, history'.started => history.started
    PROVE  Bridges'
  <1>1. /\ World'.node = World.node /\ World'.link = World.link /\ World'.bridge = World.bridge
    BY WorldIs, WorldThen
  <1>2. ASSUME NEW n, BridgeIs(World, n) PROVE BridgeIs(World', n)
    <2>1. ASSUME NEW i PROVE IntfName(World', i) = IntfName(World, i)
      BY <1>1 DEF IntfName
    <2>2. ASSUME NEW x PROVE PortOf(World', n, x) <=> PortOf(World, n, x)
      BY <1>1, <2>1 DEF PortOf
    <2> QED
      BY <1>1, <1>2, <2>2 DEF BridgeIs
  <1> QED
    BY <1>2 DEF Bridges

\* A network that changes at rest.
LEMMA BridgesAgain ==
    ASSUME Bridges, phase = "idle", phase' = "idle", history'.started => history.started,
           history'.tidy => history.tidy,
           ASSUME history.tidy, history'.tidy, NEW n \in Range(switches')
           PROVE  \/ n \in Range(switches) /\ (BridgeIs(World, n) => BridgeIs(World', n))
                  \/ BridgeIs(World', n)
    PROVE  Bridges'
  BY DEF Bridges, Started, Running

\* The shells of a network in which nothing is missing.
LEMMA ShellsAreUp ==
    ASSUME Orderly, phase \in Resting, history.tidy, NEW n \in Range(named)
    PROVE  World.node[n].shell /\ World.node[n].name \in World.proc
  <1>1. HasAll
    BY AtRest
  <1> QED
    BY <1>1 DEF HasAll, Whole, Up

\* addHost(), addDocker(), addSwitch() at run time.
LEMMA BridgesAddNode ==
    ASSUME Sound, Orderly, Quiet, Bridges, NEW nd \in Names, AddNodeCall(nd)
    PROVE  Bridges'
  <1>1. MayChange /\ CreateNode(nd, <<>>) /\ nd.name \notin DOMAIN named
    BY AddNodeCallDoes
  <1>2. PICK k \in Nat : NodeCreated(nd, k)
    BY AddNodeCallDoes
  <1>3. phase = "idle" /\ phase' = "idle" /\ history.calls < MaxCalls
    BY <1>1 DEF MayChange, CreateNode
  <1>4. history'.tidy = history.tidy /\ history'.started = history.started
    <2>1. history' = [history EXCEPT !.calls = IF FALSE THEN @ ELSE @ + 1]
      BY DEF AddNodeCall, Called
    <2> QED
      BY <2>1, NoteCall DEF Orderly
  <1>5. PICK w, r, N, B : w = World /\ r = World' /\ N = Range(named) /\ B = Range(switches)
    OBVIOUS
  <1>6. /\ Shape(w) /\ N \subseteq DOMAIN w.node /\ B \subseteq N
    BY <1>5, ListedInWorld
  <1>7. PICK ip : NodeMade(w, nd.name, nd.kind, ip, k, r)
    BY <1>2, <1>5 DEF NodeCreated
  <1>8. r.bridge = w.bridge
    BY <1>1, <1>5, WorldIs, WorldThen DEF CreateNode
  <1>9. Range(switches') \subseteq B \cup {k + 1}
    BY <1>2, <1>5 DEF NodeCreated
  <1>10. Within(w, r)
    BY <1>7 DEF NodeMade, Within
  <1>11. ASSUME NEW n \in B, BridgeIs(w, n) PROVE BridgeIs(r, n)
    <2>1. n \in DOMAIN w.node /\ r.node[n].ports = w.node[n].ports
      BY <1>6, <1>7 DEF NodeMade
    <2> QED
      BY <1>6, <1>8, <1>10, <1>11, <2>1, BridgeKept
  <1>12. ASSUME history.tidy PROVE BridgeIs(r, k + 1)
    <2>1. Watched
      BY <1>3, <1>12 DEF Quiet, Watched, InCall, Resting
    <2>2. Bridged(w, B)
      BY <1>3, <1>5, <2>1, AtRest DEF OwnsAll, Belongs, Ours, Resting
    <2>3. \A n \in B : w.node[n].name \in DOMAIN named
      <3>1. \A x \in DOMAIN named : w.node[named[x]].name = x
        BY <1>5, WorldIs DEF Sound, Lists, NodesListed
      <3>2. ASSUME NEW n \in N PROVE \E x \in DOMAIN named : named[x] = n
        BY <1>5 DEF Range
      <3> QED
        BY <1>6, <3>1, <3>2
    <2>4. nd.name \notin DOMAIN w.bridge
      BY <1>1, <2>2, <2>3 DEF Bridged
    <2>5. r.node[k + 1].name = nd.name
      BY <1>7 DEF NodeMade
    <2> QED
      BY <1>8, <2>4, <2>5 DEF BridgeIs
  <1>13. ASSUME history.tidy, history'.tidy, NEW n \in Range(switches')
         PROVE  \/ n \in Range(switches) /\ (BridgeIs(World, n) => BridgeIs(World', n))
                \/ BridgeIs(World', n)
    BY <1>5, <1>9, <1>11, <1>12, <1>13
  <1> QED
    BY <1>3, <1>4, <1>13, BridgesAgain

\* addLink() at run time.
LEMMA BridgesJoined ==
    ASSUME Sound, Orderly, Bridges, phase = "idle", NEW next, NEW a \in Range(named), NEW b \in Range(named),
           node[a].name # node[b].name, NEW port1, NEW port2, NEW p1, NEW p2, NEW l,
           Connected(a, b, port1, port2, p1, p2, l, next)
    PROVE  Bridges'
  <1>1. PICK w, r, N, B : w = World /\ r = World' /\ N = Range(named) /\ B = Range(switches)
    OBVIOUS
  <1>2. /\ Shape(w) /\ Distinct(w, N) /\ N \subseteq DOMAIN w.node /\ B \subseteq N
        /\ \A m \in B : w.node[m].kind = "switch"
    BY <1>1, ListedInWorld
  <1>3. /\ Joins(w, a, b, p1, p2, l, r) /\ switches' = switches /\ phase' = "idle"
    BY <1>1 DEF Connected
  <1>4. Within(w, r)
    BY <1>3 DEF Joins, Within
  <1>5. history'.tidy = history.tidy /\ history'.started = history.started
    <2>1. history' = [history EXCEPT !.calls = IF FALSE THEN @ ELSE @ + 1]
      BY DEF Connected
    <2> QED
      BY <2>1, NoteCall DEF Orderly
  <1>6. w.node[a].name # w.node[b].name
    BY <1>1, WorldIs
  <1>7. ASSUME history.tidy, NEW n \in B, BridgeIs(w, n) PROVE BridgeIs(r, n)
    <2>1. w.node[n].shell /\ n \in N /\ a \in N /\ b \in N /\ a # b
      BY <1>1, <1>2, <1>6, <1>7, ShellsAreUp DEF Resting
    <2> QED
      BY <1>2, <1>3, <1>4, <1>7, <2>1, BridgeJoined
  <1>8. ASSUME history.tidy, history'.tidy, NEW n \in Range(switches')
        PROVE  \/ n \in Range(switches) /\ (BridgeIs(World, n) => BridgeIs(World', n))
               \/ BridgeIs(World', n)
    BY <1>1, <1>3, <1>7, <1>8
  <1> QED
    BY <1>3, <1>5, <1>8, BridgesAgain

\* A link call: an exception changes nothing at rest, and the program may end.
LEMMA BridgesLinkCall ==
    ASSUME Sound, Orderly, Bridges, phase \in {"build", "idle"}, NEW next, LinkCall(next)
    PROVE  Bridges'
  <1>1. CASE Fails(phase)
    <2>1. /\ history' = [history EXCEPT !.failed = phase]
          /\ phase' = IF phase = "build" THEN "exiting" ELSE phase
          /\ UNCHANGED <<node, link, lists, todo, system, up, wait>>
      BY <1>1 DEF Fails
    <2>2. history'.tidy = history.tidy /\ history'.started = history.started
      BY <2>1, NoteFailed DEF Orderly
    <2>3. CASE phase = "build"
      BY <2>1, <2>3, NoBridges DEF Running
    <2>4. CASE phase = "idle"
      <3>1. Started' \subseteq Started /\ phase \in Running /\ UNCHANGED <<node, link, bridge>>
        BY <2>1, <2>4 DEF Started, Running, lists, system
      <3> QED
        BY <2>2, <3>1, BridgesSame
    <2> QED
      BY <2>3, <2>4
  <1>2. CASE CutShort(next)
    <2>1. phase' = "exiting"
      BY <1>2 DEF CutShort
    <2> QED
      BY <2>1, NoBridges DEF Running
  <1>3. ASSUME NEW a \in Range(named), NEW b \in Range(named), NEW port1, NEW port2,
               NEW p1, NEW p2, NEW l, Connected(a, b, port1, port2, p1, p2, l, next),
               node[a].name # node[b].name
        PROVE  Bridges'
    <2>1. CASE phase = "idle"
      BY <1>3, <2>1, BridgesJoined
    <2>2. CASE phase = "build"
      <3>1. phase' = "build"
        BY <1>3, <2>2 DEF Connected
      <3> QED
        BY <3>1, NoBridges DEF Running
    <2> QED
      BY <2>1, <2>2
  <1> QED
    BY <1>1, <1>2, <1>3 DEF LinkCall

\* removeLink().
LEMMA BridgesRemoveLink ==
    ASSUME Sound, Orderly, Bridges, NEW l \in Range(links), RemoveLinkCall(l)
    PROVE  Bridges'
  <1>1. /\ MayChange /\ phase' = "idle" /\ UNCHANGED <<hosts, switches, named, nextIP>>
    BY RemoveLinkCallDoes
  <1>2. PICK raised \in BOOLEAN :
           /\ LinkOut(l, raised)
           /\ Range(links') = IF raised THEN Range(links) ELSE Range(links) \ {l}
           /\ history' = [history EXCEPT !.calls = @ + 1, !.removals = @ + 1,
                                         !.tidy = @ /\ ~raised,
                                         !.failed = IF raised THEN "remove" ELSE @]
    BY RemoveLinkCallDoes
  <1>3. phase = "idle" /\ phase \in Resting
    BY <1>1 DEF MayChange, Resting
  <1>4. PICK well \in BOOLEAN : well = (history.tidy /\ ~raised)
    OBVIOUS
  <1>5. PICK what : what = IF raised THEN "remove" ELSE history.failed
    OBVIOUS
  <1>6. history' = [history EXCEPT !.calls = @ + 1, !.removals = @ + 1,
                                   !.tidy = well, !.failed = what]
    BY <1>2, <1>4, <1>5
  <1>7. history'.tidy = well /\ history'.started = history.started
    BY <1>6, NoteRemoval DEF Orderly
  <1>8. PICK w, r, L, N, B : /\ w = World /\ r = World' /\ L = Range(links) /\ N = Range(named)
                             /\ B = Range(switches)
    OBVIOUS
  <1>9. /\ Shape(w) /\ B \subseteq N /\ L \subseteq DOMAIN w.link /\ l \in L
        /\ Distinct(w, N) /\ Same(w, r) /\ \A m \in B : w.node[m].kind = "switch"
    BY <1>2, <1>8, ListedInWorld DEF LinkOut
  <1>10. ~raised => LinkGone(w, l, r)
    BY <1>2, <1>8 DEF LinkOut
  <1>11. ASSUME history.tidy, ~raised, NEW n \in B, BridgeIs(w, n) PROVE BridgeIs(r, n)
    <2>1. Whole(w, N, L)
      BY <1>3, <1>8, <1>11, AtRest DEF HasAll
    <2> QED
      BY <1>9, <1>10, <1>11, <2>1, BridgeUnlinked
  <1>12. ASSUME history.tidy, history'.tidy, NEW n \in Range(switches')
         PROVE  \/ n \in Range(switches) /\ (BridgeIs(World, n) => BridgeIs(World', n))
                \/ BridgeIs(World', n)
    BY <1>1, <1>4, <1>7, <1>8, <1>11, <1>12
  <1> QED
    BY <1>1, <1>3, <1>4, <1>7, <1>12, BridgesAgain

\* The other bridges, when a node is taken out.
LEMMA BridgeOfOther ==
    ASSUME NEW w, Shape(w), NEW r, Same(w, r), NEW N, Distinct(w, N), NEW n \in N, NEW m \in N, m # n,
           NodeGone(w, n, r), BridgeIs(w, m)
    PROVE  BridgeIs(r, m)
  <1>1. Within(w, r) /\ m \in DOMAIN w.node
    BY SameWithin DEF Distinct
  <1>2. r.node[m].ports = w.node[m].ports /\ BridgesOfOthers(w, n, r)
    BY <1>1 DEF NodeGone
  <1>3. w.node[m].name # w.node[n].name
    BY DEF Distinct
  <1>4. w.node[m].name \in DOMAIN r.bridge =>
           /\ w.node[m].name \in DOMAIN w.bridge
           /\ r.bridge[w.node[m].name] = w.bridge[w.node[m].name]
    BY <1>2, <1>3 DEF BridgesOfOthers
  <1> QED
    BY <1>1, <1>2, <1>4, BridgeKept

\* removeHost(), delNode().
LEMMA BridgesOut ==
    ASSUME Sound, Orderly, Bridges, MayChange, phase' = "idle", NEW n \in Range(named), NodeOut(n)
    PROVE  Bridges'
  <1>1. /\ Same(World, World') /\ NodeGone(World, n, World')
        /\ Range(switches') = Range(switches) \ {n}
    BY DEF NodeOut
  <1>2. PICK well \in BOOLEAN : well = (history.tidy /\ \A l \in Range(links) : n \notin Range(link[l].n))
    OBVIOUS
  <1>3. history' = [history EXCEPT !.calls = @ + 1, !.removals = @ + 1,
                                   !.tidy = well, !.failed = history.failed]
    <2>1. history' = [history EXCEPT !.calls = @ + 1, !.removals = @ + 1, !.tidy = well]
      BY <1>2 DEF NodeOut
    <2> QED
      BY <2>1 DEF Orderly, Noted, Note, IsNote, HistoryFields
  <1>4. history'.tidy = well /\ history'.started = history.started
    BY <1>3, NoteRemoval DEF Orderly
  <1>5. PICK w, r, N, B : w = World /\ r = World' /\ N = Range(named) /\ B = Range(switches)
    OBVIOUS
  <1>6. Shape(w) /\ Distinct(w, N) /\ B \subseteq N
    BY <1>5, ListedInWorld
  <1>7. ASSUME NEW m \in B, m # n, BridgeIs(w, m) PROVE BridgeIs(r, m)
    BY <1>1, <1>5, <1>6, <1>7, BridgeOfOther
  <1>8. ASSUME history.tidy, history'.tidy, NEW m \in Range(switches')
        PROVE  \/ m \in Range(switches) /\ (BridgeIs(World, m) => BridgeIs(World', m))
               \/ BridgeIs(World', m)
    BY <1>1, <1>5, <1>7, <1>8
  <1> QED
    BY <1>2, <1>4, <1>8, BridgesAgain DEF MayChange

\* A switch whose bridge is made is among those that have been started.
LEMMA BridgesUp ==
    ASSUME Sound, Orderly, Bridges, phase \in {"idle", "start"}, phase' = phase,
           NEW n \in Range(switches), SwitchUp(n), Started' \subseteq Started \cup {n}
    PROVE  Bridges'
  <1>1. /\ BridgeMade(World, n, World') /\ Same(World, World') /\ UNCHANGED <<lists, history>>
    BY DEF SwitchUp
  <1>2. PICK w, r, N, B : w = World /\ r = World' /\ N = Range(named) /\ B = Range(switches)
    OBVIOUS
  <1>3. /\ Shape(w) /\ Distinct(w, N) /\ B \subseteq N /\ \A m \in B : w.node[m].kind = "switch"
    BY <1>2, ListedInWorld
  <1>4. Started' \subseteq B
    BY <1>1, <1>2 DEF Started, lists
  <1>5. ASSUME history.tidy, NEW m \in Started', m # n => BridgeIs(w, m) PROVE BridgeIs(r, m)
    <2>1. m \in N /\ n \in N /\ w.node[n].kind = "switch" /\ w.node[n].shell
      BY <1>2, <1>3, <1>4, <1>5, ShellsAreUp DEF Resting
    <2> QED
      BY <1>1, <1>2, <1>3, <1>5, <2>1, BridgeStarted
  <1>6. phase \in Running /\ history' = history
    BY <1>1 DEF Running
  <1> QED
    BY <1>2, <1>5, <1>6 DEF Bridges

\* start(), and a switch that is started after it.
LEMMA BridgesSwitches ==
    ASSUME Sound, Orderly, Bridges, StartSwitch \/ \E n \in Range(switches) : StartLaterSwitch(n)
    PROVE  Bridges'
  <1>1. CASE StartSwitch
    <2>1. PICK n : /\ SwitchUp(n) /\ n \in Range(switches) /\ n \in Range(todo)
                   /\ Range(todo) = Range(todo') \cup {n}
      BY <1>1, StartSwitchDoes
    <2>2. phase = "start" /\ phase' = "start" /\ switches' = switches
      BY <1>1, <2>1, StartSwitchDoes DEF SwitchUp, lists
    <2>3. Started' \subseteq Started \cup {n}
      BY <2>1, <2>2 DEF Started
    <2> QED
      BY <2>1, <2>2, <2>3, BridgesUp
  <1>2. ASSUME NEW n \in Range(switches), StartLaterSwitch(n) PROVE Bridges'
    <2>1. SwitchUp(n) /\ phase = "idle" /\ phase' = "idle"
      BY <1>2, StartLaterSwitchDoes
    <2>2. Started' \subseteq Started \cup {n}
      BY <2>1 DEF Started, SwitchUp, lists
    <2> QED
      BY <2>1, <2>2, BridgesUp
  <1> QED
    BY <1>1, <1>2

\* Steps that leave nodes, links and bridges alone.
LEMMA BridgesIdle ==
    ASSUME Sound, Orderly, Bridges,
           \/ StartEnds \/ WaitLook \/ WaitRoundEnds
           \/ \E timed \in BOOLEAN : WaitCall(timed)
           \/ \E n \in DOMAIN node : Connects(n) \/ Disconnects(n)
    PROVE  Bridges'
  <1>1. CASE StartEnds
    <2>1. /\ phase = "start" /\ todo = <<>> /\ phase' = "idle" /\ switches' = switches
          /\ UNCHANGED <<node, link, bridge, history>>
      BY <1>1 DEF StartEnds, lists, system
    <2>2. Range(todo) = {}
      BY <2>1, NothingIsList
    <2>3. Started' \subseteq Started /\ phase \in Running
      BY <2>1, <2>2 DEF Started, Running
    <2> QED
      BY <2>1, <2>3, BridgesSame
  <1>2. CASE WaitLook \/ WaitRoundEnds \/ \E timed \in BOOLEAN : WaitCall(timed)
    <2>1. /\ phase \in {"idle", "wait"} /\ phase' \in {"idle", "wait"} /\ switches' = switches
          /\ UNCHANGED <<node, link, bridge, history>>
      BY <1>2 DEF WaitLook, WaitRoundEnds, WaitCall, lists, system
    <2>2. Started' \subseteq Started /\ phase \in Running
      BY <2>1 DEF Started, Running
    <2> QED
      BY <2>1, <2>2, BridgesSame
  <1>3. ASSUME NEW n \in DOMAIN node, Connects(n) \/ Disconnects(n) PROVE Bridges'
    <2>1. /\ phase = "wait" /\ phase' = "wait" /\ switches' = switches
          /\ UNCHANGED <<node, link, bridge>>
          /\ history' = history \/ history' = [history EXCEPT !.troubles = @ + 1]
      BY <1>3 DEF Connects, Disconnects, lists, system
    <2>2. history'.tidy = history.tidy /\ history'.started = history.started
      BY <2>1, NoteDisconnected DEF Orderly
    <2>3. Started' \subseteq Started /\ phase \in Running
      BY <2>1 DEF Started, Running
    <2> QED
      BY <2>1, <2>2, <2>3, BridgesSame
  <1> QED
    BY <1>1, <1>2, <1>3

\* Building is over before anything is started, and a start begins with no switch.
LEMMA BridgesBuild ==
    ASSUME Sound, Orderly, BuildNode \/ BuildConfig \/ StartCall
    PROVE  Bridges'
  <1>1. CASE BuildNode
    <2>1. phase' = "build" \/ phase' = "exiting"
      BY <1>1, BuildNodeDoes DEF Fails, BuildNode
    <2> QED
      BY <2>1, NoBridges DEF Running
  <1>2. CASE BuildConfig
    <2>1. ~history'.started
      BY <1>2, BuildConfigDoes DEF Orderly, Noted
    <2> QED
      BY <2>1, NoBridges
  <1>3. CASE StartCall
    <2>1. phase' = "start" /\ todo' = switches /\ switches' = switches
      BY <1>3 DEF StartCall, lists
    <2>2. Started' = {}
      BY <2>1 DEF Started
    <2> QED
      BY <2>2, NoBridges
  <1> QED
    BY <1>1, <1>2, <1>3

\* stop() comes back to rest only untidy.
LEMMA BridgesStop ==
    ASSUME Sound, Orderly, Orderly',
           \/ StopCall \/ StopLink \/ StopSwitches \/ StopHost \/ StopEnds \/ InterruptStop
           \/ Exit \/ Cleanup \/ Restart \/ \E name \in proc : ProcessDies(name)
    PROVE  Bridges'
  <1>1. CASE StopCall \/ StopSwitches \/ StopHost \/ StopEnds
    <2>1. phase' \in {"stop links", "stop hosts", "stopped"}
      BY <1>1 DEF StopCall, StopSwitches, StopHost, StopEnds
    <2> QED
      BY <2>1, NoBridges DEF Running
  <1>2. CASE StopLink
    <2>1. PICK l, raised : LinkStopped(l, raised)
      BY <1>2, StopLinkDoes
    <2>2. CASE raised
      <3>1. history' = [history EXCEPT !.failed = "stop"]
        BY <2>1, <2>2 DEF LinkStopped
      <3>2. history'.failed = "stop"
        BY <3>1, NoteFailed DEF Orderly
      <3>3. ~history'.tidy
        BY <3>2 DEF Orderly, Tidy
      <3> QED
        BY <3>3, NoBridges
    <2>3. CASE ~raised
      <3>1. phase' = "stop links"
        BY <2>1, <2>3 DEF LinkStopped
      <3> QED
        BY <3>1, NoBridges DEF Running
    <2> QED
      BY <2>2, <2>3
  <1>3. CASE InterruptStop \/ \E name \in proc : ProcessDies(name)
    <2>1. history' = [history EXCEPT !.troubles = @ + 1, !.tidy = FALSE]
      BY <1>3 DEF InterruptStop, ProcessDies
    <2>2. ~history'.tidy
      BY <2>1, NoteTrouble DEF Orderly
    <2> QED
      BY <2>2, NoBridges
  <1>4. CASE Exit \/ Cleanup \/ Restart
    <2>1. phase' \in {"exited", "cleaned", "build"}
      BY <1>4 DEF Exit, Cleanup, Restart
    <2> QED
      BY <2>1, NoBridges DEF Running
  <1> QED
    BY <1>1, <1>2, <1>3, <1>4

\* Every step keeps the bridges as they ought to be.
LEMMA BridgesNext ==
    ASSUME Sound, Orderly, Quiet, Bridges, [Next]_vars
    PROVE  Bridges'
  <1>1. CASE UNCHANGED vars
    <2>1. /\ UNCHANGED <<node, link, bridge>> /\ history' = history /\ phase' = phase
          /\ switches' = switches /\ todo' = todo
      BY <1>1 DEF vars
    <2>2. Started' \subseteq Started
      BY <2>1 DEF Started
    <2> QED
      BY <2>1, <2>2, BridgesSame, NoBridges
  <1>2. CASE Program
    <2>1. CASE BuildNode \/ BuildConfig \/ StartCall
      BY <2>1, BridgesBuild
    <2>2. CASE BuildLink
      <3>1. LinkCall(Tail(todo)) /\ phase = "build"
        BY <2>2, BuildLinkDoes
      <3> QED
        BY <3>1, BridgesLinkCall
    <2>3. ASSUME NEW nd \in Names, AddNodeCall(nd) PROVE Bridges'
      BY <2>3, BridgesAddNode
    <2>4. ASSUME NEW a \in DOMAIN node, NEW b \in DOMAIN node, NEW p \in PortPairs,
                 AddLinkCall(a, b, p[1], p[2])
          PROVE  Bridges'
      <3>1. LinkCall(<<>>) /\ phase = "idle"
        BY <2>4, AddLinkCallDoes DEF MayChange
      <3> QED
        BY <3>1, BridgesLinkCall
    <2>5. ASSUME NEW l \in Range(links), RemoveLinkCall(l) PROVE Bridges'
      BY <2>5, BridgesRemoveLink
    <2>6. ASSUME NEW n \in DOMAIN node, RemoveHostCall(n) \/ DelNodeCall(n) PROVE Bridges'
      <3>1. MayChange /\ n \in Range(named) /\ phase' = "idle" /\ NodeOut(n)
        BY <2>6, RemoveHostCallDoes, DelNodeCallDoes
      <3> QED
        BY <3>1, BridgesOut
    <2>7. CASE StartSwitch \/ \E n \in Range(switches) : StartLaterSwitch(n)
      BY <2>7, BridgesSwitches
    <2>8. CASE \/ StartEnds \/ WaitLook \/ WaitRoundEnds
               \/ \E timed \in BOOLEAN : WaitCall(timed)
      BY <2>8, BridgesIdle
    <2>9. CASE StopCall \/ StopLink \/ StopSwitches \/ StopHost \/ StopEnds
      BY <2>9, OrderlyStop, OrderlyStopLink, OrderlyStopSwitches, OrderlyStopHost, OrderlyStopEnds,
         BridgesStop
    <2> QED
      BY <1>2, <2>1, <2>2, <2>3, <2>4, <2>5, <2>6, <2>7, <2>8, <2>9 DEF Program
  <1>3. CASE Outside
    <2>1. CASE InterruptStop \/ Exit \/ Cleanup \/ Restart \/ \E name \in proc : ProcessDies(name)
      BY <2>1, OrderlyInterrupt, OrderlyEnd, OrderlyRestart, OrderlyDeath, BridgesStop
    <2> QED
      BY <1>3, <2>1, BridgesIdle DEF Outside
  <1> QED
    BY <1>1, <1>2, <1>3 DEF Next

\* What the history says of the clean-up before this run, and how many calls there were.
SameCount == history'.clean = history.clean /\ history'.calls >= history.calls

\* Calls are still possible only in a system that was clean.
LEMMA QuietOn ==
    ASSUME Noted, Note(history'), Quiet, SameCount
    PROVE  Quiet'
  <1>1. MaxCalls \in Nat
    BY BoundsAssumption
  <1>2. history.calls \in Nat /\ history'.calls \in Nat
    BY DEF Noted, Note
  <1> QED
    BY <1>1, <1>2 DEF Quiet, SameCount

\* Every step keeps it.
LEMMA QuietNext ==
    ASSUME Sound, Orderly, Orderly', Quiet, [Next]_vars
    PROVE  Quiet'
  <1>1. Noted /\ Note(history') /\ history.calls \in Nat
    BY DEF Orderly, Noted, Note
  <1>2. ASSUME history' = history PROVE SameCount
    BY <1>1, <1>2 DEF SameCount
  <1>3. ASSUME NEW what, history' = [history EXCEPT !.failed = what] PROVE SameCount
    BY <1>1, <1>3, NoteFailed DEF SameCount
  <1>4. ASSUME NEW building \in BOOLEAN,
               history' = [history EXCEPT !.calls = IF building THEN @ ELSE @ + 1]
        PROVE  SameCount
    BY <1>1, <1>4, NoteCall DEF SameCount
  <1>5. CASE UNCHANGED vars
    BY <1>1, <1>2, <1>5, QuietOn DEF vars
  <1>6. CASE BuildNode
    BY <1>1, <1>2, <1>3, <1>6, BuildNodeDoes, QuietOn DEF Fails
  <1>7. ASSUME phase \in {"build", "idle"}, NEW next, LinkCall(next) PROVE Quiet'
    <2>1. CASE Fails(phase) \/ CutShort(next)
      BY <1>1, <1>3, <2>1, QuietOn DEF Fails, CutShort
    <2>2. ASSUME NEW a, NEW b, NEW port1, NEW port2, NEW p1, NEW p2, NEW l,
                 Connected(a, b, port1, port2, p1, p2, l, next)
          PROVE  SameCount
      <3>1. PICK building \in BOOLEAN : building = (phase = "build")
        OBVIOUS
      <3>2. history' = [history EXCEPT !.calls = IF building THEN @ ELSE @ + 1]
        BY <2>2, <3>1 DEF Connected
      <3> QED
        BY <1>4, <3>2
    <2> QED
      BY <1>1, <1>7, <2>1, <2>2, QuietOn DEF LinkCall
  <1>8. CASE BuildLink
    BY <1>7, <1>8, BuildLinkDoes
  <1>9. ASSUME NEW a \in DOMAIN node, NEW b \in DOMAIN node, NEW p \in PortPairs,
               AddLinkCall(a, b, p[1], p[2])
        PROVE  Quiet'
    BY <1>7, <1>9, AddLinkCallDoes DEF MayChange
  <1>10. ASSUME NEW nd \in Names, AddNodeCall(nd) PROVE Quiet'
    <2>1. history' = [history EXCEPT !.calls = IF FALSE THEN @ ELSE @ + 1]
      BY <1>10 DEF AddNodeCall, Called
    <2> QED
      BY <1>1, <1>4, <2>1, QuietOn
  <1>11. ASSUME NEW well \in BOOLEAN, NEW what,
                history' = [history EXCEPT !.calls = @ + 1, !.removals = @ + 1,
                                           !.tidy = well, !.failed = what]
         PROVE  Quiet'
    <2>1. history'.clean = history.clean /\ history'.calls = history.calls + 1
      BY <1>1, <1>11, NoteRemoval
    <2> QED
      BY <1>1, <2>1, QuietOn DEF SameCount
  <1>12. ASSUME NEW l \in Range(links), RemoveLinkCall(l) PROVE Quiet'
    <2>1. PICK raised \in BOOLEAN :
             history' = [history EXCEPT !.calls = @ + 1, !.removals = @ + 1,
                                        !.tidy = @ /\ ~raised,
                                        !.failed = IF raised THEN "remove" ELSE @]
      BY <1>12, RemoveLinkCallDoes
    <2>2. PICK well \in BOOLEAN : well = (history.tidy /\ ~raised)
      OBVIOUS
    <2>3. PICK what : what = IF raised THEN "remove" ELSE history.failed
      OBVIOUS
    <2>4. history' = [history EXCEPT !.calls = @ + 1, !.removals = @ + 1,
                                     !.tidy = well, !.failed = what]
      BY <2>1, <2>2, <2>3
    <2> QED
      BY <1>11, <2>4
  <1>13. ASSUME NEW n \in DOMAIN node, RemoveHostCall(n) \/ DelNodeCall(n) PROVE Quiet'
    <2>1. NodeOut(n)
      BY <1>13, RemoveHostCallDoes, DelNodeCallDoes
    <2>2. PICK well \in BOOLEAN : well = (history.tidy /\ \A l \in Range(links) : n \notin Range(link[l].n))
      OBVIOUS
    <2>3. history' = [history EXCEPT !.calls = @ + 1, !.removals = @ + 1, !.tidy = well]
      BY <2>1, <2>2 DEF NodeOut
    <2>4. history' = [history EXCEPT !.calls = @ + 1, !.removals = @ + 1,
                                     !.tidy = well, !.failed = history.failed]
      BY <1>1, <2>3 DEF Noted, Note, IsNote, HistoryFields
    <2> QED
      BY <1>11, <2>4
  <1>14. CASE StartCall
    <2>1. history' = [history EXCEPT !.started = TRUE]
      BY <1>14 DEF StartCall
    <2>2. SameCount
      BY <1>1, <2>1, NoteStarted DEF SameCount
    <2> QED
      BY <1>1, <2>2, QuietOn
  <1>15. CASE InterruptStop \/ \E name \in proc : ProcessDies(name)
    <2>1. history' = [history EXCEPT !.troubles = @ + 1, !.tidy = FALSE]
      BY <1>15 DEF InterruptStop, ProcessDies
    <2>2. SameCount
      BY <1>1, <2>1, NoteTrouble DEF SameCount
    <2> QED
      BY <1>1, <2>2, QuietOn
  <1>16. ASSUME NEW n \in DOMAIN node, Connects(n) \/ Disconnects(n) PROVE Quiet'
    <2>1. history' = history \/ history' = [history EXCEPT !.troubles = @ + 1]
      BY <1>16 DEF Connects, Disconnects
    <2>2. SameCount
      BY <1>1, <1>2, <2>1, NoteDisconnected DEF SameCount
    <2> QED
      BY <1>1, <2>2, QuietOn
  <1>17. CASE StopLink
    BY <1>1, <1>2, <1>3, <1>17, StopLinkDoes, QuietOn DEF LinkStopped
  <1>18. CASE Restart
    <2>1. PICK clean \in BOOLEAN : clean = (phase = "cleaned")
      OBVIOUS
    <2>2. history' = [Fresh EXCEPT !.runs = history.runs + 1, !.clean = clean, !.calls = MaxCalls]
      BY <1>18, <2>1 DEF Restart
    <2>3. history'.calls = MaxCalls
      BY <1>1, <2>2, NoteRestart
    <2>4. MaxCalls \in Nat
      BY BoundsAssumption
    <2> QED
      BY <2>3, <2>4 DEF Quiet
  <1>19. CASE \/ BuildConfig \/ StartSwitch \/ StartEnds \/ WaitLook \/ WaitRoundEnds
              \/ \E timed \in BOOLEAN : WaitCall(timed)
              \/ \E n \in Range(switches) : StartLaterSwitch(n)
              \/ StopCall \/ StopSwitches \/ StopHost \/ StopEnds \/ Exit \/ Cleanup
    <2>1. history' = history
      BY <1>19 DEF BuildConfig, StartSwitch, StartEnds, WaitLook, WaitRoundEnds, WaitCall,
                   StartLaterSwitch, StopCall, StopSwitches, StopHost, StopEnds, Exit, Cleanup
    <2> QED
      BY <1>1, <1>2, <2>1, QuietOn
  <1>20. CASE Program
    BY <1>6, <1>8, <1>9, <1>10, <1>12, <1>13, <1>14, <1>17, <1>19, <1>20 DEF Program
  <1>21. CASE Outside
    BY <1>15, <1>16, <1>18, <1>19, <1>21 DEF Outside
  <1> QED
    BY <1>5, <1>20, <1>21 DEF Next

\* A switch that was started has the ports of its links on its bridge.
THEOREM NetBridged == Spec => [](Sound /\ Orderly /\ Quiet /\ Bridges)
  <1>1. Init => Sound /\ Orderly /\ Quiet /\ Bridges
    <2> SUFFICES ASSUME Init PROVE Sound /\ Orderly /\ Quiet /\ Bridges
      OBVIOUS
    <2>1. history = Fresh
      BY DEF Init
    <2>2. history.clean /\ ~history.started
      BY <2>1, NoteFresh
    <2> QED
      BY <2>2, InitIsSound, OrderlyFirst DEF Quiet, Bridges
  <1>2. Sound /\ Orderly /\ Quiet /\ Bridges /\ [Next]_vars => (Sound /\ Orderly /\ Quiet /\ Bridges)'
    BY SoundNext, OrderlyNext, QuietNext, BridgesNext
  <1> QED
    BY <1>1, <1>2, PTL DEF Spec

\* The name of the next interface of a node is that of no end of a pair.
LEMMA NextNameIsFree ==
    ASSUME NEW w, Shape(w), NEW N, Distinct(w, N), NEW L, L \subseteq DOMAIN w.link, Whole(w, N, L),
           Live(w, L), NEW c \in N, NEW r, NEW v \in w.veth
    PROVE  <<r, <<w.node[c].name, NewPort(w.node[c])>>>> \notin v
  <1>1. PICK k \in L : v = Pair(w, k)
    BY DEF Live
  <1>2. ASSUME NEW s \in {1, 2}, End(w, <<k, s>>) = <<r, <<w.node[c].name, NewPort(w.node[c])>>>>
        PROVE  FALSE
    <2>1. PICK m, q : m = w.link[k].n[s] /\ q = w.link[k].p[s]
      OBVIOUS
    <2>2. JointAt(w, k, s, N) /\ k \in DOMAIN w.link
      BY <1>1 DEF Whole, Joint
    <2>3. <<k, s>>[1] = k /\ <<k, s>>[2] = s
      OBVIOUS
    <2>4. End(w, <<k, s>>)[2] = <<w.node[m].name, q>>
      BY <2>1, <2>3 DEF End, IntfName
    <2>5. w.node[m].name = w.node[c].name /\ q = NewPort(w.node[c])
      BY <1>2, <2>4
    <2>6. m \in N /\ <<k, s>> \in DOMAIN w.node[m].ports /\ m \in DOMAIN w.node
      BY <2>1, <2>2 DEF JointAt, Distinct
    <2>7. m = c
      BY <2>5, <2>6 DEF Distinct
    <2>8. NodeShape(w.node[m], m, w.link)
      BY <2>6 DEF Shape
    <2>9. <<k, s>> # Lo
      <3>1. \E z \in Nat : w.link = [i \in 1..z |-> w.link[i]]
        BY DEF Shape, Worldly, IsSeq
      <3>2. k > 0 /\ k \in Nat
        BY <2>2, <3>1
      <3> QED
        BY <3>2 DEF Lo
    <2>10. w.node[m].ports[<<k, s>>] = q
      <3>1. PICK i : i = <<k, s>>
        OBVIOUS
      <3>2. i \in DOMAIN w.node[m].ports \ {Lo}
        BY <2>6, <2>9, <3>1
      <3>3. w.node[m].ports[i] = w.link[i[1]].p[i[2]]
        BY <2>6, <3>2, PortNamed
      <3> QED
        BY <2>1, <2>3, <3>1, <3>3
    <2>11. q < NewPort(w.node[m]) /\ NewPort(w.node[m]) \in Nat /\ q \in Nat
      BY <2>6, <2>8, <2>10, NewPortIs
    <2> QED
      BY <2>5, <2>7, <2>11
  <1> QED
    BY <1>1, <1>2 DEF Pair

\* So the pair of the next link can be made.
LEMMA NextPairIsMade ==
    ASSUME NEW w, Shape(w), NEW N, Distinct(w, N), NEW L, L \subseteq DOMAIN w.link, Whole(w, N, L),
           Live(w, L), NEW a \in N, NEW b \in N, a # b
    PROVE  PairResult(WithLink(w, a, b, None, None), Len(w.link) + 1).result = "made"
  <1>1. PICK w1, l : w1 = WithLink(w, a, b, None, None) /\ l = Len(w.link) + 1
    OBVIOUS
  <1>2. a \in DOMAIN w.node /\ b \in DOMAIN w.node /\ w.node[a].name # w.node[b].name
    BY DEF Distinct
  <1>3. \E p1 \in Nat, p2 \in Nat, k \in Nat :
           /\ Shape(w1) /\ NewLink(w, a, b, p1, p2, k, w1)
           /\ p1 = NewPort(w.node[a]) /\ p2 = NewPort(w.node[b])
    <2>1. PICK asked : asked = None
      OBVIOUS
    <2>2. Asked(w.node[a], asked) /\ Asked(w.node[b], asked) /\ w1 = WithLink(w, a, b, asked, asked)
      BY <1>1, <2>1 DEF Asked
    <2> QED
      BY <1>2, <2>1, <2>2, WithLinkIs
  <1>4. PICK k \in Nat : NewLink(w, a, b, NewPort(w.node[a]), NewPort(w.node[b]), k, w1)
    BY <1>3
  <1>5. k = l
    BY <1>1, <1>4 DEF NewLink
  <1>6. /\ w1.node = w.node /\ w1.veth = w.veth /\ w1.proc = w.proc
        /\ w1.link[l].n[1] = a /\ w1.link[l].n[2] = b
        /\ w1.link[l].p[1] = NewPort(w.node[a]) /\ w1.link[l].p[2] = NewPort(w.node[b])
    BY <1>4, <1>5 DEF NewLink
  <1>7. PICK name1, name2 : name1 = IntfName(w1, <<l, 1>>) /\ name2 = IntfName(w1, <<l, 2>>)
    OBVIOUS
  <1>8. /\ name1 = <<w.node[a].name, NewPort(w.node[a])>>
        /\ name2 = <<w.node[b].name, NewPort(w.node[b])>>
    <2>1. <<l, 1>>[1] = l /\ <<l, 1>>[2] = 1 /\ <<l, 2>>[1] = l /\ <<l, 2>>[2] = 2
      OBVIOUS
    <2> QED
      BY <1>6, <1>7, <2>1 DEF IntfName
  <1>9. ASSUME NEW r, NEW v \in w1.veth PROVE <<r, name1>> \notin v /\ <<r, name2>> \notin v
    BY <1>6, <1>8, NextNameIsFree
  <1>10. Movable(w1, w1.link[l].n[1], name1) /\ Movable(w1, w1.link[l].n[2], name2)
    <2>1. w.node[a].name \in w.proc /\ w.node[b].name \in w.proc
      BY DEF Whole, Up
    <2> QED
      BY <1>6, <1>9, <2>1 DEF Movable
  <1>11. ~\E v \in w1.veth, s \in 1..2 : <<Root, IntfName(w1, <<l, s>>)>> \in v
    <2>1. \A s \in 1..2 : s = 1 \/ s = 2
      OBVIOUS
    <2> QED
      BY <1>7, <1>9, <2>1
  <1>12. PICK made : made = PairResult(w1, l)
    OBVIOUS
  <1>13. made.result = "made"
    BY <1>7, <1>10, <1>11, <1>12 DEF PairResult
  <1> QED
    BY <1>1, <1>12, <1>13

\* What a port of a network is, in which nothing is missing.
IsPort(w, n, L, i) == i = <<i[1], i[2]>> /\ i[1] \in L /\ i[2] \in {1, 2} /\ w.link[i[1]].n[i[2]] = n

\* A port is the end of a link.
LEMMA PortIsEnd ==
    ASSUME NEW w, Shape(w), NEW N, NEW L, Whole(w, N, L), NEW n \in N, n \in DOMAIN w.node,
           NEW i \in DOMAIN w.node[n].ports \ {Lo}
    PROVE  IsPort(w, n, L, i)
  <1>1. i[1] \in L
    BY DEF Whole, PortsIn
  <1> QED
    BY <1>1, PortNamed DEF IsPort
EndFits(w, l, s, n) ==
    /\ <<l, s>> \in DOMAIN w.node[n].ports \ {Lo}
    /\ w.node[n].ports[<<l, s>>] = w.link[l].p[s]
    /\ w.node[n].intfs[w.link[l].p[s]] = <<l, s>>

\* And the end of a link is a port of its node.
LEMMA EndIsPort ==
    ASSUME NEW w, Shape(w), NEW N, N \subseteq DOMAIN w.node, NEW L, L \subseteq DOMAIN w.link,
           Whole(w, N, L), NEW l \in L, NEW s \in {1, 2}, NEW n, n = w.link[l].n[s]
    PROVE  EndFits(w, l, s, n)
  <1>1. JointAt(w, l, s, N)
    BY DEF Whole, Joint
  <1>2. n \in N /\ <<l, s>> \in DOMAIN w.node[n].ports /\ w.node[n].intfs[w.link[l].p[s]] = <<l, s>>
    BY <1>1 DEF JointAt
  <1>3. <<l, s>> # Lo
    <2>1. \E z \in Nat : w.link = [i \in 1..z |-> w.link[i]]
      BY DEF Shape, Worldly, IsSeq
    <2>2. l > 0 /\ l \in Nat
      BY <2>1
    <2> QED
      BY <2>2 DEF Lo
  <1>4. <<l, s>>[1] = l /\ <<l, s>>[2] = s
    OBVIOUS
  <1>5. w.node[n].ports[<<l, s>>] = w.link[l].p[s]
    <2>1. PICK i : i = <<l, s>> /\ i[1] = l /\ i[2] = s
      BY <1>4
    <2>2. n \in DOMAIN w.node /\ i \in DOMAIN w.node[n].ports \ {Lo}
      BY <1>2, <1>3, <2>1
    <2>3. w.node[n].ports[i] = w.link[i[1]].p[i[2]]
      BY <2>2, PortNamed
    <2> QED
      BY <2>1, <2>3
  <1> QED
    BY <1>2, <1>3, <1>5 DEF EndFits

\* The ends of the links of the network, at a node.
LEMMA EndsAtAre ==
    ASSUME NEW n, NEW i
    PROVE  i \in EndsAt(n) <=> IsPort(World, n, Range(links), i)
  <1>1. World.link = link
    BY WorldIs
  <1>2. i \in Range(links) \X {1, 2} <=> i = <<i[1], i[2]>> /\ i[1] \in Range(links) /\ i[2] \in {1, 2}
    OBVIOUS
  <1> QED
    BY <1>1, <1>2 DEF EndsAt, IsPort

\* The ports of a node are the ends of the links there.
LEMMA PortsAreEndsAt ==
    ASSUME Sound, HasAll, NEW n \in Range(named)
    PROVE  /\ DOMAIN node[n].ports \ {Lo} = EndsAt(n)
           /\ \A i \in EndsAt(n) : /\ node[n].ports[i] = link[i[1]].p[i[2]]
                                   /\ node[n].intfs[node[n].ports[i]] = i
  <1>1. PICK w, N, L : w = World /\ N = Range(named) /\ L = Range(links)
    OBVIOUS
  <1>2. /\ Shape(w) /\ N \subseteq DOMAIN w.node /\ L \subseteq DOMAIN w.link /\ Whole(w, N, L)
        /\ w.node = node /\ w.link = link
    BY <1>1, ListedInWorld, WorldIs DEF HasAll
  <1>3. ASSUME NEW i \in DOMAIN node[n].ports \ {Lo} PROVE i \in EndsAt(n)
    BY <1>1, <1>2, <1>3, PortIsEnd, EndsAtAre
  <1>4. ASSUME NEW i \in EndsAt(n)
        PROVE  /\ i \in DOMAIN node[n].ports \ {Lo}
               /\ node[n].ports[i] = link[i[1]].p[i[2]]
               /\ node[n].intfs[node[n].ports[i]] = i
    <2>1. IsPort(w, n, L, i)
      BY <1>1, EndsAtAre
    <2>2. PICK l, s : l = i[1] /\ s = i[2]
      OBVIOUS
    <2>3. i = <<l, s>> /\ l \in L /\ s \in {1, 2} /\ w.link[l].n[s] = n
      BY <2>1, <2>2 DEF IsPort
    <2>4. /\ <<l, s>> \in DOMAIN w.node[n].ports \ {Lo}
          /\ w.node[n].ports[<<l, s>>] = w.link[l].p[s]
          /\ w.node[n].intfs[w.link[l].p[s]] = <<l, s>>
      <3>1. PICK m : m = w.link[l].n[s]
        OBVIOUS
      <3>2. EndFits(w, l, s, m)
        <4>1. l \in L /\ s \in {1, 2} /\ Shape(w) /\ Whole(w, N, L) /\ N \subseteq DOMAIN w.node
              /\ L \subseteq DOMAIN w.link
          BY <1>2, <2>3
        <4> QED
          BY <3>1, <4>1, EndIsPort
      <3> QED
        BY <2>3, <3>1, <3>2 DEF EndFits
    <2> QED
      BY <1>2, <2>2, <2>3, <2>4
  <1> QED
    BY <1>3, <1>4

\* The bridge of a switch that was started, in a network in which nothing is missing.
LEMMA BridgeHasItsLinks ==
    ASSUME Sound, HasAll, NEW n \in Range(switches), BridgeIs(World, n),
           node[n].name \in DOMAIN bridge
    PROVE  bridge[node[n].name] =
              {IntfName(World, i) : i \in {e \in EndsAt(n) : link[e[1]].p[e[2]] # 0}}
  <1>1. /\ World.node = node /\ World.link = link /\ World.bridge = bridge
    BY WorldIs
  <1>2. /\ Shape(World) /\ n \in Range(named) /\ World.node[n].kind = "switch"
        /\ Range(links) \subseteq DOMAIN World.link
    BY ListedInWorld
  <1>3. DOMAIN node[n].ports \ {Lo} = EndsAt(n)
    BY <1>2, PortsAreEndsAt
  <1>4. ASSUME NEW e \in EndsAt(n) PROVE link[e[1]].p[e[2]] # 0
    <2>1. IsPort(World, n, Range(links), e)
      BY EndsAtAre
    <2>2. e[1] \in DOMAIN World.link /\ e[2] \in {1, 2} /\ World.link[e[1]].n[e[2]] = n
      BY <1>2, <2>1 DEF IsPort
    <2>3. LinkShape(World, e[1])
      BY <1>2, <2>2 DEF Shape
    <2> QED
      BY <1>1, <1>2, <2>2, <2>3 DEF LinkShape
  <1>5. {e \in EndsAt(n) : link[e[1]].p[e[2]] # 0} = EndsAt(n)
    BY <1>4
  <1>6. ASSUME NEW x PROVE x \in bridge[node[n].name] <=> \E i \in EndsAt(n) : x = IntfName(World, i)
    BY <1>1, <1>3 DEF BridgeIs, PortOf
  <1>7. bridge[node[n].name] = {IntfName(World, i) : i \in EndsAt(n)}
    BY <1>6
  <1> QED
    BY <1>5, <1>7

\* A node of the network has one interface for each port, and one port for each.
LEMMA MapsAgree ==
    ASSUME Sound, HasAll, NEW n \in Range(named)
    PROVE  /\ \A p \in DOMAIN node[n].intfs : node[n].ports[node[n].intfs[p]] = p
           /\ \A i \in DOMAIN node[n].ports : node[n].intfs[node[n].ports[i]] = i
  <1>1. /\ World.node = node /\ Shape(World) /\ n \in DOMAIN World.node
    BY ListedInWorld, WorldIs
  <1>2. Maps(node[n].intfs, node[n].ports, node[n].kind, n, World.link)
    BY <1>1 DEF Shape, NodeShape
  <1>3. ASSUME NEW i \in DOMAIN node[n].ports PROVE node[n].intfs[node[n].ports[i]] = i
    <2>1. CASE i = Lo
      BY <1>2, <2>1 DEF Maps
    <2>2. CASE i # Lo
      BY <2>2, PortsAreEndsAt
    <2> QED
      BY <2>1, <2>2
  <1> QED
    BY <1>2, <1>3 DEF Maps

\* The lists, the maps, the veth pairs and the bridges are views of one network.
LEMMA WiredAtRest ==
    ASSUME Sound, Orderly, Bridges
    PROVE  LinksAreWired
  <1> SUFFICES ASSUME phase = "idle", history.tidy PROVE LinksAreWired
    BY DEF LinksAreWired
  <1>1. HasAll
    BY AtRest DEF Resting
  <1>2. PICK w, N, L : w = World /\ N = Range(named) /\ L = Range(links)
    OBVIOUS
  <1>3. /\ Shape(w) /\ Distinct(w, N) /\ L \subseteq DOMAIN w.link /\ Whole(w, N, L)
        /\ w.node = node /\ w.link = link /\ w.veth = veth /\ Range(switches) \subseteq N
    BY <1>1, <1>2, ListedInWorld, WorldIs DEF HasAll
  <1>4. ASSUME history.clean PROVE Live(w, L)
    <2>1. Watched
      BY <1>4 DEF Watched, InCall, Resting
    <2> QED
      BY <1>2, <2>1, AtRest DEF OwnsAll, Belongs, Ours, Resting
  <1>5. ASSUME history.clean PROVE veth = {Ends(l) : l \in Range(links)}
    <2>1. \A l : Ends(l) = Pair(w, l)
      BY <1>2 DEF Ends, Pair
    <2>2. \A v \in veth : \E l \in Range(links) : v = Ends(l)
      BY <1>2, <1>3, <1>4, <1>5, <2>1 DEF Live
    <2>3. \A l \in Range(links) : Ends(l) \in veth
      BY <1>2, <1>3, <2>1 DEF Whole, Joint
    <2> QED
      BY <2>2, <2>3
  <1>6. \A n \in Range(named) :
           /\ DOMAIN node[n].ports \ {Lo} = EndsAt(n)
           /\ \A i \in EndsAt(n) : node[n].ports[i] = link[i[1]].p[i[2]]
           /\ \A p \in DOMAIN node[n].intfs : node[n].ports[node[n].intfs[p]] = p
           /\ \A i \in DOMAIN node[n].ports : node[n].intfs[node[n].ports[i]] = i
    BY <1>1, PortsAreEndsAt, MapsAgree
  <1>7. ASSUME history.clean
        PROVE  \A a, b \in Range(named) :
                  a # b => PairResult(WithLink(World, a, b, None, None), Len(link) + 1).result = "made"
    BY <1>2, <1>3, <1>4, <1>7, NextPairIsMade
  <1>8. ASSUME history.started, NEW n \in Range(switches), node[n].name \in DOMAIN bridge
        PROVE  bridge[node[n].name] =
                  {IntfName(World, i) : i \in {e \in EndsAt(n) : link[e[1]].p[e[2]] # 0}}
    <2>1. BridgeIs(World, n)
      BY <1>8 DEF Bridges, Started, Running
    <2> QED
      BY <1>1, <1>8, <2>1, BridgeHasItsLinks
  <1> QED
    BY <1>5, <1>6, <1>7, <1>8 DEF LinksAreWired

\* While every call returned, Mininet.links, the port maps of the nodes, the
\* veth pairs and the bridges of the switches that were started say the
\* same, and the next addLink() between any two nodes finds names that are
\* free, after any sequence of addLink, removeLink, addHost and removal of
\* unlinked nodes.
THEOREM NetWired == Spec => []LinksAreWired
  <1>1. Sound /\ Orderly /\ Quiet /\ Bridges => LinksAreWired
    BY WiredAtRest
  <1> QED
    BY <1>1, NetBridged, PTL

(***************************************************************************)
(* What the fault controller was told at the start.                        *)
(***************************************************************************)
(* An interface of a, by its name, that is one end of a link whose other end is at b.  *)
EndAt(l, a, b, name) ==
    \/ link[l].n[1] = a /\ link[l].n[2] = b /\ name = IntfName(World, <<l, 1>>)
    \/ link[l].n[2] = a /\ link[l].n[1] = b /\ name = IntfName(World, <<l, 2>>)

(* What the fault controller holds of a target fits the network: the named interface is
   of a link between the two, or there was no such link.  *)
Fits(t) ==
    IF t.intf = NoIntf
    THEN t.id.form = "arrow" /\ (history.calls = 0 => \A l \in Range(links) : ~Between(l, t.id.a, t.id.b))
    ELSE /\ t.id.form # "arrow" => t.intf = t.id.name
         /\ \E l \in Range(links) : EndAt(l, t.id.a, t.id.b, t.intf)
Aimed(t) == t.kind = "link" \/ (t.kind = "redirect" /\ t.id.form # "named")
(* Nothing is told while the network is built; as long as the calls return and nothing
   is removed, what was told fits.  *)
Aiming ==
    /\ phase = "build" => aim = {}
    /\ history.tidy /\ history.removals = 0 /\ phase \in {"idle", "wait"} =>
          \A t \in aim : Aimed(t) => Fits(t)

\* The links that the program lists.
LEMMA ListedLinks ==
    ASSUME Sound
    PROVE  /\ \E k \in Nat : links = [i \in 1..k |-> links[i]]
           /\ \A l \in Range(links) :
                 /\ l \in DOMAIN link /\ l \in Nat /\ l > 0
                 /\ link[l].n = <<link[l].n[1], link[l].n[2]>> /\ link[l].n[1] # link[l].n[2]
  <1>1. IsSeq(links) /\ Range(links) \subseteq DOMAIN link /\ Shape(World) /\ World.link = link
    BY WorldIs DEF Sound, ShapeNow, Lists, LinksListed, IsList
  <1>2. \E z \in Nat : link = [i \in 1..z |-> link[i]]
    BY <1>1 DEF Shape, Worldly, IsSeq
  <1>3. ASSUME NEW l \in Range(links)
        PROVE  link[l].n = <<link[l].n[1], link[l].n[2]>> /\ link[l].n[1] # link[l].n[2]
    <2>1. LinkShape(World, l)
      BY <1>1 DEF Shape
    <2>2. IsLink(link[l]) /\ link[l].n[1] # link[l].n[2]
      BY <1>1, <2>1 DEF LinkShape
    <2>3. PICK f : f = link[l].n
      OBVIOUS
    <2>4. f = [s \in {1, 2} |-> f[s]]
      BY <2>2, <2>3 DEF IsLink
    <2>5. {1, 2} = 1..2
      OBVIOUS
    <2>6. f = [s \in 1..2 |-> f[s]]
      BY <2>4, <2>5
    <2>7. f = <<f[1], f[2]>>
      BY <2>6
    <2> QED
      BY <2>2, <2>3, <2>7
  <1>4. \E k \in Nat : links = [i \in 1..k |-> links[i]]
    BY <1>1 DEF IsSeq
  <1>5. PICK z \in Nat : link = [i \in 1..z |-> link[i]]
    BY <1>2
  <1>6. DOMAIN link = 1..z
    BY <1>5
  <1>7. \A l \in Range(links) : l \in DOMAIN link /\ l \in Nat /\ l > 0
    BY <1>1, <1>6
  <1> QED
    BY <1>3, <1>4, <1>7

\* The side of a node, at a link between it and another.
LEMMA SideIs ==
    ASSUME NEW l, NEW a, NEW b, Between(l, a, b), NEW s, s = SideOf(l, a)
    PROVE  EndAt(l, a, b, IntfName(World, <<l, s>>))
  <1>1. CASE link[l].n[1] = a
    <2>1. s = 1
      BY <1>1 DEF SideOf
    <2>2. link[l].n[2] = b
      BY <1>1 DEF Between
    <2> QED
      BY <1>1, <2>1, <2>2 DEF EndAt
  <1>2. CASE link[l].n[1] # a
    <2>1. s = 2
      BY <1>2 DEF SideOf
    <2>2. link[l].n[2] = a /\ link[l].n[1] = b
      BY <1>2 DEF Between
    <2> QED
      BY <2>1, <2>2 DEF EndAt
  <1> QED
    BY <1>1, <1>2

\* "a->b": the last link between the two, or none.
LEMMA LinkBetweenIs ==
    ASSUME Sound, NEW a, NEW b
    PROVE  \/ LinkBetween(a, b) = Nowhere /\ \A l \in Range(links) : ~Between(l, a, b)
           \/ \E l \in Range(links) : Between(l, a, b) /\ LinkBetween(a, b) = <<l, SideOf(l, a)>>
  <1>1. PICK z \in Nat : links = [i \in 1..z |-> links[i]]
    BY ListedLinks
  <1>2. PICK at : at = {k \in DOMAIN links : Between(links[k], a, b)}
    OBVIOUS
  <1>3. CASE at = {}
    <2>1. LinkBetween(a, b) = Nowhere
      BY <1>2, <1>3 DEF LinkBetween
    <2>2. \A l \in Range(links) : \E k \in DOMAIN links : l = links[k]
      BY DEF Range
    <2> QED
      BY <1>2, <1>3, <2>1, <2>2
  <1>4. CASE at # {}
    <2>1. PICK j : j \in at
      BY <1>4
    <2>2. at \in SUBSET (0..z)
      BY <1>1, <1>2
    <2>3. Max(at) \in at
      BY <2>1, <2>2, GreatestIsOne
    <2>4. PICK k : k = Max(at)
      OBVIOUS
    <2>5. k \in DOMAIN links /\ Between(links[k], a, b)
      BY <1>2, <2>3, <2>4
    <2>6. LinkBetween(a, b) = <<links[k], SideOf(links[k], a)>>
      BY <1>2, <1>4, <2>4 DEF LinkBetween
    <2>7. links[k] \in Range(links)
      BY <2>5 DEF Range
    <2> QED
      BY <2>5, <2>6, <2>7
  <1> QED
    BY <1>3, <1>4

\* "a->b:name": the first link between the two with an interface of that name, or none.
LEMMA NamedLinkIs ==
    ASSUME Sound, NEW id
    PROVE  \/ /\ NamedLink(id) = Nowhere
              /\ \A l \in Range(links) :
                    ~(Between(l, id.a, id.b) /\ IntfName(World, <<l, SideOf(l, id.a)>>) = id.name)
           \/ \E l \in Range(links) :
                 /\ Between(l, id.a, id.b) /\ IntfName(World, <<l, SideOf(l, id.a)>>) = id.name
                 /\ NamedLink(id) = <<l, SideOf(l, id.a)>>
  <1>1. PICK z \in Nat : links = [i \in 1..z |-> links[i]]
    BY ListedLinks
  <1>2. PICK at : at = {k \in DOMAIN links :
                           /\ Between(links[k], id.a, id.b)
                           /\ IntfName(World, <<links[k], SideOf(links[k], id.a)>>) = id.name}
    OBVIOUS
  <1>3. CASE at = {}
    <2>1. NamedLink(id) = Nowhere
      BY <1>2, <1>3 DEF NamedLink
    <2>2. \A l \in Range(links) : \E k \in DOMAIN links : l = links[k]
      BY DEF Range
    <2> QED
      BY <1>2, <1>3, <2>1, <2>2
  <1>4. CASE at # {}
    <2>1. PICK j : j \in at
      BY <1>4
    <2>2. at \in SUBSET Nat
      BY <1>1, <1>2
    <2>3. Min(at) \in at
      BY <2>1, <2>2, LeastIsOne
    <2>4. PICK k : k = Min(at)
      OBVIOUS
    <2>5. /\ k \in DOMAIN links /\ Between(links[k], id.a, id.b)
          /\ IntfName(World, <<links[k], SideOf(links[k], id.a)>>) = id.name
      BY <1>2, <2>3, <2>4
    <2>6. NamedLink(id) = <<links[k], SideOf(links[k], id.a)>>
      BY <1>2, <1>4, <2>4 DEF NamedLink
    <2>7. links[k] \in Range(links)
      BY <2>5 DEF Range
    <2> QED
      BY <2>5, <2>6, <2>7
  <1> QED
    BY <1>3, <1>4

\* An interface has a name.
LEMMA NamesAreSome ==
    ASSUME NEW i
    PROVE  IntfName(World, i) # NoIntf
  <1>1. PICK x, y : IntfName(World, i) = <<x, y>>
    BY DEF IntfName
  <1>2. <<x, y>> # <<>>
    OBVIOUS
  <1> QED
    BY <1>1, <1>2 DEF NoIntf

\* A fault, or a redirection, at the interface that was named.
LEMMA NameFits ==
    ASSUME NEW t, NEW l \in Range(links), EndAt(l, t.id.a, t.id.b, t.intf),
           t.id.form # "arrow" => t.intf = t.id.name
    PROVE  Fits(t)
  <1>1. t.intf # NoIntf
    BY NamesAreSome DEF EndAt
  <1> QED
    BY <1>1 DEF Fits

\* At "a->b".
LEMMA ArrowFits ==
    ASSUME Sound, NEW t, t.id.form = "arrow", t.intf = NodeAndIntf(t.id).intf
    PROVE  Fits(t)
  <1>1. PICK a, b : a = t.id.a /\ b = t.id.b
    OBVIOUS
  <1>2. PICK at : at = LinkBetween(a, b)
    OBVIOUS
  <1>3. t.intf = IF at = Nowhere THEN NoIntf ELSE IntfName(World, at)
    BY <1>1, <1>2 DEF NodeAndIntf
  <1>4. CASE at = Nowhere /\ \A l \in Range(links) : ~Between(l, a, b)
    BY <1>1, <1>3, <1>4 DEF Fits
  <1>5. ASSUME NEW l \in Range(links), Between(l, a, b), at = <<l, SideOf(l, a)>> PROVE Fits(t)
    <2>1. PICK s : s = SideOf(l, a)
      OBVIOUS
    <2>2. l \in Nat /\ l > 0
      BY ListedLinks
    <2>3. at # Nowhere
      BY <1>5, <2>1, <2>2 DEF Nowhere
    <2>4. t.intf = IntfName(World, <<l, s>>)
      BY <1>3, <1>5, <2>1, <2>3
    <2>5. EndAt(l, a, b, t.intf)
      BY <1>5, <2>1, <2>4, SideIs
    <2> QED
      BY <1>1, <2>5, NameFits
  <1> QED
    BY <1>2, <1>4, <1>5, LinkBetweenIs

\* At "a->b:name".
LEMMA NamedFits ==
    ASSUME Sound, NEW t, t.id.form = "named", t.intf = NodeAndIntf(t.id).intf,
           NEW l \in Range(links), EndAt(l, t.id.a, t.id.b, t.id.name)
    PROVE  Fits(t)
  <1>1. PICK id, a, b, name : id = t.id /\ a = id.a /\ b = id.b /\ name = id.name
    OBVIOUS
  <1>2. PICK at : at = NamedLink(id)
    OBVIOUS
  <1>3. t.intf = IF at = Nowhere THEN NoIntf ELSE IntfName(World, at)
    BY <1>1, <1>2 DEF NodeAndIntf
  <1>4. /\ link[l].n = <<link[l].n[1], link[l].n[2]>> /\ link[l].n[1] # link[l].n[2]
    BY ListedLinks
  <1>5. Between(l, a, b) /\ IntfName(World, <<l, SideOf(l, a)>>) = name
    <2>1. CASE link[l].n[1] = a /\ link[l].n[2] = b /\ name = IntfName(World, <<l, 1>>)
      BY <1>4, <2>1 DEF Between, SideOf
    <2>2. CASE link[l].n[2] = a /\ link[l].n[1] = b /\ name = IntfName(World, <<l, 2>>)
      BY <1>4, <2>2 DEF Between, SideOf
    <2> QED
      BY <1>1, <2>1, <2>2 DEF EndAt
  <1>6. PICK k \in Range(links) :
           /\ Between(k, a, b) /\ IntfName(World, <<k, SideOf(k, a)>>) = name
           /\ at = <<k, SideOf(k, a)>>
    BY <1>1, <1>2, <1>5, NamedLinkIs
  <1>7. PICK s : s = SideOf(k, a)
    OBVIOUS
  <1>8. k \in Nat /\ k > 0
    BY ListedLinks
  <1>9. at # Nowhere
    BY <1>6, <1>7, <1>8 DEF Nowhere
  <1>10. t.intf = name
    BY <1>3, <1>6, <1>9
  <1>11. EndAt(k, a, b, name)
    BY <1>6, SideIs
  <1> QED
    BY <1>1, <1>10, <1>11, NameFits

\* An identifier of the configuration that names everything.
LEMMA IdentifierIs ==
    ASSUME Sound, NEW id \in Identifiers
    PROVE  \/ id.form \in {"node", "arrow"}
           \/ /\ id.form \in {"named", "plain"}
              /\ \E l \in Range(links) : EndAt(l, id.a, id.b, id.name)
  <1>1. PICK known : known = Range(named) \cap (1..MaxAimed)
    OBVIOUS
  <1>2. PICK inner : inner = {l \in Range(links) : Range(link[l].n) \subseteq known}
    OBVIOUS
  <1>3. \/ \E n \in known : id = Identifier("node", n, n, NoIntf)
        \/ \E p \in {q \in known \X known : q[1] # q[2]} : id = Identifier("arrow", p[1], p[2], NoIntf)
        \/ \E f \in {"named", "plain"}, l \in inner, s \in 1..2 :
              id = Identifier(f, link[l].n[s], link[l].n[3 - s], IntfName(World, <<l, s>>))
    BY <1>1, <1>2 DEF Identifiers
  <1>4. ASSUME NEW f \in {"named", "plain"}, NEW l \in inner, NEW s \in 1..2,
               id = Identifier(f, link[l].n[s], link[l].n[3 - s], IntfName(World, <<l, s>>))
        PROVE  id.form \in {"named", "plain"} /\ l \in Range(links) /\ EndAt(l, id.a, id.b, id.name)
    <2>1. PICK a, b, name : a = link[l].n[s] /\ b = link[l].n[3 - s] /\ name = IntfName(World, <<l, s>>)
      OBVIOUS
    <2>2. id.form = f /\ id.a = a /\ id.b = b /\ id.name = name
      BY <1>4, <2>1 DEF Identifier
    <2>3. (s = 1 /\ 3 - s = 2) \/ (s = 2 /\ 3 - s = 1)
      OBVIOUS
    <2>4. EndAt(l, a, b, name)
      BY <2>1, <2>3 DEF EndAt
    <2> QED
      BY <1>2, <2>2, <2>4
  <1>5. ASSUME NEW n, id = Identifier("node", n, n, NoIntf) PROVE id.form = "node"
    BY <1>5 DEF Identifier
  <1>6. ASSUME NEW a, NEW b, id = Identifier("arrow", a, b, NoIntf) PROVE id.form = "arrow"
    BY <1>6 DEF Identifier
  <1> QED
    BY <1>3, <1>4, <1>5, <1>6

\* What the fault controller is told.
LEMMA AimsFit ==
    ASSUME Sound, NEW t \in Aims, Aimed(t)
    PROVE  Fits(t)
  <1>1. \/ \E id \in Identifiers : id.form \in {"arrow", "named"} /\ t = InjectionAt("link", id)
        \/ \E id \in Identifiers : id.form # "node" /\ t = InjectionAt("redirect", id)
        \/ \E kind \in {"multi", "node", "log"}, id \in Identifiers : t = InjectionAt(kind, id)
    BY DEF Aims
  <1>2. ASSUME NEW id \in Identifiers, id.form \in {"arrow", "named"}, t = InjectionAt("link", id)
        PROVE  Fits(t)
    <2>1. t.id = id /\ t.intf = Target(id).intf
      BY <1>2 DEF InjectionAt
    <2>2. t.intf = NodeAndIntf(id).intf
      BY <2>1 DEF Target, Passable
    <2>3. CASE id.form = "arrow"
      BY <2>1, <2>2, <2>3, ArrowFits
    <2>4. CASE id.form = "named"
      <3>1. PICK l \in Range(links) : EndAt(l, id.a, id.b, id.name)
        BY <2>4, IdentifierIs
      <3> QED
        BY <2>1, <2>2, <2>4, <3>1, NamedFits
    <2> QED
      BY <1>2, <2>3, <2>4
  <1>3. ASSUME NEW id \in Identifiers, id.form # "node", t = InjectionAt("redirect", id)
        PROVE  Fits(t)
    <2>1. t.id = id /\ t.intf = RedirectsTo(id) /\ t.kind = "redirect"
      BY <1>3 DEF InjectionAt
    <2>2. id.form # "named"
      BY <2>1 DEF Aimed
    <2>3. CASE id.form = "arrow"
      <3>1. t.intf = NodeAndIntf(id).intf
        BY <2>1, <2>3 DEF RedirectsTo, InArrowPattern
      <3> QED
        BY <2>1, <2>3, <3>1, ArrowFits
    <2>4. CASE id.form = "plain"
      <3>1. t.intf = id.name
        BY <2>1, <2>4 DEF RedirectsTo, InArrowPattern
      <3>2. PICK l \in Range(links) : EndAt(l, id.a, id.b, id.name)
        BY <2>4, IdentifierIs
      <3> QED
        BY <2>1, <3>1, <3>2, NameFits
    <2> QED
      BY <1>3, <2>2, <2>3, <2>4, IdentifierIs
  <1>4. ASSUME NEW kind \in {"multi", "node", "log"}, NEW id \in Identifiers, t = InjectionAt(kind, id)
        PROVE  FALSE
    <2>1. t.kind = kind
      BY <1>4 DEF InjectionAt
    <2> QED
      BY <2>1 DEF Aimed
  <1> QED
    BY <1>1, <1>2, <1>3, <1>4

\* It stays so when there are more nodes and links.
LEMMA FitsStill ==
    ASSUME Sound, Within(World, World'), Range(links) \subseteq Range(links'), NEW t, Fits(t),
           history'.calls # 0 \/ (history'.calls = history.calls /\ Range(links') = Range(links))
    PROVE  Fits(t)'
  <1>1. Shape(World) /\ Range(links) \subseteq DOMAIN World.link
    BY ListedInWorld
  <1>2. ASSUME NEW l \in Range(links)
        PROVE  /\ link'[l].n = link[l].n
               /\ \A s \in {1, 2} : IntfName(World', <<l, s>>) = IntfName(World, <<l, s>>)
    <2>1. l \in DOMAIN World.link
      BY <1>1
    <2>2. World'.link[l].n = World.link[l].n
      BY <2>1 DEF Within
    <2> QED
      BY <1>1, <2>1, <2>2, WithinNames, WorldIs, WorldThen
  <1>3. ASSUME NEW l \in Range(links), NEW a, NEW b, NEW name
        PROVE  EndAt(l, a, b, name) => EndAt(l, a, b, name)'
    <2>1. /\ link'[l].n = link[l].n /\ IntfName(World', <<l, 1>>) = IntfName(World, <<l, 1>>)
          /\ IntfName(World', <<l, 2>>) = IntfName(World, <<l, 2>>)
      BY <1>2
    <2> QED
      BY <2>1 DEF EndAt
  <1>4. CASE t.intf = NoIntf
    <2>1. t.id.form = "arrow" /\ (history.calls = 0 => \A l \in Range(links) : ~Between(l, t.id.a, t.id.b))
      BY <1>4 DEF Fits
    <2>2. history'.calls = 0 => \A l \in Range(links') : ~Between(l, t.id.a, t.id.b)'
      BY <1>2, <2>1 DEF Between
    <2> QED
      BY <1>4, <2>1, <2>2 DEF Fits
  <1>5. CASE t.intf # NoIntf
    <2>1. PICK l \in Range(links) : EndAt(l, t.id.a, t.id.b, t.intf)
      BY <1>5 DEF Fits
    <2>2. EndAt(l, t.id.a, t.id.b, t.intf)' /\ l \in Range(links')
      BY <1>3, <2>1
    <2>3. t.id.form # "arrow" => t.intf = t.id.name
      BY <1>5 DEF Fits
    <2> QED
      BY <1>5, <2>2, <2>3 DEF Fits
  <1> QED
    BY <1>4, <1>5

\* The fault controller is told nothing more.
LEMMA AimingStays ==
    ASSUME Sound, Aiming, aim' = aim, phase \in {"idle", "wait"}, phase' \in {"idle", "wait"},
           Within(World, World'), Range(links) \subseteq Range(links'),
           history'.tidy => history.tidy, history'.removals = history.removals,
           history'.calls # 0 \/ (history'.calls = history.calls /\ Range(links') = Range(links))
    PROVE  Aiming'
  <1>1. ASSUME history'.tidy, history'.removals = 0, NEW t \in aim, Aimed(t) PROVE Fits(t)'
    <2>1. Fits(t)
      BY <1>1 DEF Aiming
    <2> QED
      BY <2>1, FitsStill
  <1>2. \A t : Aimed(t)' <=> Aimed(t)
    BY DEF Aimed
  <1> QED
    BY <1>1, <1>2 DEF Aiming

\* While it is not asked of it, nothing has to fit.
LEMMA NoAim ==
    ASSUME ~history'.tidy \/ history'.removals # 0 \/ phase' \notin {"idle", "wait"} \/ aim' = {},
           phase' = "build" => aim' = {}
    PROVE  Aiming'
  BY DEF Aiming

\* The world as it is.
LEMMA SameWorld ==
    ASSUME UNCHANGED <<node, link>>
    PROVE  Within(World, World')
  <1>1. World'.node = World.node /\ World'.link = World.link
    BY WorldIs, WorldThen
  <1> QED
    BY <1>1 DEF Within

\* Nothing happens to nodes, links and calls.
LEMMA AimingIdle ==
    ASSUME Sound, Orderly, Aiming,
           \/ WaitLook \/ WaitRoundEnds
           \/ \E timed \in BOOLEAN : WaitCall(timed)
           \/ \E n \in DOMAIN node : Connects(n) \/ Disconnects(n)
    PROVE  Aiming'
  <1>1. /\ phase \in {"idle", "wait"} /\ phase' \in {"idle", "wait"}
        /\ UNCHANGED <<node, link, links, aim>>
        /\ history' = history \/ history' = [history EXCEPT !.troubles = @ + 1]
    <2>1. CASE WaitLook \/ WaitRoundEnds \/ \E timed \in BOOLEAN : WaitCall(timed)
      BY <2>1 DEF WaitLook, WaitRoundEnds, WaitCall, lists, around
    <2>2. ASSUME NEW n \in DOMAIN node, Connects(n) \/ Disconnects(n)
          PROVE  /\ phase \in {"idle", "wait"} /\ phase' \in {"idle", "wait"}
                 /\ UNCHANGED <<node, link, links, aim>>
                 /\ history' = history \/ history' = [history EXCEPT !.troubles = @ + 1]
      BY <2>2 DEF Connects, Disconnects, lists, around
    <2> QED
      BY <2>1, <2>2
  <1>2. /\ history'.tidy = history.tidy /\ history'.calls = history.calls
        /\ history'.removals = history.removals
    BY <1>1, NoteDisconnected DEF Orderly
  <1>3. Within(World, World') /\ Range(links') = Range(links)
    BY <1>1, SameWorld
  <1> QED
    BY <1>1, <1>2, <1>3, AimingStays

\* The fault controller is started.
LEMMA AimingStart ==
    ASSUME Sound, StartEnds
    PROVE  Aiming'
  <1>1. aim' = Aims /\ phase' = "idle" /\ UNCHANGED <<node, link, links, history>>
    BY DEF StartEnds, lists
  <1>2. Within(World, World') /\ Range(links') = Range(links)
    BY <1>1, SameWorld
  <1>3. ASSUME NEW t \in aim', Aimed(t)' PROVE Fits(t)'
    <2>1. t \in Aims /\ Aimed(t)
      BY <1>1, <1>3 DEF Aimed
    <2>2. Fits(t)
      BY <2>1, AimsFit
    <2> QED
      BY <1>1, <1>2, <2>2, FitsStill
  <1> QED
    BY <1>1, <1>3 DEF Aiming

\* A call that adds a node or a link.
LEMMA AimingGrows ==
    ASSUME Sound, Orderly, Aiming, phase = "idle", phase' = "idle", aim' = aim, Within(World, World'),
           Range(links) \subseteq Range(links'),
           history' = [history EXCEPT !.calls = IF FALSE THEN @ ELSE @ + 1]
    PROVE  Aiming'
  <1>1. /\ history'.tidy = history.tidy /\ history'.calls = history.calls + 1
        /\ history'.removals = history.removals
    BY NoteCall DEF Orderly
  <1>2. history.calls \in Nat
    BY DEF Orderly, Noted, Note
  <1>3. history'.calls # 0
    BY <1>1, <1>2
  <1> QED
    BY <1>1, <1>3, AimingStays

\* addHost(), addDocker(), addSwitch() leave every target where it was.
LEMMA AimingAddNode ==
    ASSUME Sound, Orderly, Aiming, NEW nd \in Names, AddNodeCall(nd)
    PROVE  Aiming'
  <1>1. MayChange /\ CreateNode(nd, <<>>)
    BY AddNodeCallDoes
  <1>2. PICK k \in Nat : NodeCreated(nd, k)
    BY AddNodeCallDoes
  <1>3. PICK ip : NodeMade(World, nd.name, nd.kind, ip, k, World')
    BY <1>2 DEF NodeCreated
  <1>4. Within(World, World')
    BY <1>3 DEF NodeMade, Within
  <1>5. phase = "idle" /\ phase' = "idle" /\ aim' = aim /\ links' = links
    BY <1>1 DEF MayChange, CreateNode, around
  <1>6. history' = [history EXCEPT !.calls = IF FALSE THEN @ ELSE @ + 1]
    BY DEF AddNodeCall, Called
  <1> QED
    BY <1>4, <1>5, <1>6, AimingGrows

\* addLink() leaves every target where it was, or fails and leaves all as it
\* was.
LEMMA AimingLinkCall ==
    ASSUME Sound, Orderly, Aiming, phase \in {"build", "idle"}, NEW next, LinkCall(next)
    PROVE  Aiming'
  <1>1. CASE Fails(phase)
    <2>1. /\ history' = [history EXCEPT !.failed = phase]
          /\ phase' = IF phase = "build" THEN "exiting" ELSE phase
          /\ UNCHANGED <<node, link, links, aim>>
      BY <1>1 DEF Fails, lists, around
    <2>2. CASE phase = "build"
      BY <2>1, <2>2, NoAim
    <2>3. CASE phase = "idle"
      <3>1. /\ history'.tidy = history.tidy /\ history'.calls = history.calls
            /\ history'.removals = history.removals
        BY <2>1, NoteFailed DEF Orderly
      <3>2. Within(World, World') /\ Range(links') = Range(links)
        BY <2>1, SameWorld
      <3> QED
        BY <2>1, <2>3, <3>1, <3>2, AimingStays
    <2> QED
      BY <2>2, <2>3
  <1>2. CASE CutShort(next)
    <2>1. phase' = "exiting"
      BY <1>2 DEF CutShort
    <2> QED
      BY <2>1, NoAim
  <1>3. ASSUME NEW a \in Range(named), NEW b \in Range(named), NEW port1, NEW port2,
               NEW p1, NEW p2, NEW l, Connected(a, b, port1, port2, p1, p2, l, next)
        PROVE  Aiming'
    <2>1. phase' = phase /\ aim' = aim /\ Joins(World, a, b, p1, p2, l, World')
      BY <1>3 DEF Connected, around
    <2>2. CASE phase = "build"
      BY <2>1, <2>2, NoAim DEF Aiming
    <2>3. CASE phase = "idle"
      <3>1. Within(World, World')
        BY <2>1 DEF Joins, Within
      <3>2. Range(links') = Range(links) \cup {l}
        BY <1>3, <2>1, ListsJoined DEF Sound, Connected
      <3>3. history' = [history EXCEPT !.calls = IF FALSE THEN @ ELSE @ + 1]
        BY <1>3, <2>3 DEF Connected
      <3> QED
        BY <2>1, <2>3, <3>1, <3>2, <3>3, AimingGrows
    <2> QED
      BY <2>2, <2>3
  <1> QED
    BY <1>1, <1>2, <1>3 DEF LinkCall

\* A removal.
LEMMA AimingRemoved ==
    ASSUME Orderly, NEW well \in BOOLEAN, NEW what, phase' = "idle",
           history' = [history EXCEPT !.calls = @ + 1, !.removals = @ + 1,
                                      !.tidy = well, !.failed = what]
    PROVE  Aiming'
  <1>1. history'.removals = history.removals + 1
    BY NoteRemoval DEF Orderly
  <1>2. history.removals \in Nat
    BY DEF Orderly, Noted, Note
  <1>3. history'.removals # 0
    BY <1>1, <1>2
  <1> QED
    BY <1>3, NoAim

\* removeLink().
LEMMA AimingRemoveLink ==
    ASSUME Sound, Orderly, NEW l \in Range(links), RemoveLinkCall(l)
    PROVE  Aiming'
  <1>1. phase' = "idle"
    BY RemoveLinkCallDoes
  <1>2. PICK raised \in BOOLEAN :
           history' = [history EXCEPT !.calls = @ + 1, !.removals = @ + 1,
                                      !.tidy = @ /\ ~raised,
                                      !.failed = IF raised THEN "remove" ELSE @]
    BY RemoveLinkCallDoes
  <1>3. PICK well \in BOOLEAN : well = (history.tidy /\ ~raised)
    OBVIOUS
  <1>4. PICK what : what = IF raised THEN "remove" ELSE history.failed
    OBVIOUS
  <1>5. history' = [history EXCEPT !.calls = @ + 1, !.removals = @ + 1,
                                   !.tidy = well, !.failed = what]
    BY <1>2, <1>3, <1>4
  <1> QED
    BY <1>1, <1>5, AimingRemoved

\* removeHost(), delNode().
LEMMA AimingOut ==
    ASSUME Sound, Orderly, phase' = "idle", NEW n \in Range(named), NodeOut(n)
    PROVE  Aiming'
  <1>1. PICK well \in BOOLEAN : well = (history.tidy /\ \A l \in Range(links) : n \notin Range(link[l].n))
    OBVIOUS
  <1>2. history' = [history EXCEPT !.calls = @ + 1, !.removals = @ + 1,
                                   !.tidy = well, !.failed = history.failed]
    <2>1. history' = [history EXCEPT !.calls = @ + 1, !.removals = @ + 1, !.tidy = well]
      BY <1>1 DEF NodeOut
    <2> QED
      BY <2>1 DEF Orderly, Noted, Note, IsNote, HistoryFields
  <1> QED
    BY <1>2, AimingRemoved

\* Nothing is told before the network is built, and nothing fits while it starts.
LEMMA AimingBuild ==
    ASSUME Sound, Aiming, BuildNode \/ BuildConfig \/ StartCall \/ StartSwitch
    PROVE  Aiming'
  <1>1. CASE BuildNode
    <2>1. /\ phase = "build" /\ aim' = aim
          /\ phase' = "build" \/ phase' = "exiting"
      BY <1>1, BuildNodeDoes DEF Fails, BuildNode, CreateNode, around
    <2> QED
      BY <2>1, NoAim DEF Aiming
  <1>2. CASE BuildConfig
    <2>1. phase = "build" /\ phase' = "idle" /\ aim' = aim
      BY <1>2 DEF BuildConfig, around
    <2> QED
      BY <2>1, NoAim DEF Aiming
  <1>3. CASE StartCall
    <2>1. phase' = "start"
      BY <1>3 DEF StartCall
    <2> QED
      BY <2>1, NoAim
  <1>4. CASE StartSwitch
    <2>1. phase' = "start"
      BY <1>4, StartSwitchDoes
    <2> QED
      BY <2>1, NoAim
  <1> QED
    BY <1>1, <1>2, <1>3, <1>4

\* A switch started later has the links it had.
LEMMA AimingLater ==
    ASSUME Sound, Aiming, NEW n \in Range(switches), StartLaterSwitch(n)
    PROVE  Aiming'
  <1>1. SwitchUp(n) /\ phase = "idle" /\ phase' = "idle"
    BY StartLaterSwitchDoes
  <1>2. aim' = aim
    BY DEF StartLaterSwitch, around
  <1>3. links' = links /\ history' = history
    BY <1>1 DEF SwitchUp, lists
  <1>4. Within(World, World')
    BY <1>1, SameWithin DEF SwitchUp
  <1> QED
    BY <1>1, <1>2, <1>3, <1>4, AimingStays

\* stop() comes back to rest only untidy.
LEMMA AimingStop ==
    ASSUME Sound, Orderly, Orderly',
           \/ StopCall \/ StopLink \/ StopSwitches \/ StopHost \/ StopEnds \/ InterruptStop
           \/ Exit \/ Cleanup \/ Restart \/ \E name \in proc : ProcessDies(name)
    PROVE  Aiming'
  <1>1. CASE StopCall \/ StopSwitches \/ StopHost \/ StopEnds
    <2>1. phase' \in {"stop links", "stop hosts", "stopped"}
      BY <1>1 DEF StopCall, StopSwitches, StopHost, StopEnds
    <2> QED
      BY <2>1, NoAim
  <1>2. CASE StopLink
    <2>1. PICK l, raised : LinkStopped(l, raised)
      BY <1>2, StopLinkDoes
    <2>2. CASE raised
      <3>1. history' = [history EXCEPT !.failed = "stop"] /\ phase' = "idle"
        BY <2>1, <2>2 DEF LinkStopped
      <3>2. history'.failed = "stop"
        BY <3>1, NoteFailed DEF Orderly
      <3>3. ~history'.tidy
        BY <3>2 DEF Orderly, Tidy
      <3> QED
        BY <3>1, <3>3, NoAim
    <2>3. CASE ~raised
      <3>1. phase' = "stop links"
        BY <2>1, <2>3 DEF LinkStopped
      <3> QED
        BY <3>1, NoAim
    <2> QED
      BY <2>2, <2>3
  <1>3. CASE InterruptStop \/ \E name \in proc : ProcessDies(name)
    <2>1. /\ history' = [history EXCEPT !.troubles = @ + 1, !.tidy = FALSE]
          /\ phase' = "idle"
      BY <1>3 DEF InterruptStop, ProcessDies
    <2>2. ~history'.tidy
      BY <2>1, NoteTrouble DEF Orderly
    <2> QED
      BY <2>1, <2>2, NoAim
  <1>4. CASE Exit \/ Cleanup
    <2>1. phase' \in {"exited", "cleaned"}
      BY <1>4 DEF Exit, Cleanup
    <2> QED
      BY <2>1, NoAim
  <1>5. CASE Restart
    <2>1. aim' = {}
      BY <1>5 DEF Restart
    <2> QED
      BY <2>1, NoAim
  <1> QED
    BY <1>1, <1>2, <1>3, <1>4, <1>5

\* Every step keeps what was told at the start to the point.
LEMMA AimingNext ==
    ASSUME Sound, Orderly, Aiming, [Next]_vars
    PROVE  Aiming'
  <1>1. CASE UNCHANGED vars
    <2>1. UNCHANGED <<node, link, links, aim, history, phase>>
      BY <1>1 DEF vars
    <2>2. CASE phase \in {"idle", "wait"}
      BY <2>1, <2>2, SameWorld, AimingStays
    <2>3. CASE phase \notin {"idle", "wait"}
      BY <2>1, <2>3, NoAim DEF Aiming
    <2> QED
      BY <2>2, <2>3
  <1>2. CASE Program
    <2>1. CASE BuildNode \/ BuildConfig \/ StartCall \/ StartSwitch
      BY <2>1, AimingBuild
    <2>2. CASE BuildLink
      <3>1. LinkCall(Tail(todo)) /\ phase = "build"
        BY <2>2, BuildLinkDoes
      <3> QED
        BY <3>1, AimingLinkCall
    <2>3. ASSUME NEW nd \in Names, AddNodeCall(nd) PROVE Aiming'
      BY <2>3, AimingAddNode
    <2>4. ASSUME NEW a \in DOMAIN node, NEW b \in DOMAIN node, NEW p \in PortPairs,
                 AddLinkCall(a, b, p[1], p[2])
          PROVE  Aiming'
      <3>1. LinkCall(<<>>) /\ phase = "idle"
        BY <2>4, AddLinkCallDoes DEF MayChange
      <3> QED
        BY <3>1, AimingLinkCall
    <2>5. ASSUME NEW l \in Range(links), RemoveLinkCall(l) PROVE Aiming'
      BY <2>5, AimingRemoveLink
    <2>6. ASSUME NEW n \in DOMAIN node, RemoveHostCall(n) \/ DelNodeCall(n) PROVE Aiming'
      <3>1. n \in Range(named) /\ phase' = "idle" /\ NodeOut(n)
        BY <2>6, RemoveHostCallDoes, DelNodeCallDoes
      <3> QED
        BY <3>1, AimingOut
    <2>7. ASSUME NEW n \in Range(switches), StartLaterSwitch(n) PROVE Aiming'
      BY <2>7, AimingLater
    <2>8. CASE StartEnds
      BY <2>8, AimingStart
    <2>9. CASE WaitLook \/ WaitRoundEnds \/ \E timed \in BOOLEAN : WaitCall(timed)
      BY <2>9, AimingIdle
    <2>10. CASE StopCall \/ StopLink \/ StopSwitches \/ StopHost \/ StopEnds
      BY <2>10, OrderlyStop, OrderlyStopLink, OrderlyStopSwitches, OrderlyStopHost, OrderlyStopEnds,
         AimingStop
    <2> QED
      BY <1>2, <2>1, <2>2, <2>3, <2>4, <2>5, <2>6, <2>7, <2>8, <2>9, <2>10 DEF Program
  <1>3. CASE Outside
    <2>1. CASE InterruptStop \/ Exit \/ Cleanup \/ Restart \/ \E name \in proc : ProcessDies(name)
      BY <2>1, OrderlyInterrupt, OrderlyEnd, OrderlyRestart, OrderlyDeath, AimingStop
    <2> QED
      BY <1>3, <2>1, AimingIdle DEF Outside
  <1> QED
    BY <1>1, <1>2, <1>3 DEF Next

\* The fault controller is told of the links of the network, and of nothing else.
THEOREM NetAimed == Spec => [](Sound /\ Orderly /\ Aiming)
  <1>1. Init => Sound /\ Orderly /\ Aiming
    <2> SUFFICES ASSUME Init PROVE Sound /\ Orderly /\ Aiming
      OBVIOUS
    <2>1. aim = {}
      BY DEF Init
    <2> QED
      BY <2>1, InitIsSound, OrderlyFirst DEF Aiming
  <1>2. Sound /\ Orderly /\ Aiming /\ [Next]_vars => (Sound /\ Orderly /\ Aiming)'
    BY SoundNext, OrderlyNext, AimingNext
  <1> QED
    BY <1>1, <1>2, PTL DEF Spec

\* The end of a link at a node, as the kernel has it.
EndIs(l, s, a, v) ==
    /\ <<Namespace(node[a]), IntfName(World, <<l, s>>)>> \in v
    /\ IntfName(World, <<l, s>>)[1] = node[a].name

\* The end of a link is in the namespace of its node, and its interface has
\* the name of that node.
LEMMA EndOfLink ==
    ASSUME NEW l, NEW s, NEW v, NEW a, a = link[l].n[s], End(World, <<l, s>>) \in v
    PROVE  EndIs(l, s, a, v)
  <1>1. <<l, s>>[1] = l /\ <<l, s>>[2] = s
    OBVIOUS
  <1>2. World.node = node /\ World.link = link
    BY WorldIs
  <1>3. PICK name : name = IntfName(World, <<l, s>>)
    OBVIOUS
  <1>4. name = <<node[a].name, link[l].p[s]>>
    BY <1>1, <1>2, <1>3 DEF IntfName
  <1>5. name[1] = node[a].name
    BY <1>4
  <1>6. <<Namespace(node[a]), name>> \in v
    BY <1>1, <1>2, <1>3 DEF End
  <1> QED
    BY <1>3, <1>5, <1>6 DEF EndIs

\* A fault told of the interface of a link is at that end, with the other at the far node.
ReachesOver(a, b, name) ==
    /\ name[1] = node[a].name
    /\ \E v \in veth : /\ <<Namespace(node[a]), name>> \in v
                       /\ \E e \in v : e[2][1] = node[b].name

\* In a network in which nothing is missing, the pair of a link that fits
\* joins the two nodes.
LEMMA NamesItsLink ==
    ASSUME HasAll, NEW l \in Range(links), NEW a, NEW b, NEW name, EndAt(l, a, b, name)
    PROVE  ReachesOver(a, b, name)
  <1>1. World.veth = veth
    BY WorldIs
  <1>2. Pair(World, l) \in World.veth
    BY DEF HasAll, Whole, Joint
  <1>3. PICK v : v = Pair(World, l)
    OBVIOUS
  <1>4. v \in veth /\ End(World, <<l, 1>>) \in v /\ End(World, <<l, 2>>) \in v
    BY <1>1, <1>2, <1>3 DEF Pair
  <1>5. ASSUME NEW s, NEW z, link[l].n[s] = a, link[l].n[z] = b, name = IntfName(World, <<l, s>>),
               End(World, <<l, s>>) \in v, End(World, <<l, z>>) \in v
        PROVE  ReachesOver(a, b, name)
    <2>1. EndIs(l, s, a, v) /\ EndIs(l, z, b, v)
      BY <1>5, EndOfLink
    <2>2. PICK e : e = <<Namespace(node[b]), IntfName(World, <<l, z>>)>>
      OBVIOUS
    <2>3. e \in v /\ e[2] = IntfName(World, <<l, z>>)
      BY <2>1, <2>2 DEF EndIs
    <2>4. e[2][1] = node[b].name
      BY <2>1, <2>3 DEF EndIs
    <2> QED
      BY <1>4, <1>5, <2>1, <2>3, <2>4 DEF EndIs, ReachesOver
  <1> QED
    BY <1>4, <1>5 DEF EndAt

\* What the fault controller was told is at the ends of the links it was asked for.
LEMMA FaultsStayAtRest ==
    ASSUME Sound, Orderly, Aiming
    PROVE  FaultsStayOnTheirLink
  <1> SUFFICES ASSUME history.tidy, history.removals = 0, phase \in {"idle", "wait"}
               PROVE  FaultsStayOnTheirLink
    BY DEF FaultsStayOnTheirLink
  <1>1. HasAll
    BY AtRest DEF Resting
  <1>2. history.calls \in Nat
    BY DEF Orderly, Noted, Note
  <1>3. ASSUME NEW t \in aim, Aimed(t)
        PROVE  IF t.intf = NoIntf
               THEN /\ t.id.form = "arrow"
                    /\ (\E l \in Range(links) : Between(l, t.id.a, t.id.b)) => history.calls > 0
               ELSE (t.id.form # "arrow" => t.intf = t.id.name) /\ ReachesOver(t.id.a, t.id.b, t.intf)
    <2>1. Fits(t)
      BY <1>3 DEF Aiming
    <2>2. CASE t.intf = NoIntf
      <3>1. /\ t.id.form = "arrow"
            /\ history.calls = 0 => \A l \in Range(links) : ~Between(l, t.id.a, t.id.b)
        BY <2>1, <2>2 DEF Fits
      <3> QED
        BY <1>2, <2>2, <3>1
    <2>3. CASE t.intf # NoIntf
      <3>1. t.id.form # "arrow" => t.intf = t.id.name
        BY <2>1, <2>3 DEF Fits
      <3>2. PICK l \in Range(links) : EndAt(l, t.id.a, t.id.b, t.intf)
        BY <2>1, <2>3 DEF Fits
      <3> QED
        BY <1>1, <2>3, <3>1, <3>2, NamesItsLink
    <2> QED
      BY <2>2, <2>3
  <1> QED
    BY <1>3 DEF FaultsStayOnTheirLink, Aimed, ReachesOver

\* As long as the calls return and nothing is removed, a fault or
\* redirection sits at the interface of its own link (the configuration of
\* the fault controllers, Node.newPort).
THEOREM NetAims == Spec => []FaultsStayOnTheirLink
  <1>1. Sound /\ Orderly /\ Aiming => FaultsStayOnTheirLink
    BY FaultsStayAtRest
  <1> QED
    BY <1>1, NetAimed, PTL

(***************************************************************************)
(* The network is the one that the topology draws.                         *)
(***************************************************************************)
(* Two ends of links at one port.  *)
Meet(k, l) == {<<k.a, k.p1>>, <<k.b, k.p2>>} \cap {<<l.a, l.p1>>, <<l.b, l.p2>>} # {}
Impossible ==
    \/ Len(HostsOf(topo)) > MaxIP
    \/ \E m, n \in DOMAIN LinksOf(topo) : m # n /\ Meet(LinksOf(topo)[m], LinksOf(topo)[n])

(* Link number j of the topology is link number j of the network.  *)
AsDrawn(j) ==
    LET l == LinksOf(topo)[j]
    IN  /\ j \in Range(links)
        /\ link[j].p[1] = l.p1 /\ link[j].p[2] = l.p2
        /\ node[link[j].n[1]].name = l.a /\ node[link[j].n[2]].name = l.b
AllDrawn == \A j \in DOMAIN LinksOf(topo) : AsDrawn(j)

(* No two hosts have one address, and none has one that is still to be given.  *)
Numbered ==
    /\ \A n \in Range(hosts) : node[n].ip < nextIP
    /\ \A m, n \in Range(hosts) : m # n /\ node[m].ip # 0 => node[m].ip # node[n].ip

(* Of h hosts, s switches and m links, k nodes and l links are made.  *)
BuiltOf(h, s, m, k, l) ==
    /\ JobsIn(topo, BuildJobs(topo), h, s, m)
    /\ k \in 0..(h + s) /\ l \in 0..m /\ (l > 0 => k = h + s)
    /\ DOMAIN node = 1..k /\ DOMAIN link = 1..l
    /\ nextIP = IF k < h THEN k + 1 ELSE h + 1
    /\ DOMAIN todo = 1..(h + s + m + 1 - k - l)
    /\ \A i \in DOMAIN todo : todo[i] = BuildJobs(topo)[k + l + i]
    /\ \A j \in 1..l : AsDrawn(j)

(* While the network is built, and as long as it is only the topology's.  *)
Early == phase = "build" \/ (phase \in {"idle", "start", "wait"} /\ history.tidy /\ history.calls = 0)
Drawing ==
    /\ phase = "cleaned" \/ (phase = "build" /\ history.clean) => stale = {}
    /\ phase = "build" => history.tidy /\ \E h, s, m, k, l : BuiltOf(h, s, m, k, l)
    /\ Early => Numbered
    /\ Early /\ phase # "build" => AllDrawn
    /\ history.failed = "build" /\ history.clean => Impossible

\* The job at the head.
HeadIs(h, s, m, k, l) ==
    /\ Head(todo) = todo[1] /\ 1 \in DOMAIN todo
    /\ Head(todo).call = "node" =>
          /\ k < h + s /\ l = 0
          /\ k < h => k + 1 \in DOMAIN HostsOf(topo) /\ todo[1].of = HostsOf(topo)[k + 1]
          /\ k >= h => k + 1 - h \in DOMAIN SwitchesOf(topo) /\ todo[1].of = SwitchesOf(topo)[k + 1 - h]
    /\ Head(todo).call = "link" =>
          k = h + s /\ l < m /\ l + 1 \in DOMAIN LinksOf(topo) /\ todo[1].of = LinksOf(topo)[l + 1]
    /\ Head(todo).call = "config" => l = m

\* The jobs are done in the order in which the topology lists them.
LEMMA HeadJob ==
    ASSUME Sound, phase = "build", todo # <<>>, NEW h, NEW s, NEW m, NEW k, NEW l, BuiltOf(h, s, m, k, l)
    PROVE  HeadIs(h, s, m, k, l)
  <1>1. IsSeq(todo)
    BY DEF Sound, Todo, Building
  <1>2. Head(todo) = todo[1] /\ 1 \in DOMAIN todo
    <2>1. PICK rest : rest = Tail(todo)
      OBVIOUS
    <2> QED
      BY <1>1, <2>1, TailIs DEF RestOf
  <1>3. PICK jobs, H1, S1, L1 : /\ jobs = BuildJobs(topo) /\ H1 = HostsOf(topo)
                                /\ S1 = SwitchesOf(topo) /\ L1 = LinksOf(topo)
    OBVIOUS
  <1>4. /\ h \in Nat /\ s \in Nat /\ m \in Nat
        /\ DOMAIN H1 = 1..h /\ DOMAIN S1 = 1..s /\ DOMAIN L1 = 1..m
        /\ \A i \in 1..h : jobs[i] = Job("node", H1[i])
        /\ \A i \in 1..s : jobs[h + i] = Job("node", S1[i])
        /\ \A i \in 1..m : jobs[h + s + i] = Job("link", L1[i])
        /\ jobs[h + s + m + 1] = Job("config", 0)
    BY <1>3 DEF BuiltOf, JobsIn
  <1>5. /\ k \in 0..(h + s) /\ l \in 0..m /\ (l > 0 => k = h + s)
        /\ k + l + 1 <= h + s + m + 1 /\ todo[1] = jobs[k + l + 1]
    <2>1. /\ k \in 0..(h + s) /\ l \in 0..m /\ (l > 0 => k = h + s)
          /\ \A i \in DOMAIN todo : todo[i] = jobs[k + l + i]
      BY <1>3 DEF BuiltOf
    <2>2. k \in Nat /\ l \in Nat /\ k <= h + s /\ l <= m
      BY <1>4, <2>1
    <2>3. todo[1] = jobs[k + l + 1]
      BY <1>2, <2>1
    <2> QED
      BY <1>4, <2>1, <2>2, <2>3
  <1>6. \A x, y : Job(x, y).call = x /\ Job(x, y).of = y
    BY DEF Job
  <1>7. CASE k < h
    <2>1. l = 0 /\ k + 1 \in 1..h /\ todo[1] = jobs[k + 1]
      BY <1>4, <1>5, <1>7
    <2>2. todo[1] = Job("node", H1[k + 1])
      BY <1>4, <2>1
    <2>3. todo[1].call = "node" /\ todo[1].of = H1[k + 1]
      BY <1>6, <2>2
    <2>4. k < h + s /\ ~(k >= h)
      BY <1>4, <1>5, <1>7
    <2> QED
      BY <1>2, <1>3, <1>4, <1>7, <2>1, <2>3, <2>4 DEF HeadIs
  <1>8. CASE k >= h /\ k < h + s
    <2>1. l = 0 /\ k + 1 - h \in 1..s /\ todo[1] = jobs[h + (k + 1 - h)]
      BY <1>4, <1>5, <1>8
    <2>2. todo[1] = Job("node", S1[k + 1 - h])
      BY <1>4, <2>1
    <2>3. todo[1].call = "node" /\ todo[1].of = S1[k + 1 - h]
      BY <1>6, <2>2
    <2>4. ~(k < h)
      BY <1>4, <1>5, <1>8
    <2> QED
      BY <1>2, <1>3, <1>4, <1>8, <2>1, <2>3, <2>4 DEF HeadIs
  <1>9. CASE k = h + s /\ l < m
    <2>1. l + 1 \in 1..m /\ todo[1] = jobs[h + s + (l + 1)]
      BY <1>4, <1>5, <1>9
    <2>2. todo[1] = Job("link", L1[l + 1])
      BY <1>4, <2>1
    <2>3. todo[1].call = "link" /\ todo[1].of = L1[l + 1]
      BY <1>6, <2>2
    <2> QED
      BY <1>2, <1>3, <1>4, <1>9, <2>1, <2>3 DEF HeadIs
  <1>10. CASE k = h + s /\ l = m
    <2>1. todo[1] = jobs[h + s + m + 1]
      BY <1>4, <1>5, <1>10
    <2>2. todo[1].call = "config"
      BY <1>4, <1>6, <2>1
    <2> QED
      BY <1>2, <1>10, <2>2 DEF HeadIs
  <1> QED
    BY <1>4, <1>5, <1>7, <1>8, <1>9, <1>10

\* What is left when the first job is done.
LEMMA JobDone ==
    ASSUME Sound, phase = "build", todo # <<>>, NEW h, NEW s, NEW m, NEW k, NEW l, BuiltOf(h, s, m, k, l),
           NEW rest, rest = Tail(todo), NEW d, d = k + l + 1
    PROVE  /\ DOMAIN rest = 1..(h + s + m + 1 - d)
           /\ \A i \in DOMAIN rest : rest[i] = BuildJobs(topo)[d + i]
  <1>1. IsSeq(todo)
    BY DEF Sound, Todo, Building
  <1>2. RestOf(todo, rest)
    BY <1>1, TailIs
  <1>3. PICK n : n = h + s + m + 1 - k - l
    OBVIOUS
  <1>4. /\ h \in Nat /\ s \in Nat /\ m \in Nat /\ k \in Int /\ l \in Int /\ n \in Int
        /\ DOMAIN todo = 1..n /\ \A i \in 1..n : todo[i] = BuildJobs(topo)[k + l + i]
    <2>1. /\ h \in Nat /\ s \in Nat /\ m \in Nat /\ k \in 0..(h + s) /\ l \in 0..m
          /\ DOMAIN todo = 1..n /\ \A i \in DOMAIN todo : todo[i] = BuildJobs(topo)[k + l + i]
      BY <1>3 DEF BuiltOf, JobsIn
    <2>2. k \in Int /\ l \in Int
      BY <2>1
    <2>3. n \in Int
      BY <1>3, <2>1, <2>2
    <2> QED
      BY <2>1, <2>2, <2>3
  <1>5. /\ \A i \in DOMAIN rest : i \in Nat /\ i > 0 /\ i + 1 \in 1..n /\ rest[i] = todo[i + 1]
        /\ \A i \in 1..n : i = 1 \/ (i - 1 \in DOMAIN rest /\ (i - 1) + 1 = i)
    BY <1>2, <1>4 DEF RestOf
  <1>6. ASSUME NEW i \in 1..(n - 1) PROVE i \in DOMAIN rest
    <2>1. i + 1 \in 1..n /\ i + 1 # 1 /\ (i + 1) - 1 = i
      BY <1>4
    <2> QED
      BY <1>5, <2>1
  <1>7. ASSUME NEW i \in DOMAIN rest PROVE i \in 1..(n - 1) /\ rest[i] = BuildJobs(topo)[d + i]
    <2>1. i \in Nat /\ i > 0 /\ i + 1 \in 1..n /\ rest[i] = todo[i + 1]
      BY <1>5
    <2>2. k + l + (i + 1) = d + i
      BY <1>4, <2>1
    <2>3. todo[i + 1] = BuildJobs(topo)[k + l + (i + 1)]
      BY <1>4, <2>1
    <2> QED
      BY <1>4, <2>1, <2>2, <2>3
  <1>8. n - 1 = h + s + m + 1 - d
    BY <1>3, <1>4
  <1> QED
    BY <1>6, <1>7, <1>8

\* Two lengths with the same positions are one.
LEMMA SameLength ==
    ASSUME NEW n \in Nat, NEW m \in Nat, 1..n = 1..m
    PROVE  n = m
  <1>1. CASE n < m
    <2>1. m \in 1..m /\ m \notin 1..n
      BY <1>1
    <2> QED
      BY <2>1
  <1>2. CASE m < n
    <2>1. n \in 1..n /\ n \notin 1..m
      BY <1>2
    <2> QED
      BY <2>1
  <1> QED
    BY <1>1, <1>2

\* The hosts and the switches of a topology.
LEMMA KindsOfJobs ==
    ASSUME NEW t \in Topologies, NEW h \in Nat, DOMAIN HostsOf(t) = 1..h
    PROVE  /\ \A i \in DOMAIN HostsOf(t) : HostsOf(t)[i].kind # "switch"
           /\ \A i \in DOMAIN SwitchesOf(t) : SwitchesOf(t)[i].kind = "switch"
           /\ Len(HostsOf(t)) = h
  <1>1. PICK H1, S1, HostNodes, SwitchNodes :
           /\ H1 = HostsOf(t) /\ S1 = SwitchesOf(t)
           /\ HostNodes = [name : NodeNames, kind : {"host", "docker"}]
           /\ SwitchNodes = [name : NodeNames, kind : {"switch"}]
    OBVIOUS
  <1>2. H1 \in Seq(HostNodes) /\ S1 \in Seq(SwitchNodes)
    BY <1>1, TopologiesAssumption DEF WellFormed
  <1>3. DOMAIN H1 = 1..Len(H1) /\ Len(H1) \in Nat
    BY <1>2, LenProperties
  <1>4. Len(H1) = h
    <2>1. 1..Len(H1) = 1..h
      BY <1>1, <1>3
    <2> QED
      BY <1>3, <2>1, SameLength
  <1>5. \A i \in DOMAIN H1 : H1[i] \in HostNodes
    BY <1>2
  <1>6. \A i \in DOMAIN S1 : S1[i] \in SwitchNodes
    BY <1>2
  <1>7. /\ \A x \in HostNodes : x.kind # "switch"
        /\ \A x \in SwitchNodes : x.kind = "switch"
    BY <1>1
  <1> QED
    BY <1>1, <1>4, <1>5, <1>6, <1>7

\* A host takes the next address.
LEMMA NumberedMore ==
    ASSUME Sound, Numbered, NEW nd, NEW next, CreateNode(nd, next), NEW k \in Nat, NodeCreated(nd, k)
    PROVE  Numbered'
  <1>1. PICK ip, new : /\ ip = (IF nd.kind = "switch" THEN 0 ELSE nextIP)
                       /\ new = NewNode(nd.name, nd.kind, ip)
    OBVIOUS
  <1>2. node' = Append(node, new)
    BY <1>1 DEF CreateNode
  <1>3. new.ip = ip
    BY <1>1 DEF NewNode
  <1>4. IsSeq(node) /\ Shape(World) /\ World.node = node
    BY WorldIs DEF Sound, ShapeNow, Shape, Worldly
  <1>5. PICK n \in Nat : /\ DOMAIN node = 1..n /\ DOMAIN node' = 1..(n + 1) /\ node'[n + 1] = new
                         /\ \A i \in 1..n : node'[i] = node[i]
    <2>1. \E m \in Nat : /\ DOMAIN node = 1..m /\ DOMAIN Append(node, new) = 1..(m + 1)
                         /\ Append(node, new)[m + 1] = new
                         /\ \A i \in 1..m : Append(node, new)[i] = node[i]
      BY <1>4, AppendedLast
    <2> QED
      BY <1>2, <2>1
  <1>6. k = n
    <2>1. DOMAIN node = 1..k
      BY <1>4 DEF NodeCreated, NodeMade
    <2> QED
      BY <1>5, <2>1, SameLength
  <1>7. /\ Range(hosts) \subseteq DOMAIN node /\ nextIP \in Nat /\ nextIP > 0
        /\ \A i \in DOMAIN node : node[i].ip \in Nat
    <2>1. MaxIP \in Nat
      BY BoundsAssumption
    <2>2. \A i \in DOMAIN node : node[i].ip \in 0..MaxIP
      BY <1>4 DEF Shape, NodeShape
    <2>3. Range(hosts) \subseteq DOMAIN node /\ nextIP \in 1..(MaxIP + 1)
      BY DEF Sound, Lists, NodesListed
    <2> QED
      BY <2>1, <2>2, <2>3
  <1>8. \A i \in Range(hosts) : i # k + 1 /\ node'[i] = node[i]
    BY <1>5, <1>6, <1>7
  <1>9. CASE nd.kind = "switch"
    <2>1. hosts' = hosts /\ nextIP' = nextIP
      BY <1>9 DEF CreateNode
    <2> QED
      BY <1>8, <2>1 DEF Numbered
  <1>10. CASE nd.kind # "switch"
    <2>1. Range(hosts') = Range(hosts) \cup {k + 1} /\ nextIP' = nextIP + 1
      BY <1>10 DEF CreateNode, NodeCreated, IPUsedUp
    <2>2. node'[k + 1].ip = nextIP
      BY <1>1, <1>3, <1>5, <1>6, <1>10
    <2>3. \A i \in Range(hosts) : node'[i].ip = node[i].ip /\ node[i].ip < nextIP /\ node[i].ip \in Nat
      BY <1>7, <1>8 DEF Numbered
    <2>4. \A i \in Range(hosts') : node'[i].ip < nextIP'
      BY <1>7, <2>1, <2>2, <2>3
    <2>5. ASSUME NEW i \in Range(hosts'), NEW j \in Range(hosts'), i # j, node'[i].ip # 0
          PROVE  node'[i].ip # node'[j].ip
      <3>1. CASE i \in Range(hosts) /\ j \in Range(hosts)
        BY <2>3, <2>5, <3>1 DEF Numbered
      <3>2. CASE i = k + 1 \/ j = k + 1
        BY <1>7, <2>1, <2>2, <2>3, <2>5, <3>2
      <3> QED
        BY <2>1, <3>1, <3>2
    <2> QED
      BY <2>4, <2>5 DEF Numbered
  <1> QED
    BY <1>9, <1>10

\* One node more.
LEMMA NodeBuilt ==
    ASSUME Sound, phase = "build", todo # <<>>, Head(todo).call = "node",
           NEW h, NEW s, NEW m, NEW k, NEW l, BuiltOf(h, s, m, k, l),
           CreateNode(todo[1].of, Tail(todo)), NEW z \in Nat, NodeCreated(todo[1].of, z)
    PROVE  BuiltOf(h, s, m, k + 1, 0)'
  <1>1. HeadIs(h, s, m, k, l)
    BY HeadJob
  <1>2. /\ k < h + s /\ l = 0
        /\ k < h => k + 1 \in DOMAIN HostsOf(topo) /\ todo[1].of = HostsOf(topo)[k + 1]
        /\ k >= h => k + 1 - h \in DOMAIN SwitchesOf(topo) /\ todo[1].of = SwitchesOf(topo)[k + 1 - h]
    BY <1>1 DEF HeadIs
  <1>3. /\ h \in Nat /\ s \in Nat /\ m \in Nat /\ DOMAIN HostsOf(topo) = 1..h
        /\ k \in 0..(h + s) /\ DOMAIN node = 1..k /\ DOMAIN link = 1..l
        /\ nextIP = IF k < h THEN k + 1 ELSE h + 1
    BY DEF BuiltOf, JobsIn
  <1>4. k \in Nat /\ k + 1 \in 0..(h + s)
    BY <1>2, <1>3
  <1>5. PICK nd : nd = todo[1].of
    OBVIOUS
  <1>6. (k < h => nd.kind # "switch") /\ (k >= h => nd.kind = "switch")
    <2>1. topo \in Topologies
      BY DEF Sound
    <2> QED
      BY <1>2, <1>3, <1>5, <2>1, KindsOfJobs
  <1>7. nextIP' = IF k + 1 < h THEN (k + 1) + 1 ELSE h + 1
    <2>1. nextIP' = IF nd.kind = "switch" THEN nextIP ELSE nextIP + 1
      BY <1>5 DEF CreateNode, IPUsedUp
    <2> QED
      BY <1>3, <1>4, <1>6, <2>1
  <1>8. topo' = topo /\ link' = link
    BY DEF CreateNode, around
  <1>9. DOMAIN node' = 1..(k + 1)
    <2>1. DOMAIN node = 1..z /\ DOMAIN node' = 1..(z + 1)
      BY WorldIs, WorldThen DEF NodeCreated, NodeMade
    <2>2. z = k
      BY <1>3, <1>4, <2>1, SameLength
    <2> QED
      BY <2>1, <2>2
  <1>10. PICK rest, d : rest = Tail(todo) /\ d = k + l + 1
    OBVIOUS
  <1>11. /\ DOMAIN rest = 1..(h + s + m + 1 - d)
         /\ \A i \in DOMAIN rest : rest[i] = BuildJobs(topo)[d + i]
    BY <1>10, JobDone
  <1>12. todo' = rest
    BY <1>10 DEF CreateNode
  <1>13. /\ d = (k + 1) + 0 /\ h + s + m + 1 - d = h + s + m + 1 - (k + 1) - 0
    BY <1>2, <1>3, <1>4, <1>10
  <1>14. /\ DOMAIN todo' = 1..(h + s + m + 1 - (k + 1) - 0)
         /\ \A i \in DOMAIN todo' : todo'[i] = BuildJobs(topo)[(k + 1) + 0 + i]
    BY <1>11, <1>12, <1>13
  <1>15. JobsIn(topo, BuildJobs(topo), h, s, m)
    BY DEF BuiltOf
  <1>16. 0 \in 0..m /\ ~(0 > 0) /\ DOMAIN link' = 1..0 /\ \A j \in 1..0 : FALSE
    BY <1>2, <1>3, <1>8
  <1> QED
    BY <1>4, <1>7, <1>8, <1>9, <1>14, <1>15, <1>16 DEF BuiltOf

\* A node that cannot be created is one too many for the addresses.
LEMMA NodeBlamed ==
    ASSUME Sound, Orderly, Drawing, phase = "build", history.clean, todo # <<>>,
           Head(todo).call = "node", CannotCreate(todo[1].of)
    PROVE  Impossible
  <1>1. PICK h, s, m, k, l : BuiltOf(h, s, m, k, l)
    BY DEF Drawing
  <1>2. HeadIs(h, s, m, k, l)
    BY <1>1, HeadJob
  <1>3. PICK nd : nd = todo[1].of
    OBVIOUS
  <1>4. /\ k < h => k + 1 \in DOMAIN HostsOf(topo) /\ nd = HostsOf(topo)[k + 1]
        /\ k >= h => k + 1 - h \in DOMAIN SwitchesOf(topo) /\ nd = SwitchesOf(topo)[k + 1 - h]
    BY <1>2, <1>3 DEF HeadIs
  <1>5. /\ h \in Nat /\ s \in Nat /\ DOMAIN HostsOf(topo) = 1..h /\ k \in 0..(h + s)
        /\ nextIP = IF k < h THEN k + 1 ELSE h + 1
    BY <1>1 DEF BuiltOf, JobsIn
  <1>6. topo \in Topologies /\ MaxIP \in Nat
    BY BoundsAssumption DEF Sound
  <1>7. Len(HostsOf(topo)) = h /\ (k >= h => nd.kind = "switch")
    BY <1>4, <1>5, <1>6, KindsOfJobs
  <1>8. CASE nd.kind # "switch" /\ nextIP > MaxIP
    <2>1. k < h
      BY <1>5, <1>7, <1>8
    <2>2. h > MaxIP
      BY <1>5, <1>6, <1>8, <2>1
    <2> QED
      BY <1>7, <2>2 DEF Impossible
  <1>9. CASE nd.kind = "docker" /\ nd.name \in proc \cup stale
    <2>1. nd.name \in proc
      BY <1>9 DEF Drawing
    <2>2. Watched
      BY DEF Drawing, Watched, InCall, Resting
    <2>3. Owned(World, Range(named))
      BY <2>2, AtRest DEF Resting, OwnsAll, Belongs, Ours
    <2>4. PICK n \in Range(named) : node[n].name = nd.name
      BY <2>1, <2>3, WorldIs DEF Owned
    <2>5. PICK x \in DOMAIN named : n = named[x]
      BY DEF Range
    <2>6. x = nd.name
      BY <2>4, <2>5 DEF Sound, Lists, NodesListed
    <2>7. NodeJob(nd, named)
      <3>1. Head(todo) = todo[1] /\ 1 \in DOMAIN todo
        BY <1>2 DEF HeadIs
      <3> QED
        BY <1>3, <3>1 DEF Sound, Todo, Building
    <2> QED
      BY <2>5, <2>6, <2>7 DEF NodeJob
  <1> QED
    BY <1>3, <1>8, <1>9 DEF CannotCreate

\* The link at the head of the list of jobs.
LinkIs(lk, a, b) ==
    /\ a \in Range(named) /\ b \in Range(named) /\ a \in DOMAIN node /\ b \in DOMAIN node
    /\ node[a].name = lk.a /\ node[b].name = lk.b /\ lk.a # lk.b /\ lk.p1 \in Nat /\ lk.p2 \in Nat
    /\ Asked(node[a], lk.p1) /\ Asked(node[b], lk.p2)
    /\ Connect(a, b, lk.p1, lk.p2, Tail(todo))

\* A link job is between two nodes that are there already, at ports of its
\* own.
LEMMA BuildLinkIs ==
    ASSUME Sound, BuildLink, NEW lk, lk = todo[1].of
    PROVE  \E a, b : LinkIs(lk, a, b)
  <1>1. phase = "build" /\ todo # <<>> /\ Head(todo).call = "link" /\ Building(todo, named, node)
    BY DEF Sound, Todo, BuildLink
  <1>2. PICK rest : rest = Tail(todo)
    OBVIOUS
  <1>3. Head(todo) = todo[1] /\ 1 \in DOMAIN todo /\ \A j \in DOMAIN todo : j \in Nat /\ j > 0
    BY <1>1, <1>2, TailIs DEF Building, RestOf
  <1>4. LinkJob(lk, 1, todo, named, node)
    BY <1>1, <1>3 DEF Building
  <1>5. /\ lk.a # lk.b /\ lk.p1 \in Nat /\ lk.p2 \in Nat
        /\ lk.a \in DOMAIN named /\ (node[named[lk.a]].kind = "switch" => lk.p1 # 0)
        /\ lk.b \in DOMAIN named /\ (node[named[lk.b]].kind = "switch" => lk.p2 # 0)
    BY <1>3, <1>4 DEF LinkJob, Known
  <1>6. PICK a, b : a = named[lk.a] /\ b = named[lk.b]
    OBVIOUS
  <1>7. /\ a \in DOMAIN node /\ b \in DOMAIN node /\ node[a].name = lk.a /\ node[b].name = lk.b
        /\ a \in Range(named) /\ b \in Range(named)
    BY <1>5, <1>6 DEF Sound, Lists, NodesListed, Range
  <1>8. Asked(node[a], lk.p1) /\ Asked(node[b], lk.p2)
    BY <1>5, <1>6 DEF Asked
  <1>9. Connect(a, b, lk.p1, lk.p2, Tail(todo))
    BY <1>3, <1>6 DEF BuildLink
  <1> QED
    BY <1>5, <1>7, <1>8, <1>9 DEF LinkIs

\* One link more.
LEMMA LinkBuilt ==
    ASSUME Sound, phase = "build", todo # <<>>, Head(todo).call = "link",
           NEW h, NEW s, NEW m, NEW k, NEW l, BuiltOf(h, s, m, k, l),
           NEW lk, lk = todo[1].of, NEW a, NEW b, LinkIs(lk, a, b), NEW p1, NEW p2, NEW c,
           Connected(a, b, lk.p1, lk.p2, p1, p2, c, Tail(todo))
    PROVE  BuiltOf(h, s, m, k, l + 1)'
  <1>1. HeadIs(h, s, m, k, l)
    BY HeadJob
  <1>2. k = h + s /\ l < m /\ lk = LinksOf(topo)[l + 1]
    BY <1>1 DEF HeadIs
  <1>3. /\ h \in Nat /\ s \in Nat /\ m \in Nat /\ l \in 0..m
        /\ DOMAIN node = 1..k /\ DOMAIN link = 1..l /\ JobsIn(topo, BuildJobs(topo), h, s, m)
        /\ nextIP = IF k < h THEN k + 1 ELSE h + 1
        /\ k \in 0..(h + s)
        /\ \A j \in 1..l : AsDrawn(j)
    BY DEF BuiltOf, JobsIn
  <1>4. k \in Nat /\ l \in Nat /\ l + 1 \in 0..m
    BY <1>2, <1>3
  <1>5. /\ Joins(World, a, b, p1, p2, c, World') /\ p1 = lk.p1 /\ p2 = lk.p2
        /\ links' = Append(links, c) /\ topo' = topo /\ nextIP' = nextIP /\ todo' = Tail(todo)
    <2>1. lk.p1 # None /\ lk.p2 # None
      BY DEF LinkIs, None
    <2> QED
      BY <2>1 DEF Connected, PortGiven, around
  <1>6. /\ c \in Nat /\ c > 0 /\ DOMAIN link = 1..(c - 1) /\ DOMAIN link' = 1..c
        /\ \A j \in DOMAIN link : link'[j] = link[j]
        /\ link'[c].n[1] = a /\ link'[c].n[2] = b /\ link'[c].p[1] = p1 /\ link'[c].p[2] = p2
        /\ DOMAIN node' = DOMAIN node
        /\ \A n \in DOMAIN node : node'[n].name = node[n].name
    BY <1>5, WorldIs, WorldThen DEF Joins
  <1>7. c = l + 1
    <2>1. c - 1 \in Nat /\ 1..(c - 1) = 1..l
      BY <1>3, <1>6
    <2>2. c - 1 = l
      BY <1>4, <2>1, SameLength
    <2> QED
      BY <1>4, <1>6, <2>2
  <1>8. Range(links') = Range(links) \cup {c}
    <2>1. IsList(links)
      BY DEF Sound, Lists, LinksListed
    <2>2. c \notin Range(links)
      <3>1. c \notin DOMAIN link
        BY <1>3, <1>4, <1>7
      <3> QED
        BY <3>1 DEF Sound, Lists, LinksListed
    <2> QED
      BY <1>5, <2>1, <2>2, ListAppended
  <1>9. ASSUME NEW j \in 1..l PROVE AsDrawn(j)'
    <2>1. PICK q : q = LinksOf(topo)[j]
      OBVIOUS
    <2>2. /\ j \in Range(links) /\ link[j].p[1] = q.p1 /\ link[j].p[2] = q.p2
          /\ node[link[j].n[1]].name = q.a /\ node[link[j].n[2]].name = q.b
      BY <1>3, <1>9, <2>1 DEF AsDrawn
    <2>3. j \in DOMAIN link
      BY <1>3
    <2>4. link[j].n[1] \in DOMAIN node /\ link[j].n[2] \in DOMAIN node
      <3>1. LinkShape(World, j)
        BY <2>3, WorldIs DEF Sound, ShapeNow, Shape
      <3> QED
        BY <3>1, WorldIs DEF LinkShape
    <2>5. link'[j] = link[j]
      BY <1>6, <2>3
    <2> QED
      BY <1>5, <1>6, <1>8, <2>1, <2>2, <2>4, <2>5 DEF AsDrawn
  <1>10. AsDrawn(l + 1)'
    <2>1. node'[a].name = lk.a /\ node'[b].name = lk.b
      BY <1>6 DEF LinkIs
    <2> QED
      BY <1>2, <1>5, <1>6, <1>7, <1>8, <2>1 DEF AsDrawn
  <1>11. ASSUME NEW j \in 1..(l + 1) PROVE AsDrawn(j)'
    <2>1. j \in 1..l \/ j = l + 1
      BY <1>4
    <2>2. CASE j \in 1..l
      BY <1>9, <2>2
    <2>3. CASE j = l + 1
      BY <1>10, <2>3
    <2> QED
      BY <2>1, <2>2, <2>3
  <1>12. PICK rest, d : rest = Tail(todo) /\ d = k + l + 1
    OBVIOUS
  <1>13. /\ DOMAIN rest = 1..(h + s + m + 1 - d)
         /\ \A i \in DOMAIN rest : rest[i] = BuildJobs(topo)[d + i]
    BY <1>12, JobDone
  <1>14. d = k + (l + 1) /\ h + s + m + 1 - d = h + s + m + 1 - k - (l + 1)
    BY <1>3, <1>4, <1>12
  <1>15. /\ DOMAIN todo' = 1..(h + s + m + 1 - k - (l + 1))
         /\ \A i \in DOMAIN todo' : todo'[i] = BuildJobs(topo)[k + (l + 1) + i]
    BY <1>5, <1>12, <1>13, <1>14
  <1>16. DOMAIN node' = 1..k /\ DOMAIN link' = 1..(l + 1) /\ topo' = topo /\ nextIP' = nextIP
    BY <1>3, <1>5, <1>6, <1>7
  <1> QED
    BY <1>2, <1>3, <1>4, <1>11, <1>15, <1>16 DEF BuiltOf

\* No interface has the name of one of a link to be, unless they meet at one port.
LEMMA DrawnNameIsFree ==
    ASSUME Sound, ~Impossible, Live(World, Range(links)),
           NEW h, NEW s, NEW m, NEW k, NEW l, BuiltOf(h, s, m, k, l),
           l + 1 \in DOMAIN LinksOf(topo), NEW lk, lk = LinksOf(topo)[l + 1],
           NEW name, name \in {<<lk.a, lk.p1>>, <<lk.b, lk.p2>>}, NEW r, NEW v \in veth
    PROVE  <<r, name>> \notin v
  <1>1. PICK j \in Range(links) : v = Pair(World, j)
    BY WorldIs DEF Live
  <1>2. /\ m \in Nat /\ l \in 0..m /\ DOMAIN LinksOf(topo) = 1..m /\ DOMAIN link = 1..l
        /\ \A i \in 1..l : AsDrawn(i)
    BY DEF BuiltOf, JobsIn
  <1>3. j \in 1..l
    BY <1>1, <1>2 DEF Sound, Lists, LinksListed
  <1>4. j \in DOMAIN LinksOf(topo) /\ j # l + 1
    <2>1. l \in Nat /\ l <= m
      BY <1>2
    <2> QED
      BY <1>2, <1>3, <2>1
  <1>5. PICK q : q = LinksOf(topo)[j]
    OBVIOUS
  <1>6. /\ link[j].p[1] = q.p1 /\ link[j].p[2] = q.p2
        /\ node[link[j].n[1]].name = q.a /\ node[link[j].n[2]].name = q.b
    BY <1>2, <1>3, <1>5 DEF AsDrawn
  <1>7. <<j, 1>>[1] = j /\ <<j, 1>>[2] = 1 /\ <<j, 2>>[1] = j /\ <<j, 2>>[2] = 2
    OBVIOUS
  <1>8. End(World, <<j, 1>>)[2] = <<q.a, q.p1>> /\ End(World, <<j, 2>>)[2] = <<q.b, q.p2>>
    BY <1>6, <1>7, WorldIs DEF End, IntfName
  <1>9. ASSUME <<r, name>> \in v PROVE FALSE
    <2>1. <<r, name>>[2] = name
      OBVIOUS
    <2>2. name \in {<<q.a, q.p1>>, <<q.b, q.p2>>}
      BY <1>1, <1>8, <1>9, <2>1 DEF Pair
    <2>3. Meet(q, lk)
      BY <2>2 DEF Meet
    <2> QED
      BY <1>4, <1>5, <2>3 DEF Impossible
  <1> QED
    BY <1>9

\* So the pair of that link can be made.
LEMMA DrawnPairIsMade ==
    ASSUME Sound, ~Impossible, Live(World, Range(links)), Up(World, Range(named)),
           NEW h, NEW s, NEW m, NEW k, NEW l, BuiltOf(h, s, m, k, l),
           l + 1 \in DOMAIN LinksOf(topo), NEW lk, lk = LinksOf(topo)[l + 1],
           NEW a, NEW b, LinkIs(lk, a, b),
           NEW w1, w1 = WithLink(World, a, b, lk.p1, lk.p2), NEW c, c = Len(w1.link)
    PROVE  PairResult(w1, c).result = "made"
  <1>1. PICK w : w = World
    OBVIOUS
  <1>2. /\ Shape(w) /\ w.node = node /\ w.link = link /\ w.veth = veth /\ w.proc = proc
    BY <1>1, WorldIs DEF Sound, ShapeNow
  <1>3. lk.p1 # None /\ lk.p2 # None
    BY DEF LinkIs, None
  <1>4. \E p1 \in Nat, p2 \in Nat, z \in Nat :
           /\ Shape(w1) /\ NewLink(w, a, b, p1, p2, z, w1)
           /\ p1 = lk.p1 /\ p2 = lk.p2
    <2>1. /\ a \in DOMAIN w.node /\ b \in DOMAIN w.node /\ w.node[a].name # w.node[b].name
          /\ Asked(w.node[a], lk.p1) /\ Asked(w.node[b], lk.p2)
      BY <1>2 DEF LinkIs
    <2>2. w1 = WithLink(w, a, b, lk.p1, lk.p2)
      BY <1>1
    <2> QED
      BY <1>2, <1>3, <2>1, <2>2, WithLinkIs
  <1>5. PICK z \in Nat : NewLink(w, a, b, lk.p1, lk.p2, z, w1)
    BY <1>4
  <1>6. z = c
    BY <1>5 DEF NewLink
  <1>7. /\ w1.node = node /\ w1.veth = veth /\ w1.proc = proc
        /\ w1.link[c].n[1] = a /\ w1.link[c].n[2] = b
        /\ w1.link[c].p[1] = lk.p1 /\ w1.link[c].p[2] = lk.p2
    <2>1. PICK q1, q2 : q1 = lk.p1 /\ q2 = lk.p2
      OBVIOUS
    <2>2. NewLink(w, a, b, q1, q2, c, w1)
      BY <1>5, <1>6, <2>1
    <2>3. w1.node = w.node /\ w1.veth = w.veth /\ w1.proc = w.proc
      BY <2>2, ZenonT(60) DEF NewLink
    <2>4. w1.link[c].n[1] = a /\ w1.link[c].n[2] = b
      BY <2>2, ZenonT(60) DEF NewLink
    <2>5. w1.link[c].p[1] = q1 /\ w1.link[c].p[2] = q2
      BY <2>2, ZenonT(60) DEF NewLink
    <2> QED
      BY <1>2, <2>1, <2>3, <2>4, <2>5
  <1>8. PICK name1, name2 : name1 = IntfName(w1, <<c, 1>>) /\ name2 = IntfName(w1, <<c, 2>>)
    OBVIOUS
  <1>9. name1 = <<lk.a, lk.p1>> /\ name2 = <<lk.b, lk.p2>>
    <2>1. <<c, 1>>[1] = c /\ <<c, 1>>[2] = 1 /\ <<c, 2>>[1] = c /\ <<c, 2>>[2] = 2
      OBVIOUS
    <2>2. node[a].name = lk.a /\ node[b].name = lk.b
      BY DEF LinkIs
    <2> QED
      BY <1>7, <1>8, <2>1, <2>2 DEF IntfName
  <1>10. ASSUME NEW r, NEW v \in w1.veth PROVE <<r, name1>> \notin v /\ <<r, name2>> \notin v
    <2>1. v \in veth /\ name1 \in {<<lk.a, lk.p1>>, <<lk.b, lk.p2>>}
          /\ name2 \in {<<lk.a, lk.p1>>, <<lk.b, lk.p2>>}
      BY <1>7, <1>9
    <2> QED
      BY <2>1, DrawnNameIsFree
  <1>11. Movable(w1, w1.link[c].n[1], name1) /\ Movable(w1, w1.link[c].n[2], name2)
    <2>1. node[a].name \in proc /\ node[b].name \in proc
      BY WorldIs DEF LinkIs, Up
    <2> QED
      BY <1>7, <1>10, <2>1 DEF Movable
  <1>12. ~\E v \in w1.veth, q \in 1..2 : <<Root, IntfName(w1, <<c, q>>)>> \in v
    <2>1. \A q \in 1..2 : q = 1 \/ q = 2
      OBVIOUS
    <2> QED
      BY <1>8, <1>10, <2>1
  <1>13. PICK made : made = PairResult(w1, c)
    OBVIOUS
  <1>14. made.result = "made"
    BY <1>8, <1>11, <1>12, <1>13 DEF PairResult
  <1> QED
    BY <1>13, <1>14

\* A link that cannot be made meets another at a port.
LEMMA LinkBlamed ==
    ASSUME Sound, Orderly, Drawing, BuildLink, history.clean, history'.failed # history.failed
    PROVE  Impossible
  <1>1. phase = "build" /\ todo # <<>> /\ Head(todo).call = "link"
    BY DEF BuildLink
  <1>2. SUFFICES ASSUME ~Impossible PROVE FALSE
    OBVIOUS
  <1>3. PICK h, s, m, k, l : BuiltOf(h, s, m, k, l)
    BY <1>1 DEF Drawing
  <1>4. HeadIs(h, s, m, k, l)
    BY <1>1, <1>3, HeadJob
  <1>5. PICK lk : lk = todo[1].of
    OBVIOUS
  <1>6. l + 1 \in DOMAIN LinksOf(topo) /\ lk = LinksOf(topo)[l + 1]
    BY <1>1, <1>4, <1>5 DEF HeadIs
  <1>7. PICK a, b : LinkIs(lk, a, b)
    BY <1>5, BuildLinkIs
  <1>8. history.tidy /\ Watched /\ phase \in Resting
    BY <1>1 DEF Drawing, Watched, InCall, Resting
  <1>9. Live(World, Range(links)) /\ Up(World, Range(named))
    BY <1>8, AtRest DEF OwnsAll, Belongs, Ours, HasAll, Whole
  <1>10. PICK w1, c : w1 = WithLink(World, a, b, lk.p1, lk.p2) /\ c = Len(w1.link)
    OBVIOUS
  <1>11. PICK made : made = PairResult(w1, c)
    OBVIOUS
  <1>12. made.result = "made"
    BY <1>2, <1>3, <1>6, <1>7, <1>9, <1>10, <1>11, DrawnPairIsMade
  <1>13. Connect(a, b, lk.p1, lk.p2, Tail(todo))
    BY <1>7 DEF LinkIs
  <1>14. history' = [history EXCEPT !.calls = IF phase = "build" THEN @ ELSE @ + 1]
    BY <1>10, <1>11, <1>12, <1>13 DEF Connect
  <1>15. PICK building \in BOOLEAN : building = (phase = "build")
    OBVIOUS
  <1>16. history'.failed = history.failed
    BY <1>14, <1>15, NoteCall DEF Orderly
  <1> QED
    BY <1>16

\* A link of the topology.
LEMMA DrawnLink ==
    ASSUME Sound, Orderly, Orderly', Drawing, BuildLink
    PROVE  Drawing'
  <1>1. phase = "build" /\ todo # <<>> /\ Head(todo).call = "link" /\ history.tidy
    BY DEF BuildLink, Drawing
  <1>2. PICK h, s, m, k, l : BuiltOf(h, s, m, k, l)
    BY <1>1 DEF Drawing
  <1>3. PICK lk : lk = todo[1].of
    OBVIOUS
  <1>4. PICK a, b : LinkIs(lk, a, b)
    BY <1>3, BuildLinkIs
  <1>5. \/ Fails(phase) \/ CutShort(Tail(todo))
        \/ \E p1, p2, c \in Nat : Connected(a, b, lk.p1, lk.p2, p1, p2, c, Tail(todo))
    <2>1. /\ a \in DOMAIN node /\ b \in DOMAIN node /\ node[a].name # node[b].name
          /\ Asked(node[a], lk.p1) /\ Asked(node[b], lk.p2)
          /\ Connect(a, b, lk.p1, lk.p2, Tail(todo))
      BY <1>4 DEF LinkIs
    <2> QED
      BY <2>1, ConnectDoes DEF Sound
  <1>6. history'.clean = history.clean /\ topo' = topo
    <2>1. CASE Fails(phase) \/ CutShort(Tail(todo))
      BY <2>1, NoteFailed DEF Fails, CutShort, Orderly, around
    <2>2. CASE \E p1, p2, c \in Nat : Connected(a, b, lk.p1, lk.p2, p1, p2, c, Tail(todo))
      <3>1. PICK building \in BOOLEAN : building = (phase = "build")
        OBVIOUS
      <3>2. history' = [history EXCEPT !.calls = IF building THEN @ ELSE @ + 1] /\ topo' = topo
        BY <2>2, <3>1 DEF Connected, around
      <3> QED
        BY <3>2, NoteCall DEF Orderly
    <2> QED
      BY <1>5, <2>1, <2>2
  <1>7. history'.failed = "build" /\ history'.clean => Impossible'
    <2>1. history'.failed = "build" /\ history'.clean => Impossible
      BY <1>6, LinkBlamed DEF Drawing
    <2>2. Impossible' <=> Impossible
      BY <1>6 DEF Impossible
    <2> QED
      BY <2>1, <2>2
  <1>8. CASE Fails(phase) \/ CutShort(Tail(todo))
    <2>1. phase' = "exiting"
      BY <1>1, <1>8 DEF Fails, CutShort
    <2> QED
      BY <1>7, <2>1 DEF Drawing, Early
  <1>9. ASSUME NEW p1, NEW p2, NEW c, Connected(a, b, lk.p1, lk.p2, p1, p2, c, Tail(todo))
        PROVE  Drawing'
    <2>1. phase' = "build" /\ stale' = stale /\ hosts' = hosts /\ nextIP' = nextIP
      BY <1>1, <1>9 DEF Connected
    <2>2. BuiltOf(h, s, m, k, l + 1)'
      BY <1>1, <1>2, <1>3, <1>4, <1>9, LinkBuilt
    <2>3. history'.tidy = history.tidy
      <3>1. PICK building \in BOOLEAN : building = (phase = "build")
        OBVIOUS
      <3>2. history' = [history EXCEPT !.calls = IF building THEN @ ELSE @ + 1]
        BY <1>9, <3>1 DEF Connected
      <3> QED
        BY <3>2, NoteCall DEF Orderly
    <2>4. Numbered'
      <3>1. Numbered
        BY <1>1 DEF Drawing, Early
      <3>2. ASSUME NEW n \in Range(hosts) PROVE node'[n].ip = node[n].ip
        <4>1. n \in DOMAIN node
          BY DEF Sound, Lists, NodesListed
        <4>2. /\ \A i \in DOMAIN node : i \notin {a, b} => node'[i] = node[i]
              /\ node'[a].ip = node[a].ip /\ node'[b].ip = node[b].ip
          BY <1>9, WorldIs, WorldThen DEF Connected, Joins, Gains
        <4> QED
          BY <4>1, <4>2
      <3> QED
        BY <2>1, <3>1, <3>2 DEF Numbered
    <2> QED
      BY <1>1, <1>6, <1>7, <2>1, <2>2, <2>3, <2>4 DEF Drawing, Early
  <1> QED
    BY <1>5, <1>8, <1>9

\* A node of the topology.
LEMMA DrawnNode ==
    ASSUME Sound, Orderly, Drawing, BuildNode
    PROVE  Drawing'
  <1>1. phase = "build" /\ todo # <<>> /\ Head(todo).call = "node" /\ history.tidy
    BY DEF BuildNode, Drawing
  <1>2. PICK h, s, m, k, l : BuiltOf(h, s, m, k, l)
    BY <1>1 DEF Drawing
  <1>3. Head(todo) = todo[1]
    BY <1>1, <1>2, HeadJob DEF HeadIs
  <1>4. CASE Fails("build")
    <2>1. phase' = "exiting" /\ topo' = topo /\ history' = [history EXCEPT !.failed = "build"]
      BY <1>1, <1>4 DEF Fails, around
    <2>2. CannotCreate(todo[1].of)
      <3>1. phase' = phase \/ CannotCreate(todo[1].of)
        BY <1>3 DEF BuildNode, CreateNode
      <3> QED
        BY <1>1, <2>1, <3>1
    <2>3. history'.clean = history.clean
      BY <2>1, NoteFailed DEF Orderly
    <2>4. history'.clean => Impossible
      BY <1>1, <2>2, <2>3, NodeBlamed
    <2>5. Impossible' <=> Impossible
      BY <2>1 DEF Impossible
    <2> QED
      BY <2>1, <2>4, <2>5 DEF Drawing, Early
  <1>5. ASSUME NEW z \in Nat, NodeCreated(todo[1].of, z), CreateNode(todo[1].of, Tail(todo)),
               phase' = "build", history' = history
        PROVE  Drawing'
    <2>1. stale' = stale /\ topo' = topo
      BY <1>5 DEF CreateNode, around
    <2>2. BuiltOf(h, s, m, k + 1, 0)'
      BY <1>1, <1>2, <1>5, NodeBuilt
    <2>3. Numbered'
      <3>1. Numbered
        BY <1>1 DEF Drawing, Early
      <3>2. PICK nd, next : nd = todo[1].of /\ next = Tail(todo)
        OBVIOUS
      <3> QED
        BY <1>5, <3>1, <3>2, NumberedMore
    <2>4. history'.failed = "build" /\ history'.clean => Impossible'
      BY <1>5, <2>1 DEF Drawing, Impossible
    <2> QED
      BY <1>1, <1>5, <2>1, <2>2, <2>3, <2>4 DEF Drawing, Early
  <1> QED
    BY <1>4, <1>5, BuildNodeDoes

\* configHosts(): the network is the one that was drawn.
LEMMA DrawnConfig ==
    ASSUME Sound, Orderly, Drawing, BuildConfig
    PROVE  Drawing'
  <1>1. phase = "build" /\ todo # <<>> /\ Head(todo).call = "config" /\ history.tidy
    BY DEF BuildConfig, Drawing
  <1>2. PICK h, s, m, k, l : BuiltOf(h, s, m, k, l)
    BY <1>1 DEF Drawing
  <1>3. l = m
    BY <1>1, <1>2, HeadJob DEF HeadIs
  <1>4. /\ phase' = "idle" /\ topo' = topo /\ link' = link /\ links' = links /\ hosts' = hosts
        /\ nextIP' = nextIP /\ stale' = stale /\ history' = history
        /\ node' = [n \in DOMAIN node |-> Configured(node[n])]
    BY DEF BuildConfig, around, lists, system
  <1>5. ASSUME NEW n \in DOMAIN node
        PROVE  node'[n].name = node[n].name /\ node'[n].ip \in {0, node[n].ip}
    <2>1. NodeShape(node[n], n, link)
      BY WorldIs DEF Sound, ShapeNow, Shape
    <2>2. PICK nd, md : nd = node[n] /\ md = Configured(nd)
      OBVIOUS
    <2>3. md.name = nd.name
      BY <2>1, <2>2, ConfiguredIs
    <2>4. md.ip \in {0, nd.ip}
      <3>1. IsNode(nd)
        BY <2>1, <2>2 DEF NodeShape
      <3> QED
        BY <2>2, <3>1 DEF Configured, IsNode, NodeFields
    <2> QED
      BY <1>4, <2>2, <2>3, <2>4
  <1>6. Range(hosts) \subseteq DOMAIN node /\ nextIP \in Nat /\ nextIP > 0
    <2>1. Range(hosts) \subseteq DOMAIN node /\ nextIP \in 1..(MaxIP + 1) /\ MaxIP \in Nat
      BY BoundsAssumption DEF Sound, Lists, NodesListed
    <2> QED
      BY <2>1
  <1>7. Numbered'
    <2>1. Numbered
      BY <1>1 DEF Drawing, Early
    <2>2. \A n \in Range(hosts) : node'[n].ip < nextIP
      BY <1>5, <1>6, <2>1 DEF Numbered
    <2>3. ASSUME NEW i \in Range(hosts), NEW j \in Range(hosts), i # j, node'[i].ip # 0
          PROVE  node'[i].ip # node'[j].ip
      <3>1. node'[i].ip = node[i].ip /\ node'[j].ip \in {0, node[j].ip}
        BY <1>5, <1>6, <2>3
      <3>2. node[i].ip # node[j].ip
        BY <2>1, <2>3, <3>1 DEF Numbered
      <3> QED
        BY <2>3, <3>1, <3>2
    <2> QED
      BY <1>4, <2>2, <2>3 DEF Numbered
  <1>8. AllDrawn'
    <2>1. m \in Nat /\ DOMAIN LinksOf(topo) = 1..m /\ \A j \in 1..m : AsDrawn(j) /\ j \in DOMAIN link
      BY <1>2, <1>3 DEF BuiltOf, JobsIn
    <2>2. ASSUME NEW j \in DOMAIN LinksOf(topo) PROVE AsDrawn(j)'
      <3>1. AsDrawn(j) /\ j \in DOMAIN link
        BY <2>1, <2>2
      <3>2. link[j].n[1] \in DOMAIN node /\ link[j].n[2] \in DOMAIN node
        <4>1. LinkShape(World, j)
          BY <3>1, WorldIs DEF Sound, ShapeNow, Shape
        <4> QED
          BY <4>1, WorldIs DEF LinkShape
      <3>3. /\ node'[link[j].n[1]].name = node[link[j].n[1]].name
            /\ node'[link[j].n[2]].name = node[link[j].n[2]].name
        BY <1>5, <3>2
      <3> QED
        BY <1>4, <3>1, <3>3 DEF AsDrawn
    <2> QED
      BY <1>4, <2>2 DEF AllDrawn
  <1>9. history'.failed = "build" /\ history'.clean => Impossible'
    BY <1>4 DEF Drawing, Impossible
  <1> QED
    BY <1>4, <1>7, <1>8, <1>9 DEF Drawing

\* What leaves the network as it is leaves it as it was drawn.
LEMMA DrawingStays ==
    ASSUME Drawing, topo' = topo, phase' # "build", phase' = "cleaned" => stale' = {},
           Early' => Early /\ phase # "build" /\ UNCHANGED <<node, link, hosts, links, nextIP>>,
           history'.failed = "build" /\ history'.clean => history.failed = "build" /\ history.clean
    PROVE  Drawing'
  <1>1. history'.failed = "build" /\ history'.clean => Impossible'
    BY DEF Drawing, Impossible
  <1>2. Early' => Numbered' /\ AllDrawn'
    BY DEF Drawing, Numbered, AllDrawn, AsDrawn
  <1> QED
    BY <1>1, <1>2 DEF Drawing

\* A call that changes the network, and returns.
LEMMA DrawnChanged ==
    ASSUME Drawing, topo' = topo, phase' = "idle", history'.calls # 0,
           history'.failed # "build" \/ history'.failed = history.failed,
           history'.clean = history.clean
    PROVE  Drawing'
  BY DrawingStays DEF Early

\* Calls that add something.
LEMMA DrawnMore ==
    ASSUME Sound, Orderly, Drawing, NEW history2, history2 = [history EXCEPT !.calls = @ + 1],
           history' = history2, topo' = topo, phase' = "idle"
    PROVE  Drawing'
  <1>1. PICK building \in BOOLEAN : building = FALSE
    OBVIOUS
  <1>2. history' = [history EXCEPT !.calls = IF building THEN @ ELSE @ + 1]
    BY <1>1
  <1>3. /\ history'.calls = history.calls + 1 /\ history.calls \in Nat
        /\ history'.failed = history.failed /\ history'.clean = history.clean
    BY <1>1, <1>2, NoteCall DEF Orderly, Noted, Note
  <1> QED
    BY <1>3, DrawnChanged

\* addHost(), addDocker(), addSwitch() at run time.
LEMMA DrawnAddNode ==
    ASSUME Sound, Orderly, Drawing, NEW nd \in Names, AddNodeCall(nd)
    PROVE  Drawing'
  <1>1. phase' = "idle" /\ topo' = topo /\ history' = [history EXCEPT !.calls = @ + 1]
    BY DEF AddNodeCall, MayChange, CreateNode, Called, around
  <1> QED
    BY <1>1, DrawnMore

\* addLink() at run time, which may fail.
LEMMA DrawnAddLink ==
    ASSUME Sound, Orderly, Drawing, NEW a \in DOMAIN node, NEW b \in DOMAIN node, NEW p \in PortPairs,
           AddLinkCall(a, b, p[1], p[2])
    PROVE  Drawing'
  <1>1. LinkCall(<<>>) /\ phase = "idle"
    BY AddLinkCallDoes DEF MayChange
  <1>2. CASE Fails(phase)
    <2>1. /\ history' = [history EXCEPT !.failed = "idle"] /\ phase' = "idle" /\ topo' = topo
          /\ UNCHANGED <<node, link, hosts, links, nextIP>>
      BY <1>1, <1>2 DEF Fails, around, lists
    <2>2. /\ history'.failed = "idle" /\ history'.tidy = history.tidy
          /\ history'.calls = history.calls
      BY <2>1, NoteFailed DEF Orderly
    <2> QED
      BY <1>1, <2>1, <2>2, DrawingStays DEF Early
  <1>3. CASE CutShort(<<>>)
    <2>1. /\ history' = [history EXCEPT !.failed = "idle"] /\ phase' = "exiting" /\ topo' = topo
      BY <1>1, <1>3 DEF CutShort, around
    <2>2. history'.failed = "idle"
      BY <2>1, NoteFailed DEF Orderly
    <2> QED
      BY <2>1, <2>2, DrawingStays DEF Early
  <1>4. CASE \E x, y \in Range(named) : \E port1, port2, p1, p2, l :
                Connected(x, y, port1, port2, p1, p2, l, <<>>)
    <2>1. history' = [history EXCEPT !.calls = @ + 1] /\ phase' = "idle" /\ topo' = topo
      BY <1>1, <1>4 DEF Connected, around
    <2> QED
      BY <2>1, DrawnMore
  <1> QED
    BY <1>1, <1>2, <1>3, <1>4 DEF LinkCall

\* Calls that remove something.
LEMMA DrawnLess ==
    ASSUME Sound, Orderly, Drawing, topo' = topo, phase' = "idle", NEW well \in BOOLEAN, NEW what,
           what \in {"remove", history.failed},
           history' = [history EXCEPT !.calls = @ + 1, !.removals = @ + 1,
                                      !.tidy = well, !.failed = what]
    PROVE  Drawing'
  <1>1. /\ history'.failed = what /\ history'.clean = history.clean
        /\ history'.calls = history.calls + 1 /\ history.calls \in Nat
    BY NoteRemoval DEF Orderly, Noted, Note
  <1> QED
    BY <1>1, DrawnChanged

\* removeLink().
LEMMA DrawnRemoveLink ==
    ASSUME Sound, Orderly, Drawing, NEW l \in Range(links), RemoveLinkCall(l)
    PROVE  Drawing'
  <1>1. phase' = "idle" /\ topo' = topo
    BY RemoveLinkCallDoes DEF RemoveLinkCall, around
  <1>2. PICK raised \in BOOLEAN :
           history' = [history EXCEPT !.calls = @ + 1, !.removals = @ + 1,
                                      !.tidy = @ /\ ~raised,
                                      !.failed = IF raised THEN "remove" ELSE @]
    BY RemoveLinkCallDoes
  <1>3. PICK well \in BOOLEAN : well = (history.tidy /\ ~raised)
    OBVIOUS
  <1>4. PICK what : what = IF raised THEN "remove" ELSE history.failed
    OBVIOUS
  <1>5. history' = [history EXCEPT !.calls = @ + 1, !.removals = @ + 1,
                                   !.tidy = well, !.failed = what]
    BY <1>2, <1>3, <1>4
  <1>6. what \in {"remove", history.failed}
    BY <1>4
  <1> QED
    BY <1>1, <1>5, <1>6, DrawnLess

\* A node that was taken out of the network.
LEMMA DrawnOut ==
    ASSUME Sound, Orderly, Drawing, topo' = topo, phase' = "idle", NEW n \in Range(named), NodeOut(n)
    PROVE  Drawing'
  <1>1. PICK well \in BOOLEAN : well = (history.tidy /\ \A l \in Range(links) : n \notin Range(link[l].n))
    OBVIOUS
  <1>2. history' = [history EXCEPT !.calls = @ + 1, !.removals = @ + 1,
                                   !.tidy = well, !.failed = history.failed]
    <2>1. history' = [history EXCEPT !.calls = @ + 1, !.removals = @ + 1, !.tidy = well]
      BY <1>1 DEF NodeOut
    <2> QED
      BY <2>1 DEF Orderly, Noted, Note, IsNote, HistoryFields
  <1>3. PICK what : what = history.failed
    OBVIOUS
  <1> QED
    BY <1>2, <1>3, DrawnLess

\* removeHost(), delNode().
LEMMA DrawnRemoveNode ==
    ASSUME Sound, Orderly, Drawing, NEW n \in DOMAIN node, RemoveHostCall(n) \/ DelNodeCall(n)
    PROVE  Drawing'
  <1>1. topo' = topo
    BY DEF RemoveHostCall, DelNodeCall, around
  <1>2. n \in Range(named) /\ phase' = "idle" /\ NodeOut(n)
    BY RemoveHostCallDoes, DelNodeCallDoes
  <1> QED
    BY <1>1, <1>2, DrawnOut

\* The network is started, and waited for.
LEMMA DrawnStart ==
    ASSUME Sound, Orderly, Drawing,
           \/ StartCall \/ StartSwitch \/ StartEnds
           \/ \E n \in Range(switches) : StartLaterSwitch(n)
    PROVE  Drawing'
  <1>1. CASE StartCall
    <2>1. /\ phase = "idle" /\ phase' = "start" /\ history' = [history EXCEPT !.started = TRUE]
          /\ topo' = topo /\ UNCHANGED <<node, link, hosts, links, nextIP>>
      BY <1>1 DEF StartCall, around, lists
    <2>2. /\ history'.failed = history.failed /\ history'.tidy = history.tidy
          /\ history'.clean = history.clean /\ history'.calls = history.calls
      BY <2>1, NoteStarted DEF Orderly
    <2> QED
      BY <2>1, <2>2, DrawingStays DEF Early
  <1>2. CASE StartEnds
    <2>1. /\ phase = "start" /\ phase' = "idle" /\ history' = history
          /\ topo' = topo /\ UNCHANGED <<node, link, hosts, links, nextIP>>
      BY <1>2 DEF StartEnds, lists
    <2> QED
      BY <2>1, DrawingStays DEF Early
  <1>3. CASE StartSwitch
    <2>1. PICK n : SwitchUp(n) /\ phase = "start" /\ phase' = "start"
      BY <1>3, StartSwitchDoes
    <2>2. topo' = topo
      BY <1>3 DEF StartSwitch, around
    <2>3. UNCHANGED <<node, link, hosts, links, nextIP, history>>
      BY <2>1, WorldIs, WorldThen DEF SwitchUp, BridgeMade, lists
    <2> QED
      BY <2>1, <2>2, <2>3, DrawingStays DEF Early
  <1>4. ASSUME NEW n \in Range(switches), StartLaterSwitch(n) PROVE Drawing'
    <2>1. SwitchUp(n) /\ phase = "idle" /\ phase' = "idle"
      BY <1>4, StartLaterSwitchDoes
    <2>2. topo' = topo
      BY <1>4 DEF StartLaterSwitch, around
    <2>3. UNCHANGED <<node, link, hosts, links, nextIP, history>>
      BY <2>1, WorldIs, WorldThen DEF SwitchUp, BridgeMade, lists
    <2> QED
      BY <2>1, <2>2, <2>3, DrawingStays DEF Early
  <1> QED
    BY <1>1, <1>2, <1>3, <1>4

\* Nothing is changed while the switches are waited for.
LEMMA DrawnWait ==
    ASSUME Sound, Orderly, Drawing,
           \/ WaitLook \/ WaitRoundEnds
           \/ \E timed \in BOOLEAN : WaitCall(timed)
           \/ \E n \in DOMAIN node : Connects(n) \/ Disconnects(n)
    PROVE  Drawing'
  <1>1. /\ topo' = topo /\ UNCHANGED <<node, link, hosts, links, nextIP>>
        /\ phase \in {"idle", "wait"} /\ phase' \in {"idle", "wait"}
    BY DEF WaitLook, WaitRoundEnds, WaitCall, Connects, Disconnects, around, lists
  <1>2. /\ history'.failed = history.failed /\ history'.tidy = history.tidy
        /\ history'.clean = history.clean /\ history'.calls = history.calls
    <2>1. history' = history \/ history' = [history EXCEPT !.troubles = @ + 1]
      BY DEF WaitLook, WaitRoundEnds, WaitCall, Connects, Disconnects
    <2> QED
      BY <2>1, NoteDisconnected DEF Orderly
  <1> QED
    BY <1>1, <1>2, DrawingStays DEF Early

\* stop() comes back to rest only untidy; a program that ends has nothing built.
LEMMA DrawnStop ==
    ASSUME Sound, Orderly, Orderly', Drawing,
           \/ StopCall \/ StopLink \/ StopSwitches \/ StopHost \/ StopEnds \/ InterruptStop
           \/ Exit \/ Cleanup \/ \E name \in proc : ProcessDies(name)
    PROVE  Drawing'
  <1>1. CASE StopCall \/ StopSwitches \/ StopHost \/ StopEnds \/ Exit \/ Cleanup
    <2>1. /\ phase' \in {"stop links", "stop hosts", "stopped", "exited", "cleaned"}
          /\ topo' = topo /\ history' = history
      BY <1>1 DEF StopCall, StopSwitches, StopHost, StopEnds, Exit, Cleanup, around
    <2>2. phase' = "cleaned" => stale' = {}
      BY <1>1 DEF StopCall, StopSwitches, StopHost, StopEnds, Exit, Cleanup, RemoveJunk
    <2> QED
      BY <2>1, <2>2, DrawingStays DEF Early
  <1>2. CASE StopLink
    <2>1. PICK l, raised : LinkStopped(l, raised)
      BY <1>2, StopLinkDoes
    <2>2. topo' = topo
      BY <1>2 DEF StopLink, around
    <2>3. CASE raised
      <3>1. history' = [history EXCEPT !.failed = "stop"] /\ phase' = "idle"
        BY <2>1, <2>3 DEF LinkStopped
      <3>2. history'.failed = "stop"
        BY <3>1, NoteFailed DEF Orderly
      <3>3. ~history'.tidy
        BY <3>2 DEF Orderly, Tidy
      <3> QED
        BY <2>2, <3>1, <3>2, <3>3, DrawingStays DEF Early
    <2>4. CASE ~raised
      <3>1. phase' = "stop links" /\ history' = history
        BY <2>1, <2>4 DEF LinkStopped
      <3> QED
        BY <2>2, <3>1, DrawingStays DEF Early
    <2> QED
      BY <2>3, <2>4
  <1>3. CASE InterruptStop \/ \E name \in proc : ProcessDies(name)
    <2>1. /\ history' = [history EXCEPT !.troubles = @ + 1, !.tidy = FALSE]
          /\ phase' = "idle" /\ topo' = topo
      BY <1>3 DEF InterruptStop, ProcessDies, around
    <2>2. /\ ~history'.tidy /\ history'.failed = history.failed
          /\ history'.clean = history.clean
      BY <2>1, NoteTrouble DEF Orderly
    <2> QED
      BY <2>1, <2>2, DrawingStays DEF Early
  <1> QED
    BY <1>1, <1>2, <1>3

\* Nothing is built yet.
NothingBuilt(t, h, s, m, jobs) ==
    /\ JobsIn(t, BuildJobs(t), h, s, m) /\ 0 \in 0..(h + s) /\ 0 \in 0..m
    /\ 1 = IF 0 < h THEN 0 + 1 ELSE h + 1
    /\ DOMAIN jobs = 1..(h + s + m + 1 - 0 - 0)
    /\ \A i \in DOMAIN jobs : jobs[i] = BuildJobs(t)[0 + 0 + i]

\* All jobs of the topology are still to be done.
LEMMA NothingIsBuilt ==
    ASSUME NEW t \in Topologies, NEW jobs
    PROVE  jobs = BuildJobs(t) => \E h, s, m : NothingBuilt(t, h, s, m, jobs)
  <1>0. SUFFICES ASSUME jobs = BuildJobs(t) PROVE \E h, s, m : NothingBuilt(t, h, s, m, jobs)
    OBVIOUS
  <1>1. PICK h, s, m : JobsIn(t, jobs, h, s, m)
    BY <1>0, JobsAre
  <1>2. /\ h \in Nat /\ s \in Nat /\ m \in Nat /\ DOMAIN jobs = 1..(h + s + m + 1)
    BY <1>1 DEF JobsIn
  <1>3. /\ 0 \in 0..(h + s) /\ 0 \in 0..m /\ 1 = (IF 0 < h THEN 0 + 1 ELSE h + 1)
        /\ DOMAIN jobs = 1..(h + s + m + 1 - 0 - 0)
        /\ \A i \in DOMAIN jobs : 0 + 0 + i = i
    BY <1>2
  <1>4. \A i \in DOMAIN jobs : jobs[i] = BuildJobs(t)[0 + 0 + i]
    BY <1>0, <1>3
  <1> QED
    BY <1>0, <1>1, <1>3, <1>4 DEF NothingBuilt

\* The next Mininet process.
LEMMA DrawnRestart ==
    ASSUME Sound, Orderly, Drawing, Restart
    PROVE  Drawing'
  <1>1. /\ node' = <<>> /\ link' = <<>> /\ hosts' = <<>> /\ nextIP' = 1 /\ phase' = "build"
        /\ todo' = BuildJobs(topo) /\ topo' = topo /\ stale' = stale
    BY DEF Restart, system
  <1>2. PICK clean \in BOOLEAN : clean = (phase = "cleaned")
    OBVIOUS
  <1>3. history' = [Fresh EXCEPT !.runs = history.runs + 1, !.clean = clean, !.calls = MaxCalls]
    BY <1>2 DEF Restart
  <1>4. history'.tidy = TRUE /\ history'.failed = "nothing" /\ history'.clean = clean
    BY <1>3 DEF Fresh
  <1>5. history'.clean => stale' = {}
    BY <1>1, <1>2, <1>4 DEF Drawing
  <1>6. \E h, s, m, k, l : BuiltOf(h, s, m, k, l)'
    <2>1. PICK jobs, t : jobs = todo' /\ t = topo
      OBVIOUS
    <2>2. PICK h, s, m : NothingBuilt(t, h, s, m, jobs)
      BY <1>1, <2>1, NothingIsBuilt DEF Sound
    <2>3. DOMAIN node' = 1..0 /\ DOMAIN link' = 1..0 /\ ~(0 > 0) /\ \A j \in 1..0 : FALSE
      BY <1>1
    <2>4. BuiltOf(h, s, m, 0, 0)'
      BY <1>1, <2>1, <2>2, <2>3 DEF BuiltOf, NothingBuilt
    <2> QED
      BY <2>4
  <1>7. Numbered'
    <2>1. PICK none : none = hosts'
      OBVIOUS
    <2>2. Range(none) = {}
      BY <1>1, <2>1, NothingIsList
    <2> QED
      BY <2>1, <2>2 DEF Numbered
  <1> QED
    BY <1>1, <1>4, <1>5, <1>6, <1>7 DEF Drawing

\* The first Mininet process.
LEMMA DrawingFirst ==
    ASSUME Init
    PROVE  Drawing
  <1>1. /\ node = <<>> /\ link = <<>> /\ hosts = <<>> /\ nextIP = 1 /\ phase = "build"
        /\ todo = BuildJobs(topo) /\ stale = {} /\ history = Fresh /\ topo \in Topologies
    BY DEF Init
  <1>2. history.tidy = TRUE /\ history.failed = "nothing"
    BY <1>1 DEF Fresh
  <1>3. \E h, s, m, k, l : BuiltOf(h, s, m, k, l)
    <2>1. PICK jobs, t : jobs = todo /\ t = topo
      OBVIOUS
    <2>2. PICK h, s, m : NothingBuilt(t, h, s, m, jobs)
      BY <1>1, <2>1, NothingIsBuilt
    <2>3. DOMAIN node = 1..0 /\ DOMAIN link = 1..0 /\ ~(0 > 0) /\ \A j \in 1..0 : FALSE
      BY <1>1
    <2>4. BuiltOf(h, s, m, 0, 0)
      BY <1>1, <2>1, <2>2, <2>3 DEF BuiltOf, NothingBuilt
    <2> QED
      BY <2>4
  <1>4. Numbered
    <2>1. Range(hosts) = {}
      BY <1>1, NothingIsList
    <2> QED
      BY <2>1 DEF Numbered
  <1> QED
    BY <1>1, <1>2, <1>3, <1>4 DEF Drawing

\* Every step keeps to the drawing.
LEMMA DrawingNext ==
    ASSUME Sound, Orderly, Orderly', Drawing, [Next]_vars
    PROVE  Drawing'
  <1>1. CASE UNCHANGED vars
    <2>1. UNCHANGED <<topo, node, link, hosts, links, nextIP, phase, todo, stale, history>>
      BY <1>1 DEF vars
    <2> QED
      BY <2>1 DEF Drawing, Early, Numbered, AllDrawn, AsDrawn, Impossible, BuiltOf
  <1>2. CASE Program
    <2>1. CASE BuildNode \/ BuildLink \/ BuildConfig
      BY <2>1, DrawnNode, DrawnLink, DrawnConfig
    <2>2. ASSUME NEW nd \in Names, AddNodeCall(nd) PROVE Drawing'
      BY <2>2, DrawnAddNode
    <2>3. ASSUME NEW a \in DOMAIN node, NEW b \in DOMAIN node, NEW p \in PortPairs,
                 AddLinkCall(a, b, p[1], p[2])
          PROVE  Drawing'
      BY <2>3, DrawnAddLink
    <2>4. ASSUME NEW l \in Range(links), RemoveLinkCall(l) PROVE Drawing'
      BY <2>4, DrawnRemoveLink
    <2>5. ASSUME NEW n \in DOMAIN node, RemoveHostCall(n) \/ DelNodeCall(n) PROVE Drawing'
      BY <2>5, DrawnRemoveNode
    <2>6. CASE StartCall \/ StartSwitch \/ StartEnds \/ \E n \in Range(switches) : StartLaterSwitch(n)
      BY <2>6, DrawnStart
    <2>7. CASE WaitLook \/ WaitRoundEnds \/ \E timed \in BOOLEAN : WaitCall(timed)
      BY <2>7, DrawnWait
    <2>8. CASE StopCall \/ StopLink \/ StopSwitches \/ StopHost \/ StopEnds
      BY <2>8, DrawnStop
    <2> QED
      BY <1>2, <2>1, <2>2, <2>3, <2>4, <2>5, <2>6, <2>7, <2>8 DEF Program
  <1>3. CASE Outside
    <2>1. CASE InterruptStop \/ Exit \/ Cleanup \/ \E name \in proc : ProcessDies(name)
      BY <2>1, DrawnStop
    <2>2. CASE Restart
      BY <2>2, DrawnRestart
    <2> QED
      BY <1>3, <2>1, <2>2, DrawnWait DEF Outside
  <1> QED
    BY <1>1, <1>2, <1>3 DEF Next

\* The network is built as the topology draws it, and stays so until it is changed.
THEOREM NetDrawn == Spec => [](Sound /\ Orderly /\ Drawing)
  <1>1. Init => Sound /\ Orderly /\ Drawing
    BY InitIsSound, OrderlyFirst, DrawingFirst
  <1>2. Sound /\ Orderly /\ Drawing /\ [Next]_vars => (Sound /\ Orderly /\ Drawing)'
    BY SoundNext, OrderlyNext, DrawingNext
  <1> QED
    BY <1>1, <1>2, PTL DEF Spec

\* A port of a node is the end of a link, and the other end is where it should be.
Wired(name, p) ==
    LET i == node[named[name]].intfs[p]
        peer == IntfName(World, <<i[1], 3 - i[2]>>)
    IN  /\ IntfName(World, i) = <<name, p>>
        /\ topo.ports[name][p] = peer
        /\ Ends(i[1]) \in veth

\* At one end of a link.
LEMMA WiredAt ==
    ASSUME Sound, HasAll, NEW j \in Range(links), NEW s \in {1, 2}, NEW x, x = link[j].n[s],
           NEW y, y = link[j].n[3 - s], NEW name, name = node[x].name, NEW p, p = link[j].p[s],
           topo.ports[name][p] = <<node[y].name, link[j].p[3 - s]>>
    PROVE  Wired(name, p)
  <1>1. World.node = node /\ World.link = link /\ World.veth = veth
    BY WorldIs
  <1>2. Pair(World, j) \in veth /\ JointAt(World, j, s, Range(named))
    BY <1>1 DEF HasAll, Whole, Joint
  <1>3. x \in Range(named) /\ node[x].intfs[p] = <<j, s>>
    BY <1>1, <1>2 DEF JointAt
  <1>4. named[name] = x
    <2>1. PICK z \in DOMAIN named : x = named[z]
      BY <1>3 DEF Range
    <2>2. node[named[z]].name = z
      BY <2>1 DEF Sound, Lists, NodesListed
    <2> QED
      BY <2>1, <2>2
  <1>5. PICK i, far : i = node[named[name]].intfs[p] /\ far = <<i[1], 3 - i[2]>>
    OBVIOUS
  <1>6. i = <<j, s>> /\ i[1] = j /\ i[2] = s
    <2>1. PICK e : e = <<j, s>>
      OBVIOUS
    <2>2. e[1] = j /\ e[2] = s
      BY <2>1
    <2>3. node[x].intfs[p] = e
      BY <1>3, <2>1
    <2>4. i = e
      BY <1>4, <1>5, <2>3
    <2> QED
      BY <2>1, <2>2, <2>4
  <1>7. far[1] = j /\ far[2] = 3 - s
    BY <1>5, <1>6
  <1>8. IntfName(World, i) = <<name, p>>
    BY <1>1, <1>6 DEF IntfName
  <1>9. IntfName(World, far) = <<node[y].name, link[j].p[3 - s]>>
    BY <1>1, <1>7 DEF IntfName
  <1>10. Ends(i[1]) \in veth
    <2>1. Ends(j) = Pair(World, j)
      BY DEF Ends, Pair
    <2> QED
      BY <1>2, <1>6, <2>1
  <1> QED
    BY <1>5, <1>8, <1>9, <1>10 DEF Wired

\* What the topology's table of ports says.
LEMMA WiredAsDrawn ==
    ASSUME Sound, HasAll, AllDrawn, NEW name \in DOMAIN topo.ports, NEW p \in DOMAIN topo.ports[name]
    PROVE  Wired(name, p)
  <1>1. PortsAreOfLinks(topo)
    BY PortsAssumption DEF Sound
  <1>2. PICK j \in DOMAIN LinksOf(topo) :
           LET l == LinksOf(topo)[j]
           IN  \/ l.a = name /\ l.p1 = p /\ topo.ports[name][p] = <<l.b, l.p2>>
               \/ l.b = name /\ l.p2 = p /\ topo.ports[name][p] = <<l.a, l.p1>>
    BY <1>1 DEF PortsAreOfLinks
  <1>3. PICK q : q = LinksOf(topo)[j]
    OBVIOUS
  <1>4. /\ j \in Range(links) /\ link[j].p[1] = q.p1 /\ link[j].p[2] = q.p2
        /\ node[link[j].n[1]].name = q.a /\ node[link[j].n[2]].name = q.b
    BY <1>3 DEF AllDrawn, AsDrawn
  <1>5. PICK x, y : x = link[j].n[1] /\ y = link[j].n[2]
    OBVIOUS
  <1>6. 3 - 1 = 2 /\ 3 - 2 = 1
    OBVIOUS
  <1>7. CASE q.a = name /\ q.p1 = p /\ topo.ports[name][p] = <<q.b, q.p2>>
    <2>1. PICK s \in {1, 2} : s = 1
      OBVIOUS
    <2>2. /\ x = link[j].n[s] /\ y = link[j].n[3 - s] /\ name = node[x].name /\ p = link[j].p[s]
          /\ topo.ports[name][p] = <<node[y].name, link[j].p[3 - s]>>
      BY <1>4, <1>5, <1>6, <1>7, <2>1
    <2> QED
      BY <1>4, <2>2, WiredAt, ZenonT(60)
  <1>8. CASE q.b = name /\ q.p2 = p /\ topo.ports[name][p] = <<q.a, q.p1>>
    <2>1. PICK s \in {1, 2} : s = 2
      OBVIOUS
    <2>2. /\ y = link[j].n[s] /\ x = link[j].n[3 - s] /\ name = node[y].name /\ p = link[j].p[s]
          /\ topo.ports[name][p] = <<node[x].name, link[j].p[3 - s]>>
      BY <1>4, <1>5, <1>6, <1>8, <2>1
    <2> QED
      BY <1>4, <2>2, WiredAt, ZenonT(60)
  <1> QED
    BY <1>2, <1>3, <1>7, <1>8

\* A network that is built, and not changed, is the one of the topology.
LEMMA AsItIsDrawn ==
    ASSUME Sound, Orderly, Drawing
    PROVE  BuiltAsDrawn
  <1>1. history.failed = "build" /\ history.clean =>
            \/ Len(HostsOf(topo)) > MaxIP
            \/ \E m, n \in DOMAIN LinksOf(topo) :
                  LET k == LinksOf(topo)[m] l == LinksOf(topo)[n]
                  IN  m # n /\ {<<k.a, k.p1>>, <<k.b, k.p2>>} \cap {<<l.a, l.p1>>, <<l.b, l.p2>>} # {}
    BY DEF Drawing, Impossible, Meet
  <1>2. ASSUME phase = "idle", history.calls = 0, history.tidy
        PROVE  /\ \A name \in DOMAIN topo.ports : \A p \in DOMAIN topo.ports[name] : Wired(name, p)
               /\ \A m, n \in Range(hosts) : m # n /\ node[m].ip # 0 => node[m].ip # node[n].ip
    <2>1. AllDrawn /\ Numbered
      BY <1>2 DEF Drawing, Early
    <2>2. HasAll
      BY <1>2, AtRest DEF Resting
    <2> QED
      BY <2>1, <2>2, WiredAsDrawn DEF Numbered
  <1> QED
    BY <1>1, <1>2 DEF BuiltAsDrawn, Wired

\* A network is built unless its topology cannot be, or remains of an
\* earlier run are in the way; what is built has the ports, the names and
\* the veth pairs that the topology's table of ports says, and no two hosts
\* have one address (Topo.addPort, Mininet.buildFromTopo, addLink, addHost,
\* configHosts).
THEOREM NetBuilt == Spec => []BuiltAsDrawn
  <1>1. Sound /\ Orderly /\ Drawing => BuiltAsDrawn
    BY AsItIsDrawn
  <1> QED
    BY <1>1, NetDrawn, PTL
=============================================================================
