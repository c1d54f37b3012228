-------------------------- MODULE MiniEditRunProofs --------------------------
(***************************************************************************)
(* Theorems of MiniEdit, for all tools, names, topologies and files that   *)
(* its assumptions allow: the links of the drawing, the lists of the       *)
(* switches, the network that runs, the script, what is saved and opened.  *)
(***************************************************************************)
EXTENDS MiniEditProofs

(***************************************************************************)
(* Deleting leaves a good drawing.                                         *)
(***************************************************************************)
\* Only a link is gone.
LinkRemoved(d, l, e) ==
    /\ Nodes(e) = Nodes(d) /\ e.gone = d.gone /\ SameOpts(d, e)
    /\ ToSet(e.links) = ToSet(d.links) \ {l}
    /\ DOMAIN e.ends = DOMAIN d.ends \ {<<l.src, l.dest>>, <<l.dest, l.src>>}
    /\ \A x \in DOMAIN e.ends : e.ends[x] = d.ends[x]

\* As Managed(), but for the link l.
ManagedBut(d, Z, l) ==
    \A w, c \in Nodes(d) :
        c.kind = "Controller" /\ c.item \notin Z /\ Managing(d, w, c) /\ ~Joins(l, w, c)
            => w.kind = "Switch" /\ c.name \in ToSet(ListOf(d, w))

\* Two links of a drawing join different nodes.
LEMMA LinksDiffer ==
    ASSUME NEW d, Shape(d), Wired(d), NEW k \in ToSet(d.links), NEW l \in ToSet(d.links),
           {<<k.src, k.dest>>, <<k.dest, k.src>>} \cap {<<l.src, l.dest>>, <<l.dest, l.src>>} # {}
    PROVE  k = l
  <1>1. WiredLink(d, k) /\ WiredLink(d, l)
    BY DEF Wired
  <1>2. k.item = l.item
    BY <1>1 DEF WiredLink
  <1>3. Link(d, k.item) = k /\ Link(d, l.item) = l
    BY LinkIs
  <1> QED
    BY <1>2, <1>3

\* The list of its switch was changed before.
LEMMA LinkRemovedGood ==
    ASSUME NEW d, Shape(d), NEW X, Good(d, X), NEW l \in ToSet(d.links), NEW e, LinkRemoved(d, l, e),
           \A w, c \in Nodes(d) :
              l.type = "control" /\ Joins(l, w, c) /\ w.kind = "Switch" /\ c.kind = "Controller"
                 => c.name \notin ToSet(ListOf(d, w))
    PROVE  Good(e, X) /\ \A Z : ManagedBut(d, Z, l) => Managed(e, Z)
  <1>1. /\ Nodes(e) = Nodes(d) /\ e.hostOpts = d.hostOpts /\ e.switchOpts = d.switchOpts
        /\ e.controllers = d.controllers /\ ToSet(e.links) = ToSet(d.links) \ {l} /\ e.gone = d.gone
    BY DEF LinkRemoved, SameOpts
  <1>2. Named(e) /\ ControllerNames(e) = ControllerNames(d)
    BY <1>1 DEF Good, Named, ControllerNames
  <1>3. \A w : ListOf(e, w) = ListOf(d, w)
    BY <1>1 DEF ListOf
  <1>4. Equipped(e)
    BY <1>1, <1>2, <1>3 DEF Good, Equipped, EquippedNode
  <1>5. Enlisted(e)
    BY <1>1 DEF Good, Enlisted, HasList
  <1>6. Wired(e)
    <2>1. ASSUME NEW k \in ToSet(e.links) PROVE WiredLink(e, k)
      <3>1. k \in ToSet(d.links) /\ k # l /\ WiredLink(d, k)
        BY <1>1 DEF Good, Wired
      <3>2. {<<k.src, k.dest>>, <<k.dest, k.src>>} \cap {<<l.src, l.dest>>, <<l.dest, l.src>>} = {}
        BY <3>1, LinksDiffer DEF Good
      <3>3. <<k.src, k.dest>> \in DOMAIN e.ends /\ <<k.dest, k.src>> \in DOMAIN e.ends
        BY <3>1, <3>2 DEF LinkRemoved, WiredLink
      <3>4. /\ <<k.src, k.dest>> \in DOMAIN e.ends /\ <<k.dest, k.src>> \in DOMAIN e.ends
            /\ e.ends[<<k.src, k.dest>>] = k.item /\ e.ends[<<k.dest, k.src>>] = k.item
        BY <3>1, <3>3 DEF LinkRemoved, WiredLink
      <3>5. \E v, w \in Nodes(e) : v # w /\ k.src = v.item /\ k.dest = w.item /\ MayJoin(k.type, v, w)
        BY <1>1, <3>1 DEF WiredLink
      <3> QED
        BY <3>4, <3>5 DEF WiredLink
    <2>2. ASSUME NEW x \in DOMAIN e.ends
          PROVE  \E k \in ToSet(e.links) :
                    e.ends[x] = k.item /\ (x = <<k.src, k.dest>> \/ x = <<k.dest, k.src>>)
      <3>1. /\ x \in DOMAIN d.ends /\ e.ends[x] = d.ends[x]
            /\ x # <<l.src, l.dest>> /\ x # <<l.dest, l.src>>
        BY DEF LinkRemoved
      <3>2. PICK k \in ToSet(d.links) : d.ends[x] = k.item /\ (x = <<k.src, k.dest>> \/ x = <<k.dest, k.src>>)
        BY <3>1 DEF Good, Wired
      <3>3. k # l
        BY <3>1, <3>2
      <3> QED
        BY <1>1, <3>1, <3>2, <3>3
    <2>3. e.gone = {}
      BY <1>1 DEF Good, Wired
    <2> QED
      BY <2>1, <2>2, <2>3 DEF Wired
  <1>7. ListsDrawn(e, X)
    <2>1. ASSUME NEW w \in Nodes(d), NEW c \in Nodes(d), w.kind = "Switch", w.item \notin X,
                 c.kind = "Controller", c.name \in ToSet(ListOf(d, w))
          PROVE  Managing(e, w, c)
      <3>1. PICK k \in ToSet(d.links) : k.type = "control" /\ Joins(k, w, c)
        BY <2>1 DEF Good, ListsDrawn, Managing
      <3>2. k # l
        BY <2>1, <3>1
      <3> QED
        BY <1>1, <3>1, <3>2 DEF Managing
    <2> QED
      BY <1>1, <1>3, <2>1 DEF ListsDrawn
  <1>8. ASSUME NEW Z, ManagedBut(d, Z, l) PROVE Managed(e, Z)
    <2>1. ASSUME NEW w \in Nodes(d), NEW c \in Nodes(d), c.kind = "Controller", c.item \notin Z,
                 Managing(e, w, c)
          PROVE  w.kind = "Switch" /\ c.name \in ToSet(ListOf(d, w))
      <3>1. PICK k \in ToSet(d.links) : k.type = "control" /\ Joins(k, w, c) /\ k # l
        BY <1>1, <2>1 DEF Managing
      <3>2. ~Joins(l, w, c)
        <4>1. ASSUME Joins(l, w, c) PROVE FALSE
          <5>1. {<<k.src, k.dest>>, <<k.dest, k.src>>} \cap {<<l.src, l.dest>>, <<l.dest, l.src>>} # {}
            BY <3>1, <4>1 DEF Joins
          <5> QED
            BY <3>1, <5>1, LinksDiffer DEF Good
        <4> QED
          BY <4>1
      <3>3. Managing(d, w, c)
        BY <3>1 DEF Managing
      <3> QED
        BY <1>8, <2>1, <3>2, <3>3 DEF ManagedBut
    <2> QED
      BY <1>1, <1>3, <2>1 DEF Managed
  <1> QED
    BY <1>2, <1>4, <1>5, <1>6, <1>7, <1>8 DEF Good

\* A shorter list of a switch without any is empty.
LEMMA NothingToRemove ==
    ASSUME NEW s, s = <<>>, NEW e, NEW r, r = RemoveFirst(s, e)
    PROVE  r = <<>>
  <1>1. IsSeq(s) /\ NoTwice(s) /\ ToSet(s) = {}
    BY NothingIsSeq DEF NoTwice, ToSet
  <1>2. IsSeq(r) /\ ToSet(r) = {}
    BY <1>1, FirstRemoved
  <1>3. Len(r) \in Nat /\ DOMAIN r = 1..Len(r) /\ (r = <<>> <=> Len(r) = 0)
    BY <1>2, SeqIs
  <1>4. Len(r) = 0
    <2>1. CASE Len(r) # 0
      <3>1. 1 \in DOMAIN r
        BY <1>3, <2>1
      <3> QED
        BY <1>2, <3>1 DEF ToSet
    <2> QED
      BY <2>1
  <1> QED
    BY <1>3, <1>4

\* What deleteLink() leaves.
LinkDeleted(d, X, l, r) ==
    /\ r.ok /\ Shape(r.m) /\ Good(r.m, X) /\ \A Z : Managed(d, Z) => Managed(r.m, Z)
    /\ Nodes(r.m) = Nodes(d) /\ ToSet(r.m.links) = ToSet(d.links) \ {l}

\* The tables of the icons after the first steps of deleteLink().
TablesApart(d, l, a) ==
    /\ DOMAIN a.ends = DOMAIN d.ends \ {<<l.src, l.dest>>, <<l.dest, l.src>>}
    /\ \A x \in DOMAIN a.ends : a.ends[x] = d.ends[x]

\* Both icons forget the link.
LEMMA ApartEnds ==
    ASSUME NEW d, Shape(d), NEW l, NEW a, a = Apart(d, l)
    PROVE  TablesApart(d, l, a)
  <1>1. PICK h, src, dest : h = Unended(d, src, dest) /\ src = l.src /\ dest = l.dest
    OBVIOUS
  <1>2. IsModel(h) /\ DOMAIN h.ends = DOMAIN d.ends \ {<<src, dest>>}
        /\ \A x \in DOMAIN h.ends : h.ends[x] = d.ends[x]
    BY <1>1, UnendedIs DEF Shape
  <1>3. a = Unended(h, dest, src)
    BY <1>1 DEF Apart
  <1>4. DOMAIN a.ends = DOMAIN h.ends \ {<<dest, src>>}
        /\ \A x \in DOMAIN a.ends : a.ends[x] = h.ends[x]
    BY <1>2, <1>3, UnendedIs
  <1> QED
    BY <1>1, <1>2, <1>4 DEF TablesApart

\* deleteLink() of a link of data leaves all lists alone.
LEMMA DataLinkDeleted ==
    ASSUME NEW d, Shape(d), NEW X, Good(d, X), NEW l \in ToSet(d.links), l.type # "control",
           NEW r, r = DeleteLink(d, l.item)
    PROVE  LinkDeleted(d, X, l, r)
  <1>1. WiredLink(d, l) /\ l.src \in Items(d)
    BY DEF Good, Wired, WiredLink, Items
  <1>2. PICK a : a = Apart(d, l)
    OBVIOUS
  <1>3. Shape(a) /\ SameNodes(d, a) /\ SameOpts(d, a) /\ a.links = d.links
    BY <1>2, ApartShape
  <1>4. TablesApart(d, l, a)
    BY <1>2, ApartEnds
  <1>5. PICK item, e : item = l.item /\ e = Unlinked(a, item)
    OBVIOUS
  <1>6. r = Ok(e)
    <2>1. l = Link(d, item) /\ r = DeleteLink(d, item)
      BY <1>5, LinkIs
    <2>2. r = IF <<l.src, l.dest>> \notin DOMAIN d.ends THEN Raise(d)
              ELSE IF <<l.dest, l.src>> \notin DOMAIN d.ends THEN Raise(Unended(d, l.src, l.dest))
              ELSE IF l.src \notin Items(d) THEN Raise(Apart(d, l))
              ELSE IF ~Unlisted(d, l).ok THEN Unlisted(d, l)
              ELSE Ok(Unlinked(Unlisted(d, l).m, item))
      BY <2>1, DeleteLinkSteps
    <2>3. Unlisted(d, l) = Ok(a)
      BY <1>2 DEF Unlisted
    <2> QED
      BY <1>1, <1>5, <2>2, <2>3 DEF Ok, WiredLink
  <1>7. /\ Shape(e) /\ SameNodes(a, e) /\ SameOpts(a, e) /\ e.ends = a.ends
        /\ ToSet(e.links) = {k \in ToSet(a.links) : k.item # item}
    BY <1>3, <1>5, UnlinkedShape
  <1>8. {k \in ToSet(d.links) : k.item # item} = ToSet(d.links) \ {l}
    <2>1. \A k \in ToSet(d.links) : k.item = item => k = l
      BY <1>5, LinkIs
    <2> QED
      BY <1>5, <2>1
  <1>9. Nodes(e) = Nodes(d) /\ e.gone = d.gone
    BY <1>3, <1>7, SameNames DEF SameNodes
  <1>10. LinkRemoved(d, l, e)
    BY <1>3, <1>4, <1>7, <1>8, <1>9 DEF LinkRemoved, SameOpts, TablesApart
  <1>11. Good(e, X) /\ \A Z : ManagedBut(d, Z, l) => Managed(e, Z)
    BY <1>10, LinkRemovedGood
  <1>12. \A Z : Managed(d, Z) => ManagedBut(d, Z, l)
    BY DEF Managed, ManagedBut
  <1> QED
    BY <1>6, <1>7, <1>9, <1>10, <1>11, <1>12 DEF LinkDeleted, LinkRemoved, Ok

\* The order of the first two steps is of no matter to the options.
LEMMA ListRemoved ==
    ASSUME NEW d, Shape(d), NEW a, Shape(a), a.switchOpts = d.switchOpts, NEW name, NEW controller,
           HasList(d, name), NEW list, list = RemoveFirst(d.switchOpts[name].controllers, controller),
           NEW r, r = Unlist(a, name, controller), NEW f, f = WithList(d, name, list)
    PROVE  r.ok /\ r.m.switchOpts = f.switchOpts
  <1>1. HasList(a, name) /\ list = RemoveFirst(a.switchOpts[name].controllers, controller)
    BY DEF HasList
  <1>2. PICK q : q = WithList(a, name, list)
    OBVIOUS
  <1>3. r.ok /\ r.m = q
    BY <1>1, <1>2 DEF Unlist, Ok
  <1>4. IsModel(a) /\ IsModel(d)
    BY DEF Shape
  <1>5. q.switchOpts = [a.switchOpts EXCEPT ![name].controllers = list]
    BY <1>2, <1>4 DEF WithList, IsModel
  <1>6. f.switchOpts = [d.switchOpts EXCEPT ![name].controllers = list]
    BY <1>4 DEF WithList, IsModel
  <1> QED
    BY <1>3, <1>5, <1>6

\* A link to a controller joins it to a switch that has a list.
LEMMA ControlLinkIs ==
    ASSUME NEW d, Shape(d), NEW X, Good(d, X), NEW l \in ToSet(d.links), l.type = "control"
    PROVE  \E w, c \in Nodes(d) :
              /\ w.kind \in SwitchLike /\ c.kind = "Controller" /\ w # c /\ HasList(d, w.name)
              /\ \/ l.src = c.item /\ l.dest = w.item
                 \/ l.src = w.item /\ l.dest = c.item
  <1>1. PICK v \in Nodes(d), u \in Nodes(d) :
           v # u /\ l.src = v.item /\ l.dest = u.item /\ MayJoin("control", v, u)
    <2>1. WiredLink(d, l)
      BY DEF Good, Wired
    <2> QED
      BY <2>1 DEF WiredLink
  <1>2. \A w \in Nodes(d) : w.kind \in SwitchLike /\ w.item \in {l.src, l.dest} => HasList(d, w.name)
    BY DEF Good, Enlisted
  <1> QED
    BY <1>1, <1>2 DEF MayJoin

\* deleteLink() of a link to a controller takes it from the list of the switch.
LEMMA ControlLinkDeleted ==
    ASSUME NEW d, Shape(d), NEW X, Good(d, X), NEW l \in ToSet(d.links), l.type = "control",
           NEW r, r = DeleteLink(d, l.item)
    PROVE  LinkDeleted(d, X, l, r)
  <1>1. WiredLink(d, l) /\ l.src \in Items(d)
    BY DEF Good, Wired, WiredLink, Items
  <1>2. PICK a : a = Apart(d, l)
    OBVIOUS
  <1>3. Shape(a) /\ SameNodes(d, a) /\ SameOpts(d, a) /\ a.links = d.links
    BY <1>2, ApartShape
  <1>4. TablesApart(d, l, a)
    BY <1>2, ApartEnds
  <1>5. PICK w \in Nodes(d), c \in Nodes(d) :
           /\ w.kind \in SwitchLike /\ c.kind = "Controller" /\ w # c /\ HasList(d, w.name)
           /\ \/ l.src = c.item /\ l.dest = w.item
              \/ l.src = w.item /\ l.dest = c.item
    BY ControlLinkIs
  <1>6. PICK name, cname, old, list, u :
           /\ name = w.name /\ cname = c.name /\ old = d.switchOpts[name].controllers
           /\ list = RemoveFirst(old, cname) /\ u = Unlist(a, name, cname)
    OBVIOUS
  <1>7. Unlisted(d, l) = u
    <2>1. Widget(d, w.item) = w /\ Widget(d, c.item) = c
      BY WidgetIs
    <2>2. w.kind # "Controller"
      BY <1>5 DEF SwitchLike
    <2> QED
      BY <1>2, <1>5, <1>6, <2>1, <2>2 DEF Unlisted
  <1>8. PICK f : f = WithList(d, name, list)
    OBVIOUS
  <1>9. u.ok /\ u.m.switchOpts = f.switchOpts
    <2>1. HasList(d, name) /\ a.switchOpts = d.switchOpts
      BY <1>3, <1>5, <1>6 DEF SameOpts
    <2>2. list = RemoveFirst(d.switchOpts[name].controllers, cname)
      BY <1>6
    <2> QED
      BY <1>3, <1>6, <1>8, <2>1, <2>2, ListRemoved
  <1>10. /\ Shape(u.m) /\ SameNodes(a, u.m) /\ u.m.ends = a.ends /\ u.m.links = a.links
         /\ u.m.hostOpts = a.hostOpts /\ u.m.controllers = a.controllers
    BY <1>3, <1>6, UnlistIs DEF SameLinks, Pruned
  <1>11. PICK item, e : item = l.item /\ e = Unlinked(u.m, item)
    OBVIOUS
  <1>12. r = Ok(e)
    <2>1. l = Link(d, item) /\ r = DeleteLink(d, item)
      BY <1>11, LinkIs
    <2>2. r = IF <<l.src, l.dest>> \notin DOMAIN d.ends THEN Raise(d)
              ELSE IF <<l.dest, l.src>> \notin DOMAIN d.ends THEN Raise(Unended(d, l.src, l.dest))
              ELSE IF l.src \notin Items(d) THEN Raise(Apart(d, l))
              ELSE IF ~Unlisted(d, l).ok THEN Unlisted(d, l)
              ELSE Ok(Unlinked(Unlisted(d, l).m, item))
      BY <2>1, DeleteLinkSteps
    <2> QED
      BY <1>1, <1>7, <1>9, <1>11, <2>2 DEF WiredLink
  <1>13. /\ Shape(e) /\ SameNodes(u.m, e) /\ SameOpts(u.m, e) /\ e.ends = u.m.ends
         /\ ToSet(e.links) = {k \in ToSet(u.m.links) : k.item # item}
    <2>1. PICK q : q = u.m
      OBVIOUS
    <2>2. Shape(q) /\ e = Unlinked(q, item)
      BY <1>10, <1>11, <2>1
    <2> QED
      BY <2>1, <2>2, UnlinkedShape
  <1>14. {k \in ToSet(d.links) : k.item # item} = ToSet(d.links) \ {l}
    <2>1. \A k \in ToSet(d.links) : k.item = item => k = l
      BY <1>11, LinkIs
    <2> QED
      BY <1>11, <2>1
  <1>15. Relisted(d, name, list, f)
    BY <1>8, WithListIs DEF Shape
  <1>16. /\ old = ListOf(d, w) /\ IsSeq(old) /\ NoTwice(old) /\ ToSet(old) \subseteq ControllerNames(d)
         /\ w.kind = "Switch" \/ old = <<>>
    <2>1. FitList(w.kind, ListOf(d, w), ControllerNames(d)) /\ old = ListOf(d, w) /\ old # NoList
      BY <1>5, <1>6 DEF Good, Equipped, EquippedNode, ListOf, HasList
    <2>2. IsSeq(old)
      BY <1>5, <1>6, <2>1 DEF HasList, Shape, Entries, IsSwitchEntry
    <2> QED
      BY <1>5, <2>1, <2>2 DEF FitList, SwitchLike
  <1>17. IsSeq(list) /\ NoTwice(list) /\ ToSet(list) = ToSet(old) \ {cname}
    BY <1>6, <1>16, FirstRemoved
  <1>18. w.kind = "Switch" \/ list = <<>>
    BY <1>6, <1>16, NothingToRemove
  <1>19. RelistedWell(d, X, w, list, f)
    <2>1. Relisted(d, w.name, list, f)
      BY <1>6, <1>15
    <2>2. ToSet(list) \subseteq ControllerNames(d)
      BY <1>16, <1>17
    <2> QED
      BY <1>5, <1>17, <1>18, <2>1, <2>2, RelistedGood
  <1>20. Good(f, X) /\ ListOf(f, w) = list
         /\ \A v \in Nodes(d) : v.kind \in SwitchLike /\ v # w => ListOf(f, v) = ListOf(d, v)
    BY <1>16, <1>17, <1>19 DEF RelistedWell
  <1>21. Shape(f) /\ Nodes(f) = Nodes(d) /\ f.links = d.links /\ f.ends = d.ends /\ f.gone = d.gone
         /\ f.hostOpts = d.hostOpts /\ f.controllers = d.controllers
    <2>1. list = NoList \/ IsSeq(list)
      BY <1>17
    <2>2. Shape(f)
      BY <1>15, <2>1, RelistedShape
    <2> QED
      BY <1>15, <2>2, SameNames DEF Relisted, SameLinks, SameNodes
  <1>22. Nodes(e) = Nodes(d) /\ e.gone = d.gone
    <2>1. e.canvas = d.canvas /\ e.gone = d.gone
      BY <1>3, <1>10, <1>13 DEF SameNodes
    <2> QED
      BY <2>1 DEF Nodes
  <1>23. LinkRemoved(f, l, e)
    <2>1. SameOpts(f, e)
      BY <1>3, <1>9, <1>10, <1>13, <1>21 DEF SameOpts
    <2>2. ToSet(e.links) = ToSet(f.links) \ {l}
      BY <1>3, <1>10, <1>13, <1>14, <1>21
    <2>3. e.ends = a.ends
      BY <1>10, <1>13
    <2> QED
      BY <1>4, <1>21, <1>22, <2>1, <2>2, <2>3 DEF LinkRemoved, TablesApart
  <1>24. \A v, b \in Nodes(f) : Joins(l, v, b) /\ v.kind = "Switch" /\ b.kind = "Controller" => v = w /\ b = c
    <2>1. ASSUME NEW v \in Nodes(d), NEW b \in Nodes(d), Joins(l, v, b), v.kind = "Switch", b.kind = "Controller"
          PROVE  v = w /\ b = c
      <3>1. \/ v.item = w.item /\ b.item = c.item
            \/ v.item = c.item /\ b.item = w.item
        BY <1>5, <2>1 DEF Joins
      <3>2. v.item # c.item
        <4>1. v.item = c.item => v = c
          BY NodesDiffer
        <4> QED
          BY <1>5, <2>1, <4>1
      <3>3. v.item = w.item /\ b.item = c.item
        BY <3>1, <3>2
      <3> QED
        BY <3>3, NodesDiffer
    <2> QED
      BY <1>21, <2>1
  <1>25. Good(e, X) /\ \A Z : ManagedBut(f, Z, l) => Managed(e, Z)
    <2>1. \A v, b \in Nodes(f) :
             l.type = "control" /\ Joins(l, v, b) /\ v.kind = "Switch" /\ b.kind = "Controller"
                => b.name \notin ToSet(ListOf(f, v))
      BY <1>6, <1>17, <1>20, <1>24
    <2>2. l \in ToSet(f.links)
      BY <1>21
    <2> QED
      BY <1>20, <1>21, <1>23, <2>1, <2>2, LinkRemovedGood
  <1>26. ASSUME NEW Z, Managed(d, Z) PROVE ManagedBut(f, Z, l)
    <2>1. ASSUME NEW v \in Nodes(d), NEW b \in Nodes(d), b.kind = "Controller", b.item \notin Z,
                 Managing(f, v, b), ~Joins(l, v, b)
          PROVE  v.kind = "Switch" /\ b.name \in ToSet(ListOf(f, v))
      <3>1. Managing(d, v, b)
        BY <1>21, <2>1 DEF Managing
      <3>2. v.kind = "Switch" /\ b.name \in ToSet(ListOf(d, v))
        BY <1>26, <2>1, <3>1 DEF Managed
      <3>3. CASE v # w
        BY <1>20, <3>2, <3>3 DEF SwitchLike
      <3>4. CASE v = w
        <4>1. b # c
          BY <1>5, <2>1, <3>4 DEF Joins
        <4>2. b.name # cname
          BY <1>6, <4>1 DEF Good, Named
        <4> QED
          BY <1>16, <1>17, <1>20, <3>2, <3>4, <4>2
      <3> QED
        BY <3>3, <3>4
    <2> QED
      BY <1>21, <2>1 DEF ManagedBut
  <1>27. \A Z : Managed(d, Z) => Managed(e, Z)
    BY <1>25, <1>26
  <1>28. ToSet(e.links) = ToSet(d.links) \ {l}
    BY <1>21, <1>23 DEF LinkRemoved
  <1> QED
    BY <1>12, <1>13, <1>22, <1>25, <1>27, <1>28 DEF LinkDeleted, Ok

\* deleteLink() of any link.
LEMMA LinkIsDeleted ==
    ASSUME NEW d, Shape(d), NEW X, Good(d, X), NEW l \in ToSet(d.links), NEW r, r = DeleteLink(d, l.item)
    PROVE  LinkDeleted(d, X, l, r)
  BY DataLinkDeleted, ControlLinkDeleted

\* What deleteNode() leaves when it has deleted links: those with items in gone are.
LinksGone(d, X, gone, r) ==
    /\ r.ok /\ Shape(r.m) /\ Good(r.m, X) /\ \A Z : Managed(d, Z) => Managed(r.m, Z)
    /\ Nodes(r.m) = Nodes(d)
    /\ ToSet(r.m.links) = {l \in ToSet(d.links) : l.item \notin gone}

\* One link more.
LEMMA LinkGone ==
    ASSUME NEW d, Shape(d), NEW X, NEW gone, NEW x, LinksGone(d, X, gone, x),
           NEW item \in LinkItems(d), item \notin gone, NEW y, y = DeleteLink(x.m, item),
           NEW more, more = gone \cup {item}
    PROVE  LinksGone(d, X, more, y)
  <1>1. PICK e : e = x.m
    OBVIOUS
  <1>2. /\ Shape(e) /\ Good(e, X) /\ \A Z : Managed(d, Z) => Managed(e, Z)
        /\ Nodes(e) = Nodes(d) /\ ToSet(e.links) = {l \in ToSet(d.links) : l.item \notin gone}
    BY <1>1 DEF LinksGone
  <1>3. PICK l \in ToSet(d.links) : l.item = item
    BY DEF LinkItems
  <1>4. l \in ToSet(e.links) /\ y = DeleteLink(e, l.item)
    BY <1>1, <1>2, <1>3
  <1>5. LinkDeleted(e, X, l, y)
    BY <1>2, <1>4, LinkIsDeleted
  <1>6. \A k \in ToSet(d.links) : k.item = item => k = l
    BY <1>3, LinkIs
  <1>7. ToSet(y.m.links) = {k \in ToSet(d.links) : k.item \notin more}
    <2>1. ToSet(y.m.links) = ToSet(e.links) \ {l}
      BY <1>5 DEF LinkDeleted
    <2> QED
      BY <1>2, <1>3, <1>6, <2>1
  <1> QED
    BY <1>2, <1>5, <1>7 DEF LinkDeleted, LinksGone

\* All links are deleted, whatever their order.
LEMMA LinksAreDeleted ==
    ASSUME NEW d, Shape(d), NEW X, Good(d, X), NEW q, q.ok, q.m = d,
           NEW s, IsSeq(s), NoTwice(s), ToSet(s) \subseteq LinkItems(d), NEW r, r = DeleteLinks(q, s)
    PROVE  LinksGone(d, X, ToSet(s), r)
  <1>1. PICK N \in Nat : Len(s) = N /\ DOMAIN s = 1..N
    BY SeqIs
  <1>2. PICK after : Runs(after, "deleteLink", NoName, q, s, N, r)
    BY <1>1, DeleteLinksRuns
  <1> DEFINE Fine(e, k) == LinksGone(d, X, Upto(s, k), e)
             T == {k \in 0..N : Fine(after[k], k)}
  <1>3. 0 \in T
    <2>1. Upto(s, 0) = {} /\ after[0] = q
      BY <1>2, UptoIs DEF Runs
    <2>3. LinksGone(d, X, {}, q)
      BY DEF LinksGone
    <2>4. Fine(after[0], 0)
      BY <2>1, <2>3
    <2> HIDE DEF Fine
    <2> QED
      BY <2>4
  <1>4. ASSUME NEW n \in Nat, n < N, n \in T PROVE n + 1 \in T
    <2>1. PICK x, y, item : x = after[n] /\ y = after[n + 1] /\ item = s[n + 1]
      OBVIOUS
    <2>2. PICK gone, more : gone = Upto(s, n) /\ more = Upto(s, n + 1)
      OBVIOUS
    <2>3. LinksGone(d, X, gone, x)
      BY <1>4, <2>1, <2>2
    <2>4. n + 1 \in 0..N /\ n + 1 \in 1..N /\ y = IF x.ok THEN Step("deleteLink", NoName, x.m, item) ELSE x
      BY <1>2, <1>4, <2>1, LoopStep
    <2>5. y = DeleteLink(x.m, item)
      BY <2>3, <2>4 DEF Step, LinksGone
    <2>6. more = gone \cup {item} /\ item \notin gone
      BY <1>1, <1>4, <2>1, <2>2, UptoIs
    <2>7. item \in LinkItems(d)
      BY <1>1, <2>1, <2>4 DEF ToSet
    <2>8. LinksGone(d, X, more, y)
      BY <2>3, <2>5, <2>6, <2>7, LinkGone
    <2>9. Fine(after[n + 1], n + 1)
      BY <2>1, <2>2, <2>8
    <2> HIDE DEF Fine
    <2> QED
      BY <2>4, <2>9
  <1>5. \A n \in 0..N : n \in T
    <2> HIDE DEF T
    <2> QED
      BY <1>3, <1>4, UpTo
  <1>6. Fine(after[N], N)
    <2>1. N \in T
      BY <1>5
    <2> QED
      BY <2>1
  <1> QED
    BY <1>1, <1>2, <1>6, UptoIs DEF Runs

\* What is left when the controller w is taken from the lists of switches.
ListsLeft(d, X, w, r) ==
    /\ r.ok /\ Shape(r.m) /\ Good(r.m, X) /\ \A Z : Managed(d, Z) => Managed(r.m, Z \cup {w.item})
    /\ SameNodes(d, r.m) /\ SameLinks(d, r.m)

\* One switch more.
LEMMA ListLeft ==
    ASSUME NEW d, Shape(d), NEW X, NEW w \in Nodes(d), NEW x, ListsLeft(d, X, w, x),
           NEW v \in Nodes(d), v.kind = "Switch", NEW y, y = Unlist(x.m, v.name, w.name)
    PROVE  ListsLeft(d, X, w, y)
  <1>1. PICK e, name, cname, old, list, f :
           /\ e = x.m /\ name = v.name /\ cname = w.name /\ old = e.switchOpts[name].controllers
           /\ list = RemoveFirst(old, cname) /\ f = y.m
    OBVIOUS
  <1>2. /\ Shape(e) /\ Good(e, X) /\ \A Z : Managed(d, Z) => Managed(e, Z \cup {w.item})
        /\ SameNodes(d, e) /\ SameLinks(d, e)
    BY <1>1 DEF ListsLeft
  <1>3. Nodes(e) = Nodes(d)
    BY <1>2, SameNames DEF SameNodes
  <1>4. EquippedNode(e, v, ControllerNames(e)) /\ old = ListOf(e, v)
    BY <1>1, <1>2, <1>3 DEF Good, Equipped, ListOf
  <1>5. HasList(e, name) /\ NoTwice(old) /\ ToSet(old) \subseteq ControllerNames(e)
    BY <1>1, <1>4 DEF EquippedNode, FitList, HasList, SwitchLike
  <1>6. IsSeq(old)
    BY <1>1, <1>2, <1>5 DEF HasList, Shape, Entries, IsSwitchEntry
  <1>7. IsSeq(list) /\ NoTwice(list) /\ ToSet(list) = ToSet(old) \ {cname}
    BY <1>1, <1>5, <1>6, FirstRemoved
  <1>8. y = Unlist(e, name, cname)
    BY <1>1
  <1>9. y.ok /\ Shape(f) /\ SameNodes(e, f) /\ SameLinks(e, f) /\ Relisted(e, name, list, f)
    BY <1>1, <1>2, <1>5, <1>8, UnlistIs
  <1>10. RelistedWell(e, X, v, list, f)
    <2>1. Relisted(e, v.name, list, f)
      BY <1>1, <1>9
    <2>2. v \in Nodes(e) /\ v.kind \in SwitchLike /\ ToSet(list) \subseteq ControllerNames(e)
      BY <1>3, <1>5, <1>7 DEF SwitchLike
    <2> QED
      BY <1>2, <1>7, <2>1, <2>2, RelistedGood
  <1>11. Good(f, X) /\ \A Z : Managed(e, Z) /\ Keeps(e, v, list, Z) => Managed(f, Z)
    BY <1>4, <1>7, <1>10 DEF RelistedWell
  <1>12. ASSUME NEW Z, Managed(d, Z) PROVE Managed(f, Z \cup {w.item})
    <2>1. PICK more : more = Z \cup {w.item}
      OBVIOUS
    <2>2. Keeps(e, v, list, more)
      <3>1. \A c \in Nodes(e) : c.item \notin more => c.name # cname
        BY <1>1, <1>2, <1>3, <2>1 DEF Good, Named
      <3> QED
        BY <1>4, <1>7, <3>1 DEF Keeps
    <2> QED
      BY <1>2, <1>11, <1>12, <2>1, <2>2
  <1> QED
    BY <1>1, <1>2, <1>9, <1>11, <1>12 DEF ListsLeft, SameNodes, SameLinks

\* All lists forget the controller.
LEMMA ListsAreLeft ==
    ASSUME NEW d, Shape(d), NEW X, Good(d, X), NEW w \in Nodes(d), NEW cname, cname = w.name,
           NEW r, r = UnlistEverywhere(d, cname)
    PROVE  ListsLeft(d, X, w, r)
  <1>1. PICK s : s = NodesLike(d, {"Switch"})
    OBVIOUS
  <1>2. IsSeq(s) /\ ToSet(s) = {v \in Nodes(d) : v.kind = "Switch"}
    <2>1. PICK kinds : kinds = {"Switch"}
      OBVIOUS
    <2>2. IsSeq(s) /\ ToSet(s) = {v \in Nodes(d) : v.kind \in kinds}
      BY <1>1, <2>1, NodesLikeIs DEF Shape, Drawn
    <2> QED
      BY <2>1, <2>2
  <1>3. PICK N \in Nat : Len(s) = N /\ DOMAIN s = 1..N
    BY <1>2, SeqIs
  <1>4. PICK q : q = Ok(d)
    OBVIOUS
  <1>5. PICK after : Runs(after, "unlist", cname, q, s, N, r)
    BY <1>1, <1>3, <1>4, UnlistEverywhereRuns
  <1> DEFINE Fine(e) == ListsLeft(d, X, w, e)
             T == {k \in 0..N : Fine(after[k])}
  <1>6. 0 \in T
    <2>1. after[0] = q
      BY <1>5 DEF Runs
    <2>2. q.ok /\ q.m = d
      BY <1>4 DEF Ok
    <2>3. \A Z : Managed(d, Z) => Managed(d, Z \cup {w.item})
      BY DEF Managed
    <2>4. ListsLeft(d, X, w, q)
      BY <2>2, <2>3 DEF ListsLeft, SameNodes, SameLinks
    <2>5. Fine(after[0])
      BY <2>1, <2>4
    <2> HIDE DEF Fine
    <2> QED
      BY <2>5
  <1>7. ASSUME NEW n \in Nat, n < N, n \in T PROVE n + 1 \in T
    <2>1. PICK x, y, v : x = after[n] /\ y = after[n + 1] /\ v = s[n + 1]
      OBVIOUS
    <2>2. ListsLeft(d, X, w, x)
      BY <1>7, <2>1
    <2>3. n + 1 \in 0..N /\ n + 1 \in 1..N /\ y = IF x.ok THEN Step("unlist", cname, x.m, v) ELSE x
      BY <1>5, <1>7, <2>1, LoopStep
    <2>4. y = Unlist(x.m, v.name, w.name)
      BY <2>2, <2>3 DEF Step, ListsLeft
    <2>5. v \in Nodes(d) /\ v.kind = "Switch"
      <3>1. v \in ToSet(s)
        BY <1>3, <2>1, <2>3 DEF ToSet
      <3> QED
        BY <1>2, <3>1
    <2>6. ListsLeft(d, X, w, y)
      BY <2>2, <2>4, <2>5, ListLeft
    <2>7. Fine(after[n + 1])
      BY <2>1, <2>6
    <2> HIDE DEF Fine
    <2> QED
      BY <2>3, <2>7
  <1>8. \A n \in 0..N : n \in T
    <2> HIDE DEF T
    <2> QED
      BY <1>6, <1>7, UpTo
  <1>9. Fine(after[N])
    <2>1. N \in T
      BY <1>8
    <2> QED
      BY <2>1
  <1> QED
    BY <1>5, <1>9 DEF Runs

\* The links of a node.
LEMMA LinksToAre ==
    ASSUME NEW d, Shape(d), Wired(d), NEW item, NEW s, s = LinksTo(d, item)
    PROVE  /\ IsSeq(s) /\ NoTwice(s) /\ ToSet(s) \subseteq LinkItems(d)
           /\ \A l \in ToSet(d.links) : item \in {l.src, l.dest} => l.item \in ToSet(s)
           /\ \A l \in ToSet(d.links) : l.item \in ToSet(s) => item \in {l.src, l.dest}
  <1>1. /\ IsSeq(s) /\ NoTwice(s)
        /\ ToSet(s) = {l.item : l \in {k \in ToSet(d.links) :
                                          \E e \in DOMAIN d.ends : e[1] = item /\ d.ends[e] = k.item}}
    BY LinksToIs
  <1>2. ToSet(s) \subseteq LinkItems(d)
    BY <1>1 DEF LinkItems
  <1>3. ASSUME NEW l \in ToSet(d.links), item \in {l.src, l.dest} PROVE l.item \in ToSet(s)
    <2>1. WiredLink(d, l)
      BY DEF Wired
    <2>2. \E e \in DOMAIN d.ends : e[1] = item /\ d.ends[e] = l.item
      <3>1. PICK a, b : a = <<l.src, l.dest>> /\ b = <<l.dest, l.src>>
        OBVIOUS
      <3>2. a \in DOMAIN d.ends /\ b \in DOMAIN d.ends /\ d.ends[a] = l.item /\ d.ends[b] = l.item
        BY <2>1, <3>1 DEF WiredLink
      <3>3. a[1] = l.src /\ b[1] = l.dest
        BY <3>1
      <3> QED
        BY <1>3, <3>2, <3>3
    <2> QED
      BY <1>1, <2>2
  <1>4. ASSUME NEW l \in ToSet(d.links), l.item \in ToSet(s) PROVE item \in {l.src, l.dest}
    <2>1. PICK k \in ToSet(d.links) :
             k.item = l.item /\ \E e \in DOMAIN d.ends : e[1] = item /\ d.ends[e] = k.item
      BY <1>1, <1>4
    <2>2. PICK e \in DOMAIN d.ends : e[1] = item /\ d.ends[e] = l.item
      BY <2>1
    <2>3. PICK j \in ToSet(d.links) : d.ends[e] = j.item /\ (e = <<j.src, j.dest>> \/ e = <<j.dest, j.src>>)
      BY DEF Wired
    <2>4. j = l
      <3>1. j.item = l.item
        BY <2>2, <2>3
      <3>2. Link(d, j.item) = j /\ Link(d, l.item) = l
        BY LinkIs
      <3> QED
        BY <3>1, <3>2
    <2> QED
      BY <2>2, <2>3, <2>4
  <1> QED
    BY <1>1, <1>2, <1>3, <1>4

\* A node that no link joins may go.
LEMMA NodeRemovedGood ==
    ASSUME NEW d, Shape(d), Good(d, {}), NEW w \in Nodes(d),
           \A l \in ToSet(d.links) : w.item \notin {l.src, l.dest},
           NEW e, Nodes(e) = Nodes(d) \ {w}, SameLinks(d, e), SameOpts(d, e), e.gone = {}
    PROVE  Good(e, {}) /\ (Managed(d, {w.item}) => Managed(e, {}))
  <1>1. /\ e.links = d.links /\ e.ends = d.ends /\ e.hostOpts = d.hostOpts
        /\ e.switchOpts = d.switchOpts /\ e.controllers = d.controllers /\ Nodes(e) \subseteq Nodes(d)
    BY DEF SameLinks, SameOpts
  <1>2. Named(e)
    BY <1>1 DEF Good, Named
  <1>3. \A v : ListOf(e, v) = ListOf(d, v)
    BY <1>1 DEF ListOf
  <1>4. \A v, u : Managing(e, v, u) <=> Managing(d, v, u)
    BY <1>1 DEF Managing
  <1>5. Wired(e)
    <2>1. ASSUME NEW k \in ToSet(e.links) PROVE WiredLink(e, k)
      <3>1. k \in ToSet(d.links) /\ WiredLink(d, k)
        BY <1>1 DEF Good, Wired
      <3>2. PICK v \in Nodes(d), u \in Nodes(d) :
               v # u /\ k.src = v.item /\ k.dest = u.item /\ MayJoin(k.type, v, u)
        BY <3>1 DEF WiredLink
      <3>3. v # w /\ u # w
        BY <3>1, <3>2
      <3>4. v \in Nodes(e) /\ u \in Nodes(e)
        BY <3>3
      <3> QED
        BY <1>1, <3>1, <3>2, <3>4 DEF WiredLink
    <2> QED
      BY <1>1, <2>1 DEF Good, Wired
  <1>6. Enlisted(e)
    BY <1>1 DEF Good, Enlisted, HasList
  <1>7. ListsDrawn(e, {})
    BY <1>1, <1>3, <1>4 DEF Good, ListsDrawn
  <1>8. Equipped(e)
    <2>1. ASSUME NEW v \in Nodes(e) PROVE EquippedNode(e, v, ControllerNames(e))
      <3>1. v \in Nodes(d) /\ EquippedNode(d, v, ControllerNames(d))
        BY <1>1 DEF Good, Equipped
      <3>2. ASSUME v.kind \in SwitchLike PROVE FitList(v.kind, ListOf(d, v), ControllerNames(e))
        <4>1. FitList(v.kind, ListOf(d, v), ControllerNames(d))
          BY <3>1, <3>2 DEF EquippedNode
        <4>2. CASE v.kind = "Switch"
          <5>1. ASSUME NEW name \in ToSet(ListOf(d, v)) PROVE name \in ControllerNames(e)
            <6>1. name \in ControllerNames(d)
              BY <4>1, <4>2, <5>1 DEF FitList
            <6>2. PICK c \in Nodes(d) : c.kind = "Controller" /\ c.name = name
              BY <6>1 DEF ControllerNames
            <6>3. Managing(d, v, c)
              BY <3>1, <4>2, <5>1, <6>2 DEF Good, ListsDrawn
            <6>4. c # w
              BY <6>3 DEF Managing, Joins
            <6> QED
              BY <6>2, <6>4 DEF ControllerNames
          <5> QED
            BY <4>1, <5>1 DEF FitList
        <4>3. CASE v.kind # "Switch"
          <5>1. ListOf(d, v) = NoList \/ ListOf(d, v) = <<>>
            BY <3>2, <4>1, <4>3 DEF FitList, SwitchLike
          <5>2. ToSet(<<>>) = {}
            BY DEF ToSet
          <5> QED
            BY <4>1, <5>1, <5>2 DEF FitList
        <4> QED
          BY <4>2, <4>3
      <3> QED
        BY <1>1, <1>3, <3>1, <3>2 DEF EquippedNode
    <2> QED
      BY <2>1 DEF Equipped
  <1>9. Managed(d, {w.item}) => Managed(e, {})
    <2>1. \A c \in Nodes(e) : c.item \notin {w.item}
      BY NodesDiffer, <1>1
    <2> QED
      BY <1>1, <1>3, <1>4, <2>1 DEF Managed
  <1>10. Good(e, {})
    BY <1>2, <1>5, <1>6, <1>7, <1>8 DEF Good
  <1> QED
    BY <1>9, <1>10

\* What deleting leaves.
Left(d, r) ==
    r.ok /\ Shape(r.m) /\ Good(r.m, {}) /\ (Managed(d, {}) => Managed(r.m, {}))

\* deleteNode() leaves no trace of the node.
LEMMA NodeDeleted ==
    ASSUME NEW d, Shape(d), Good(d, {}), NEW w \in Nodes(d), NEW item, item = w.item,
           NEW r, r = DeleteNode(d, item)
    PROVE  Left(d, r)
  <1>1. Widget(d, item) = w
    BY WidgetIs
  <1>2. PICK q : q = Unlisting(d, item)
    OBVIOUS
  <1>3. ListsLeft(d, {}, w, q)
    <2>1. CASE w.kind = "Controller"
      <3>1. PICK cname : cname = w.name
        OBVIOUS
      <3>2. q = UnlistEverywhere(d, cname)
        BY <1>1, <1>2, <2>1, <3>1 DEF Unlisting
      <3> QED
        BY <3>1, <3>2, ListsAreLeft
    <2>2. CASE w.kind # "Controller"
      <3>1. q.ok /\ q.m = d
        BY <1>1, <1>2, <2>2 DEF Unlisting, Ok
      <3>2. \A Z : Managed(d, Z) => Managed(d, Z \cup {w.item})
        BY DEF Managed
      <3> QED
        BY <3>1, <3>2 DEF ListsLeft, SameNodes, SameLinks
    <2> QED
      BY <2>1, <2>2
  <1>4. PICK a, s, u : a = q.m /\ s = LinksTo(d, item) /\ u = DeleteLinks(q, s)
    OBVIOUS
  <1>5. /\ Shape(a) /\ Good(a, {}) /\ q.ok /\ SameNodes(d, a) /\ SameLinks(d, a)
        /\ Managed(d, {}) => Managed(a, {w.item})
    <2>1. {} \cup {w.item} = {w.item}
      OBVIOUS
    <2>2. Managed(d, {}) => Managed(a, {} \cup {w.item})
      BY <1>3, <1>4 DEF ListsLeft
    <2> QED
      BY <1>3, <1>4, <2>1, <2>2 DEF ListsLeft
  <1>6. Nodes(a) = Nodes(d) /\ a.links = d.links
    BY <1>5, SameNames DEF SameNodes, SameLinks
  <1>7. /\ IsSeq(s) /\ NoTwice(s) /\ ToSet(s) \subseteq LinkItems(a)
        /\ \A l \in ToSet(d.links) : item \in {l.src, l.dest} => l.item \in ToSet(s)
    <2>1. Wired(d)
      BY DEF Good
    <2>2. LinkItems(a) = LinkItems(d)
      BY <1>6 DEF LinkItems
    <2> QED
      BY <1>4, <2>1, <2>2, LinksToAre
  <1>8. LinksGone(a, {}, ToSet(s), u)
    BY <1>4, <1>5, <1>7, LinksAreDeleted
  <1>9. PICK b : b = u.m
    OBVIOUS
  <1>10. /\ u.ok /\ Shape(b) /\ Good(b, {}) /\ Nodes(b) = Nodes(d)
         /\ Managed(d, {}) => Managed(b, {w.item})
         /\ \A l \in ToSet(b.links) : w.item \notin {l.src, l.dest}
    <2>1. /\ u.ok /\ Shape(b) /\ Good(b, {}) /\ Nodes(b) = Nodes(a)
          /\ \A Z : Managed(a, Z) => Managed(b, Z)
          /\ ToSet(b.links) = {l \in ToSet(a.links) : l.item \notin ToSet(s)}
      BY <1>8, <1>9 DEF LinksGone
    <2> QED
      BY <1>5, <1>6, <1>7, <2>1
  <1>11. u = Unlinking(d, item)
    BY <1>2, <1>4 DEF Unlinking
  <1>12. PICK e : e = r.m
    OBVIOUS
  <1>13. /\ r.ok /\ SameLinks(b, e) /\ SameOpts(b, e)
         /\ e.gone = {v \in b.gone \cup {w} : \E l \in ToSet(b.links) : v.item \in {l.src, l.dest}}
    <2>1. IsModel(u.m) /\ u.ok
      BY <1>9, <1>10 DEF Shape
    <2>2. r.ok /\ SameLinks(u.m, r.m) /\ SameOpts(u.m, r.m) /\ NodeTaken(d, item, u.m, r.m)
      BY <1>11, <2>1, DeleteNodeSteps
    <2> QED
      BY <1>1, <1>9, <1>12, <2>2 DEF NodeTaken
  <1>14. Shape(e) /\ Nodes(e) = {v \in Nodes(d) : v.item # item}
    BY <1>12, <1>13, DeleteNodeShape
  <1>15. Nodes(e) = Nodes(b) \ {w}
    <2>1. \A v \in Nodes(d) : v.item = item => v = w
      BY NodesDiffer
    <2> QED
      BY <1>10, <1>14, <2>1
  <1>16. e.gone = {}
    <2>1. b.gone = {}
      BY <1>10 DEF Good, Wired
    <2> QED
      BY <1>10, <1>13, <2>1
  <1>17. w \in Nodes(b)
    BY <1>10
  <1>18. Good(e, {}) /\ (Managed(b, {w.item}) => Managed(e, {}))
    BY <1>10, <1>13, <1>15, <1>16, <1>17, NodeRemovedGood
  <1> QED
    BY <1>10, <1>12, <1>13, <1>14, <1>18 DEF Left

\* deleteItem() of whatever is selected.
LEMMA ItemDeletedGood ==
    ASSUME NEW d, Shape(d), Good(d, {}), NEW t, NEW item, NEW r, r = DeleteItem(d, t, item)
    PROVE  Left(d, r)
  <1>1. CASE r = Ok(d)
    <2>1. r.ok /\ r.m = d
      BY <1>1 DEF Ok
    <2> QED
      BY <2>1 DEF Left
  <1>2. CASE item \in LinkItems(d) /\ r = DeleteLink(d, item)
    <2>1. PICK l \in ToSet(d.links) : item = l.item
      BY <1>2 DEF LinkItems
    <2>2. PICK X : X = {}
      OBVIOUS
    <2>3. LinkDeleted(d, X, l, r)
      BY <1>2, <2>1, <2>2, LinkIsDeleted
    <2> QED
      BY <2>2, <2>3 DEF LinkDeleted, Left
  <1>3. CASE item \in Items(d) /\ r = DeleteNode(d, item)
    <2>1. PICK w \in Nodes(d) : item = w.item
      BY <1>3 DEF Items
    <2> QED
      BY <1>3, <2>1, NodeDeleted
  <1> QED
    BY <1>1, <1>2, <1>3 DEF DeleteItem

\* newTopology() empties the canvas, the tables and the options.
LEMMA ItemsDeletedGood ==
    ASSUME NEW d, Shape(d), Good(d, {}), NEW t, NEW r, r = DeleteItems(d, t)
    PROVE  Left(d, r)
  <1>1. PICK s : s = d.canvas /\ IsSeq(s)
    BY DEF Shape, Drawn
  <1>2. PICK N \in Nat : Len(s) = N
    BY <1>1, SeqIs
  <1>3. PICK q : q = Ok(d)
    OBVIOUS
  <1>4. PICK after : Runs(after, "deleteItem", t, q, s, N, r)
    BY <1>1, <1>2, <1>3, DeleteItemsRuns
  <1> DEFINE Fine(e) == Left(d, e)
             T == {k \in 0..N : Fine(after[k])}
  <1>5. 0 \in T
    <2>1. after[0] = q /\ q.ok /\ q.m = d
      BY <1>3, <1>4 DEF Runs, Ok
    <2>2. Fine(after[0])
      BY <2>1 DEF Left
    <2> HIDE DEF Fine
    <2> QED
      BY <2>2
  <1>6. ASSUME NEW n \in Nat, n < N, n \in T PROVE n + 1 \in T
    <2>1. PICK x, y, w, e, item : /\ x = after[n] /\ y = after[n + 1] /\ w = s[n + 1] /\ e = x.m
                                  /\ item = w.item
      OBVIOUS
    <2>2. Left(d, x)
      BY <1>6, <2>1
    <2>3. n + 1 \in 0..N /\ y = IF x.ok THEN Step("deleteItem", t, x.m, w) ELSE x
      BY <1>4, <1>6, <2>1, LoopStep
    <2>4. y = DeleteItem(e, t, item)
      BY <2>1, <2>2, <2>3 DEF Step, Left
    <2>5. Left(e, y)
      <3>1. Shape(e) /\ Good(e, {})
        BY <2>1, <2>2 DEF Left
      <3> QED
        BY <2>4, <3>1, ItemDeletedGood
    <2>6. Left(d, y)
      BY <2>1, <2>2, <2>5 DEF Left
    <2>7. Fine(after[n + 1])
      BY <2>1, <2>6
    <2> HIDE DEF Fine
    <2> QED
      BY <2>3, <2>7
  <1>7. \A n \in 0..N : n \in T
    <2> HIDE DEF T
    <2> QED
      BY <1>5, <1>6, UpTo
  <1>8. Fine(after[N])
    <2>1. N \in T
      BY <1>7
    <2> QED
      BY <2>1
  <1> QED
    BY <1>4, <1>8 DEF Runs

\* Before a file is read nothing is there.
LEMMA NewTopologyBlank ==
    ASSUME NEW d, Shape(d), Good(d, {}), NEW t, t # "disabled", NEW r, r = NewTopology(d, t)
    PROVE  /\ r.ok /\ Shape(r.m) /\ Blank(r.m)
           /\ DOMAIN r.m.hostOpts = {} /\ DOMAIN r.m.switchOpts = {} /\ DOMAIN r.m.controllers = {}
  <1>1. PICK c, e : c = DeleteItems(d, t) /\ e = c.m
    OBVIOUS
  <1>2. c.ok /\ Shape(e) /\ Good(e, {})
    BY <1>1, ItemsDeletedGood DEF Left
  <1>3. Nodes(e) = {}
    BY <1>1, <1>2, DeleteItemsShape
  <1>4. ToSet(e.links) = {}
    BY <1>2, <1>3 DEF Good, Wired, WiredLink
  <1>5. DOMAIN e.ends = {}
    BY <1>2, <1>4 DEF Good, Wired
  <1>6. r.ok /\ Shape(r.m)
    BY <1>1, <1>2, NewTopologySteps, NewTopologyShape
  <1>7. r.m.ends = e.ends /\ r.m.canvas = e.canvas /\ r.m.links = <<>> /\ r.m.gone = {}
        /\ r.m.hostOpts = <<>> /\ r.m.switchOpts = <<>> /\ r.m.controllers = <<>>
    <2>1. r.m = [canvas |-> c.m.canvas, links |-> <<>>, ends |-> c.m.ends,
                 hostOpts |-> <<>>, switchOpts |-> <<>>, controllers |-> <<>>,
                 counts |-> [host |-> 0, docker |-> 0, switch |-> 0, controller |-> 0],
                 next |-> c.m.next, gone |-> {}]
      BY <1>1, <1>2, NewTopologySteps
    <2> QED
      BY <1>1, <2>1
  <1>8. Nodes(r.m) = {}
    BY <1>3, <1>7 DEF Nodes
  <1>9. ToSet(<<>>) = {} /\ DOMAIN <<>> = {}
    BY DEF ToSet
  <1> QED
    BY <1>5, <1>6, <1>7, <1>8, <1>9 DEF Blank

(***************************************************************************)
(* The gestures keep a good drawing.                                       *)
(***************************************************************************)
(* The nodes of a link that was drawn: data, or a switch and a controller. *)
Dragged(d, a, b, e) ==
    /\ a \in Nodes(d) /\ b \in Nodes(d) /\ a # b
    /\ <<a.item, b.item>> \notin DOMAIN d.ends /\ <<b.item, a.item>> \notin DOMAIN d.ends
    /\ e = FinishLink(d, a, b).m

\* A data link keeps a drawing good.
LEMMA DataDraggedGood ==
    ASSUME NEW d, Shape(d), Good(d, {}), NEW a, NEW b, NEW e, Dragged(d, a, b, e),
           a.kind # "Controller", b.kind # "Controller"
    PROVE  Good(e, {}) /\ (Managed(d, {}) => Managed(e, {}))
  <1>1. e = AddLink(d, a.item, b.item, "data", {})
    BY DEF Dragged, FinishLink, Ok
  <1>2. PICK src, dest, opts, type :
           src = a.item /\ dest = b.item /\ opts = {} /\ type = "data"
    OBVIOUS
  <1>3. LinkAdded(d, src, dest, type, opts, e)
    BY <1>1, <1>2, LinkIsAdded
  <1>4. LinkAdded(d, a.item, b.item, "data", opts, e)
    BY <1>2, <1>3
  <1>5. /\ a \in Nodes(d) /\ b \in Nodes(d) /\ a # b
        /\ <<a.item, b.item>> \notin DOMAIN d.ends /\ <<b.item, a.item>> \notin DOMAIN d.ends
    BY DEF Dragged
  <1>6. PICK X : X = {}
    OBVIOUS
  <1>7. Good(e, X) /\ \A Z : Managed(d, Z) => Managed(e, Z)
    <2>1. Good(d, X)
      BY <1>6
    <2> QED
      BY <1>4, <1>5, <2>1, DataLinkAddedGood
  <1> QED
    BY <1>6, <1>7

\* The list first or the link first.
LEMMA ListThenLink ==
    ASSUME NEW d, Shape(d), NEW src, NEW dest, NEW type, NEW opts, NEW name, NEW list,
           NEW f, f = WithList(d, name, list),
           NEW e, e = WithList(AddLink(d, src, dest, type, opts), name, list)
    PROVE  LinkAdded(f, src, dest, type, opts, e)
  <1>1. PICK k : k = AddLink(d, src, dest, type, opts)
    OBVIOUS
  <1>2. LinkAdded(d, src, dest, type, opts, k)
    BY <1>1, LinkIsAdded
  <1>3. IsModel(d) /\ IsModel(k)
    BY <1>2 DEF Shape, LinkAdded
  <1>4. Relisted(d, name, list, f) /\ Relisted(k, name, list, e)
    BY <1>1, <1>3, WithListIs
  <1>5. e.switchOpts = f.switchOpts
    <2>1. f.switchOpts = [d.switchOpts EXCEPT ![name].controllers = list]
      BY <1>3 DEF WithList, IsModel
    <2>2. e.switchOpts = [k.switchOpts EXCEPT ![name].controllers = list]
      BY <1>1, <1>3 DEF WithList, IsModel
    <2> QED
      BY <1>2, <2>1, <2>2 DEF LinkAdded, SameOpts
  <1>6. SameNodes(f, e) /\ SameOpts(f, e)
    BY <1>2, <1>4, <1>5 DEF LinkAdded, Relisted, SameNodes, SameOpts
  <1>7. f.links = d.links /\ f.ends = d.ends /\ f.next = d.next /\ f.counts = d.counts
        /\ e.links = k.links /\ e.ends = k.ends /\ e.next = k.next /\ e.counts = k.counts
    BY <1>4 DEF Relisted, SameLinks, SameItems
  <1>8. IsModel(e)
    BY <1>4 DEF Relisted
  <1> QED
    BY <1>2, <1>6, <1>7, <1>8 DEF LinkAdded

\* A switch and a controller that are not linked.
LEMMA FreeOfController ==
    ASSUME NEW d, Shape(d), Good(d, {}), NEW s \in Nodes(d), NEW c \in Nodes(d),
           s.kind = "Switch", c.kind = "Controller",
           <<s.item, c.item>> \notin DOMAIN d.ends
    PROVE  /\ HasList(d, s.name) /\ IsSeq(ListOf(d, s)) /\ NoTwice(ListOf(d, s))
           /\ ToSet(ListOf(d, s)) \subseteq ControllerNames(d)
           /\ c.name \notin ToSet(ListOf(d, s))
  <1>1. EquippedNode(d, s, ControllerNames(d))
    BY DEF Good, Equipped
  <1>2. s.name \in DOMAIN d.switchOpts /\ FitList("Switch", ListOf(d, s), ControllerNames(d))
    BY <1>1 DEF EquippedNode, SwitchLike
  <1>3. ListOf(d, s) # NoList /\ NoTwice(ListOf(d, s))
        /\ ToSet(ListOf(d, s)) \subseteq ControllerNames(d)
    BY <1>2 DEF FitList
  <1>4. IsSwitchEntry(d.switchOpts[s.name])
    BY <1>2 DEF Shape, Entries
  <1>5. ~Managing(d, s, c)
    <2>1. SUFFICES ASSUME NEW l \in ToSet(d.links), Joins(l, s, c) PROVE FALSE
      BY DEF Managing
    <2>2. <<l.src, l.dest>> \in DOMAIN d.ends /\ <<l.dest, l.src>> \in DOMAIN d.ends
      BY DEF Good, Wired, WiredLink
    <2> QED
      BY <2>1, <2>2 DEF Joins
  <1>6. c.name \notin ToSet(ListOf(d, s))
    BY <1>5 DEF Good, ListsDrawn
  <1> QED
    BY <1>2, <1>3, <1>4, <1>6 DEF HasList, ListOf, IsSwitchEntry

\* So does a link between a switch and a controller.
LEMMA ControlDraggedGood ==
    ASSUME NEW d, Shape(d), Good(d, {}), NEW a, NEW b, NEW e, Dragged(d, a, b, e),
           NEW s, NEW c, {a, b} = {s, c}, s.kind = "Switch", c.kind = "Controller"
    PROVE  Good(e, {}) /\ (Managed(d, {}) => Managed(e, {}))
  <1>1. /\ a \in Nodes(d) /\ b \in Nodes(d) /\ s \in Nodes(d) /\ c \in Nodes(d) /\ a # b /\ s # c
        /\ \/ a = s /\ b = c
           \/ a = c /\ b = s
    BY DEF Dragged
  <1>2. <<s.item, c.item>> \notin DOMAIN d.ends
    BY <1>1 DEF Dragged
  <1>3. /\ HasList(d, s.name) /\ IsSeq(ListOf(d, s)) /\ NoTwice(ListOf(d, s))
        /\ ToSet(ListOf(d, s)) \subseteq ControllerNames(d)
        /\ c.name \notin ToSet(ListOf(d, s))
    BY <1>1, <1>2, FreeOfController
  <1>4. PICK name, cname, old, list, src, dest, type, opts :
           /\ name = s.name /\ cname = c.name /\ old = ListOf(d, s) /\ list = Append(old, cname)
           /\ src = a.item /\ dest = b.item /\ type = "control" /\ opts = {}
    OBVIOUS
  <1>5. e = WithList(AddLink(d, src, dest, type, opts), name, list)
    <2>1. "Controller" \in {a.kind, b.kind}
      BY <1>1
    <2>2. name = (IF a.kind = "Controller" THEN b.name ELSE a.name)
          /\ cname = (IF a.kind = "Controller" THEN a.name ELSE b.name)
      BY <1>1, <1>4
    <2>3. HasList(d, name) /\ d.switchOpts[name].controllers = old
      BY <1>3, <1>4 DEF ListOf
    <2>4. PICK q : q = WithList(AddLink(d, src, dest, type, opts), name, list)
      OBVIOUS
    <2>5. FinishLink(d, a, b) = Ok(q)
      BY <1>4, <2>1, <2>2, <2>3, <2>4 DEF FinishLink
    <2> QED
      BY <2>4, <2>5 DEF Ok, Dragged
  <1>6. PICK f : f = WithList(d, name, list)
    OBVIOUS
  <1>7. LinkAdded(f, src, dest, type, opts, e)
    BY <1>5, <1>6, ListThenLink
  <1>8. IsSeq(list) /\ NoTwice(list) /\ ToSet(list) = ToSet(old) \cup {cname}
    BY <1>3, <1>4, AppendedSet, NoTwiceAppended
  <1>9. cname \in ControllerNames(d)
    BY <1>1, <1>4 DEF ControllerNames
  <1>10. IsModel(d)
    BY DEF Shape
  <1>11. Relisted(d, name, list, f)
    BY <1>6, <1>10, WithListIs
  <1>12. Shape(f) /\ SameNodes(d, f) /\ f.ends = d.ends
    <2>1. Shape(f)
      BY <1>8, <1>11, RelistedLists
    <2> QED
      BY <1>11, <2>1 DEF Relisted, SameLinks
  <1>13. RelistedWell(d, {}, s, list, f)
    <2>1. ToSet(list) \subseteq ControllerNames(d)
      BY <1>3, <1>4, <1>8, <1>9
    <2>2. Relisted(d, s.name, list, f)
      BY <1>4, <1>11
    <2>3. PICK X : X = {}
      OBVIOUS
    <2>4. s.kind \in SwitchLike
      BY DEF SwitchLike
    <2>5. Good(d, X)
      BY <2>3
    <2>6. RelistedWell(d, X, s, list, f)
      BY <1>1, <1>8, <2>1, <2>2, <2>4, <2>5, RelistedGood
    <2> QED
      BY <2>3, <2>6
  <1>14. PICK X : X = {} \cup {s.item}
    OBVIOUS
  <1>15. Good(f, X) /\ ListOf(f, s) = list /\ (Managed(d, {}) => Managed(f, {}))
    <2>1. Keeps(d, s, list, {})
      BY <1>4, <1>8 DEF Keeps
    <2> QED
      BY <1>13, <1>14, <2>1 DEF RelistedWell
  <1>16. Nodes(f) = Nodes(d)
    BY <1>12 DEF SameNodes, Nodes
  <1>17. HasList(f, name)
    <2>1. DOMAIN f.switchOpts = DOMAIN d.switchOpts
      BY <1>11 DEF Relisted
    <2>2. f.switchOpts[name].controllers = list
      BY <1>4, <1>15 DEF ListOf
    <2> QED
      BY <1>3, <1>4, <1>8, <2>1, <2>2, NoListIsNoSeq DEF HasList
  <1>18. /\ Good(e, X) /\ Managing(e, s, c)
         /\ \A Z : Managed(f, Z) => Managed(e, Z)
    <2>1. LinkAdded(f, a.item, b.item, "control", opts, e)
      BY <1>4, <1>7
    <2>2. <<a.item, b.item>> \notin DOMAIN f.ends /\ <<b.item, a.item>> \notin DOMAIN f.ends
      BY <1>12 DEF Dragged
    <2>3. HasList(f, s.name) /\ s.kind \in SwitchLike
      BY <1>4, <1>17 DEF SwitchLike
    <2>4. c.name \in ToSet(ListOf(f, s))
      BY <1>4, <1>8, <1>15
    <2>5. a \in Nodes(f) /\ b \in Nodes(f)
      BY <1>1, <1>16
    <2>6. /\ Good(e, X) /\ Managing(e, s, c)
          /\ s.kind = "Switch" /\ c.name \in ToSet(ListOf(f, s)) =>
                \A Z : Managed(f, Z) => Managed(e, Z)
      BY <1>1, <1>12, <1>15, <2>1, <2>2, <2>3, <2>5, ControlLinkAddedGood
    <2> QED
      BY <2>4, <2>6
  <1>19. Shape(e) /\ Nodes(e) = Nodes(d) /\ ListOf(e, s) = list
    <2>1. Shape(e)
      BY <1>4, <1>7, <1>12, LinkAddedShape
    <2>2. Nodes(e) = Nodes(f)
      BY <1>7 DEF LinkAdded, SameNodes, Nodes
    <2>3. e.switchOpts = f.switchOpts
      BY <1>7 DEF LinkAdded, SameOpts
    <2> QED
      BY <1>15, <1>16, <2>1, <2>2, <2>3 DEF ListOf
  <1>20. ASSUME NEW x \in Nodes(e), x.kind = "Controller", x.name \in ToSet(ListOf(e, s))
         PROVE  Managing(e, s, x)
    <2>1. x \in Nodes(d) /\ x.name \in ToSet(old) \cup {cname}
      BY <1>8, <1>19, <1>20
    <2>2. CASE x.name = cname
      <3>1. x = c
        BY <1>1, <1>4, <2>1, <2>2 DEF Good, Named
      <3> QED
        BY <1>18, <3>1
    <2>3. CASE x.name \in ToSet(old)
      <3>1. Managing(d, s, x)
        BY <1>1, <1>4, <1>20, <2>1, <2>3 DEF Good, ListsDrawn
      <3>2. Managing(f, s, x)
        BY <1>11, <3>1 DEF Managing, Relisted, SameLinks
      <3>3. PICK k : k = NewLink(f, src, dest, type, opts)
        OBVIOUS
      <3>4. LinkThere(f, src, dest, type, opts, e, k)
        BY <1>7, <1>12, <3>3, LinkAddedLinks
      <3> QED
        BY <3>2, <3>4 DEF LinkThere
    <2> QED
      BY <2>1, <2>2, <2>3
  <1>21. Good(e, {})
    <2>1. PICK Y : Y = {}
      OBVIOUS
    <2>2. Good(e, Y \cup {s.item})
      BY <1>14, <1>18, <2>1
    <2>3. s \in Nodes(e)
      BY <1>1, <1>19
    <2>4. \A x \in Nodes(e) :
             x.kind = "Controller" /\ x.name \in ToSet(ListOf(e, s)) => Managing(e, s, x)
      BY <1>20
    <2>5. Good(e, Y)
      BY <1>19, <2>2, <2>3, <2>4, Finished
    <2> QED
      BY <2>1, <2>5
  <1> QED
    BY <1>15, <1>18, <1>21

\* So does every link that the user draws, but one of a container to a
\* controller.
LEMMA LinkDraggedGood ==
    ASSUME NEW d, Shape(d), Good(d, {}), NEW x, "dockerControl" \notin x, NEW e, LinkDragged(d, x, e)
    PROVE  Good(e, {}) /\ (Managed(d, {}) => Managed(e, {}))
  <1>1. PICK a \in Nodes(d), b \in Nodes(d) :
           /\ a # b /\ ~Refused(a.kind, b.kind) /\ e = FinishLink(d, a, b).m
           /\ <<a.item, b.item>> \notin DOMAIN d.ends /\ <<b.item, a.item>> \notin DOMAIN d.ends
           /\ {a.kind, b.kind} # {"Docker", "Controller"}
    BY DEF LinkDragged
  <1>2. Dragged(d, a, b, e)
    BY <1>1 DEF Dragged
  <1>3. a.kind \in AllKinds /\ b.kind \in AllKinds
    BY DEF Shape, Drawn, Nodes, IsNode
  <1>4. CASE a.kind # "Controller" /\ b.kind # "Controller"
    BY <1>2, <1>4, DataDraggedGood
  <1>5. CASE a.kind = "Controller"
    <2>1. b.kind = "Switch"
      BY <1>1, <1>3, <1>5 DEF Refused, AllKinds
    <2>2. {a, b} = {b, a}
      OBVIOUS
    <2> QED
      BY <1>2, <1>5, <2>1, <2>2, ControlDraggedGood
  <1>6. CASE b.kind = "Controller"
    <2>1. a.kind = "Switch"
      BY <1>1, <1>3, <1>6 DEF Refused, AllKinds
    <2> QED
      BY <1>2, <1>6, <2>1, ControlDraggedGood
  <1> QED
    BY <1>4, <1>5, <1>6

(***************************************************************************)
(* Another name.  The nodes of e are those of d, by their items.           *)
(***************************************************************************)
Twins(d, e) ==
    /\ SameLinks(d, e) /\ e.gone = {}
    /\ \A v \in Nodes(e) : \E u \in Nodes(d) : v.item = u.item /\ v.kind = u.kind
    /\ \A u \in Nodes(d) : \E v \in Nodes(e) : v.item = u.item /\ v.kind = u.kind
\* The lists go with the names.
ListsFollow(d, e) ==
    /\ \A u \in Nodes(d), v \in Nodes(e) :
          u.item = v.item /\ u.kind \in SwitchLike /\ HasList(d, u.name) => HasList(e, v.name)
    /\ \A u, c \in Nodes(d), v, k \in Nodes(e) :
          u.item = v.item /\ c.item = k.item /\ u.kind = "Switch" /\ c.kind = "Controller"
             => (k.name \in ToSet(ListOf(e, v)) <=> c.name \in ToSet(ListOf(d, u)))

\* The links stay between the same nodes.
LEMMA TwinsWired ==
    ASSUME NEW d, Shape(d), Wired(d), NEW e, Twins(d, e)
    PROVE  Wired(e) /\ \A v, c, u, k : v.item = u.item /\ c.item = k.item =>
                          (Managing(e, v, c) <=> Managing(d, u, k))
  <1>1. e.links = d.links /\ e.ends = d.ends /\ e.gone = {}
    BY DEF Twins, SameLinks
  <1>2. ASSUME NEW l \in ToSet(d.links) PROVE WiredLink(e, l)
    <2>1. WiredLink(d, l)
      BY DEF Wired
    <2>2. PICK u \in Nodes(d), c \in Nodes(d) :
             u # c /\ l.src = u.item /\ l.dest = c.item /\ MayJoin(l.type, u, c)
      BY <2>1 DEF WiredLink
    <2>3. PICK v \in Nodes(e) : v.item = u.item /\ v.kind = u.kind
      BY DEF Twins
    <2>4. PICK k \in Nodes(e) : k.item = c.item /\ k.kind = c.kind
      BY DEF Twins
    <2>5. v # k
      BY <2>2, <2>3, <2>4, NodesDiffer
    <2>6. MayJoin(l.type, v, k)
      BY <2>2, <2>3, <2>4 DEF MayJoin
    <2>7. l.src = v.item /\ l.dest = k.item
      BY <2>2, <2>3, <2>4
    <2> QED
      BY <1>1, <2>1, <2>5, <2>6, <2>7 DEF WiredLink
  <1>3. Wired(e)
    BY <1>1, <1>2 DEF Wired
  <1>4. \A v, c, u, k : v.item = u.item /\ c.item = k.item =>
           (Managing(e, v, c) <=> Managing(d, u, k))
    BY <1>1 DEF Managing, Joins
  <1> QED
    BY <1>3, <1>4

\* A drawing whose lists follow the names stays good.
LEMMA TwinsGood ==
    ASSUME NEW d, Shape(d), Good(d, {}), NEW e, Twins(d, e), ListsFollow(d, e),
           Named(e), Equipped(e)
    PROVE  Good(e, {}) /\ (Managed(d, {}) => Managed(e, {}))
  <1>1. Wired(e) /\ \A v, c, u, k : v.item = u.item /\ c.item = k.item =>
                       (Managing(e, v, c) <=> Managing(d, u, k))
    BY TwinsWired DEF Good
  <1>2. e.links = d.links
    BY DEF Twins, SameLinks
  <1>3. Enlisted(e)
    <2>1. SUFFICES ASSUME NEW l \in ToSet(e.links), NEW v \in Nodes(e), l.type = "control",
                          v.kind \in SwitchLike, v.item \in {l.src, l.dest}
                   PROVE  HasList(e, v.name)
      BY DEF Enlisted
    <2>2. PICK u \in Nodes(d) : v.item = u.item /\ v.kind = u.kind
      BY DEF Twins
    <2>3. HasList(d, u.name)
      BY <1>2, <2>1, <2>2 DEF Good, Enlisted
    <2> QED
      BY <2>1, <2>2, <2>3 DEF ListsFollow
  <1>4. ListsDrawn(e, {})
    <2>1. SUFFICES ASSUME NEW v \in Nodes(e), NEW k \in Nodes(e), v.kind = "Switch",
                          k.kind = "Controller", k.name \in ToSet(ListOf(e, v))
                   PROVE  Managing(e, v, k)
      BY DEF ListsDrawn
    <2>2. PICK u \in Nodes(d) : v.item = u.item /\ v.kind = u.kind
      BY DEF Twins
    <2>3. PICK c \in Nodes(d) : k.item = c.item /\ k.kind = c.kind
      BY DEF Twins
    <2>4. c.name \in ToSet(ListOf(d, u))
      BY <2>1, <2>2, <2>3 DEF ListsFollow
    <2>5. Managing(d, u, c)
      BY <2>1, <2>2, <2>3, <2>4 DEF Good, ListsDrawn
    <2> QED
      BY <1>1, <2>2, <2>3, <2>5
  <1>5. ASSUME Managed(d, {}) PROVE Managed(e, {})
    <2>1. SUFFICES ASSUME NEW v \in Nodes(e), NEW k \in Nodes(e), k.kind = "Controller",
                          Managing(e, v, k)
                   PROVE  v.kind = "Switch" /\ k.name \in ToSet(ListOf(e, v))
      BY DEF Managed
    <2>2. PICK u \in Nodes(d) : v.item = u.item /\ v.kind = u.kind
      BY DEF Twins
    <2>3. PICK c \in Nodes(d) : k.item = c.item /\ k.kind = c.kind
      BY DEF Twins
    <2>4. Managing(d, u, c)
      BY <1>1, <2>1, <2>2, <2>3
    <2>5. u.kind = "Switch" /\ c.name \in ToSet(ListOf(d, u))
      BY <1>5, <2>1, <2>3, <2>4 DEF Managed
    <2> QED
      BY <2>1, <2>2, <2>3, <2>5 DEF ListsFollow
  <1> QED
    BY <1>1, <1>3, <1>4, <1>5 DEF Good

(***************************************************************************)
(* One node of d has another name in e: u and v are the same node.         *)
(***************************************************************************)
Twin(w, name, u, v) ==
    v.item = u.item /\ v.kind = u.kind /\ v.name = IF u.item = w.item THEN name ELSE u.name
Titled(d, w, name, e) ==
    /\ SameLinks(d, e) /\ e.gone = {}
    /\ \A v \in Nodes(e) : \E u \in Nodes(d) : Twin(w, name, u, v)
    /\ \A u \in Nodes(d) : \E v \in Nodes(e) : Twin(w, name, u, v)
\* Renamed() gives one node another name.
LEMMA RetitledIs ==
    ASSUME NEW d, Shape(d), d.gone = {}, NEW w, NEW name, NEW e, Retitled(d, w.item, name, e)
    PROVE  Titled(d, w, name, e)
  <1>1. PICK item : item = w.item
    OBVIOUS
  <1>2. Retitled(d, item, name, e)
    BY <1>1
  <1>3. /\ \A v \in Nodes(e) : \E u \in Nodes(d) :
              /\ v.item = u.item /\ v.kind = u.kind
              /\ v.name = IF u.item = item THEN name ELSE u.name
        /\ \A u \in Nodes(d) : \E v \in Nodes(e) :
              /\ v.item = u.item /\ v.kind = u.kind
              /\ v.name = IF u.item = item THEN name ELSE u.name
    BY <1>2, RetitledShape
  <1>4. SameLinks(d, e) /\ e.gone = {}
    BY <1>2 DEF Retitled
  <1> QED
    BY <1>1, <1>3, <1>4 DEF Titled, Twin
\* And the others keep theirs.
LEMMA TitledTwins ==
    ASSUME NEW d, Shape(d), NEW w \in Nodes(d), NEW name, NEW e, Shape(e), Titled(d, w, name, e), Named(e)
    PROVE  /\ Twins(d, e)
           /\ \A u \in Nodes(d), v \in Nodes(e) : u.item = v.item => Twin(w, name, u, v)
           /\ \A v \in Nodes(e) : v.item # w.item => v.name # name
  <1>1. Twins(d, e)
    BY DEF Titled, Twins, Twin
  <1>2. ASSUME NEW u \in Nodes(d), NEW v \in Nodes(e), u.item = v.item PROVE Twin(w, name, u, v)
    <2>1. PICK t \in Nodes(d) : Twin(w, name, t, v)
      BY DEF Titled
    <2>2. t = u
      BY <1>2, <2>1, NodesDiffer DEF Twin
    <2> QED
      BY <2>1, <2>2
  <1>3. ASSUME NEW v \in Nodes(e), v.item # w.item PROVE v.name # name
    <2>1. PICK x \in Nodes(e) : Twin(w, name, w, x)
      BY DEF Titled
    <2>2. x # v /\ x.name = name
      BY <1>3, <2>1 DEF Twin
    <2> QED
      BY <2>2 DEF Named
  <1> QED
    BY <1>1, <1>2, <1>3
\* The names of the controllers, when the node is none.
LEMMA OtherControllers ==
    ASSUME NEW d, NEW w, w.kind # "Controller", NEW name, NEW e, Titled(d, w, name, e),
           \A u \in Nodes(d) : u.item = w.item => u = w
    PROVE  ControllerNames(e) = ControllerNames(d)
  <1>1. \A v \in Nodes(e) : v.kind = "Controller" => v.name \in ControllerNames(d)
    BY DEF Titled, Twin, ControllerNames
  <1>2. \A u \in Nodes(d) : u.kind = "Controller" => u.name \in ControllerNames(e)
    BY DEF Titled, Twin, ControllerNames
  <1> QED
    BY <1>1, <1>2 DEF ControllerNames

(* The dialog of a host.                                                   *)
LEMMA HostAppliedGood ==
    ASSUME NEW d, Shape(d), Good(d, {}), NEW w \in Nodes(d), w.kind \in HostLike,
           NEW typed, NEW name, NEW o, NEW e, HostApplied(d, w, typed, name, o, e), Named(e)
    PROVE  Good(e, {}) /\ (Managed(d, {}) => Managed(e, {}))
  <1>1. Shape(e) /\ d.gone = {}
    BY HostAppliedShape DEF Good, Wired
  <1>2. Titled(d, w, name, e)
    BY <1>1, RetitledIs DEF HostApplied
  <1>3. /\ Twins(d, e)
        /\ \A u \in Nodes(d), v \in Nodes(e) : u.item = v.item => Twin(w, name, u, v)
        /\ \A v \in Nodes(e) : v.item # w.item => v.name # name
    BY <1>1, <1>2, TitledTwins
  <1>4. e.switchOpts = d.switchOpts /\ e.controllers = d.controllers
        /\ Entered(d.hostOpts, name, o, e.hostOpts) /\ FitsHost(w.kind, name, o)
    BY DEF HostApplied
  <1>5. \A u \in Nodes(d) : u.item = w.item => u = w
    BY NodesDiffer
  <1>6. ControllerNames(e) = ControllerNames(d)
    <2>1. w.kind # "Controller"
      BY DEF HostLike
    <2> QED
      BY <1>2, <1>5, <2>1, OtherControllers
  <1>7. ASSUME NEW v \in Nodes(e) PROVE EquippedNode(e, v, ControllerNames(e))
    <2>1. PICK u \in Nodes(d) : Twin(w, name, u, v)
      BY <1>2 DEF Titled
    <2>2. CASE u.item = w.item
      <3>1. v.kind = w.kind /\ v.name = name
        BY <1>5, <2>1, <2>2 DEF Twin
      <3>2. name \in DOMAIN e.hostOpts /\ e.hostOpts[name] = o
        BY <1>4 DEF Entered
      <3> QED
        BY <1>4, <3>1, <3>2 DEF EquippedNode, HostLike, SwitchLike
    <2>3. CASE u.item # w.item
      <3>1. v.kind = u.kind /\ v.name = u.name /\ v.item # w.item
        BY <2>1, <2>3 DEF Twin
      <3>2. v.name # name
        BY <1>3, <3>1
      <3>3. EquippedNode(d, u, ControllerNames(d))
        BY DEF Good, Equipped
      <3>4. v.name \in DOMAIN d.hostOpts =>
               v.name \in DOMAIN e.hostOpts /\ e.hostOpts[v.name] = d.hostOpts[v.name]
        BY <1>4, <3>2 DEF Entered
      <3> QED
        BY <1>4, <1>6, <3>1, <3>3, <3>4 DEF EquippedNode, ListOf
    <2> QED
      BY <2>2, <2>3
  <1>8. Equipped(e)
    BY <1>7 DEF Equipped
  <1>9. ListsFollow(d, e)
    <2>1. ASSUME NEW u \in Nodes(d), NEW v \in Nodes(e), u.item = v.item, u.kind \notin HostLike
          PROVE  v.name = u.name
      <3>1. u.item # w.item
        BY <1>5, <2>1
      <3> QED
        BY <1>3, <2>1, <3>1 DEF Twin
    <2>2. ASSUME NEW u \in Nodes(d), NEW v \in Nodes(e), u.item = v.item, u.kind \in SwitchLike
          PROVE  v.name = u.name /\ ListOf(e, v) = ListOf(d, u)
      BY <1>4, <2>1, <2>2 DEF ListOf, SwitchLike, HostLike
    <2>3. ASSUME NEW u \in Nodes(d), NEW v \in Nodes(e), u.item = v.item, u.kind \in SwitchLike,
                 HasList(d, u.name)
          PROVE  HasList(e, v.name)
      BY <1>4, <2>2, <2>3 DEF HasList
    <2>4. ASSUME NEW u \in Nodes(d), NEW c \in Nodes(d), NEW v \in Nodes(e), NEW k \in Nodes(e),
                 u.item = v.item, c.item = k.item, u.kind = "Switch", c.kind = "Controller"
          PROVE  k.name \in ToSet(ListOf(e, v)) <=> c.name \in ToSet(ListOf(d, u))
      <3>1. u.kind \in SwitchLike /\ c.kind \notin HostLike
        BY <2>4 DEF SwitchLike, HostLike
      <3> QED
        BY <2>1, <2>2, <2>4, <3>1
    <2> QED
      BY <2>3, <2>4 DEF ListsFollow
  <1> QED
    BY <1>3, <1>8, <1>9, TwinsGood

(* The dialog of a switch.                                                 *)
LEMMA SwitchAppliedGood ==
    ASSUME NEW d, Shape(d), Good(d, {}), NEW w \in Nodes(d), w.kind = "Switch",
           NEW typed, NEW name, NEW o, NEW e, SwitchApplied(d, w, typed, name, o, e), Named(e)
    PROVE  Good(e, {}) /\ (Managed(d, {}) => Managed(e, {}))
  <1>1. Shape(e) /\ d.gone = {}
    BY SwitchAppliedShape DEF Good, Wired
  <1>2. Titled(d, w, name, e)
    BY <1>1, RetitledIs DEF SwitchApplied
  <1>3. /\ Twins(d, e)
        /\ \A u \in Nodes(d), v \in Nodes(e) : u.item = v.item => Twin(w, name, u, v)
        /\ \A v \in Nodes(e) : v.item # w.item => v.name # name
    BY <1>1, <1>2, TitledTwins
  <1>4. e.hostOpts = d.hostOpts /\ e.controllers = d.controllers
        /\ Entered(d.switchOpts, name, o, e.switchOpts) /\ FitsSwitch(w.kind, name, o)
        /\ o.controllers = ListOf(d, w)
    BY DEF SwitchApplied, ListOf
  <1>5. \A u \in Nodes(d) : u.item = w.item => u = w
    BY NodesDiffer
  <1>6. ControllerNames(e) = ControllerNames(d)
    BY <1>2, <1>5, OtherControllers
  <1>7. name \in DOMAIN e.switchOpts /\ e.switchOpts[name] = o
    BY <1>4 DEF Entered
  <1>8. ASSUME NEW u \in Nodes(d), NEW v \in Nodes(e), u.item = v.item,
               u.name \in DOMAIN d.switchOpts
        PROVE  /\ v.name \in DOMAIN e.switchOpts /\ ListOf(e, v) = ListOf(d, u)
               /\ u.item # w.item => e.switchOpts[v.name] = d.switchOpts[u.name]
    <2>1. Twin(w, name, u, v)
      BY <1>3, <1>8
    <2>2. CASE u.item = w.item
      <3>1. u = w /\ v.name = name
        BY <1>5, <2>1, <2>2 DEF Twin
      <3> QED
        BY <1>4, <1>7, <2>2, <3>1 DEF ListOf
    <2>3. CASE u.item # w.item
      <3>1. v.name = u.name /\ v.item # w.item
        BY <2>1, <2>3 DEF Twin
      <3>2. v.name # name
        BY <1>3, <3>1
      <3>3. v.name \in DOMAIN e.switchOpts /\ e.switchOpts[v.name] = d.switchOpts[u.name]
        BY <1>4, <1>8, <3>1, <3>2 DEF Entered
      <3> QED
        BY <3>1, <3>3 DEF ListOf
    <2> QED
      BY <2>2, <2>3
  <1>9. ASSUME NEW v \in Nodes(e) PROVE EquippedNode(e, v, ControllerNames(e))
    <2>1. PICK u \in Nodes(d) : Twin(w, name, u, v)
      BY <1>2 DEF Titled
    <2>2. EquippedNode(d, u, ControllerNames(d))
      BY DEF Good, Equipped
    <2>3. v.kind = u.kind /\ v.item = u.item
      BY <2>1 DEF Twin
    <2>4. CASE u.item = w.item
      <3>1. u = w /\ v.name = name
        BY <1>5, <2>1, <2>4 DEF Twin
      <3>2. FitList("Switch", ListOf(d, w), ControllerNames(d))
        BY <2>2, <3>1 DEF EquippedNode, SwitchLike
      <3>3. ListOf(e, v) = ListOf(d, w)
        BY <1>4, <1>7, <3>1 DEF ListOf
      <3> QED
        BY <1>4, <1>6, <1>7, <2>3, <3>1, <3>2, <3>3 DEF EquippedNode, HostLike, SwitchLike
    <2>5. CASE u.item # w.item
      <3>1. v.name = u.name
        BY <2>1, <2>5 DEF Twin
      <3>2. u.name \in DOMAIN d.switchOpts =>
               /\ v.name \in DOMAIN e.switchOpts /\ ListOf(e, v) = ListOf(d, u)
               /\ e.switchOpts[v.name] = d.switchOpts[u.name]
        BY <1>8, <2>3, <2>5
      <3> QED
        BY <1>4, <1>6, <2>2, <2>3, <3>1, <3>2 DEF EquippedNode
    <2> QED
      BY <2>4, <2>5
  <1>10. Equipped(e)
    BY <1>9 DEF Equipped
  <1>11. ListsFollow(d, e)
    <2>1. ASSUME NEW u \in Nodes(d), NEW v \in Nodes(e), u.item = v.item, u.kind \in SwitchLike,
                 HasList(d, u.name)
          PROVE  HasList(e, v.name)
      BY <1>8, <2>1 DEF HasList, ListOf
    <2>2. ASSUME NEW u \in Nodes(d), NEW c \in Nodes(d), NEW v \in Nodes(e), NEW k \in Nodes(e),
                 u.item = v.item, c.item = k.item, u.kind = "Switch", c.kind = "Controller"
          PROVE  k.name \in ToSet(ListOf(e, v)) <=> c.name \in ToSet(ListOf(d, u))
      <3>1. c.item # w.item
        BY <1>5, <2>2
      <3>2. k.name = c.name
        BY <1>3, <2>2, <3>1 DEF Twin
      <3>3. u.name \in DOMAIN d.switchOpts
        BY <2>2 DEF Good, Equipped, EquippedNode, SwitchLike
      <3> QED
        BY <1>8, <2>2, <3>2, <3>3
    <2> QED
      BY <2>1, <2>2 DEF ListsFollow
  <1> QED
    BY <1>3, <1>10, <1>11, TwinsGood

\* A dialog keeps a drawing good, unless it is stale.
LEMMA DetailsAppliedGood ==
    ASSUME NEW d, Shape(d), Good(d, {}), NEW x, "staleDialog" \notin x, NEW e,
           DetailsApplied(d, x, e), Named(e)
    PROVE  Good(e, {}) /\ (Managed(d, {}) => Managed(e, {}))
  <1>1. PICK w, typed, box : /\ w.kind \in {"Host", "Docker", "Switch"}
                             /\ e = ApplyDetails(d, w, typed, box)
                             /\ w.kind = "Switch" => w.name \in DOMAIN d.switchOpts
                             /\ w \in Nodes(d)
    BY DEF DetailsApplied
  <1>2. CASE w.kind = "Switch"
    <2>1. PICK name, o : SwitchApplied(d, w, typed, name, o, e)
      BY <1>1, <1>2, SwitchDetailsIs
    <2> QED
      BY <1>1, <1>2, <2>1, SwitchAppliedGood
  <1>3. CASE w.kind # "Switch"
    <2>1. PICK name, o : HostApplied(d, w, typed, name, o, e)
      BY <1>1, <1>3, HostDetailsIs
    <2>2. w.kind \in HostLike
      BY <1>1, <1>3 DEF HostLike
    <2> QED
      BY <1>1, <2>1, <2>2, HostAppliedGood
  <1> QED
    BY <1>2, <1>3

(* A controller's new name, and the lists after it: each is as it was, or has
   the new name for the old one.                                           *)
ListsRenamed(d, e, old, name) ==
    /\ DOMAIN e.switchOpts = DOMAIN d.switchOpts
    /\ \A n \in DOMAIN d.switchOpts :
          /\ e.switchOpts[n].type = d.switchOpts[n].type
          /\ e.switchOpts[n].hostname = d.switchOpts[n].hostname
          /\ (\A u \in Nodes(d) : u.kind = "Switch" => u.name # n) =>
                e.switchOpts[n].controllers = d.switchOpts[n].controllers
    /\ \A u \in Nodes(d) : u.kind = "Switch" =>
          /\ old # name => old \notin ToSet(ListOf(e, u))
          /\ RenamedList(ListOf(d, u), old, name, ListOf(e, u))
ControllerRetitled(d, w, name, e) ==
    /\ Shape(e) /\ Titled(d, w, name, e) /\ Named(e)
    /\ e.hostOpts = d.hostOpts /\ Entered(d.controllers, name, "remote", e.controllers)
    /\ ListsRenamed(d, e, w.name, name)

\* The list of one switch.
LEMMA ListRenamed ==
    ASSUME NEW list, NEW old, NEW name, NEW after, NEW names, IsSeq(list), NoTwice(list),
           ToSet(list) \subseteq names, old # name => name \notin names,
           old # name => old \notin ToSet(after), RenamedList(list, old, name, after),
           NEW more, more = (names \ {old}) \cup {name}
    PROVE  /\ IsSeq(after) /\ NoTwice(after) /\ ToSet(after) \subseteq more \cup names
           /\ old \in names => ToSet(after) \subseteq more
           /\ name \in ToSet(after) <=> old \in ToSet(list)
           /\ \A n : n # old /\ n # name => (n \in ToSet(after) <=> n \in ToSet(list))
  <1>1. IsSeq(after) /\ NoTwice(after)
        /\ \/ after = list
           \/ old \in ToSet(list) /\ ToSet(after) = (ToSet(list) \ {old}) \cup {name}
    BY DEF RenamedList
  <1>2. PICK S, T : S = ToSet(list) /\ T = ToSet(after)
    OBVIOUS
  <1>3. T = S \/ (old \in S /\ T = (S \ {old}) \cup {name})
    BY <1>1, <1>2
  <1>4. S \subseteq names /\ (old # name => old \notin T)
    BY <1>2
  <1>5. /\ T \subseteq more \cup names
        /\ old \in names => T \subseteq more
        /\ name \in T <=> old \in S
        /\ \A n : n # old /\ n # name => (n \in T <=> n \in S)
    BY <1>3, <1>4
  <1> QED
    BY <1>1, <1>2, <1>5

\* What a switch lists are controllers of the drawing, each once.
LEMMA SwitchesNamed ==
    ASSUME NEW d, Shape(d), Good(d, {}), NEW u \in Nodes(d), u.kind = "Switch"
    PROVE  /\ HasList(d, u.name) /\ IsSeq(ListOf(d, u)) /\ NoTwice(ListOf(d, u))
           /\ ToSet(ListOf(d, u)) \subseteq ControllerNames(d)
  <1>1. EquippedNode(d, u, ControllerNames(d))
    BY DEF Good, Equipped
  <1>2. u.name \in DOMAIN d.switchOpts /\ FitList("Switch", ListOf(d, u), ControllerNames(d))
    BY <1>1 DEF EquippedNode, SwitchLike
  <1>3. ListOf(d, u) # NoList /\ NoTwice(ListOf(d, u))
        /\ ToSet(ListOf(d, u)) \subseteq ControllerNames(d)
    BY <1>2 DEF FitList
  <1>4. IsSwitchEntry(d.switchOpts[u.name])
    BY <1>2 DEF Shape, Entries
  <1> QED
    BY <1>2, <1>3, <1>4 DEF HasList, ListOf, IsSwitchEntry

\* The name is no other controller's.
LEMMA NewNameIsNew ==
    ASSUME NEW d, Shape(d), Good(d, {}), NEW w \in Nodes(d), NEW name, name # w.name, NEW e, Shape(e),
           Titled(d, w, name, e), Named(e)
    PROVE  name \notin NodeNames(d) /\ name \notin ControllerNames(d)
  <1>1. ASSUME NEW c \in Nodes(d), c.name = name PROVE FALSE
    <2>1. c.item # w.item
      BY <1>1, NodesDiffer
    <2>2. PICK v \in Nodes(e) : Twin(w, name, c, v)
      BY DEF Titled
    <2>3. v.item # w.item /\ v.name = name
      BY <1>1, <2>1, <2>2 DEF Twin
    <2> QED
      BY <2>3, TitledTwins
  <1> QED
    BY <1>1 DEF NodeNames, ControllerNames

\* A controller's new name, entered in the lists, keeps a drawing good.
LEMMA ControllerRetitledGood ==
    ASSUME NEW d, Shape(d), Good(d, {}), NEW w \in Nodes(d), w.kind = "Controller", NEW name, NEW e,
           ControllerRetitled(d, w, name, e)
    PROVE  Good(e, {}) /\ (Managed(d, {}) => Managed(e, {}))
  <1>1. Shape(e) /\ Titled(d, w, name, e) /\ Named(e) /\ e.hostOpts = d.hostOpts
        /\ Entered(d.controllers, name, "remote", e.controllers) /\ ListsRenamed(d, e, w.name, name)
    BY DEF ControllerRetitled
  <1>2. /\ Twins(d, e)
        /\ \A u \in Nodes(d), v \in Nodes(e) : u.item = v.item => Twin(w, name, u, v)
        /\ \A v \in Nodes(e) : v.item # w.item => v.name # name
    BY <1>1, TitledTwins
  <1>3. \A u \in Nodes(d) : u.item = w.item => u = w
    BY NodesDiffer
  <1>4. PICK old, names, more : /\ old = w.name /\ names = ControllerNames(d)
                                /\ more = (names \ {old}) \cup {name}
    OBVIOUS
  <1>5. old \in names
    BY <1>4 DEF ControllerNames
  <1>6. ControllerNames(e) = more
    <2>1. ASSUME NEW v \in Nodes(e), v.kind = "Controller" PROVE v.name \in more
      <3>1. PICK u \in Nodes(d) : Twin(w, name, u, v)
        BY <1>1 DEF Titled
      <3>2. CASE u.item = w.item
        BY <1>4, <3>1, <3>2 DEF Twin
      <3>3. CASE u.item # w.item
        <4>1. v.name = u.name /\ u.kind = "Controller" /\ u # w
          BY <2>1, <3>1, <3>3 DEF Twin
        <4>2. u.name # old
          BY <1>4, <4>1 DEF Good, Named
        <4> QED
          BY <1>4, <4>1, <4>2 DEF ControllerNames
      <3> QED
        BY <3>2, <3>3
    <2>2. ASSUME NEW n \in more PROVE n \in ControllerNames(e)
      <3>1. PICK u \in Nodes(d) : u.kind = "Controller"
               /\ ((u = w /\ n = name) \/ (u # w /\ n = u.name))
        BY <1>4, <2>2 DEF ControllerNames
      <3>2. PICK v \in Nodes(e) : Twin(w, name, u, v)
        BY <1>1 DEF Titled
      <3>3. v.kind = "Controller" /\ v.name = n
        BY <1>3, <3>1, <3>2 DEF Twin
      <3> QED
        BY <3>3 DEF ControllerNames
    <2> QED
      BY <2>1, <2>2 DEF ControllerNames
  <1>7. old # name => name \notin names
    BY <1>1, <1>4, NewNameIsNew
  <1>8. ASSUME NEW u \in Nodes(d), NEW v \in Nodes(e), u.item = v.item, u.kind = "Switch"
        PROVE  /\ v.name = u.name /\ ListOf(e, v) = ListOf(e, u)
               /\ HasList(e, v.name) /\ NoTwice(ListOf(e, v)) /\ ToSet(ListOf(e, v)) \subseteq more
               /\ name \in ToSet(ListOf(e, v)) <=> old \in ToSet(ListOf(d, u))
               /\ \A n : n # old /\ n # name =>
                     (n \in ToSet(ListOf(e, v)) <=> n \in ToSet(ListOf(d, u)))
    <2>1. v.name = u.name
      BY <1>2, <1>3, <1>8 DEF Twin
    <2>2. ListOf(e, v) = ListOf(e, u)
      BY <2>1 DEF ListOf
    <2>3. PICK list, after : list = ListOf(d, u) /\ after = ListOf(e, u)
      OBVIOUS
    <2>4. HasList(d, u.name) /\ IsSeq(list) /\ NoTwice(list) /\ ToSet(list) \subseteq names
      BY <1>4, <1>8, <2>3, SwitchesNamed
    <2>5. (old # name => old \notin ToSet(after)) /\ RenamedList(list, old, name, after)
      BY <1>1, <1>4, <1>8, <2>3 DEF ListsRenamed
    <2>6. /\ IsSeq(after) /\ NoTwice(after)
          /\ old \in names => ToSet(after) \subseteq more
          /\ name \in ToSet(after) <=> old \in ToSet(list)
          /\ \A n : n # old /\ n # name => (n \in ToSet(after) <=> n \in ToSet(list))
      BY <1>4, <1>7, <2>4, <2>5, ListRenamed
    <2>7. HasList(e, v.name)
      <3>1. u.name \in DOMAIN e.switchOpts
        BY <1>1, <2>4 DEF HasList, ListsRenamed
      <3>2. after # NoList
        BY <2>6, NoListIsNoSeq
      <3> QED
        BY <2>1, <2>3, <3>1, <3>2 DEF HasList, ListOf
    <2> QED
      BY <1>5, <2>1, <2>2, <2>3, <2>6, <2>7
  <1>9. ASSUME NEW u \in Nodes(d), NEW v \in Nodes(e), u.item = v.item,
               u.kind \in {"LegacySwitch", "LegacyRouter"}, u.name \in DOMAIN d.switchOpts
        PROVE  v.name = u.name /\ u.name \in DOMAIN e.switchOpts /\ ListOf(e, v) = ListOf(d, u)
    <2>1. v.name = u.name
      BY <1>2, <1>3, <1>9 DEF Twin
    <2>2. \A x \in Nodes(d) : x.kind = "Switch" => x.name # u.name
      BY <1>9 DEF Good, Named
    <2> QED
      BY <1>1, <1>9, <2>1, <2>2 DEF ListsRenamed, ListOf
  <1>10. ASSUME NEW v \in Nodes(e) PROVE EquippedNode(e, v, more)
    <2>1. PICK u \in Nodes(d) : Twin(w, name, u, v)
      BY <1>1 DEF Titled
    <2>2. EquippedNode(d, u, names)
      BY <1>4 DEF Good, Equipped
    <2>3. v.kind = u.kind /\ v.item = u.item
      BY <2>1 DEF Twin
    <2>4. CASE u.kind \in HostLike
      <3>1. v.name = u.name
        BY <1>2, <1>3, <2>3, <2>4 DEF Twin, HostLike
      <3> QED
        BY <1>1, <2>2, <2>3, <2>4, <3>1 DEF EquippedNode, HostLike, SwitchLike
    <2>5. CASE u.kind \in SwitchLike
      <3>1. u.name \in DOMAIN d.switchOpts /\ FitsSwitch(u.kind, u.name, d.switchOpts[u.name])
            /\ FitList(u.kind, ListOf(d, u), names)
        BY <2>2, <2>5 DEF EquippedNode
      <3>2. v.name = u.name
        BY <1>2, <1>3, <2>3, <2>5 DEF Twin, SwitchLike
      <3>3. u.name \in DOMAIN e.switchOpts /\ FitsSwitch(u.kind, u.name, e.switchOpts[u.name])
        BY <1>1, <3>1 DEF ListsRenamed, FitsSwitch
      <3>4. FitList(u.kind, ListOf(e, v), more)
        <4>1. CASE u.kind = "Switch"
          <5>1. HasList(e, v.name) /\ NoTwice(ListOf(e, v)) /\ ToSet(ListOf(e, v)) \subseteq more
            BY <1>8, <2>3, <4>1
          <5> QED
            BY <4>1, <5>1 DEF FitList, HasList, ListOf
        <4>2. CASE u.kind # "Switch"
          <5>1. ListOf(e, v) = ListOf(d, u)
            BY <1>9, <2>3, <2>5, <3>1, <4>2 DEF SwitchLike
          <5>2. ListOf(d, u) \in {NoList, <<>>}
            BY <2>5, <3>1, <4>2 DEF FitList, SwitchLike
          <5>3. ToSet(<<>>) = {}
            BY DEF ToSet
          <5> QED
            BY <3>1, <4>2, <5>1, <5>2, <5>3 DEF FitList
        <4> QED
          BY <4>1, <4>2
      <3> QED
        BY <2>3, <2>5, <3>2, <3>3, <3>4 DEF EquippedNode, HostLike, SwitchLike
    <2>6. CASE u.kind = "Controller"
      <3>1. u.name \in DOMAIN d.controllers
        BY <2>2, <2>6 DEF EquippedNode
      <3>2. v.name = name \/ v.name = u.name
        BY <2>1 DEF Twin
      <3>3. v.name \in DOMAIN e.controllers
        BY <1>1, <3>1, <3>2 DEF Entered
      <3> QED
        BY <2>3, <2>6, <3>3 DEF EquippedNode, HostLike, SwitchLike
    <2>7. u.kind \in AllKinds
      BY DEF Shape, Drawn, Nodes, IsNode
    <2> QED
      BY <2>4, <2>5, <2>6, <2>7 DEF AllKinds, HostLike, SwitchLike
  <1>11. Equipped(e)
    BY <1>6, <1>10 DEF Equipped
  <1>12. ListsFollow(d, e)
    <2>1. ASSUME NEW u \in Nodes(d), NEW v \in Nodes(e), u.item = v.item, u.kind \in SwitchLike,
                 HasList(d, u.name)
          PROVE  HasList(e, v.name)
      <3>1. CASE u.kind = "Switch"
        BY <1>8, <2>1, <3>1
      <3>2. CASE u.kind # "Switch"
        BY <1>9, <2>1, <3>2 DEF SwitchLike, HasList, ListOf
      <3> QED
        BY <3>1, <3>2
    <2>2. ASSUME NEW u \in Nodes(d), NEW c \in Nodes(d), NEW v \in Nodes(e), NEW k \in Nodes(e),
                 u.item = v.item, c.item = k.item, u.kind = "Switch", c.kind = "Controller"
          PROVE  k.name \in ToSet(ListOf(e, v)) <=> c.name \in ToSet(ListOf(d, u))
      <3>1. /\ name \in ToSet(ListOf(e, v)) <=> old \in ToSet(ListOf(d, u))
            /\ \A n : n # old /\ n # name =>
                  (n \in ToSet(ListOf(e, v)) <=> n \in ToSet(ListOf(d, u)))
        BY <1>8, <2>2
      <3>2. CASE c = w
        <4>1. k.name = name
          BY <1>2, <2>2, <3>2 DEF Twin
        <4> QED
          BY <1>4, <3>1, <3>2, <4>1
      <3>3. CASE c # w
        <4>1. c.item # w.item
          BY <1>3, <3>3
        <4>2. k.name = c.name /\ k.item # w.item
          BY <1>2, <2>2, <4>1 DEF Twin
        <4>3. k.name # name /\ c.name # old
          BY <1>2, <1>4, <3>3, <4>2 DEF Good, Named
        <4> QED
          BY <3>1, <4>2, <4>3
      <3> QED
        BY <3>2, <3>3
    <2> QED
      BY <2>1, <2>2 DEF ListsFollow
  <1> QED
    BY <1>1, <1>2, <1>11, <1>12, TwinsGood

\* The controller has the name before the lists have.
LEMMA ControllerAppliedTitled ==
    ASSUME NEW d, Shape(d), Good(d, {}), NEW w \in Nodes(d), w.kind = "Controller", NEW typed,
           NEW name, NEW f, ControllerApplied(d, w, typed, name, f)
    PROVE  /\ Shape(f) /\ Titled(d, w, name, f)
           /\ \A u \in Nodes(d) : u.kind = "Switch" =>
                 \E v \in Nodes(f) : v.kind = "Switch" /\ v.name = u.name
           /\ \A v \in Nodes(f) : v.kind = "Switch" =>
                 \E u \in Nodes(d) : u.kind = "Switch" /\ v.name = u.name
  <1>1. Shape(f) /\ d.gone = {}
    BY ControllerAppliedShape DEF Good, Wired
  <1>2. Titled(d, w, name, f)
    BY <1>1, RetitledIs DEF ControllerApplied
  <1>3. \A u \in Nodes(d) : u.item = w.item => u = w
    BY NodesDiffer
  <1> QED
    BY <1>1, <1>2, <1>3 DEF Titled, Twin

\* controllerDetails() keeps a drawing good.
LEMMA ControllerRenamedGood ==
    ASSUME NEW d, Shape(d), Good(d, {}), NEW e, ControllerRenamed(d, e), Named(e)
    PROVE  Good(e, {}) /\ (Managed(d, {}) => Managed(e, {}))
  <1>1. PICK w, typed, r :
           /\ w \in Nodes(d) /\ w.kind = "Controller"
           /\ r = RenameController(d, w, typed) /\ e = r.m
    BY DEF ControllerRenamed
  <1>2. PICK name, f : /\ ControllerApplied(d, w, typed, name, f)
                       /\ r = IF name = w.name THEN Ok(f) ELSE RelistEverywhere(f, w.name, name)
    BY <1>1, RenameControllerIs
  <1>3. /\ Shape(f) /\ Titled(d, w, name, f)
        /\ \A u \in Nodes(d) : u.kind = "Switch" =>
              \E v \in Nodes(f) : v.kind = "Switch" /\ v.name = u.name
        /\ \A v \in Nodes(f) : v.kind = "Switch" =>
              \E u \in Nodes(d) : u.kind = "Switch" /\ v.name = u.name
    BY <1>1, <1>2, ControllerAppliedTitled
  <1>4. /\ f.hostOpts = d.hostOpts /\ f.switchOpts = d.switchOpts
        /\ Entered(d.controllers, name, "remote", f.controllers)
    BY <1>2 DEF ControllerApplied
  <1>5. CASE name = w.name
    <2>1. e = f
      BY <1>1, <1>2, <1>5 DEF Ok
    <2>2. ListsRenamed(d, e, name, name)
      <3>1. ASSUME NEW u \in Nodes(d), u.kind = "Switch"
            PROVE  RenamedList(ListOf(d, u), name, name, ListOf(e, u))
        <4>1. IsSeq(ListOf(d, u)) /\ NoTwice(ListOf(d, u))
          BY <3>1, SwitchesNamed
        <4>2. ListOf(e, u) = ListOf(d, u)
          BY <1>4, <2>1 DEF ListOf
        <4> QED
          BY <4>1, <4>2 DEF RenamedList
      <3>2. e.switchOpts = d.switchOpts
        BY <1>4, <2>1
      <3> QED
        BY <3>1, <3>2 DEF ListsRenamed
    <2>3. ControllerRetitled(d, w, name, e)
      BY <1>3, <1>4, <1>5, <2>1, <2>2 DEF ControllerRetitled
    <2> QED
      BY <1>1, <2>3, ControllerRetitledGood
  <1>6. CASE name # w.name
    <2>1. PICK old : old = w.name
      OBVIOUS
    <2>2. r = RelistEverywhere(f, old, name) /\ old # name
      BY <1>2, <1>6, <2>1
    <2>3. Nodes(e) = Nodes(f)
      BY <1>1, <1>3, <2>2, RelistEverywhereKeeps
    <2>4. Named(f)
      BY <2>3 DEF Named
    <2>5. name \notin ControllerNames(d)
      BY <1>1, <1>3, <1>6, <2>4, NewNameIsNew
    <2>6. ASSUME NEW v \in Nodes(f), v.kind = "Switch"
          PROVE  HasList(f, v.name) /\ NoTwice(ListOf(f, v)) /\ name \notin ToSet(ListOf(f, v))
      <3>1. PICK u \in Nodes(d) : u.kind = "Switch" /\ v.name = u.name
        BY <1>3, <2>6
      <3>2. HasList(d, u.name) /\ NoTwice(ListOf(d, u)) /\ ToSet(ListOf(d, u)) \subseteq ControllerNames(d)
        BY <3>1, SwitchesNamed
      <3>3. ListOf(f, v) = ListOf(d, u)
        BY <1>4, <3>1 DEF ListOf
      <3> QED
        BY <1>4, <2>5, <3>1, <3>2, <3>3 DEF HasList
    <2>7. /\ ListsOnly(f, e)
          /\ \A v \in Nodes(f) : v.kind = "Switch" =>
                /\ old \notin ToSet(ListOf(e, v))
                /\ RenamedList(ListOf(f, v), old, name, ListOf(e, v))
      BY <1>1, <1>3, <2>2, <2>4, <2>6, RelistedEverywhere
    <2>8. Shape(e) /\ Titled(d, w, name, e)
      <3>1. Shape(e) /\ SameLinks(f, e) /\ e.gone = f.gone
        BY <2>7 DEF ListsOnly, SameNodes
      <3> QED
        BY <1>3, <2>3, <3>1 DEF Titled, SameLinks
    <2>9. e.hostOpts = d.hostOpts /\ e.controllers = f.controllers
          /\ DOMAIN e.switchOpts = DOMAIN d.switchOpts
      BY <1>4, <2>7 DEF ListsOnly
    <2>10. ASSUME NEW n \in DOMAIN d.switchOpts
           PROVE  /\ e.switchOpts[n].type = d.switchOpts[n].type
                  /\ e.switchOpts[n].hostname = d.switchOpts[n].hostname
                  /\ (\A u \in Nodes(d) : u.kind = "Switch" => u.name # n) =>
                        e.switchOpts[n].controllers = d.switchOpts[n].controllers
      BY <1>3, <1>4, <2>7 DEF ListsOnly
    <2>11. ASSUME NEW u \in Nodes(d), u.kind = "Switch"
           PROVE  /\ old \notin ToSet(ListOf(e, u))
                  /\ RenamedList(ListOf(d, u), old, name, ListOf(e, u))
      <3>1. PICK v \in Nodes(f) : v.kind = "Switch" /\ v.name = u.name
        BY <1>3, <2>11
      <3>2. ListOf(e, v) = ListOf(e, u) /\ ListOf(f, v) = ListOf(d, u)
        BY <1>4, <3>1 DEF ListOf
      <3> QED
        BY <2>7, <3>1, <3>2
    <2>12. ListsRenamed(d, e, old, name)
      BY <2>9, <2>10, <2>11 DEF ListsRenamed
    <2>13. ControllerRetitled(d, w, name, e)
      BY <1>4, <2>1, <2>8, <2>9, <2>12 DEF ControllerRetitled
    <2> QED
      BY <1>1, <2>13, ControllerRetitledGood
  <1> QED
    BY <1>5, <1>6

(* Links with other options or another state are the same links.           *)
LEMMA RestyledLinks ==
    ASSUME NEW d, Shape(d), NEW e, Restyled(d, e)
    PROVE  /\ \A l \in ToSet(d.links) : \E k \in ToSet(e.links) :
                 k.item = l.item /\ k.type = l.type /\ k.src = l.src /\ k.dest = l.dest
           /\ \A k \in ToSet(e.links) : \E l \in ToSet(d.links) :
                 k.item = l.item /\ k.type = l.type /\ k.src = l.src /\ k.dest = l.dest
  <1>1. DOMAIN e.links = DOMAIN d.links
    BY DEF Restyled
  <1>2. \A n \in DOMAIN d.links :
           /\ e.links[n].item = d.links[n].item /\ e.links[n].type = d.links[n].type
           /\ e.links[n].src = d.links[n].src /\ e.links[n].dest = d.links[n].dest
    <2>1. SUFFICES ASSUME NEW n \in DOMAIN d.links
                   PROVE  /\ e.links[n].item = d.links[n].item /\ e.links[n].type = d.links[n].type
                          /\ e.links[n].src = d.links[n].src /\ e.links[n].dest = d.links[n].dest
      OBVIOUS
    <2>2. PICK l, k : l = d.links[n] /\ k = e.links[n]
      OBVIOUS
    <2>3. k = [item |-> l.item, type |-> l.type, src |-> l.src, dest |-> l.dest,
               opts |-> k.opts, down |-> k.down]
      BY <2>2 DEF Restyled
    <2> QED
      BY <2>2, <2>3
  <1> QED
    BY <1>1, <1>2 DEF ToSet

\* linkDetails(), linkUp(), linkDown() and doRun() keep a drawing good.
LEMMA RestyledGood ==
    ASSUME NEW d, Shape(d), Good(d, {}), NEW e, Restyled(d, e)
    PROVE  Good(e, {}) /\ (Managed(d, {}) => Managed(e, {}))
  <1>1. Nodes(e) = Nodes(d) /\ SameOpts(d, e) /\ e.gone = d.gone /\ e.ends = d.ends
    BY RestyledNodes DEF Restyled
  <1>2. /\ \A l \in ToSet(d.links) : \E k \in ToSet(e.links) :
              k.item = l.item /\ k.type = l.type /\ k.src = l.src /\ k.dest = l.dest
        /\ \A k \in ToSet(e.links) : \E l \in ToSet(d.links) :
              k.item = l.item /\ k.type = l.type /\ k.src = l.src /\ k.dest = l.dest
    BY RestyledLinks
  <1>3. Named(e) /\ ControllerNames(e) = ControllerNames(d)
    BY <1>1 DEF Good, Named, ControllerNames
  <1>4. Wired(e)
    <2>1. ASSUME NEW k \in ToSet(e.links) PROVE WiredLink(e, k)
      <3>1. PICK l \in ToSet(d.links) :
               k.item = l.item /\ k.type = l.type /\ k.src = l.src /\ k.dest = l.dest
        BY <1>2
      <3>2. WiredLink(d, l)
        BY DEF Good, Wired
      <3> QED
        BY <1>1, <3>1, <3>2 DEF WiredLink
    <2>2. ASSUME NEW x \in DOMAIN e.ends
          PROVE  \E k \in ToSet(e.links) :
                    e.ends[x] = k.item /\ (x = <<k.src, k.dest>> \/ x = <<k.dest, k.src>>)
      <3>1. PICK l \in ToSet(d.links) :
               d.ends[x] = l.item /\ (x = <<l.src, l.dest>> \/ x = <<l.dest, l.src>>)
        BY <1>1 DEF Good, Wired
      <3>2. PICK k \in ToSet(e.links) :
               k.item = l.item /\ k.type = l.type /\ k.src = l.src /\ k.dest = l.dest
        BY <1>2
      <3> QED
        BY <1>1, <3>1, <3>2
    <2>3. e.gone = {}
      BY <1>1 DEF Good, Wired
    <2> QED
      BY <2>1, <2>2, <2>3 DEF Wired
  <1>5. \A w : ListOf(e, w) = ListOf(d, w)
    BY <1>1 DEF ListOf, SameOpts
  <1>6. Equipped(e)
    BY <1>1, <1>3, <1>5 DEF Good, Equipped, EquippedNode, SameOpts
  <1>7. \A v, w : Managing(e, v, w) <=> Managing(d, v, w)
    <2>1. ASSUME NEW v, NEW w, Managing(e, v, w) PROVE Managing(d, v, w)
      BY <1>2, <2>1 DEF Managing, Joins
    <2>2. ASSUME NEW v, NEW w, Managing(d, v, w) PROVE Managing(e, v, w)
      BY <1>2, <2>2 DEF Managing, Joins
    <2> QED
      BY <2>1, <2>2
  <1>8. Enlisted(e)
    <2>1. \A name : HasList(e, name) <=> HasList(d, name)
      BY <1>1 DEF HasList, SameOpts
    <2>2. ASSUME NEW k \in ToSet(e.links), NEW w \in Nodes(e), k.type = "control",
                 w.kind \in SwitchLike, w.item \in {k.src, k.dest}
          PROVE  HasList(d, w.name)
      <3>1. PICK l \in ToSet(d.links) :
               k.item = l.item /\ k.type = l.type /\ k.src = l.src /\ k.dest = l.dest
        BY <1>2
      <3> QED
        BY <1>1, <2>2, <3>1 DEF Good, Enlisted
    <2> QED
      BY <2>1, <2>2 DEF Enlisted
  <1>9. ListsDrawn(e, {})
    BY <1>1, <1>5, <1>7 DEF Good, ListsDrawn
  <1>10. Managed(d, {}) => Managed(e, {})
    BY <1>1, <1>5, <1>7 DEF Managed
  <1> QED
    BY <1>3, <1>4, <1>6, <1>8, <1>9, <1>10 DEF Good

(***************************************************************************)
(* A file is read onto an empty canvas.  If the names that it gives differ *)
(* the drawing so far, of a file of version v, is a good one of the        *)
(* controllers C and the data links P.                                     *)
(***************************************************************************)
Sound(d, v, C, P) ==
    /\ Good(d, {}) /\ (v = 2 => Managed(d, {}))
    /\ ControllerNames(d) = C /\ DataPairs(d) \subseteq P
Reading(d, v, C, P) == Shape(d) /\ (Named(d) => Sound(d, v, C, P))

\* A controller of the file.
LEMMA ControllerRead ==
    ASSUME NEW d, NEW v, NEW C, Reading(d, v, C, {}), NEW name, NEW type, NEW e,
           ControllerAdded(d, name, type, e)
    PROVE  Reading(e, v, C \cup {name}, {})
  <1>1. Shape(d) /\ Shape(e) /\ NodeAdded(d, "Controller", name, e)
    BY ControllerAddedShape DEF Reading, ControllerAdded
  <1>2. ASSUME Named(e) PROVE Sound(e, v, C \cup {name}, {})
    <2>1. PICK kind, w : kind = "Controller" /\ w = [item |-> d.next, kind |-> kind, name |-> name]
      OBVIOUS
    <2>2. NodeAdded(d, kind, name, e)
      BY <1>1, <2>1
    <2>3. Named(d)
      BY <1>1, <1>2, <2>1, <2>2, NodeAddedNames
    <2>4. Sound(d, v, C, {})
      BY <2>3 DEF Reading
    <2>5. PICK X : X = {}
      OBVIOUS
    <2>6. Good(e, X) /\ \A Z : Managed(d, Z) => Managed(e, Z)
      <3>1. Good(d, X)
        BY <2>4, <2>5 DEF Sound
      <3> QED
        BY <1>1, <1>2, <3>1, ControllerAddedGood
    <2>7. ControllerNames(e) = C \cup {name}
      <3>1. ControllerNames(e) = ControllerNames(d) \cup (IF kind = "Controller" THEN {name} ELSE {})
        BY <1>1, <2>2, NodeAddedControllers
      <3> QED
        BY <2>1, <2>4, <3>1 DEF Sound
    <2>8. DataPairs(e) = DataPairs(d)
      <3>1. Wired(d)
        BY <2>4 DEF Sound, Good
      <3> QED
        BY <1>1, <2>2, <3>1, NodeAddedPairs
    <2> QED
      BY <2>4, <2>5, <2>6, <2>7, <2>8 DEF Sound
  <1> QED
    BY <1>1, <1>2 DEF Reading

\* A host of the file.
LEMMA HostRead ==
    ASSUME NEW d, NEW v, NEW C, Reading(d, v, C, {}), NEW kind, NEW name, NEW o, NEW e,
           HostAdded(d, kind, name, o, e), FitsHost(kind, name, o)
    PROVE  Reading(e, v, C, {})
  <1>1. Shape(d) /\ Shape(e) /\ NodeAdded(d, kind, name, e) /\ kind # "Controller"
    BY HostAddedShape DEF Reading, HostAdded, HostLike
  <1>2. ASSUME Named(e) PROVE Sound(e, v, C, {})
    <2>1. PICK w : w = [item |-> d.next, kind |-> kind, name |-> name]
      OBVIOUS
    <2>2. Named(d)
      BY <1>1, <1>2, <2>1, NodeAddedNames
    <2>3. Sound(d, v, C, {})
      BY <2>2 DEF Reading
    <2>4. PICK X : X = {}
      OBVIOUS
    <2>5. Good(e, X) /\ \A Z : Managed(d, Z) => Managed(e, Z)
      <3>1. Good(d, X)
        BY <2>3, <2>4 DEF Sound
      <3> QED
        BY <1>1, <1>2, <3>1, HostAddedGood
    <2>6. ControllerNames(e) = C
      BY <1>1, <2>3, NodeAddedControllers DEF Sound
    <2>7. DataPairs(e) = DataPairs(d)
      <3>1. Wired(d)
        BY <2>3 DEF Sound, Good
      <3> QED
        BY <1>1, <3>1, NodeAddedPairs
    <2> QED
      BY <2>3, <2>4, <2>5, <2>6, <2>7 DEF Sound
  <1> QED
    BY <1>1, <1>2 DEF Reading

(* The names in a file.                                                    *)
NamesUpto(s, k) == {s[j].hostname : j \in 1..k}
\* They grow by one with each entry.
LEMMA NamesUptoIs ==
    ASSUME NEW s, IsSeq(s)
    PROVE  /\ NamesUpto(s, 0) = {} /\ NamesUpto(s, Len(s)) = Names(s)
           /\ \A n \in Nat : n < Len(s) =>
                 NamesUpto(s, n + 1) = NamesUpto(s, n) \cup {s[n + 1].hostname}
  <1>1. PICK N \in Nat : Len(s) = N /\ DOMAIN s = 1..N
    BY SeqIs
  <1>2. NamesUpto(s, 0) = {}
    BY DEF NamesUpto
  <1>3. NamesUpto(s, N) = Names(s)
    BY <1>1 DEF NamesUpto, Names, ToSet
  <1>4. ASSUME NEW n \in Nat, n < N
        PROVE  NamesUpto(s, n + 1) = NamesUpto(s, n) \cup {s[n + 1].hostname}
    <2>1. 1..(n + 1) = (1..n) \cup {n + 1}
      BY <1>4
    <2> QED
      BY <2>1 DEF NamesUpto
  <1> QED
    BY <1>1, <1>2, <1>3, <1>4

\* The controllers of the file.
LEMMA LoadControllersRead ==
    ASSUME NEW q, q.ok, NEW v, Reading(q.m, v, {}, {}), NEW s, IsSeq(s), NEW r, r = LoadControllers(q, s)
    PROVE  r.ok /\ Reading(r.m, v, Names(s), {})
  <1>1. PICK N \in Nat : Len(s) = N
    BY SeqIs
  <1>2. PICK after : Runs(after, "loadController", NoName, q, s, N, r)
    BY <1>1, LoadControllersRuns
  <1> DEFINE Fine(e, k) == e.ok /\ Reading(e.m, v, NamesUpto(s, k), {})
             T == {k \in 0..N : Fine(after[k], k)}
  <1>3. 0 \in T
    <2>1. NamesUpto(s, 0) = {} /\ after[0] = q
      BY <1>2, NamesUptoIs DEF Runs
    <2>2. Fine(after[0], 0)
      BY <2>1
    <2> HIDE DEF Fine
    <2> QED
      BY <2>2
  <1>4. ASSUME NEW n \in Nat, n < N, n \in T PROVE n + 1 \in T
    <2>1. PICK x, y, e : x = after[n] /\ y = after[n + 1] /\ e = s[n + 1]
      OBVIOUS
    <2>2. x.ok /\ Reading(x.m, v, NamesUpto(s, n), {})
      BY <1>4, <2>1
    <2>3. n + 1 \in 0..N /\ y = IF x.ok THEN Step("loadController", NoName, x.m, e) ELSE x
      BY <1>2, <1>4, <2>1, LoopStep
    <2>4. y = LoadController(x.m, e)
      BY <2>2, <2>3 DEF Step
    <2>5. Shape(x.m)
      BY <2>2 DEF Reading
    <2>6. y.ok /\ ControllerAdded(x.m, e.hostname, e.type, y.m)
      BY <2>4, <2>5, LoadControllerIs
    <2>7. NamesUpto(s, n + 1) = NamesUpto(s, n) \cup {e.hostname}
      BY <1>1, <1>4, <2>1, NamesUptoIs
    <2>8. Reading(y.m, v, NamesUpto(s, n + 1), {})
      BY <2>2, <2>6, <2>7, ControllerRead
    <2>9. Fine(after[n + 1], n + 1)
      BY <2>1, <2>6, <2>8
    <2> HIDE DEF Fine
    <2> QED
      BY <2>3, <2>9
  <1>5. \A n \in 0..N : n \in T
    <2> HIDE DEF T
    <2> QED
      BY <1>3, <1>4, UpTo
  <1>6. Fine(after[N], N)
    BY <1>5
  <1> QED
    BY <1>1, <1>2, <1>6, NamesUptoIs DEF Runs

\* The hosts of the file.
LEMMA LoadHostsRead ==
    ASSUME NEW q, q.ok, NEW v, NEW C, Reading(q.m, v, C, {}), NEW s, IsSeq(s),
           \A k \in DOMAIN s : IsHostEntry(s[k]), NEW r, r = LoadHosts(q, s)
    PROVE  r.ok /\ Reading(r.m, v, C, {})
  <1>1. PICK N \in Nat : Len(s) = N /\ DOMAIN s = 1..N
    BY SeqIs
  <1>2. PICK after : Runs(after, "loadHost", NoName, q, s, N, r)
    BY <1>1, LoadHostsRuns
  <1> DEFINE Fine(e) == e.ok /\ Reading(e.m, v, C, {})
             T == {k \in 0..N : Fine(after[k])}
  <1>3. 0 \in T
    BY <1>2 DEF Runs
  <1>4. ASSUME NEW n \in Nat, n < N, n \in T PROVE n + 1 \in T
    <2>1. PICK x, y, o : x = after[n] /\ y = after[n + 1] /\ o = s[n + 1]
      OBVIOUS
    <2>2. x.ok /\ Reading(x.m, v, C, {})
      BY <1>4, <2>1
    <2>3. n + 1 \in 0..N /\ n + 1 \in 1..N /\ y = IF x.ok THEN Step("loadHost", NoName, x.m, o) ELSE x
      BY <1>2, <1>4, <2>1, LoopStep
    <2>4. y = LoadHost(x.m, o)
      BY <2>2, <2>3 DEF Step
    <2>5. Shape(x.m) /\ IsHostEntry(o)
      BY <1>1, <2>1, <2>2, <2>3 DEF Reading
    <2>6. PICK name : name = LoadedName("h", o)
      OBVIOUS
    <2>7. y.ok /\ \E kind, p : HostAdded(x.m, kind, name, p, y.m) /\ FitsHost(kind, name, p)
      BY <2>4, <2>5, <2>6, LoadHostIs
    <2>8. Reading(y.m, v, C, {})
      BY <2>2, <2>7, HostRead
    <2>9. Fine(after[n + 1])
      BY <2>1, <2>7, <2>8
    <2> HIDE DEF Fine
    <2> QED
      BY <2>3, <2>9
  <1>5. \A n \in 0..N : n \in T
    <2> HIDE DEF T
    <2> QED
      BY <1>3, <1>4, UpTo
  <1>6. Fine(after[N])
    BY <1>5
  <1> QED
    BY <1>2, <1>6 DEF Runs

(* The switch w, just loaded into d, is linked to the controllers of S.    *)
LinkedTo(d, w, S, v, r) ==
    /\ r.ok /\ LinkedOnly(d, r.m) /\ Good(r.m, {w.item}) /\ DataPairs(r.m) = DataPairs(d)
    /\ \A c \in Nodes(d) : c.kind = "Controller" => (Managing(r.m, w, c) <=> c.name \in S)
    /\ v = 2 => Managed(r.m, {})
\* One controller of the list is linked to.
LEMMA OneLinkedTo ==
    ASSUME NEW d, Shape(d), NEW w \in Nodes(d), w.kind \in SwitchLike, HasList(d, w.name),
           NEW S, NEW v, NEW x, LinkedTo(d, w, S, v, x),
           NEW name, name \in ControllerNames(d), name \notin S,
           v = 2 => w.kind = "Switch" /\ name \in ToSet(ListOf(d, w)),
           NEW y, y = LinkByName(x.m, w.name, name, "control", {})
    PROVE  LinkedTo(d, w, S \cup {name}, v, y)
  <1>1. PICK c \in Nodes(d) : c.kind = "Controller" /\ c.name = name
    BY DEF ControllerNames
  <1>2. PICK e, X, opts, type, wname :
           e = x.m /\ X = {w.item} /\ opts = {} /\ type = "control" /\ wname = w.name
    OBVIOUS
  <1>3. /\ Shape(e) /\ SameNodes(d, e) /\ SameOpts(d, e) /\ e.counts = d.counts
        /\ \A a, b : Managing(d, a, b) => Managing(e, a, b)
    BY <1>2 DEF LinkedTo, LinkedOnly
  <1>4. Nodes(e) = Nodes(d) /\ HasList(e, w.name) /\ ListOf(e, w) = ListOf(d, w)
    BY <1>3 DEF Nodes, SameNodes, SameOpts, HasList, ListOf
  <1>5. Good(e, X) /\ DataPairs(e) = DataPairs(d) /\ (v = 2 => Managed(e, {}))
        /\ \A k \in Nodes(d) : k.kind = "Controller" => (Managing(e, w, k) <=> k.name \in S)
    BY <1>2 DEF LinkedTo
  <1>6. ~Managing(e, w, c)
    BY <1>1, <1>5
  <1>7. y = LinkByName(e, w.name, c.name, "control", opts)
    BY <1>1, <1>2
  <1>8. /\ y.ok /\ Good(y.m, X) /\ Managing(y.m, w, c)
        /\ w.kind = "Switch" /\ c.name \in ToSet(ListOf(e, w)) =>
              \A Z : Managed(e, Z) => Managed(y.m, Z)
        /\ DataPairs(y.m) = DataPairs(e)
        /\ \A k \in Nodes(e) : k # c => (Managing(y.m, w, k) => Managing(e, w, k))
    <2>1. w \in Nodes(e) /\ c \in Nodes(e)
      BY <1>4
    <2> QED
      BY <1>1, <1>3, <1>4, <1>5, <1>6, <1>7, <2>1, ControlLinkByName
  <1>9. LinkedOnly(e, y.m)
    <2>1. type \in {"data", "control"}
      BY <1>2
    <2>2. y = LinkByName(e, wname, name, type, opts)
      BY <1>1, <1>2, <1>7
    <2> QED
      BY <1>3, <2>1, <2>2, LinkByNameOnly
  <1>10. LinkedOnly(d, y.m)
    BY <1>3, <1>9 DEF LinkedOnly, SameNodes, SameOpts
  <1>11. \A k \in Nodes(d) : k.kind = "Controller" => (Managing(y.m, w, k) <=> k.name \in S \cup {name})
    <2>1. SUFFICES ASSUME NEW k \in Nodes(d), k.kind = "Controller"
                   PROVE  Managing(y.m, w, k) <=> k.name \in S \cup {name}
      OBVIOUS
    <2>2. CASE k = c
      BY <1>1, <1>8, <2>2
    <2>3. CASE k # c
      <3>1. k.name # name
        BY <1>1, <1>4, <1>5, <2>3 DEF Good, Named
      <3>2. Managing(y.m, w, k) <=> Managing(e, w, k)
        BY <1>4, <1>8, <1>9, <2>3 DEF LinkedOnly
      <3> QED
        BY <1>5, <2>1, <3>1, <3>2
    <2> QED
      BY <2>2, <2>3
  <1>12. v = 2 => Managed(y.m, {})
    BY <1>1, <1>4, <1>5, <1>8
  <1> QED
    BY <1>2, <1>5, <1>8, <1>10, <1>11, <1>12 DEF LinkedTo

\* All controllers of the list are.
LEMMA LinkControllersAre ==
    ASSUME NEW d, Shape(d), NEW w \in Nodes(d), w.kind \in SwitchLike, HasList(d, w.name),
           NEW v, NEW q, LinkedTo(d, w, {}, v, q),
           NEW s, IsSeq(s), NoTwice(s), ToSet(s) \subseteq ControllerNames(d),
           v = 2 => /\ s = <<>> \/ w.kind = "Switch"
                    /\ ToSet(s) \subseteq ToSet(ListOf(d, w)),
           NEW r, r = LinkControllers(q, w.name, s)
    PROVE  LinkedTo(d, w, ToSet(s), v, r)
  <1>0. PICK wname : wname = w.name
    OBVIOUS
  <1>1. PICK N \in Nat : Len(s) = N /\ DOMAIN s = 1..N
    BY SeqIs
  <1>2. PICK after : Runs(after, "linkController", wname, q, s, N, r)
    BY <1>0, <1>1, LinkControllersRuns
  <1> DEFINE Fine(e, k) == LinkedTo(d, w, Upto(s, k), v, e)
             T == {k \in 0..N : Fine(after[k], k)}
  <1>3. 0 \in T
    <2>1. Upto(s, 0) = {} /\ after[0] = q
      BY <1>2, UptoIs DEF Runs
    <2>2. Fine(after[0], 0)
      BY <2>1
    <2> HIDE DEF Fine
    <2> QED
      BY <2>2
  <1>4. ASSUME NEW n \in Nat, n < N, n \in T PROVE n + 1 \in T
    <2>1. PICK x, y, name : x = after[n] /\ y = after[n + 1] /\ name = s[n + 1]
      OBVIOUS
    <2>2. LinkedTo(d, w, Upto(s, n), v, x) /\ x.ok
      <3>1. LinkedTo(d, w, Upto(s, n), v, x)
        BY <1>4, <2>1
      <3> QED
        BY <3>1 DEF LinkedTo
    <2>3. n + 1 \in 0..N /\ n + 1 \in 1..N
          /\ y = IF x.ok THEN Step("linkController", wname, x.m, name) ELSE x
      BY <1>2, <1>4, <2>1, LoopStep
    <2>4. y = LinkByName(x.m, w.name, name, "control", {})
      BY <1>0, <2>2, <2>3 DEF Step
    <2>5. Upto(s, n + 1) = Upto(s, n) \cup {name} /\ name \notin Upto(s, n)
      BY <1>1, <1>4, <2>1, UptoIs
    <2>6. name \in ToSet(s)
      BY <1>1, <2>1, <2>3 DEF ToSet
    <2>7. name \in ControllerNames(d)
      BY <2>6
    <2>8. v = 2 => w.kind = "Switch" /\ name \in ToSet(ListOf(d, w))
      <3>1. ToSet(<<>>) = {}
        BY DEF ToSet
      <3> QED
        BY <2>6, <3>1
    <2>9. PICK S : S = Upto(s, n)
      OBVIOUS
    <2>10. LinkedTo(d, w, S \cup {name}, v, y)
      <3>1. LinkedTo(d, w, S, v, x) /\ name \notin S
        BY <2>2, <2>5, <2>9
      <3> QED
        BY <2>4, <2>7, <2>8, <3>1, OneLinkedTo
    <2>11. Fine(after[n + 1], n + 1)
      BY <2>1, <2>5, <2>9, <2>10
    <2> HIDE DEF Fine
    <2> QED
      BY <2>3, <2>11
  <1>5. \A n \in 0..N : n \in T
    <2> HIDE DEF T
    <2> QED
      BY <1>3, <1>4, UpTo
  <1>6. Fine(after[N], N)
    BY <1>5
  <1> QED
    BY <1>1, <1>2, <1>6, UptoIs DEF Runs

\* Whatever of it raises, no node is added.
LEMMA LinkControllersNodes ==
    ASSUME NEW q, Shape(q.m), NEW name, NEW s, IsSeq(s), NEW r, r = LinkControllers(q, name, s)
    PROVE  SameNodes(q.m, r.m)
  <1>1. PICK N \in Nat : Len(s) = N
    BY SeqIs
  <1>2. PICK after : Runs(after, "linkController", name, q, s, N, r)
    BY <1>1, LinkControllersRuns
  <1> DEFINE Fine(e) == Shape(e.m) /\ SameNodes(q.m, e.m)
             T == {k \in 0..N : Fine(after[k])}
  <1>3. 0 \in T
    BY <1>2 DEF Runs, SameNodes
  <1>4. ASSUME NEW n \in Nat, n < N, n \in T PROVE n + 1 \in T
    <2>1. PICK x, y, c, d, type, opts :
             /\ x = after[n] /\ y = after[n + 1] /\ c = s[n + 1] /\ d = x.m
             /\ type = "control" /\ opts = {}
      OBVIOUS
    <2>2. Shape(d) /\ SameNodes(q.m, d)
      BY <1>4, <2>1
    <2>3. n + 1 \in 0..N /\ y = IF x.ok THEN Step("linkController", name, x.m, c) ELSE x
      BY <1>2, <1>4, <2>1, LoopStep
    <2>4. Shape(y.m) /\ SameNodes(d, y.m)
      <3>1. CASE x.ok
        <4>1. y = LinkByName(d, name, c, type, opts) /\ type \in {"data", "control"}
          BY <2>1, <2>3, <3>1 DEF Step
        <4>2. LinkedOnly(d, y.m)
          BY <2>2, <4>1, LinkByNameOnly
        <4> QED
          BY <4>2 DEF LinkedOnly
      <3>2. CASE ~x.ok
        BY <2>1, <2>2, <2>3, <3>2 DEF SameNodes
      <3> QED
        BY <3>1, <3>2
    <2>5. SameNodes(q.m, y.m)
      BY <2>2, <2>4 DEF SameNodes
    <2>6. Fine(after[n + 1])
      BY <2>1, <2>4, <2>5
    <2> HIDE DEF Fine
    <2> QED
      BY <2>3, <2>6
  <1>5. \A n \in 0..N : n \in T
    <2> HIDE DEF T
    <2> QED
      BY <1>3, <1>4, UpTo
  <1>6. Fine(after[N])
    BY <1>5
  <1> QED
    BY <1>2, <1>6 DEF Runs

(* What a switch in a file lists.                                          *)
ListFits(o, C) ==
    /\ NoTwice(LoadedList(o)) /\ ToSet(LoadedList(o)) \subseteq C
    /\ LoadedKind(o) # "Switch" => LoadedList(o) = <<>>
\* An older file has one controller.
LEMMA OldControllers ==
    ASSUME NEW s, s = <<<<"c", 0>>>>
    PROVE  IsSeq(s) /\ NoTwice(s) /\ ToSet(s) = {<<"c", 0>>}
  <1>1. PICK c : c = <<"c", 0>>
    OBVIOUS
  <1>2. IsSeq(s) /\ Len(s) = 1 /\ s[1] = c
    BY <1>1, OldControllersSeq
  <1>3. DOMAIN s = 1..1
    BY <1>2, SeqIs
  <1>4. NoTwice(s) /\ ToSet(s) = {c}
    BY <1>2, <1>3 DEF NoTwice, ToSet
  <1> QED
    BY <1>1, <1>2, <1>4

\* A switch of the file, and its controllers.
LEMMA SwitchRead ==
    ASSUME NEW d, NEW v \in {1, 2}, NEW C, Reading(d, v, C, {}), v = 1 => C = {<<"c", 0>>},
           NEW o, IsSwitchEntry(o), ListFits(o, C), NEW r, r = LoadSwitch(d, o, v)
    PROVE  Reading(r.m, v, C, {})
  <1>0. Shape(d)
    BY DEF Reading
  <1>1. PICK p, e : SwitchLoaded(d, o, v, r, p, e)
    BY <1>0, LoadSwitchIs
  <1>2. PICK kind, name, list, s :
           /\ kind = LoadedKind(o) /\ name = LoadedName("s", o) /\ list = LoadedList(o)
           /\ s = IF v > 1 THEN list ELSE <<<<"c", 0>>>>
    OBVIOUS
  <1>3. /\ SwitchAdded(d, kind, name, p, e) /\ FitsSwitch(kind, name, p) /\ IsSeq(list)
        /\ p = [o EXCEPT !.hostname = name, !.controllers = list]
        /\ r = LinkControllers(Ok(e), name, s)
    BY <1>1, <1>2 DEF SwitchLoaded
  <1>4. p.controllers = list
    BY <1>3 DEF IsSwitchEntry
  <1>5. Shape(e) /\ NodeAdded(d, kind, name, e) /\ kind \in SwitchLike
    BY <1>0, <1>3, SwitchAddedShape DEF SwitchAdded
  <1>6. IsSeq(s) /\ NoTwice(s)
    BY <1>2, <1>3, OldControllers DEF ListFits
  <1>7. PICK q : q = Ok(e)
    OBVIOUS
  <1>8. q.ok /\ q.m = e /\ r = LinkControllers(q, name, s)
    BY <1>3, <1>7 DEF Ok
  <1>9. Shape(r.m)
    BY <1>5, <1>6, <1>8, LinkControllersShape
  <1>10. PICK w : w = [item |-> d.next, kind |-> kind, name |-> name]
    OBVIOUS
  <1>11. /\ Nodes(e) = Nodes(d) \cup {w} /\ w \notin Nodes(d)
         /\ Named(e) <=> Named(d) /\ name \notin NodeNames(d)
    BY <1>0, <1>5, <1>10, NodeAddedNames
  <1>12. w.item = d.next /\ w.kind = kind /\ w.name = name
    BY <1>10
  <1>13. SUFFICES ASSUME Named(r.m) PROVE Sound(r.m, v, C, {})
    BY <1>9 DEF Reading
  <1>14. Named(e)
    <2>1. SameNodes(e, r.m)
      BY <1>5, <1>6, <1>8, LinkControllersNodes
    <2> QED
      BY <1>13, <2>1, SameNames
  <1>15. Named(d) /\ Sound(d, v, C, {})
    BY <1>11, <1>14 DEF Reading
  <1>16. PICK X : X = {}
    OBVIOUS
  <1>17. Good(d, X) /\ ControllerNames(d) = C /\ DataPairs(d) = {} /\ Wired(d)
         /\ (v = 2 => Managed(d, {}))
    BY <1>15, <1>16 DEF Sound, Good
  <1>18. FitList(kind, p.controllers, ControllerNames(d))
    <2>1. NoTwice(list) /\ ToSet(list) \subseteq C /\ (kind # "Switch" => list = <<>>)
      BY <1>2 DEF ListFits
    <2>2. list # NoList
      BY <1>3, NoListIsNoSeq
    <2> QED
      BY <1>4, <1>17, <2>1, <2>2 DEF FitList
  <1>19. /\ Good(e, X \cup {d.next})
         /\ \A Z : Managed(d, Z) => Managed(e, Z)
    <2>1. Good(d, X) /\ SwitchAdded(d, kind, name, p, e) /\ FitsSwitch(kind, name, p)
      BY <1>3, <1>17
    <2>2. /\ Good(e, X \cup {d.next})
          /\ kind # "Switch" \/ p.controllers = <<>> => Good(e, X)
          /\ \A Z : Managed(d, Z) => Managed(e, Z)
      BY <1>0, <1>14, <1>18, <2>1, SwitchAddedGood
    <2> QED
      BY <2>2
  <1>20. Good(e, {w.item}) /\ (v = 2 => Managed(e, {}))
    <2>1. X \cup {d.next} = {w.item}
      BY <1>12, <1>16
    <2> QED
      BY <1>17, <1>19, <2>1
  <1>21. ControllerNames(e) = C /\ DataPairs(e) = {}
    <2>1. kind # "Controller"
      BY <1>5 DEF SwitchLike
    <2>2. ControllerNames(e) = ControllerNames(d)
      BY <1>0, <1>5, <2>1, NodeAddedControllers
    <2>3. DataPairs(e) = DataPairs(d)
      BY <1>0, <1>5, <1>17, NodeAddedPairs
    <2> QED
      BY <1>17, <2>2, <2>3
  <1>22. ListOf(e, w) = list /\ HasList(e, w.name)
    <2>1. name \in DOMAIN e.switchOpts /\ e.switchOpts[name] = p
      BY <1>3 DEF SwitchAdded, Entered
    <2>2. list # NoList
      BY <1>3, NoListIsNoSeq
    <2> QED
      BY <1>4, <1>12, <2>1, <2>2 DEF ListOf, HasList
  <1>23. LinkedTo(e, w, {}, v, q)
    <2>1. LinkedOnly(e, e)
      BY <1>5 DEF LinkedOnly, SameNodes, SameOpts
    <2>2. \A c \in Nodes(e) : ~Managing(e, w, c)
      <3>1. SUFFICES ASSUME NEW c \in Nodes(e), NEW l \in ToSet(e.links), Joins(l, w, c)
                     PROVE  FALSE
        BY DEF Managing
      <3>2. l \in ToSet(d.links)
        BY <1>5 DEF NodeAdded, SameLinks
      <3>3. \E a, b \in Nodes(d) : l.src = a.item /\ l.dest = b.item
        BY <1>17, <3>2 DEF Wired, WiredLink
      <3>4. \A a \in Nodes(d) : a.item # d.next
        BY <1>0 DEF Shape, Drawn, Nodes, IsNode
      <3> QED
        BY <1>12, <3>1, <3>3, <3>4 DEF Joins
    <2> QED
      BY <1>8, <1>20, <2>1, <2>2 DEF LinkedTo
  <1>24. LinkedTo(e, w, ToSet(s), v, r)
    <2>1. w \in Nodes(e) /\ w.kind \in SwitchLike
      BY <1>5, <1>11, <1>12
    <2>2. ToSet(s) \subseteq ControllerNames(e)
      <3>1. CASE v = 1
        <4>1. ToSet(s) = {<<"c", 0>>}
          BY <1>2, <3>1, OldControllers
        <4> QED
          BY <1>21, <3>1, <4>1
      <3>2. CASE v = 2
        BY <1>2, <1>21, <3>2 DEF ListFits
      <3> QED
        BY <3>1, <3>2
    <2>3. v = 2 => (s = <<>> \/ w.kind = "Switch") /\ ToSet(s) \subseteq ToSet(ListOf(e, w))
      BY <1>2, <1>12, <1>22 DEF ListFits
    <2>4. r = LinkControllers(q, w.name, s)
      BY <1>8, <1>12
    <2> QED
      BY <1>5, <1>6, <1>22, <1>23, <2>1, <2>2, <2>3, <2>4, LinkControllersAre
  <1>25. /\ LinkedOnly(e, r.m) /\ Good(r.m, {w.item}) /\ DataPairs(r.m) = {}
         /\ \A c \in Nodes(e) : c.kind = "Controller" => (Managing(r.m, w, c) <=> c.name \in ToSet(s))
         /\ v = 2 => Managed(r.m, {})
    BY <1>21, <1>24 DEF LinkedTo
  <1>26. Nodes(r.m) = Nodes(e) /\ ControllerNames(r.m) = C /\ ListOf(r.m, w) = list
    BY <1>21, <1>22, <1>25 DEF LinkedOnly, SameNodes, SameOpts, Nodes, ControllerNames, ListOf
  <1>27. ToSet(list) \subseteq ToSet(s)
    <2>1. CASE v = 2
      BY <1>2, <2>1
    <2>2. CASE v = 1
      <3>1. ToSet(s) = {<<"c", 0>>}
        BY <1>2, <2>2, OldControllers
      <3>2. ToSet(list) \subseteq C
        BY <1>2 DEF ListFits
      <3>3. C \subseteq {<<"c", 0>>}
        BY <2>2
      <3> QED
        BY <3>1, <3>2, <3>3
    <2> QED
      BY <2>1, <2>2
  <1>28. Good(r.m, {})
    <2>1. Good(r.m, X \cup {w.item})
      <3>1. X \cup {w.item} = {w.item}
        BY <1>16
      <3> QED
        BY <1>25, <3>1
    <2>2. w \in Nodes(r.m)
      BY <1>11, <1>26
    <2>3. \A c \in Nodes(r.m) :
             c.kind = "Controller" /\ c.name \in ToSet(ListOf(r.m, w)) => Managing(r.m, w, c)
      BY <1>25, <1>26, <1>27
    <2>4. Good(r.m, X)
      BY <1>9, <2>1, <2>2, <2>3, Finished
    <2> QED
      BY <1>16, <2>4
  <1> QED
    BY <1>25, <1>26, <1>28 DEF Sound

\* The switches of the file.
LEMMA LoadSwitchesRead ==
    ASSUME NEW q, NEW v \in {1, 2}, NEW C, Reading(q.m, v, C, {}), v = 1 => C = {<<"c", 0>>},
           NEW s, IsSeq(s), \A k \in DOMAIN s : IsSwitchEntry(s[k]) /\ ListFits(s[k], C),
           NEW r, r = LoadSwitches(q, s, v)
    PROVE  Reading(r.m, v, C, {})
  <1>1. PICK N \in Nat : Len(s) = N /\ DOMAIN s = 1..N
    BY SeqIs
  <1>0. PICK z : z = v
    OBVIOUS
  <1>2. PICK after : Runs(after, "loadSwitch", z, q, s, N, r)
    BY <1>0, <1>1, LoadSwitchesRuns
  <1> DEFINE Fine(e) == Reading(e.m, v, C, {})
             T == {k \in 0..N : Fine(after[k])}
  <1>3. 0 \in T
    BY <1>2 DEF Runs
  <1>4. ASSUME NEW n \in Nat, n < N, n \in T PROVE n + 1 \in T
    <2>1. PICK x, y, o : x = after[n] /\ y = after[n + 1] /\ o = s[n + 1]
      OBVIOUS
    <2>2. Reading(x.m, v, C, {})
      BY <1>4, <2>1
    <2>3. /\ n + 1 \in 0..N /\ n + 1 \in 1..N
          /\ y = IF x.ok THEN Step("loadSwitch", z, x.m, o) ELSE x
      <3>1. /\ n + 1 \in 1..N /\ n + 1 \in 0..N
            /\ after[n + 1] = IF after[n].ok THEN Step("loadSwitch", z, after[n].m, s[n + 1]) ELSE after[n]
        <4>1. PICK op : op = "loadSwitch"
          OBVIOUS
        <4>2. Runs(after, op, z, q, s, N, r)
          BY <1>2, <4>1
        <4> HIDE <1>2
        <4>3. /\ n + 1 \in 1..N /\ n + 1 \in 0..N
              /\ after[n + 1] = IF after[n].ok THEN Step(op, z, after[n].m, s[n + 1]) ELSE after[n]
          BY <1>4, <4>2, LoopStep
        <4> QED
          BY <4>1, <4>3
      <3> QED
        BY <2>1, <3>1
    <2>4. IsSwitchEntry(o) /\ ListFits(o, C)
      BY <1>1, <2>1, <2>3
    <2>5. Reading(y.m, v, C, {})
      <3>1. CASE x.ok
        <4>1. y = LoadSwitch(x.m, o, v)
          BY <1>0, <2>3, <3>1 DEF Step
        <4> QED
          BY <2>2, <2>4, <4>1, SwitchRead
      <3>2. CASE ~x.ok
        BY <2>2, <2>3, <3>2
      <3> QED
        BY <3>1, <3>2
    <2>6. Fine(after[n + 1])
      BY <2>1, <2>5
    <2> HIDE DEF Fine
    <2> QED
      BY <2>3, <2>6
  <1>5. \A n \in 0..N : n \in T
    <2> HIDE DEF T
    <2> QED
      BY <1>3, <1>4, UpTo
  <1>6. Fine(after[N])
    BY <1>5
  <1> QED
    BY <1>2, <1>6 DEF Runs

\* A link of the file.
LEMMA LinkRead ==
    ASSUME NEW d, NEW v, NEW C, NEW P, Reading(d, v, C, P), NEW a, NEW b, a # b,
           {a, b} \cap C = {}, {a, b} \notin P, NEW opts, NEW r, r = LinkByName(d, a, b, "data", opts)
    PROVE  Reading(r.m, v, C, P \cup {{a, b}})
  <1>1. PICK type : type = "data" /\ type \in {"data", "control"}
    OBVIOUS
  <1>2. Shape(d) /\ r = LinkByName(d, a, b, type, opts)
    BY <1>1 DEF Reading
  <1>3. LinkedOnly(d, r.m)
    BY <1>1, <1>2, LinkByNameOnly
  <1>4. Shape(r.m) /\ SameNodes(d, r.m)
    BY <1>3 DEF LinkedOnly
  <1>5. ASSUME Named(r.m) PROVE Sound(r.m, v, C, P \cup {{a, b}})
    <2>1. Named(d)
      BY <1>4, <1>5, SameNames
    <2>2. Good(d, {}) /\ (v = 2 => Managed(d, {})) /\ ControllerNames(d) = C /\ DataPairs(d) \subseteq P
      BY <2>1 DEF Reading, Sound
    <2>3. PICK X : X = {}
      OBVIOUS
    <2>4. DataLinked(d, X, a, b, r)
      <3>1. Good(d, X) /\ {a, b} \cap ControllerNames(d) = {} /\ {a, b} \notin DataPairs(d)
        BY <2>2, <2>3
      <3> QED
        BY <1>2, <3>1, DataLinkByName
    <2>5. /\ Good(r.m, X) /\ \A Z : Managed(d, Z) => Managed(r.m, Z)
          /\ DataPairs(r.m) \subseteq DataPairs(d) \cup {{a, b}}
      BY <2>4 DEF DataLinked
    <2>6. ControllerNames(r.m) = C
      BY <1>4, <2>2 DEF ControllerNames, SameNodes, Nodes
    <2> QED
      BY <2>2, <2>3, <2>5, <2>6 DEF Sound
  <1> QED
    BY <1>4, <1>5 DEF Reading

\* The links of the file.
LEMMA LoadLinksRead ==
    ASSUME NEW q, NEW v, NEW C, Reading(q.m, v, C, {}), NEW s, IsSeq(s),
           \A i \in DOMAIN s :
              /\ s[i].src # s[i].dest /\ {s[i].src, s[i].dest} \cap C = {}
              /\ \A j \in DOMAIN s : {s[i].src, s[i].dest} = {s[j].src, s[j].dest} => i = j,
           NEW r, r = LoadLinks(q, s)
    PROVE  \E P : Reading(r.m, v, C, P)
  <1>1. PICK N \in Nat : Len(s) = N /\ DOMAIN s = 1..N
    BY SeqIs
  <1>2. PICK after : Runs(after, "loadLink", NoName, q, s, N, r)
    BY <1>1, LoadLinksRuns
  <1> DEFINE Pairs(k) == {{s[j].src, s[j].dest} : j \in 1..k}
             Fine(e, k) == Reading(e.m, v, C, Pairs(k))
             T == {k \in 0..N : Fine(after[k], k)}
  <1>3. 0 \in T
    <2>1. Pairs(0) = {}
      OBVIOUS
    <2>2. Reading(after[0].m, v, C, {})
      BY <1>2 DEF Runs
    <2>3. Fine(after[0], 0)
      BY <2>1, <2>2
    <2> HIDE DEF Fine
    <2> QED
      BY <2>3
  <1>4. ASSUME NEW n \in Nat, n < N, n \in T PROVE n + 1 \in T
    <2>1. PICK x, y, l, a, b, opts :
             /\ x = after[n] /\ y = after[n + 1] /\ l = s[n + 1]
             /\ a = s[n + 1].src /\ b = s[n + 1].dest /\ opts = s[n + 1].opts
      OBVIOUS
    <2>2. Reading(x.m, v, C, Pairs(n))
      BY <1>4, <2>1
    <2>3. n + 1 \in 0..N /\ n + 1 \in 1..N /\ y = IF x.ok THEN Step("loadLink", NoName, x.m, l) ELSE x
      BY <1>2, <1>4, <2>1, LoopStep
    <2>4. a # b /\ {a, b} \cap C = {}
      BY <1>1, <2>1, <2>3
    <2>5. {a, b} \notin Pairs(n)
      <3>1. SUFFICES ASSUME NEW j \in 1..n, {a, b} = {s[j].src, s[j].dest} PROVE FALSE
        OBVIOUS
      <3>2. j \in DOMAIN s /\ n + 1 \in DOMAIN s /\ j # n + 1
        BY <1>1, <1>4, <2>3
      <3>3. \A i \in DOMAIN s : {s[n + 1].src, s[n + 1].dest} = {s[i].src, s[i].dest} => n + 1 = i
        BY <3>2
      <3> QED
        BY <2>1, <3>1, <3>2, <3>3
    <2>6. Pairs(n + 1) = Pairs(n) \cup {{a, b}}
      <3>1. 1..(n + 1) = (1..n) \cup {n + 1}
        BY <1>4
      <3> QED
        BY <2>1, <3>1
    <2> HIDE DEF Pairs
    <2>7. CASE ~x.ok
      <3>1. Reading(x.m, v, C, Pairs(n + 1))
        BY <2>2, <2>6 DEF Reading, Sound
      <3> QED
        BY <2>1, <2>3, <2>7, <3>1
    <2>8. CASE x.ok
      <3>1. y = LinkByName(x.m, a, b, "data", opts)
        BY <2>1, <2>3, <2>8 DEF Step, LoadLink
      <3>2. PICK P : P = Pairs(n)
        OBVIOUS
      <3>3. Reading(y.m, v, C, P \cup {{a, b}})
        <4>1. Reading(x.m, v, C, P) /\ {a, b} \notin P
          BY <2>2, <2>5, <3>2
        <4> QED
          BY <2>4, <3>1, <4>1, LinkRead
      <3>4. Reading(y.m, v, C, Pairs(n + 1))
        BY <2>6, <3>2, <3>3
      <3> QED
        BY <2>1, <2>3, <3>4
    <2> QED
      BY <2>7, <2>8
  <1>5. \A n \in 0..N : n \in T
    <2> HIDE DEF T
    <2> QED
      BY <1>3, <1>4, UpTo
  <1>6. Fine(after[N], N)
    <2>1. N \in T
      <3> HIDE DEF T
      <3> QED
        BY <1>5
    <2> HIDE DEF Fine
    <2> QED
      BY <2>1
  <1>7. Reading(r.m, v, C, Pairs(N))
    BY <1>2, <1>6 DEF Runs
  <1> QED
    BY <1>7

(* What a file that is well formed says to loadTopology().                 *)
LEMMA FileFits ==
    ASSUME NEW f, WellFormed(f), NEW C, C = Names(f.controllers)
    PROVE  /\ IsFile(f) /\ f.version \in {1, 2} /\ (f.version = 1 => C = {<<"c", 0>>})
           /\ \A k \in DOMAIN f.switches : ListFits(f.switches[k], C)
           /\ \A i \in DOMAIN f.links :
                 /\ f.links[i].src # f.links[i].dest /\ {f.links[i].src, f.links[i].dest} \cap C = {}
                 /\ \A j \in DOMAIN f.links :
                       {f.links[i].src, f.links[i].dest} = {f.links[j].src, f.links[j].dest} => i = j
  <1>1. IsFile(f)
    BY FileIs
  <1>2. f.version \in {1, 2} /\ (f.version = 1 => C = {<<"c", 0>>})
    BY DEF WellFormed
  <1>3. ASSUME NEW k \in DOMAIN f.switches PROVE ListFits(f.switches[k], C)
    <2>1. PICK o, list : o = f.switches[k] /\ list = LoadedList(o)
      OBVIOUS
    <2>2. o \in ToSet(f.switches)
      BY <2>1 DEF ToSet
    <2>3. ListsControllers(f, o)
      BY <2>2 DEF WellFormed
    <2>4. ToSet(<<>>) = {} /\ NoTwice(<<>>)
      BY DEF ToSet, NoTwice
    <2>5. CASE o.controllers = NoList
      <3>1. list = <<>>
        BY <2>1, <2>5 DEF LoadedList
      <3> QED
        BY <2>1, <2>4, <3>1 DEF ListFits
    <2>6. CASE o.controllers # NoList
      <3>1. list = o.controllers
        BY <2>1, <2>6 DEF LoadedList
      <3>2. Once(list) /\ ToSet(list) \subseteq C
            /\ (o.type \in {"legacySwitch", "legacyRouter"} => list = <<>>)
        BY <2>3, <2>6, <3>1 DEF ListsControllers
      <3>3. NoTwice(list)
        BY <3>2, OnceIs
      <3>4. LoadedKind(o) # "Switch" => list = <<>>
        BY <3>2 DEF LoadedKind
      <3> QED
        BY <2>1, <3>2, <3>3, <3>4 DEF ListFits
    <2> QED
      BY <2>5, <2>6
  <1>4. \A i \in DOMAIN f.links :
           /\ f.links[i].src # f.links[i].dest /\ {f.links[i].src, f.links[i].dest} \cap C = {}
           /\ \A j \in DOMAIN f.links :
                 {f.links[i].src, f.links[i].dest} = {f.links[j].src, f.links[j].dest} => i = j
    BY DEF WellFormed, JoinsOthers
  <1> QED
    BY <1>1, <1>2, <1>3, <1>4

(* loadTopology() makes a good drawing of a file whose names differ.       *)
LEMMA LoadedGood ==
    ASSUME NEW d, Shape(d), Good(d, {}), NEW t, t # "disabled", NEW f, WellFormed(f),
           NEW e, e = Loaded(d, t, f).m, Named(e)
    PROVE  Good(e, {}) /\ (f.version = 2 => Managed(e, {}))
  <1>1. PICK n : n = NewTopology(d, t)
    OBVIOUS
  <1>2. PICK c : c = LoadControllers(n, f.controllers)
    OBVIOUS
  <1>3. PICK h : h = LoadHosts(c, f.hosts)
    OBVIOUS
  <1>4. PICK v : v = f.version
    OBVIOUS
  <1>5. PICK s : s = LoadSwitches(h, f.switches, v)
    OBVIOUS
  <1>6. PICK r : r = LoadLinks(s, f.links)
    OBVIOUS
  <1>7. e = r.m
    BY <1>1, <1>2, <1>3, <1>4, <1>5, <1>6 DEF Loaded
  <1>8. PICK C : C = Names(f.controllers)
    OBVIOUS
  <1>9. /\ IsFile(f) /\ v \in {1, 2} /\ (v = 1 => C = {<<"c", 0>>})
        /\ \A k \in DOMAIN f.switches : ListFits(f.switches[k], C)
        /\ \A i \in DOMAIN f.links :
              /\ f.links[i].src # f.links[i].dest /\ {f.links[i].src, f.links[i].dest} \cap C = {}
              /\ \A j \in DOMAIN f.links :
                    {f.links[i].src, f.links[i].dest} = {f.links[j].src, f.links[j].dest} => i = j
    BY <1>4, <1>8, FileFits
  <1>10. n.ok /\ Shape(n.m) /\ Blank(n.m)
    BY <1>1, NewTopologyBlank
  <1>11. Reading(n.m, v, {}, {})
    BY <1>10, BlankIs DEF Reading, Sound
  <1>12. c.ok /\ Reading(c.m, v, C, {})
    BY <1>2, <1>8, <1>9, <1>10, <1>11, LoadControllersRead DEF IsFile
  <1>13. h.ok /\ Reading(h.m, v, C, {})
    BY <1>3, <1>9, <1>12, LoadHostsRead DEF IsFile
  <1>14. Reading(s.m, v, C, {})
    <2>1. IsSeq(f.switches) /\ \A k \in DOMAIN f.switches :
             IsSwitchEntry(f.switches[k]) /\ ListFits(f.switches[k], C)
      BY <1>9 DEF IsFile
    <2> QED
      BY <1>5, <1>9, <1>13, <2>1, LoadSwitchesRead
  <1>15. \E P : Reading(r.m, v, C, P)
    <2>1. IsSeq(f.links)
      BY <1>9 DEF IsFile
    <2> QED
      BY <1>6, <1>9, <1>14, <2>1, LoadLinksRead
  <1> QED
    BY <1>4, <1>7, <1>15 DEF Reading, Sound

(***************************************************************************)
(* What saveTopology() writes of a good drawing can be read again.         *)
(***************************************************************************)
LEMMA TextIs ==
    ASSUME NEW d, Shape(d), d.gone = {}, NEW w \in Nodes(d)
    PROVE  Text(d, w.item) = w.name
  <1>1. \A v \in Nodes(d) : v.item = w.item => v = w
    BY NodesDiffer
  <1>2. Nodes(d) \cup d.gone = Nodes(d)
    OBVIOUS
  <1> QED
    BY <1>1, <1>2 DEF Text

(* The nodes of a data link, as the file names them.                       *)
LEMMA DataLinkIs ==
    ASSUME NEW d, Shape(d), NEW X, Good(d, X), NEW l \in ToSet(d.links), l.type = "data"
    PROVE  \E v, w \in Nodes(d) :
              /\ v # w /\ v.name # w.name /\ l.src = v.item /\ l.dest = w.item
              /\ v.name \notin ControllerNames(d) /\ w.name \notin ControllerNames(d)
              /\ Text(d, l.src) = v.name /\ Text(d, l.dest) = w.name
  <1>1. Wired(d) /\ Named(d) /\ d.gone = {}
    BY DEF Good, Wired
  <1>2. WiredLink(d, l)
    BY <1>1 DEF Wired
  <1>3. PICK v, w \in Nodes(d) : v # w /\ l.src = v.item /\ l.dest = w.item /\ MayJoin(l.type, v, w)
    BY <1>2 DEF WiredLink
  <1>4. v.kind # "Controller" /\ w.kind # "Controller"
    BY <1>3 DEF MayJoin
  <1>5. v.name \notin ControllerNames(d) /\ w.name \notin ControllerNames(d) /\ v.name # w.name
    BY <1>1, <1>3, <1>4 DEF Named, ControllerNames
  <1>6. Text(d, v.item) = v.name /\ Text(d, w.item) = w.name
    BY <1>1, TextIs
  <1> QED
    BY <1>3, <1>5, <1>6

\* Two data links of a good drawing join different names.
LEMMA PairsDiffer ==
    ASSUME NEW d, Shape(d), NEW X, Good(d, X), NEW k \in ToSet(d.links), NEW l \in ToSet(d.links),
           k.type = "data", l.type = "data",
           {Text(d, k.src), Text(d, k.dest)} = {Text(d, l.src), Text(d, l.dest)}
    PROVE  k = l
  <1>1. PICK v, w \in Nodes(d) :
              /\ v # w /\ v.name # w.name /\ k.src = v.item /\ k.dest = w.item
              /\ v.name \notin ControllerNames(d) /\ w.name \notin ControllerNames(d)
              /\ Text(d, k.src) = v.name /\ Text(d, k.dest) = w.name
    BY DataLinkIs
  <1>2. PICK x, y \in Nodes(d) :
              /\ x # y /\ x.name # y.name /\ l.src = x.item /\ l.dest = y.item
              /\ x.name \notin ControllerNames(d) /\ y.name \notin ControllerNames(d)
              /\ Text(d, l.src) = x.name /\ Text(d, l.dest) = y.name
    BY DataLinkIs
  <1>3. Named(d) /\ Wired(d)
    BY DEF Good
  <1>4. {v.name, w.name} = {x.name, y.name}
    BY <1>1, <1>2
  <1>5. (v = x /\ w = y) \/ (v = y /\ w = x)
    BY <1>1, <1>2, <1>3, <1>4 DEF Named
  <1>6. <<k.src, k.dest>> \in {<<l.src, l.dest>>, <<l.dest, l.src>>}
    BY <1>1, <1>2, <1>5
  <1>7. {<<k.src, k.dest>>, <<k.dest, k.src>>} \cap {<<l.src, l.dest>>, <<l.dest, l.src>>} # {}
    BY <1>6
  <1> QED
    BY <1>3, <1>7, LinksDiffer

\* So do those of the file.
LEMMA SavedLinks ==
    ASSUME NEW d, Shape(d), NEW X, Good(d, X), NEW s, s = DataLinks(d), NEW C, C = ControllerNames(d),
           NEW r, r = [k \in DOMAIN s |-> [src |-> Text(d, s[k].src), dest |-> Text(d, s[k].dest),
                                           opts |-> s[k].opts]]
    PROVE  \A i \in DOMAIN r :
              /\ r[i].src # r[i].dest /\ {r[i].src, r[i].dest} \cap C = {}
              /\ \A j \in DOMAIN r : {r[i].src, r[i].dest} = {r[j].src, r[j].dest} => i = j
  <1>1. IsSeq(d.links) /\ ItemsDiffer(d.links)
    BY DEF Shape, Drawn
  <1>2. PICK q, S : q = d.links /\ S = {l \in ToSet(d.links) : l.type = "data"} /\ s = Chosen(q, S)
    BY DEF DataLinks
  <1>3. /\ IsSeq(s) /\ ToSet(s) = ToSet(q) \cap S
        /\ \E h : /\ \A i \in DOMAIN s : h[i] \in DOMAIN q /\ s[i] = q[h[i]]
                  /\ \A i, j \in DOMAIN s : h[i] = h[j] => i = j
    <2>1. IsSeq(q) /\ s = Chosen(q, S)
      BY <1>1, <1>2
    <2> HIDE <1>2
    <2> QED
      BY <2>1, ChosenIs
  <1>4. PICK h : /\ \A i \in DOMAIN s : h[i] \in DOMAIN q /\ s[i] = q[h[i]]
                 /\ \A i, j \in DOMAIN s : h[i] = h[j] => i = j
    BY <1>3
  <1>5. \A i, j \in DOMAIN s : s[i] = s[j] => i = j
    BY <1>1, <1>2, <1>4 DEF ItemsDiffer
  <1>6. DOMAIN r = DOMAIN s /\ \A i \in DOMAIN s : s[i] \in ToSet(d.links) /\ s[i].type = "data"
    <2>1. \A i \in DOMAIN s : s[i] \in ToSet(s)
      BY DEF ToSet
    <2> QED
      BY <1>2, <1>3, <2>1
  <1>7. ASSUME NEW i \in DOMAIN r
        PROVE  /\ r[i].src = Text(d, s[i].src) /\ r[i].dest = Text(d, s[i].dest)
               /\ r[i].src # r[i].dest /\ {r[i].src, r[i].dest} \cap C = {}
    <2>1. PICK l : l = s[i]
      OBVIOUS
    <2>2. l \in ToSet(d.links) /\ l.type = "data"
      BY <1>6, <2>1
    <2>3. PICK v, w \in Nodes(d) :
              /\ v # w /\ v.name # w.name /\ l.src = v.item /\ l.dest = w.item
              /\ v.name \notin ControllerNames(d) /\ w.name \notin ControllerNames(d)
              /\ Text(d, l.src) = v.name /\ Text(d, l.dest) = w.name
      BY <2>2, DataLinkIs
    <2>4. r[i].src = Text(d, l.src) /\ r[i].dest = Text(d, l.dest)
      BY <1>6, <2>1
    <2> QED
      BY <2>1, <2>3, <2>4
  <1>8. ASSUME NEW i \in DOMAIN r, NEW j \in DOMAIN r,
               {r[i].src, r[i].dest} = {r[j].src, r[j].dest}
        PROVE  i = j
    <2>1. PICK k, l : k = s[i] /\ l = s[j]
      OBVIOUS
    <2>2. k \in ToSet(d.links) /\ k.type = "data" /\ l \in ToSet(d.links) /\ l.type = "data"
      BY <1>6, <2>1
    <2>3. {Text(d, k.src), Text(d, k.dest)} = {Text(d, l.src), Text(d, l.dest)}
      BY <1>7, <1>8, <2>1
    <2>4. k = l
      BY <2>2, <2>3, PairsDiffer
    <2> QED
      BY <1>5, <1>6, <2>1, <2>4
  <1> QED
    BY <1>7, <1>8, ZenonT(60)

\* saveTopology() finds options for every node of a good drawing.
LEMMA EquippedHasOpts ==
    ASSUME NEW d, Equipped(d)
    PROVE  AllHaveOpts(d)
  BY DEF Equipped, EquippedNode, AllHaveOpts

\* saveTopology() writes what loadTopology() can read.
LEMMA SavedWellFormed ==
    ASSUME NEW d, Shape(d), Good(d, {}), NEW p \in {"ovs", "user"}, NEW f, f = Saved(d, p)
    PROVE  WellFormed(f) /\ f.version = 2
  <1>1. Equipped(d)
    BY DEF Good
  <1>2. IsFile(f) /\ f.prefs = p /\ f.version = 2
    BY <1>1, EquippedHasOpts, SavedIsFile
  <1>3. PICK hosts, switches, controllers, links :
           SavedAs(d, p, f, hosts, switches, controllers, links)
    BY SavedIs
  <1>4. PICK C : C = ControllerNames(d)
    OBVIOUS
  <1>5. Names(f.controllers) = C
    <2>1. DOMAIN f.controllers = DOMAIN controllers
          /\ \A k \in DOMAIN controllers : f.controllers[k].hostname = controllers[k].name
      BY <1>3 DEF SavedAs
    <2>2. Names(f.controllers) = {controllers[k].name : k \in DOMAIN controllers}
      BY <2>1 DEF Names, ToSet
    <2>3. C = {w.name : w \in ToSet(controllers)}
      BY <1>3, <1>4 DEF ControllerNames, SavedAs
    <2> QED
      BY <2>2, <2>3 DEF ToSet
  <1>6. Listing(f.controllers) /\ Listing(f.hosts) /\ Listing(f.switches) /\ Listing(f.links)
    BY <1>2, SeqIs DEF IsFile, Listing
  <1>7. ASSUME NEW o \in ToSet(f.hosts)
        PROVE  o = HostOpts(IF o.docker THEN "Docker" ELSE "Host", o.num, o.hostname, o.extra)
    <2>1. PICK k \in DOMAIN f.hosts : o = f.hosts[k]
      BY DEF ToSet
    <2>2. IsHostEntry(o)
      BY <1>2, <2>1 DEF IsFile
    <2>3. PICK kind : kind = IF o.docker THEN "Docker" ELSE "Host"
      OBVIOUS
    <2>4. PICK b \in BOOLEAN : b = o.docker
      BY <2>2 DEF IsHostEntry
    <2>5. b = (kind = "Docker")
      BY <2>3, <2>4
    <2>6. o = [num |-> o.num, hostname |-> o.hostname, docker |-> b, extra |-> o.extra]
      BY <2>2, <2>4 DEF IsHostEntry
    <2>7. o = HostOpts(kind, o.num, o.hostname, o.extra)
      BY <2>5, <2>6 DEF HostOpts
    <2> QED
      BY <2>3, <2>7
  <1>8. ASSUME NEW o \in ToSet(f.switches)
        PROVE  /\ o = SwitchOpts(o.type, o.num, o.hostname, o.controllers, o.extra)
               /\ ListsControllers(f, o)
    <2>1. PICK k \in DOMAIN f.switches : o = f.switches[k]
      BY DEF ToSet
    <2>2. IsSwitchEntry(o)
      BY <1>2, <2>1 DEF IsFile
    <2>3. o = SwitchOpts(o.type, o.num, o.hostname, o.controllers, o.extra)
      BY <2>2 DEF IsSwitchEntry, SwitchOpts
    <2>4. PICK w : w = switches[k]
      OBVIOUS
    <2>5. k \in DOMAIN switches /\ o = d.switchOpts[w.name]
      BY <1>3, <2>1, <2>4 DEF SavedAs
    <2>6. w \in Nodes(d) /\ w.kind \in SwitchLike
      <3>1. w \in ToSet(switches)
        BY <2>4, <2>5 DEF ToSet
      <3> QED
        BY <1>3, <3>1 DEF SavedAs
    <2>7. FitsSwitch(w.kind, w.name, o) /\ FitList(w.kind, o.controllers, C)
      BY <1>1, <1>4, <2>5, <2>6 DEF Equipped, EquippedNode, ListOf
    <2>8. o.controllers # NoList =>
             /\ Once(o.controllers) /\ ToSet(o.controllers) \subseteq C
             /\ o.type \in {"legacySwitch", "legacyRouter"} => o.controllers = <<>>
      <3>1. HAVE o.controllers # NoList
      <3>2. IsSeq(o.controllers)
        BY <2>2, <3>1 DEF IsSwitchEntry
      <3>3. NoTwice(o.controllers) /\ ToSet(o.controllers) \subseteq C
        BY <2>7, <3>1 DEF FitList
      <3>4. Once(o.controllers)
        BY <3>2, <3>3, OnceIs
      <3>5. o.type \in {"legacySwitch", "legacyRouter"} => o.controllers = <<>>
        BY <2>7, <3>1 DEF FitsSwitch, FitList
      <3> QED
        BY <3>3, <3>4, <3>5
    <2> QED
      BY <1>5, <2>3, <2>8 DEF ListsControllers
  <1>9. \A i \in DOMAIN f.links : JoinsOthers(f, i)
    <2>1. PICK r : r = f.links
      OBVIOUS
    <2>2. links = DataLinks(d)
          /\ r = [k \in DOMAIN links |-> [src |-> Text(d, links[k].src),
                                          dest |-> Text(d, links[k].dest), opts |-> links[k].opts]]
      BY <1>3, <2>1 DEF SavedAs
    <2>3. \A i \in DOMAIN r :
              /\ r[i].src # r[i].dest /\ {r[i].src, r[i].dest} \cap C = {}
              /\ \A j \in DOMAIN r : {r[i].src, r[i].dest} = {r[j].src, r[j].dest} => i = j
      BY <1>4, <2>2, SavedLinks
    <2> QED
      BY <1>5, <2>1, <2>3 DEF JoinsOthers
  <1> QED
    BY <1>2, <1>6, <1>7, <1>8, <1>9 DEF WellFormed

(***************************************************************************)
(* Every gesture leaves a good drawing, but for those known to go wrong.   *)
(***************************************************************************)
LEMMA OpenedGood ==
    ASSUME NEW d, Shape(d), Good(d, {}), NEW t, NEW x, "fileWhileRunning" \notin x, NEW e,
           Opened(d, t, x, e), Named(e)
    PROVE  Good(e, {}) /\ ("oldFile" \notin x => Managed(e, {}))
  <1>1. PICK f : /\ WellFormed(f) \/ (AllHaveOpts(d) /\ \E p \in {"ovs", "user"} : f = Saved(d, p))
                 /\ e = Loaded(d, t, f).m
                 /\ t # "disabled" \/ "fileWhileRunning" \in x
                 /\ f.version = 1 => "oldFile" \in x
    BY DEF Opened
  <1>2. WellFormed(f)
    BY <1>1, SavedWellFormed
  <1>3. f.version \in {1, 2}
    BY <1>2 DEF WellFormed
  <1>4. Good(e, {}) /\ (f.version = 2 => Managed(e, {}))
    BY <1>1, <1>2, LoadedGood
  <1> QED
    BY <1>1, <1>3, <1>4

\* Every gesture keeps a drawing good, but for those known to go wrong.
LEMMA ChangedGood ==
    ASSUME NEW d, Shape(d), Good(d, {}), NEW t, NEW x,
           "dockerControl" \notin x, "staleDialog" \notin x, "fileWhileRunning" \notin x,
           NEW e, Changed(d, t, x, e), Named(e)
    PROVE  Good(e, {}) /\ (Managed(d, {}) /\ "oldFile" \notin x => Managed(e, {}))
  <1>1. CASE ToolUsed(d, e)
    <2>1. PICK kind \in AllKinds : e = NewNode(d, kind)
      BY <1>1 DEF ToolUsed
    <2>2. PICK X : X = {}
      OBVIOUS
    <2>3. Good(e, X) /\ \A Z : Managed(d, Z) => Managed(e, Z)
      BY <2>1, <2>2, NewNodeGood
    <2> QED
      BY <2>2, <2>3
  <1>2. CASE LinkDragged(d, x, e)
    BY <1>2, LinkDraggedGood
  <1>3. CASE ItemDeleted(d, t, e)
    <2>1. PICK item, r : r = DeleteItem(d, t, item) /\ e = r.m
      BY <1>3 DEF ItemDeleted
    <2>2. Left(d, r)
      BY <2>1, ItemDeletedGood
    <2> QED
      BY <2>1, <2>2 DEF Left
  <1>4. CASE DetailsApplied(d, x, e)
    BY <1>4, DetailsAppliedGood
  <1>5. CASE ControllerRenamed(d, e)
    BY <1>5, ControllerRenamedGood
  <1>6. CASE Renewed(d, t, x, e)
    <2>1. PICK r : r = NewTopology(d, t) /\ e = r.m
      BY <1>6 DEF Renewed
    <2>2. t # "disabled"
      BY <1>6 DEF Renewed
    <2>3. Blank(e)
      BY <2>1, <2>2, NewTopologyBlank
    <2> QED
      BY <2>3, BlankIs
  <1>7. CASE Opened(d, t, x, e)
    BY <1>7, OpenedGood
  <1> QED
    BY <1>1, <1>2, <1>3, <1>4, <1>5, <1>6, <1>7 DEF Changed

(***************************************************************************)
(* The invariant: a drawing that no gesture spoiled is good.               *)
(***************************************************************************)
Unspoiled == Without({"nameTaken", "dockerControl", "staleDialog", "fileWhileRunning"})
LinksInv ==
    /\ TypeInv
    /\ Unspoiled => Good(m, {})
    /\ Orderly => Managed(m, {})

\* It holds of the empty drawing and of those of --topo.
LEMMA InitLinks ==
    ASSUME Init
    PROVE  LinksInv
  <1>1. TypeInv
    BY InitTypes
  <1>2. PICK d : d = m
    OBVIOUS
  <1>3. d = EmptyModel \/ \E t \in Imports : d = Imported(t)
    BY <1>2 DEF Init
  <1>4. Good(d, {}) /\ Managed(d, {})
    <2>1. CASE d = EmptyModel
      BY <2>1, EmptyPart DEF Part
    <2>2. CASE \E t \in Imports : d = Imported(t)
      BY <2>2, ImportedPart DEF Part
    <2> QED
      BY <1>3, <2>1, <2>2
  <1> QED
    BY <1>1, <1>2, <1>4 DEF LinksInv

\* Every gesture keeps it.
LEMMA NextLinks ==
    ASSUME LinksInv, [Next]_vars
    PROVE  LinksInv'
  <1>1. TypeInv /\ TypeInv'
    BY NextTypes DEF LinksInv
  <1>2. PICK d, e, t, x, y : d = m /\ e = m' /\ t = tools /\ x = trouble' /\ y = trouble
    OBVIOUS
  <1>3. /\ y \subseteq x
        /\ \/ e = d
           \/ Restyled(d, e)
           \/ Changed(d, t, x, e) /\ (DistinctNames(e) \/ "nameTaken" \in x)
    BY <1>1, <1>2, NextChanges
  <1>4. Shape(d) /\ Shape(e)
    BY <1>1, <1>2 DEF TypeInv
  <1>5. (Unspoiled => Good(d, {})) /\ (Orderly => Managed(d, {}))
    BY <1>2 DEF LinksInv
  <1>6. /\ Unspoiled <=> {"nameTaken", "dockerControl", "staleDialog", "fileWhileRunning"} \cap y = {}
        /\ Orderly <=> Unspoiled /\ "oldFile" \notin y
    BY <1>2 DEF Unspoiled, Orderly, Without
  <1>7. /\ Unspoiled' <=> {"nameTaken", "dockerControl", "staleDialog", "fileWhileRunning"} \cap x = {}
        /\ Orderly' <=> Unspoiled' /\ "oldFile" \notin x
    BY <1>2 DEF Unspoiled, Orderly, Without
  <1>8. ASSUME Unspoiled' PROVE Good(e, {}) /\ (Orderly' => Managed(e, {}))
    <2>1. /\ "nameTaken" \notin x /\ "dockerControl" \notin x /\ "staleDialog" \notin x
          /\ "fileWhileRunning" \notin x
      BY <1>7, <1>8
    <2>2. Unspoiled /\ (Orderly' => Orderly /\ "oldFile" \notin x)
      BY <1>3, <1>6, <1>7, <1>8
    <2>3. Good(d, {}) /\ (Orderly' => Managed(d, {}) /\ "oldFile" \notin x)
      BY <1>5, <2>2
    <2>4. CASE e = d
      BY <2>3, <2>4
    <2>5. CASE Restyled(d, e)
      BY <1>4, <2>3, <2>5, RestyledGood
    <2>6. CASE Changed(d, t, x, e) /\ (DistinctNames(e) \/ "nameTaken" \in x)
      <3>1. Named(e)
        BY <1>4, <2>1, <2>6, NamesDiffer
      <3>2. Good(e, {}) /\ (Managed(d, {}) /\ "oldFile" \notin x => Managed(e, {}))
        BY <1>4, <2>1, <2>3, <2>6, <3>1, ChangedGood
      <3> QED
        BY <2>3, <3>2
    <2> QED
      BY <1>3, <2>4, <2>5, <2>6
  <1>9. (Unspoiled => Good(m, {}))' /\ (Orderly => Managed(m, {}))'
    BY <1>2, <1>7, <1>8
  <1> QED
    BY <1>1, <1>9 DEF LinksInv

\* Whatever the user draws, deletes, renames, saves and opens, the drawing
\* stays good: its icons know their links, its nodes have their options, its
\* switches list the controllers that are linked to them (addLink(),
\* deleteNode(), newNamedNode(), loadTopology()).
THEOREM LinksKept == Spec => []LinksInv
  <1>1. Init => LinksInv
    BY InitLinks
  <1>2. LinksInv /\ [Next]_vars => LinksInv'
    BY NextLinks
  <1> QED
    BY <1>1, <1>2, PTL DEF Spec

(***************************************************************************)
(* What the invariant says to the user: the lists of the switches are what *)
(* is drawn.                                                               *)
(***************************************************************************)
LEMMA OnceCounted ==
    ASSUME NEW s, IsSeq(s), NoTwice(s)
    PROVE  Len(s) = Cardinality(ToSet(s))
  <1>1. PICK N \in Nat : Len(s) = N /\ DOMAIN s = 1..N
    BY SeqIs
  <1>2. PICK f : f = [k \in 1..N |-> s[k]]
    OBVIOUS
  <1>3. ToSet(s) = {s[k] : k \in 1..N}
    BY <1>1 DEF ToSet
  <1>4. \A i, j \in 1..N : s[i] = s[j] => i = j
    BY <1>1 DEF NoTwice
  <1>5. f \in Surjection(1..N, ToSet(s))
    BY <1>2, <1>3 DEF Surjection
  <1>6. f \in Injection(1..N, ToSet(s))
    BY <1>2, <1>3, <1>4 DEF Injection, IsInjective
  <1>7. IsFiniteSet(1..N) /\ Cardinality(1..N) = N
    BY FS_Interval
  <1> QED
    BY <1>1, <1>5, <1>6, <1>7, FS_Surjection

(* The controllers that links join to the node w.                          *)
JoinedControllers(d, item) ==
    {Text(d, IF l.src = item THEN l.dest ELSE l.src) :
        l \in {k \in ToSet(d.links) : k.type = "control" /\ item \in {k.src, k.dest}}}

\* The list of a switch is the controllers that links join to it, each once.
LEMMA ListIsDrawn ==
    ASSUME NEW d, Shape(d), Good(d, {}), Managed(d, {}), NEW w \in Nodes(d), w.kind = "Switch",
           NEW list, list = ListOf(d, w)
    PROVE  /\ ToSet(list) = JoinedControllers(d, w.item)
           /\ Len(list) = Cardinality(ToSet(list))
  <1>1. /\ Wired(d) /\ Named(d) /\ d.gone = {}
    BY DEF Good, Wired
  <1>2. IsSeq(list) /\ NoTwice(list) /\ ToSet(list) \subseteq ControllerNames(d)
    BY SwitchesNamed
  <1>3. ASSUME NEW c \in Nodes(d), c.kind = "Controller", NEW l \in ToSet(d.links), Joins(l, w, c)
        PROVE  /\ w.item \in {l.src, l.dest}
               /\ Text(d, IF l.src = w.item THEN l.dest ELSE l.src) = c.name
    <2>1. Text(d, c.item) = c.name
      BY <1>1, TextIs
    <2>2. c.item # w.item
      BY <1>3, NodesDiffer
    <2> QED
      BY <1>3, <2>1, <2>2 DEF Joins
  <1>4. ASSUME NEW name \in ToSet(list) PROVE name \in JoinedControllers(d, w.item)
    <2>1. PICK c \in Nodes(d) : c.kind = "Controller" /\ c.name = name
      BY <1>2 DEF ControllerNames
    <2>2. Managing(d, w, c)
      BY <2>1 DEF Good, ListsDrawn
    <2>3. PICK l \in ToSet(d.links) : l.type = "control" /\ Joins(l, w, c)
      BY <2>2 DEF Managing
    <2>4. /\ w.item \in {l.src, l.dest}
          /\ Text(d, IF l.src = w.item THEN l.dest ELSE l.src) = c.name
      BY <1>3, <2>1, <2>3
    <2> QED
      BY <2>1, <2>3, <2>4 DEF JoinedControllers
  <1>5. ASSUME NEW name \in JoinedControllers(d, w.item) PROVE name \in ToSet(list)
    <2>1. PICK l \in ToSet(d.links) :
             /\ l.type = "control" /\ w.item \in {l.src, l.dest}
             /\ name = Text(d, IF l.src = w.item THEN l.dest ELSE l.src)
      BY DEF JoinedControllers
    <2>2. PICK X : X = {}
      OBVIOUS
    <2>3. Good(d, X)
      BY <2>2
    <2>4. PICK u, c \in Nodes(d) :
              /\ u.kind \in SwitchLike /\ c.kind = "Controller" /\ u # c
              /\ \/ l.src = c.item /\ l.dest = u.item
                 \/ l.src = u.item /\ l.dest = c.item
      BY <2>1, <2>3, ControlLinkIs
    <2>5. w # c
      BY <2>4
    <2>6. w.item # c.item
      BY <2>5, NodesDiffer
    <2>7. w.item = u.item
      BY <2>1, <2>4, <2>6
    <2>8. w = u
      BY <2>7, NodesDiffer
    <2>9. Joins(l, w, c)
      BY <2>4, <2>8 DEF Joins
    <2>10. Managing(d, w, c)
      BY <2>1, <2>9 DEF Managing
    <2>11. c.name \in ToSet(list)
      BY <2>4, <2>10 DEF Managed
    <2> QED
      BY <1>3, <2>1, <2>4, <2>9, <2>11
  <1>6. Len(list) = Cardinality(ToSet(list))
    BY <1>2, OnceCounted
  <1> QED
    BY <1>4, <1>5, <1>6

\* The tables of the icons are the links.
LEMMA EndsAgree ==
    ASSUME NEW d, Shape(d), Wired(d)
    PROVE  /\ \A l \in ToSet(d.links) :
                /\ {l.src, l.dest} \subseteq Items(d)
                /\ {<<l.src, l.dest>>, <<l.dest, l.src>>} \subseteq DOMAIN d.ends
                /\ d.ends[<<l.src, l.dest>>] = l.item /\ d.ends[<<l.dest, l.src>>] = l.item
           /\ \A e \in DOMAIN d.ends :
                \E l \in ToSet(d.links) : l.item = d.ends[e] /\ {l.src, l.dest} = {e[1], e[2]}
  <1>1. ASSUME NEW l \in ToSet(d.links)
        PROVE  /\ {l.src, l.dest} \subseteq Items(d)
               /\ {<<l.src, l.dest>>, <<l.dest, l.src>>} \subseteq DOMAIN d.ends
               /\ d.ends[<<l.src, l.dest>>] = l.item /\ d.ends[<<l.dest, l.src>>] = l.item
    <2>1. WiredLink(d, l)
      BY DEF Wired
    <2> QED
      BY <2>1 DEF WiredLink, Items
  <1>2. ASSUME NEW e \in DOMAIN d.ends
        PROVE  \E l \in ToSet(d.links) : l.item = d.ends[e] /\ {l.src, l.dest} = {e[1], e[2]}
    <2>1. PICK l \in ToSet(d.links) : d.ends[e] = l.item /\ (e = <<l.src, l.dest>> \/ e = <<l.dest, l.src>>)
      BY DEF Wired
    <2>2. {l.src, l.dest} = {e[1], e[2]}
      BY <2>1
    <2> QED
      BY <2>1, <2>2
  <1> QED
    BY <1>1, <1>2

(* Whatever is linked, cut, deleted, renamed, saved and opened: the icons know
   exactly the links of the model, every node has its options, and a switch lists the
   controllers drawn to it, each once (addLink(), deleteLink(), deleteNode(),
   controllerDetails(), loadTopology(), importTopo()).                     *)
THEOREM ListsAreDrawn == Spec => []LinksAgree
  <1>1. LinksInv => LinksAgree
    <2>1. SUFFICES ASSUME LinksInv PROVE LinksAgree
      OBVIOUS
    <2>2. PICK d : d = m
      OBVIOUS
    <2>3. /\ Shape(d) /\ (Unspoiled => Good(d, {})) /\ (Orderly => Unspoiled /\ Managed(d, {}))
      BY <2>1, <2>2 DEF LinksInv, TypeInv, Orderly, Unspoiled, Without
    <2>4. ASSUME Unspoiled
          PROVE  /\ \A l \in ToSet(d.links) :
                      /\ {l.src, l.dest} \subseteq Items(d)
                      /\ {<<l.src, l.dest>>, <<l.dest, l.src>>} \subseteq DOMAIN d.ends
                      /\ d.ends[<<l.src, l.dest>>] = l.item /\ d.ends[<<l.dest, l.src>>] = l.item
                 /\ \A e \in DOMAIN d.ends :
                      \E l \in ToSet(d.links) : l.item = d.ends[e] /\ {l.src, l.dest} = {e[1], e[2]}
      BY <2>3, <2>4, EndsAgree DEF Good
    <2>5. ASSUME Orderly
          PROVE  /\ AllHaveOpts(d)
                 /\ \A w \in Nodes(d) : w.kind = "Switch" =>
                       /\ ToSet(ListOf(d, w)) = JoinedControllers(d, w.item)
                       /\ Len(ListOf(d, w)) = Cardinality(ToSet(ListOf(d, w)))
      <3>1. Good(d, {}) /\ Managed(d, {})
        BY <2>3, <2>5
      <3>2. AllHaveOpts(d)
        BY <3>1, EquippedHasOpts DEF Good
      <3>3. ASSUME NEW w \in Nodes(d), w.kind = "Switch"
            PROVE  /\ ToSet(ListOf(d, w)) = JoinedControllers(d, w.item)
                   /\ Len(ListOf(d, w)) = Cardinality(ToSet(ListOf(d, w)))
        BY <2>3, <3>1, <3>3, ListIsDrawn
      <3> QED
        BY <3>2, <3>3
    <2>6. \A item : JoinedControllers(d, item) = DrawnControllers(item)
      BY <2>2 DEF JoinedControllers, DrawnControllers
    <2>7. Orderly =>
              /\ AllHaveOpts(m)
              /\ \A w \in Nodes(m) : w.kind = "Switch" =>
                    /\ ToSet(m.switchOpts[w.name].controllers) = DrawnControllers(w.item)
                    /\ Len(m.switchOpts[w.name].controllers)
                          = Cardinality(ToSet(m.switchOpts[w.name].controllers))
      BY <2>2, <2>5, <2>6 DEF ListOf
    <2> QED
      BY <2>2, <2>4, <2>7 DEF LinksAgree, Unspoiled
  <1> QED
    BY <1>1, LinksKept, PTL

(***************************************************************************)
(* The network that Run makes of a good drawing.                           *)
(***************************************************************************)
LEMMA EverySwitchStarts ==
    ASSUME NEW d, Shape(d), Good(d, {}), NEW w \in Nodes(d)
    PROVE  CanStart(d, w)
  <1>1. CASE w.kind = "Switch"
    <2>1. ToSet(ListOf(d, w)) \subseteq ControllerNames(d)
      BY <1>1, SwitchesNamed
    <2>2. ControllerNames(d) \subseteq NodeNames(d)
      BY DEF ControllerNames, NodeNames
    <2> QED
      BY <2>1, <2>2 DEF CanStart, ListOf
  <1>2. CASE w.kind # "Switch"
    BY <1>2 DEF CanStart
  <1> QED
    BY <1>1, <1>2

RunAs(d, p, n) ==
    /\ n.running = TRUE /\ n.prefs = p /\ n.down = {}
    /\ n.nodes = {Built(d, p, w) : w \in Nodes(d)} /\ n.links = BuiltLinks(d)
    /\ n.started = {StartedWith(d, w) : w \in {v \in Nodes(d) : v.kind \in {"Switch", "LegacySwitch"}}}
    /\ n.commands = PostStartSetup(d) /\ n.flows = FlowSwitches(d, p)

\* start() ends with every switch started.
LEMMA RunNetIs ==
    ASSUME NEW d, Shape(d), Good(d, {}), NEW p, NEW n, n = RunNet(d, p)
    PROVE  RunAs(d, p, n)
  <1>1. PICK s : s = NodesLike(d, {"Switch", "LegacySwitch"})
    OBVIOUS
  <1>2. PICK kinds : kinds = {"Switch", "LegacySwitch"}
    OBVIOUS
  <1>3. IsSeq(s) /\ ToSet(s) = {w \in Nodes(d) : w.kind \in kinds}
    <2>1. IsSeq(d.canvas) /\ s = NodesLike(d, kinds)
      BY <1>1, <1>2 DEF Shape, Drawn
    <2> QED
      BY <2>1, NodesLikeIs
  <1>4. PICK reached : reached = {k \in DOMAIN s : \A j \in 1..k : CanStart(d, s[j])}
    OBVIOUS
  <1>5. reached = DOMAIN s
    <2>1. PICK N \in Nat : DOMAIN s = 1..N
      BY <1>3, SeqIs
    <2>2. ASSUME NEW k \in 1..N, NEW j \in 1..k PROVE CanStart(d, s[j])
      <3>1. j \in 1..N
        OBVIOUS
      <3>2. s[j] \in ToSet(s)
        BY <2>1, <3>1 DEF ToSet
      <3>3. s[j] \in Nodes(d)
        BY <1>3, <3>2
      <3> QED
        BY <3>3, EverySwitchStarts
    <2> QED
      BY <1>4, <2>1, <2>2
  <1>6. n = [running |-> TRUE, prefs |-> p, down |-> {},
             nodes |-> {Built(d, p, w) : w \in Nodes(d)}, links |-> BuiltLinks(d),
             started |-> {StartedWith(d, s[k]) : k \in reached},
             commands |-> IF reached = DOMAIN s THEN PostStartSetup(d) ELSE {},
             flows |-> IF reached = DOMAIN s THEN FlowSwitches(d, p) ELSE {}]
    BY <1>1, <1>4 DEF RunNet
  <1>7. {StartedWith(d, s[k]) : k \in reached} = {StartedWith(d, w) : w \in ToSet(s)}
    BY <1>5 DEF ToSet
  <1>8. ToSet(s) = {v \in Nodes(d) : v.kind \in {"Switch", "LegacySwitch"}}
    BY <1>2, <1>3
  <1> QED
    BY <1>5, <1>6, <1>7, <1>8 DEF RunAs

(***************************************************************************)
(* The exported script.                                                    *)
(***************************************************************************)
LEMMA LikeIs ==
    ASSUME NEW d, Shape(d), NEW kinds
    PROVE  ToSet(NodesLike(d, kinds)) = {w \in Nodes(d) : w.kind \in kinds}
  BY NodesLikeIs DEF Shape, Drawn

\* The script makes the nodes that build() makes.
LEMMA ScriptNodesAre ==
    ASSUME NEW d, Shape(d), NEW p, \A w \in Nodes(d) : w.kind \notin {"Docker", "LegacyRouter"}
    PROVE  ScriptNodes(d, p) = {Built(d, p, w) : w \in Nodes(d)}
  <1>1. /\ ToSet(NodesLike(d, {"Controller"})) = {w \in Nodes(d) : w.kind = "Controller"}
        /\ ToSet(NodesLike(d, SwitchLike)) = {w \in Nodes(d) : w.kind \in SwitchLike}
        /\ ToSet(NodesLike(d, {"Host"})) = {w \in Nodes(d) : w.kind = "Host"}
    <2>1. /\ ToSet(NodesLike(d, {"Controller"})) = {w \in Nodes(d) : w.kind \in {"Controller"}}
          /\ ToSet(NodesLike(d, SwitchLike)) = {w \in Nodes(d) : w.kind \in SwitchLike}
          /\ ToSet(NodesLike(d, {"Host"})) = {w \in Nodes(d) : w.kind \in {"Host"}}
      BY LikeIs
    <2> QED
      BY <2>1
  <1>2. \A w \in Nodes(d) : w.kind \in {"Controller", "Switch", "LegacySwitch", "Host"}
    BY DEF Shape, Drawn, IsNode, Nodes, AllKinds
  <1>3. ASSUME NEW w \in Nodes(d), w.kind = "Controller" PROVE Built(d, p, w) = ScriptController(d, w)
    BY <1>3 DEF Built, ScriptController
  <1>4. ASSUME NEW w \in Nodes(d), w.kind \in {"Switch", "LegacySwitch"}
        PROVE  Built(d, p, w) = ScriptSwitch(d, p, w)
    <2>1. CASE w.kind = "Switch"
      BY <2>1 DEF Built, ScriptSwitch
    <2>2. CASE w.kind = "LegacySwitch"
      BY <2>2 DEF Built, ScriptSwitch
    <2> QED
      BY <1>4, <2>1, <2>2
  <1>5. ASSUME NEW w \in Nodes(d), w.kind = "Host" PROVE Built(d, p, w) = ScriptHost(d, w)
    BY <1>5 DEF Built, ScriptHost
  <1>6. ScriptNodes(d, p) =
           {ScriptController(d, w) : w \in {v \in Nodes(d) : v.kind = "Controller"}}
           \cup {ScriptSwitch(d, p, w) : w \in {v \in Nodes(d) : v.kind \in SwitchLike}}
           \cup {ScriptHost(d, w) : w \in {v \in Nodes(d) : v.kind = "Host"}}
    BY <1>1 DEF ScriptNodes
  <1>7. {v \in Nodes(d) : v.kind \in SwitchLike} = {v \in Nodes(d) : v.kind \in {"Switch", "LegacySwitch"}}
    BY <1>2 DEF SwitchLike
  <1> HIDE DEF Built, ScriptController, ScriptSwitch, ScriptHost
  <1>8. ASSUME NEW x \in ScriptNodes(d, p) PROVE \E w \in Nodes(d) : x = Built(d, p, w)
    BY <1>3, <1>4, <1>5, <1>6, <1>7, <1>8
  <1>9. ASSUME NEW w \in Nodes(d) PROVE Built(d, p, w) \in ScriptNodes(d, p)
    <2>1. CASE w.kind = "Controller"
      BY <1>3, <1>6, <2>1
    <2>2. CASE w.kind \in {"Switch", "LegacySwitch"}
      BY <1>4, <1>6, <1>7, <2>2
    <2>3. CASE w.kind = "Host"
      BY <1>5, <1>6, <2>3
    <2> QED
      BY <1>2, <2>1, <2>2, <2>3
  <1> QED
    BY <1>8, <1>9

\* It starts the switches with the same controllers.
LEMMA ScriptStartsAre ==
    ASSUME NEW d, Shape(d), Good(d, {})
    PROVE  ScriptStarts(d) =
              {StartedWith(d, w) : w \in {v \in Nodes(d) : v.kind \in {"Switch", "LegacySwitch"}}}
  <1>1. ASSUME NEW w \in Nodes(d), w.kind \in {"Switch", "LegacySwitch"}
        PROVE  StartedWith(d, w) = <<w.name, d.switchOpts[w.name].controllers>>
    <2>1. CASE w.kind = "Switch"
      BY <2>1 DEF StartedWith
    <2>2. CASE w.kind = "LegacySwitch"
      <3>1. EquippedNode(d, w, ControllerNames(d)) /\ w.kind \in SwitchLike
        BY <2>2 DEF Good, Equipped, SwitchLike
      <3>2. d.switchOpts[w.name].controllers = <<>>
        BY <2>2, <3>1 DEF EquippedNode, FitList, ListOf
      <3> QED
        BY <2>2, <3>2 DEF StartedWith
    <2> QED
      BY <1>1, <2>1, <2>2
  <1>2. PICK kinds : kinds = {"Switch", "LegacySwitch"}
    OBVIOUS
  <1>3. ToSet(NodesLike(d, kinds)) = {v \in Nodes(d) : v.kind \in kinds}
    BY LikeIs
  <1>4. ScriptStarts(d) = {<<w.name, d.switchOpts[w.name].controllers>> :
                              w \in {v \in Nodes(d) : v.kind \in kinds}}
    BY <1>2, <1>3 DEF ScriptStarts
  <1> QED
    BY <1>1, <1>2, <1>4

\* It gives the same nodes their commands.
LEMMA ScriptCommandsAre ==
    ASSUME NEW d, Shape(d)
    PROVE  ScriptCommands(d) = PostStartSetup(d)
  <1>1. /\ ToSet(NodesLike(d, {"Switch"})) = {w \in Nodes(d) : w.kind \in {"Switch"}}
        /\ ToSet(NodesLike(d, {"Host"})) = {w \in Nodes(d) : w.kind \in {"Host"}}
    BY LikeIs
  <1>2. PostStartSetup(d) =
           {w.name : w \in {v \in {u \in Nodes(d) : u.kind \in {"Host"}} :
                               "commands" \in d.hostOpts[v.name].extra}
                     \cup {v \in {u \in Nodes(d) : u.kind \in {"Switch"}} :
                               "commands" \in d.switchOpts[v.name].extra}}
    BY <1>1 DEF PostStartSetup
  <1>3. ScriptCommands(d) =
           {w.name : w \in {v \in Nodes(d) :
                \/ v.kind = "Host" /\ "commands" \in d.hostOpts[v.name].extra
                \/ v.kind = "Switch" /\ "commands" \in d.switchOpts[v.name].extra}}
    BY DEF ScriptCommands
  <1> QED
    BY <1>2, <1>3

\* It turns on flows in the same switches.
LEMMA ScriptFlowsAre ==
    ASSUME NEW d, Shape(d), NEW p
    PROVE  ScriptFlows(d, p) = FlowSwitches(d, p)
  <1>1. ToSet(NodesLike(d, {"Switch"})) = {w \in Nodes(d) : w.kind \in {"Switch"}}
    BY LikeIs
  <1>2. FlowSwitches(d, p) =
           {w.name : w \in {v \in {u \in Nodes(d) : u.kind \in {"Switch"}} :
                               Collector(p) /\ "flows" \in d.switchOpts[v.name].extra}}
    BY <1>1 DEF FlowSwitches
  <1>3. CASE ~Collector(p)
    BY <1>2, <1>3 DEF ScriptFlows
  <1>4. CASE Collector(p)
    <2>1. ScriptFlows(d, p) =
             {n \in NodeNames(d) : \E w \in Nodes(d) :
                 w.name = n /\ w.kind = "Switch" /\ "flows" \in d.switchOpts[n].extra}
      BY <1>4 DEF ScriptFlows
    <2> QED
      BY <1>2, <1>4, <2>1 DEF NodeNames
  <1> QED
    BY <1>3, <1>4

(***************************************************************************)
(* The links that Run makes of those drawn.                                *)
(***************************************************************************)
BuiltFrom(d, r, b) ==
    /\ DOMAIN b = DOMAIN r
    /\ \A k \in DOMAIN r :
          /\ b[k][1] = r[k][1] /\ b[k][2] = r[k][2]
          /\ MultiLink(d, k) = {} => b[k] = r[k]

\* A link that is built has the ends drawn, and its options if no address
\* takes their place.
LEMMA BuiltEnds ==
    ASSUME NEW d, NEW r, r = DrawnLinks(d), NEW b, b = BuiltLinks(d)
    PROVE  BuiltFrom(d, r, b)
  <1>1. b = [k \in DOMAIN r |-> IF MultiLink(d, k) = {} THEN r[k]
                                ELSE <<r[k][1], r[k][2], MultiLink(d, k)>>]
    BY DEF BuiltLinks
  <1>2. ASSUME NEW k \in DOMAIN r
        PROVE  /\ b[k][1] = r[k][1] /\ b[k][2] = r[k][2]
               /\ MultiLink(d, k) = {} => b[k] = r[k]
    <2>1. PICK x, y, q, z : x = r[k][1] /\ y = r[k][2] /\ q = MultiLink(d, k) /\ z = r[k]
      OBVIOUS
    <2>2. b[k] = IF q = {} THEN z ELSE <<x, y, q>>
      BY <1>1, <2>1
    <2> QED
      BY <2>1, <2>2
  <1> QED
    BY <1>1, <1>2 DEF BuiltFrom

\* Addresses are taken from the rows of the ends only.
LEMMA NoRowsNoParams ==
    ASSUME NEW d, NEW k, NEW r, r = DrawnLinks(d), ~Addressed(d, r[k][1]), ~Addressed(d, r[k][2])
    PROVE  MultiLink(d, k) = {}
  <1>1. DOMAIN Params = {1, 2}
    BY DEF Params
  <1>2. \A i \in DOMAIN Params : \A n : ~HasRow(d, r[k][i], n)
    BY <1>1 DEF Addressed, HasRow
  <1> QED
    BY <1>2 DEF MultiLink

\* The script has the links that Run builds, if it can build them and there
\* are no rows.
LEMMA ScriptLinksAre ==
    ASSUME NEW d, CanBuild(d), \A name \in DOMAIN d.hostOpts : ~Addressed(d, name)
    PROVE  ScriptLinks(d) = BuiltLinks(d)
  <1>1. PICK r, s, c, b : /\ r = DrawnLinks(d) /\ s = DataLinks(d)
                          /\ c = ScriptLinks(d) /\ b = BuiltLinks(d)
    OBVIOUS
  <1>2. \A name : ~Addressed(d, name)
    BY DEF Addressed, HasRow
  <1>3. /\ r = [k \in DOMAIN s |-> <<Text(d, s[k].src), Text(d, s[k].dest), s[k].opts>>]
        /\ c = [k \in DOMAIN s |-> <<Text(d, s[k].src), Text(d, s[k].dest), s[k].opts \ {"ends"}>>]
    BY <1>1 DEF DrawnLinks, ScriptLinks, Each
  <1>4. b = [k \in DOMAIN r |-> b[k]]
    BY <1>1 DEF BuiltLinks
  <1>6. BuiltFrom(d, r, b)
    BY <1>1, BuiltEnds
  <1>5. ASSUME NEW k \in DOMAIN s PROVE c[k] = b[k]
    <2>1. MultiLink(d, k) = {}
      BY <1>1, <1>2, NoRowsNoParams
    <2>2. b[k] = r[k]
      BY <1>3, <1>5, <1>6, <2>1 DEF BuiltFrom
    <2>3. PICK x, y, o : x = Text(d, s[k].src) /\ y = Text(d, s[k].dest) /\ o = s[k].opts
      OBVIOUS
    <2>4. r[k] = <<x, y, o>> /\ c[k] = <<x, y, o \ {"ends"}>>
      BY <1>3, <2>3
    <2>5. "ends" \notin r[k][3]
      BY <1>1, <1>5, <2>1 DEF CanBuild, CanBuildLink
    <2>6. o \ {"ends"} = o
      BY <2>4, <2>5
    <2> QED
      BY <2>2, <2>4, <2>6
  <1> QED
    BY <1>1, <1>3, <1>4, <1>5

(* If Run can build the links of a drawing, which it cannot if one was imported,
   and the drawing has no containers, routers and addresses for further interfaces,
   the script exported from it makes the network that Run makes: the same nodes,
   links with their options, starts and commands (exportScript(), build(), start()).  *)
THEOREM ScriptMakesTheRun == Spec => []ScriptIsTheRun
  <1>1. LinksInv => ScriptIsTheRun
    <2>1. SUFFICES ASSUME LinksInv, Orderly, NodesLike(m, {"Docker", "LegacyRouter"}) = <<>>,
                          CanBuild(m), \A name \in DOMAIN m.hostOpts : ~Addressed(m, name)
                   PROVE  LET run == RunNet(m, prefs)
                          IN  /\ ScriptNodes(m, prefs) = run.nodes
                              /\ ScriptLinks(m) = run.links
                              /\ ScriptStarts(m) = run.started
                              /\ ScriptCommands(m) = run.commands
                              /\ ScriptFlows(m, prefs) = run.flows
      BY DEF ScriptIsTheRun
    <2>2. PICK d, p, n : d = m /\ p = prefs /\ n = RunNet(m, prefs)
      OBVIOUS
    <2>3. Shape(d) /\ Good(d, {})
      BY <2>1, <2>2 DEF LinksInv, TypeInv, Orderly, Unspoiled, Without
    <2>4. RunAs(d, p, n)
      BY <2>2, <2>3, RunNetIs
    <2>5. \A w \in Nodes(d) : w.kind \notin {"Docker", "LegacyRouter"}
      <3>1. PICK kinds : kinds = {"Docker", "LegacyRouter"}
        OBVIOUS
      <3>2. ToSet(NodesLike(d, kinds)) = {w \in Nodes(d) : w.kind \in kinds}
        BY <2>3, LikeIs
      <3>3. NodesLike(d, kinds) = <<>>
        BY <2>1, <2>2, <3>1
      <3>4. ToSet(<<>>) = {}
        BY DEF ToSet
      <3> QED
        BY <3>1, <3>2, <3>3, <3>4
    <2>6. ScriptNodes(d, p) = n.nodes
      BY <2>3, <2>4, <2>5, ScriptNodesAre DEF RunAs
    <2>7. ScriptLinks(d) = n.links
      BY <2>1, <2>2, <2>4, ScriptLinksAre DEF RunAs
    <2>8. ScriptStarts(d) = n.started
      BY <2>3, <2>4, ScriptStartsAre DEF RunAs
    <2>9. ScriptCommands(d) = n.commands /\ ScriptFlows(d, p) = n.flows
      BY <2>3, <2>4, ScriptCommandsAre, ScriptFlowsAre DEF RunAs
    <2> QED
      BY <2>2, <2>6, <2>7, <2>8, <2>9
  <1> QED
    BY <1>1, LinksKept, PTL

(***************************************************************************)
(* The same places chosen from two sequences.                              *)
(***************************************************************************)
PicksBoth(s, S, z, Z, n, r, x, h) ==
    Picks(s, S, n, r, h) /\ Picks(z, Z, n, x, h) /\ DOMAIN x = DOMAIN r

\* The same place is looked at in both.
LEMMA PickedBoth ==
    ASSUME NEW s, NEW S, NEW z, NEW Z, NEW n \in Nat, NEW r, NEW x, NEW h,
           PicksBoth(s, S, z, Z, n, r, x, h), s[n + 1] \in S <=> z[n + 1] \in Z,
           NEW r1, r1 = IF s[n + 1] \in S THEN Append(r, s[n + 1]) ELSE r,
           NEW x1, x1 = IF z[n + 1] \in Z THEN Append(x, z[n + 1]) ELSE x
    PROVE  \E g : PicksBoth(s, S, z, Z, n + 1, r1, x1, g)
  <1>1. IsSeq(r) /\ IsSeq(x) /\ DOMAIN x = DOMAIN r
    BY DEF PicksBoth, Picks
  <1>2. Len(r) = Len(x)
    <2>1. PICK N, M : N = Len(r) /\ M = Len(x)
      OBVIOUS
    <2>2. N \in Nat /\ M \in Nat /\ 1..N = 1..M
      BY <1>1, <2>1, SeqIs
    <2>3. N = M
      <3>1. (N # 0 => N \in 1..M) /\ (M # 0 => M \in 1..N)
        BY <2>2
      <3> QED
        BY <2>2, <3>1
    <2> QED
      BY <2>1, <2>3
  <1>3. PICK g : g = IF s[n + 1] \in S THEN Further(h, Len(r), n + 1) ELSE h
    OBVIOUS
  <1>4. Picks(s, S, n + 1, r1, g)
    BY <1>3, PickedOne DEF PicksBoth
  <1>5. Picks(z, Z, n + 1, x1, g)
    <2>1. g = IF z[n + 1] \in Z THEN Further(h, Len(x), n + 1) ELSE h
      BY <1>2, <1>3
    <2>2. Picks(z, Z, n + 1, x1, IF z[n + 1] \in Z THEN Further(h, Len(x), n + 1) ELSE h)
      BY PickedOne DEF PicksBoth
    <2> QED
      BY <2>1, <2>2
  <1>6. DOMAIN x1 = DOMAIN r1
    <2>1. CASE s[n + 1] \in S
      <3>1. PICK a, b : a = s[n + 1] /\ b = z[n + 1]
        OBVIOUS
      <3>2. PICK k \in Nat : DOMAIN r = 1..k /\ DOMAIN Append(r, a) = 1..(k + 1) /\ Len(Append(r, a)) = k + 1
        BY <1>1, AppendedLast
      <3>3. PICK j \in Nat : DOMAIN x = 1..j /\ DOMAIN Append(x, b) = 1..(j + 1) /\ Len(Append(x, b)) = j + 1
        BY <1>1, AppendedLast
      <3>4. Len(r) = k /\ Len(x) = j
        <4>1. (k # 0 => k \in 1..Len(r)) /\ (Len(r) # 0 => Len(r) \in 1..k)
              /\ (j # 0 => j \in 1..Len(x)) /\ (Len(x) # 0 => Len(x) \in 1..j)
              /\ Len(r) \in Nat /\ Len(x) \in Nat
          BY <1>1, <3>2, <3>3, SeqIs
        <4> QED
          BY <4>1
      <3> QED
        BY <1>2, <2>1, <3>1, <3>2, <3>3, <3>4
    <2>2. CASE s[n + 1] \notin S
      BY <1>1, <2>2
    <2> QED
      BY <2>1, <2>2
  <1> QED
    BY <1>4, <1>5, <1>6 DEF PicksBoth

\* Chosen() as the last of the lists that it builds.
ChoiceOf(f, s, S, N) ==
    /\ f[0] = <<>> /\ f[N] = Chosen(s, S)
    /\ \A n \in Nat : n < N => f[n + 1] = IF s[n + 1] \in S THEN Append(f[n], s[n + 1]) ELSE f[n]

\* Chosen() builds its list element by element.
LEMMA ChoiceIs ==
    ASSUME NEW s, IsSeq(s), NEW S, NEW N \in Nat, N = Len(s)
    PROVE  \E f : ChoiceOf(f, s, S, N)
  <1> DEFINE that == CHOOSE that : IsChoice(that, s, S, Len(s))
  <1>1. IsChoice(that, s, S, Len(s))
    BY ChoiceExists
  <1>2. Chosen(s, S) = that[Len(s)]
    BY DEF Chosen, IsChoice
  <1> HIDE DEF that
  <1>3. that[0] = <<>>
    BY <1>1 DEF IsChoice
  <1>4. ASSUME NEW n \in Nat, n < N
        PROVE  that[n + 1] = IF s[n + 1] \in S THEN Append(that[n], s[n + 1]) ELSE that[n]
    <2>1. n + 1 \in 0..N /\ n + 1 # 0 /\ (n + 1) - 1 = n
      BY <1>4
    <2> QED
      BY <1>1, <2>1 DEF IsChoice
  <1>5. ChoiceOf(that, s, S, N)
    BY <1>2, <1>3, <1>4 DEF ChoiceOf
  <1> QED
    BY <1>5

\* What is chosen from two sequences at the same places is at the same
\* places.
LEMMA ChosenAlike ==
    ASSUME NEW s, IsSeq(s), NEW S, NEW z, IsSeq(z), NEW Z, Len(z) = Len(s),
           \A k \in DOMAIN s : s[k] \in S <=> z[k] \in Z
    PROVE  \E h : PicksBoth(s, S, z, Z, Len(s), Chosen(s, S), Chosen(z, Z), h)
  <1>1. PICK N \in Nat : N = Len(s) /\ DOMAIN s = 1..N
    BY SeqIs
  <1>2. PICK a : /\ a[0] = <<>> /\ a[N] = Chosen(s, S)
                 /\ \A n \in Nat : n < N =>
                       a[n + 1] = IF s[n + 1] \in S THEN Append(a[n], s[n + 1]) ELSE a[n]
    <2>1. PICK a : ChoiceOf(a, s, S, N)
      BY <1>1, ChoiceIs
    <2> QED
      BY <2>1 DEF ChoiceOf
  <1>3. PICK b : /\ b[0] = <<>> /\ b[N] = Chosen(z, Z)
                 /\ \A n \in Nat : n < N =>
                       b[n + 1] = IF z[n + 1] \in Z THEN Append(b[n], z[n + 1]) ELSE b[n]
    <2>1. N = Len(z)
      BY <1>1
    <2>2. PICK b : ChoiceOf(b, z, Z, N)
      BY <2>1, ChoiceIs
    <2> QED
      BY <2>2 DEF ChoiceOf
  <1> DEFINE T == {n \in 0..N : \E h : PicksBoth(s, S, z, Z, n, a[n], b[n], h)}
  <1>4. 0 \in T
    <2>1. PICK h : h = <<>>
      OBVIOUS
    <2>2. IsSeq(<<>>) /\ DOMAIN <<>> = {}
      BY NothingIsSeq
    <2>3. Picks(s, S, 0, a[0], h) /\ Picks(z, Z, 0, b[0], h)
      BY <1>2, <1>3, <2>2 DEF Picks
    <2> QED
      BY <1>2, <1>3, <2>3 DEF PicksBoth
  <1>5. ASSUME NEW n \in Nat, n < N, n \in T
        PROVE  n + 1 \in T
    <2>1. PICK h : PicksBoth(s, S, z, Z, n, a[n], b[n], h)
      BY <1>5
    <2>2. n + 1 \in 0..N /\ n + 1 \in 1..N
      BY <1>5
    <2>3. PICK r, x, r1, x1 : r = a[n] /\ x = b[n] /\ r1 = a[n + 1] /\ x1 = b[n + 1]
      OBVIOUS
    <2>4. /\ r1 = IF s[n + 1] \in S THEN Append(r, s[n + 1]) ELSE r
          /\ x1 = IF z[n + 1] \in Z THEN Append(x, z[n + 1]) ELSE x
      BY <1>2, <1>3, <1>5, <2>3
    <2>5. PicksBoth(s, S, z, Z, n, r, x, h) /\ (s[n + 1] \in S <=> z[n + 1] \in Z)
      BY <1>1, <2>1, <2>2, <2>3
    <2>6. \E g : PicksBoth(s, S, z, Z, n + 1, r1, x1, g)
      BY <2>4, <2>5, PickedBoth
    <2> QED
      BY <2>2, <2>3, <2>6
  <1>6. \A n \in 0..N : n \in T
    <2> HIDE DEF T
    <2> QED
      BY <1>4, <1>5, UpTo
  <1>7. N \in T
    BY <1>6
  <1> QED
    BY <1>1, <1>2, <1>3, <1>7

(***************************************************************************)
(* Links that only come up or go down.                                     *)
(***************************************************************************)
Flagged(d, e) ==
    /\ Restyled(d, e)
    /\ \A k \in DOMAIN d.links : e.links[k].opts = d.links[k].opts

\* The network made of them has the same links.
LEMMA FlaggedLinks ==
    ASSUME NEW d, Shape(d), d.gone = {}, NEW e, Flagged(d, e)
    PROVE  DrawnLinks(e) = DrawnLinks(d) /\ \A item : Text(e, item) = Text(d, item)
  <1>1. PICK s, z : s = d.links /\ z = e.links
    OBVIOUS
  <1>2. IsSeq(s) /\ z = [k \in DOMAIN s |-> z[k]] /\ Nodes(e) = Nodes(d) /\ e.gone = d.gone
    BY <1>1 DEF Shape, Drawn, Flagged, Restyled, SameNodes, Nodes
  <1>3. IsSeq(z) /\ DOMAIN z = DOMAIN s
    BY <1>2, EachSeq
  <1>4. Len(z) = Len(s)
    <2>1. PICK N, M : N = Len(s) /\ M = Len(z)
      OBVIOUS
    <2>2. N \in Nat /\ M \in Nat /\ 1..N = 1..M
      BY <1>2, <1>3, <2>1, SeqIs
    <2>3. (N # 0 => N \in 1..M) /\ (M # 0 => M \in 1..N)
      BY <2>2
    <2> QED
      BY <2>1, <2>2, <2>3
  <1>5. \A item : Text(e, item) = Text(d, item)
    BY <1>2 DEF Text
  <1>6. \A k \in DOMAIN s : /\ z[k].type = s[k].type /\ z[k].src = s[k].src
                            /\ z[k].dest = s[k].dest /\ z[k].opts = s[k].opts
    <2>1. ASSUME NEW k \in DOMAIN s
          PROVE  /\ z[k].type = s[k].type /\ z[k].src = s[k].src
                 /\ z[k].dest = s[k].dest /\ z[k].opts = s[k].opts
      <3>1. PICK x, y : x = s[k] /\ y = z[k]
        OBVIOUS
      <3>2. y = [item |-> x.item, type |-> x.type, src |-> x.src, dest |-> x.dest,
                 opts |-> y.opts, down |-> y.down]
        BY <1>1, <3>1 DEF Flagged, Restyled
      <3>3. y.opts = x.opts
        BY <1>1, <3>1 DEF Flagged
      <3> QED
        BY <3>1, <3>2, <3>3
    <2> QED
      BY <2>1
  <1>7. PICK S, Z : S = {l \in ToSet(s) : l.type = "data"} /\ Z = {l \in ToSet(z) : l.type = "data"}
    OBVIOUS
  <1>8. \A k \in DOMAIN s : s[k] \in S <=> z[k] \in Z
    BY <1>3, <1>6, <1>7 DEF ToSet
  <1>9. PICK h : PicksBoth(s, S, z, Z, Len(s), Chosen(s, S), Chosen(z, Z), h)
    BY <1>2, <1>3, <1>4, <1>8, ChosenAlike
  <1>10. PICK r, x : r = Chosen(s, S) /\ x = Chosen(z, Z)
    OBVIOUS
  <1>11. /\ r = DataLinks(d) /\ x = DataLinks(e)
    BY <1>1, <1>7, <1>10 DEF DataLinks
  <1>12. /\ DOMAIN x = DOMAIN r
         /\ \A i \in DOMAIN r : h[i] \in 1..Len(s) /\ r[i] = s[h[i]] /\ x[i] = z[h[i]]
    BY <1>9, <1>10 DEF PicksBoth, Picks
  <1>13. \A i \in DOMAIN r : x[i].src = r[i].src /\ x[i].dest = r[i].dest /\ x[i].opts = r[i].opts
    <2>1. DOMAIN s = 1..Len(s)
      BY <1>2, SeqIs
    <2> QED
      BY <1>6, <1>12, <2>1
  <1>14. /\ DrawnLinks(d) = [i \in DOMAIN r |-> <<Text(d, r[i].src), Text(d, r[i].dest), r[i].opts>>]
         /\ DrawnLinks(e) = [i \in DOMAIN x |-> <<Text(e, x[i].src), Text(e, x[i].dest), x[i].opts>>]
    BY <1>11 DEF DrawnLinks, Each
  <1> QED
    BY <1>5, <1>12, <1>13, <1>14

(***************************************************************************)
(* The network that runs is the one drawn.                                 *)
(***************************************************************************)
Pair(d, l) == {Text(d, l.src), Text(d, l.dest)}
Starting(d) == {v \in Nodes(d) : v.kind \in {"Switch", "LegacySwitch"}}
Downs(d) == {Pair(d, l) : l \in {k \in ToSet(d.links) : k.down}}

IsRun(d, n) ==
    /\ n.nodes = {Built(d, n.prefs, w) : w \in Nodes(d)} /\ n.links = BuiltLinks(d)
    /\ n.started = {StartedWith(d, w) : w \in Starting(d)}
    /\ \A l \in ToSet(d.links) : l.down \in BOOLEAN /\ (l.down => l.type = "data")
    /\ n.down = Downs(d)

RunsDrawn ==
    /\ net.running => tools = "disabled"
    /\ Orderly /\ net.running => IsRun(m, net)
RunInv == LinksInv /\ RunsDrawn

SameRun(d, e) ==
    /\ Nodes(e) = Nodes(d) /\ Starting(e) = Starting(d)
    /\ \A p, w : Built(e, p, w) = Built(d, p, w)
    /\ \A w : StartedWith(e, w) = StartedWith(d, w)
    /\ BuiltLinks(e) = BuiltLinks(d)
    /\ \A l : Pair(e, l) = Pair(d, l)

\* And it is the same but for the links that are down.
LEMMA FlaggedRun ==
    ASSUME NEW d, Shape(d), d.gone = {}, NEW e, Flagged(d, e)
    PROVE  SameRun(d, e)
  <1>1. /\ e.hostOpts = d.hostOpts /\ e.switchOpts = d.switchOpts /\ e.controllers = d.controllers
        /\ Nodes(e) = Nodes(d)
    BY DEF Flagged, Restyled, SameOpts, SameNodes, Nodes
  <1>2. \A p, w : Built(e, p, w) = Built(d, p, w)
    BY <1>1 DEF Built
  <1>3. \A w : StartedWith(e, w) = StartedWith(d, w)
    BY <1>1 DEF StartedWith
  <1>6. DrawnLinks(e) = DrawnLinks(d) /\ \A item : Text(e, item) = Text(d, item)
    BY FlaggedLinks
  <1>7. BuiltLinks(e) = BuiltLinks(d)
    <2>1. \A name, n : HasRow(e, name, n) <=> HasRow(d, name, n)
      BY <1>1 DEF HasRow
    <2>2. \A k, name : Interfaces(e, k, name) = Interfaces(d, k, name)
      BY <1>1, <1>6 DEF Interfaces
    <2>3. \A k : MultiLink(e, k) = MultiLink(d, k)
      BY <1>6, <2>1, <2>2 DEF MultiLink
    <2> QED
      BY <1>6, <2>3 DEF BuiltLinks
  <1>4. BuiltLinks(e) = BuiltLinks(d) /\ \A item : Text(e, item) = Text(d, item)
    BY <1>6, <1>7
  <1>5. Starting(e) = Starting(d)
    BY <1>1 DEF Starting
  <1> QED
    BY <1>1, <1>2, <1>3, <1>4, <1>5 DEF Pair, SameRun

Started(d, n) ==
    /\ n.nodes = {Built(d, n.prefs, w) : w \in Nodes(d)} /\ n.links = BuiltLinks(d)
    /\ n.started = {StartedWith(d, w) : w \in Starting(d)}

\* A network is the one drawn if its links that are down are.
LEMMA SameRunStays ==
    ASSUME NEW d, NEW e, SameRun(d, e), NEW n, Started(d, n),
           \A l \in ToSet(e.links) : l.down \in BOOLEAN /\ (l.down => l.type = "data"),
           n.down = Downs(e)
    PROVE  IsRun(e, n)
  <1>1. n.nodes = {Built(e, n.prefs, w) : w \in Nodes(e)}
    BY DEF SameRun, Started
  <1>2. n.started = {StartedWith(e, w) : w \in Starting(e)}
    BY DEF SameRun, Started
  <1>3. n.links = BuiltLinks(e)
    BY DEF SameRun, Started
  <1> QED
    BY <1>1, <1>2, <1>3 DEF IsRun

\* After Run all links are up.
LEMMA RunStarted ==
    ASSUME NEW d, Shape(d), Good(d, {}), NEW p, NEW n, n = RunNet(d, p),
           NEW e, e = Undashed(d, ToSet(d.links))
    PROVE  IsRun(e, n)
  <1>1. Restyled(d, e) /\ \A k \in DOMAIN d.links : e.links[k].opts = d.links[k].opts
                                                 /\ e.links[k].down = FALSE
    <2>1. PICK made : made = ToSet(d.links)
      OBVIOUS
    <2>2. \A k \in DOMAIN d.links : d.links[k] \in made
      BY <2>1 DEF ToSet
    <2>3. Restyled(d, e) /\ LinksMade(d, made, e)
      BY <2>1, UndashedIs
    <2> QED
      BY <2>2, <2>3 DEF LinksMade
  <1>2. Flagged(d, e) /\ d.gone = {}
    BY <1>1 DEF Flagged, Good, Wired
  <1>3. RunAs(d, p, n)
    BY RunNetIs
  <1>4. DOMAIN e.links = DOMAIN d.links
    <2>1. PICK z : z = e.links
      OBVIOUS
    <2>2. z = [k \in DOMAIN d.links |-> z[k]]
      BY <1>1, <2>1 DEF Restyled
    <2> QED
      BY <2>1, <2>2
  <1>5. ASSUME NEW l \in ToSet(e.links) PROVE l.down = FALSE
    <2>1. PICK k \in DOMAIN d.links : l = e.links[k]
      BY <1>4 DEF ToSet
    <2> QED
      BY <1>1, <2>1
  <1>6. Downs(e) = {}
    BY <1>5 DEF Downs
  <1>7. SameRun(d, e)
    BY <1>2, FlaggedRun
  <1>8. Started(d, n) /\ n.down = Downs(e)
    BY <1>3, <1>6 DEF RunAs, Started, Starting
  <1>9. \A l \in ToSet(e.links) : l.down \in BOOLEAN /\ (l.down => l.type = "data")
    BY <1>5
  <1> QED
    BY <1>7, <1>8, <1>9, SameRunStays

(* linkUp() and linkDown() of a data link.                                 *)
LEMMA LinkIsSet ==
    ASSUME NEW d, Shape(d), Good(d, {}), NEW n, n.running, NetForm(n), IsRun(d, n),
           NEW l \in ToSet(d.links), l.type = "data", NEW down, down \in BOOLEAN,
           NEW e, e = WithLink(d, l.item, LAMBDA k : [k EXCEPT !.down = down]),
           NEW q, q = ConfigLinkStatus(n, {Text(d, l.src), Text(d, l.dest)}, down)
    PROVE  IsRun(e, q)
  <1>1. PICK i, P : i = l.item /\ P = Pair(d, l)
    OBVIOUS
  <1>2. Restyled(d, e) /\ FlagSet(d, i, down, e)
    <2>1. e = WithLink(d, i, LAMBDA k : [k EXCEPT !.down = down])
      BY <1>1
    <2> QED
      BY <2>1, DownSet
  <1>3. Flagged(d, e) /\ d.gone = {}
    BY <1>2 DEF Flagged, FlagSet, Good, Wired
  <1>4. SameRun(d, e)
    BY <1>3, FlaggedRun
  <1>5. \E k \in ToSet(n.links) : {k[1], k[2]} = P
    <2>1. PICK r : r = DataLinks(d)
      OBVIOUS
    <2>2. l \in ToSet(r)
      <3>1. PICK s, S : s = d.links /\ S = {k \in ToSet(d.links) : k.type = "data"}
        OBVIOUS
      <3>2. IsSeq(s) /\ r = Chosen(s, S)
        BY <2>1, <3>1 DEF DataLinks, Shape, Drawn
      <3>3. ToSet(r) = ToSet(s) \cap S
        BY <3>2, ChosenIs
      <3> QED
        BY <3>1, <3>3
    <2>3. PICK j \in DOMAIN r : r[j] = l
      BY <2>2 DEF ToSet
    <2>4. PICK w : w = DrawnLinks(d)
      OBVIOUS
    <2>5. w = [k \in DOMAIN r |-> <<Text(d, r[k].src), Text(d, r[k].dest), r[k].opts>>]
      BY <2>1, <2>4 DEF DrawnLinks, Each
    <2>6. PICK x, y, o : x = Text(d, l.src) /\ y = Text(d, l.dest) /\ o = l.opts
      OBVIOUS
    <2>7. j \in DOMAIN w /\ w[j] = <<x, y, o>>
      BY <2>3, <2>5, <2>6
    <2>8. PICK z : z = n.links /\ z = BuiltLinks(d)
      BY DEF IsRun
    <2>12. BuiltFrom(d, w, z)
      BY <2>4, <2>8, BuiltEnds
    <2>9. DOMAIN z = DOMAIN w /\ z[j][1] = w[j][1] /\ z[j][2] = w[j][2]
      BY <2>7, <2>12 DEF BuiltFrom
    <2>10. z[j] \in ToSet(z) /\ {z[j][1], z[j][2]} = {x, y}
      BY <2>7, <2>9 DEF ToSet
    <2>11. P = {x, y}
      BY <1>1, <2>6 DEF Pair
    <2> QED
      BY <2>8, <2>10, <2>11
  <1>6. /\ q.nodes = n.nodes /\ q.prefs = n.prefs /\ q.links = n.links /\ q.started = n.started
        /\ q.down = IF down THEN n.down \cup {P} ELSE n.down \ {P}
    <2>1. n = [running |-> TRUE, prefs |-> n.prefs, down |-> n.down, nodes |-> n.nodes,
               links |-> n.links, started |-> n.started, commands |-> n.commands, flows |-> n.flows]
      BY DEF NetForm, NoNet
    <2>2. q = [n EXCEPT !.down = IF down THEN n.down \cup {P} ELSE n.down \ {P}]
      BY <1>1, <1>5 DEF ConfigLinkStatus, Pair
    <2> QED
      BY <2>1, <2>2
  <1>7. DOMAIN e.links = DOMAIN d.links
    <2>1. PICK z : z = e.links
      OBVIOUS
    <2>2. z = [k \in DOMAIN d.links |-> z[k]]
      BY <1>2, <2>1 DEF Restyled
    <2> QED
      BY <2>1, <2>2
  <1>8. \A k \in ToSet(d.links) : k.item = i => k = l
    BY <1>1, LinkIs
  <1>9. ASSUME NEW k \in DOMAIN d.links, NEW x, x = d.links[k], NEW y, y = e.links[k]
        PROVE  /\ x \in ToSet(d.links) /\ y \in ToSet(e.links) /\ y.type = x.type
               /\ Pair(e, y) = Pair(d, x)
               /\ y.down = IF x = l THEN down ELSE x.down
    <2>1. x \in ToSet(d.links) /\ y \in ToSet(e.links)
      BY <1>7, <1>9 DEF ToSet
    <2>2. y = [item |-> x.item, type |-> x.type, src |-> x.src, dest |-> x.dest,
               opts |-> y.opts, down |-> y.down]
      BY <1>2, <1>9 DEF Restyled
    <2>3. y.type = x.type /\ y.src = x.src /\ y.dest = x.dest
      BY <2>2
    <2>4. y.down = IF x.item = i THEN down ELSE x.down
      BY <1>2, <1>9 DEF FlagSet
    <2>5. Pair(e, y) = Pair(d, x)
      <3>1. Pair(e, y) = Pair(d, y)
        BY <1>4 DEF SameRun
      <3>2. Pair(d, y) = Pair(d, x)
        BY <2>3 DEF Pair
      <3> QED
        BY <3>1, <3>2
    <2> QED
      BY <1>1, <1>8, <2>1, <2>3, <2>4, <2>5
  <1>10. \A y \in ToSet(e.links) : y.down \in BOOLEAN /\ (y.down => y.type = "data")
    <2>1. ASSUME NEW y \in ToSet(e.links) PROVE y.down \in BOOLEAN /\ (y.down => y.type = "data")
      <3>1. PICK k \in DOMAIN d.links : y = e.links[k]
        BY <1>7 DEF ToSet
      <3>2. PICK x : x = d.links[k]
        OBVIOUS
      <3>3. x \in ToSet(d.links) /\ y.type = x.type /\ y.down = IF x = l THEN down ELSE x.down
        BY <1>9, <3>1, <3>2
      <3>4. x.down \in BOOLEAN /\ (x.down => x.type = "data")
        BY <3>3 DEF IsRun
      <3> QED
        BY <3>3, <3>4
    <2> QED
      BY <2>1
  <1>11. \A x \in ToSet(d.links) : x.down /\ Pair(d, x) = P => x = l
    <2>1. ASSUME NEW x \in ToSet(d.links), x.down, Pair(d, x) = P PROVE x = l
      <3>1. x.type = "data"
        BY <2>1 DEF IsRun
      <3>2. PICK X : X = {}
        OBVIOUS
      <3>3. Good(d, X) /\ {Text(d, x.src), Text(d, x.dest)} = {Text(d, l.src), Text(d, l.dest)}
        BY <1>1, <2>1, <3>2 DEF Pair
      <3> QED
        BY <3>1, <3>3, PairsDiffer
    <2> QED
      BY <2>1
  <1>12. q.down = Downs(e)
    <2>1. ASSUME NEW z \in Downs(e) PROVE z \in q.down
      <3>1. PICK y \in ToSet(e.links) : y.down /\ z = Pair(e, y)
        BY DEF Downs
      <3>2. PICK k \in DOMAIN d.links : y = e.links[k]
        BY <1>7 DEF ToSet
      <3>3. PICK x : x = d.links[k]
        OBVIOUS
      <3>7. /\ x \in ToSet(d.links) /\ Pair(e, y) = Pair(d, x)
            /\ y.down = IF x = l THEN down ELSE x.down
        BY <1>9, <3>2, <3>3
      <3>4. /\ x \in ToSet(d.links) /\ z = Pair(d, x)
            /\ y.down = IF x = l THEN down ELSE x.down
        BY <3>1, <3>7
      <3>5. CASE x = l
        BY <1>1, <1>6, <3>1, <3>4, <3>5
      <3>6. CASE x # l
        <4>1. x.down
          BY <3>1, <3>4, <3>6
        <4>2. z \in n.down /\ z # P
          BY <1>11, <3>4, <3>6, <4>1 DEF IsRun, Downs
        <4> QED
          BY <1>6, <4>2
      <3> QED
        BY <3>5, <3>6
    <2>2. ASSUME NEW z \in q.down PROVE z \in Downs(e)
      <3>1. \E x \in ToSet(d.links) : z = Pair(d, x) /\ (IF x = l THEN down ELSE x.down)
        <4>1. CASE z = P
          BY <1>1, <1>6, <2>2, <4>1
        <4>2. CASE z # P
          <5>1. z \in n.down
            BY <1>6, <2>2, <4>2
          <5>2. PICK x \in ToSet(d.links) : x.down /\ z = Pair(d, x)
            BY <5>1 DEF IsRun, Downs
          <5>3. x # l
            BY <1>1, <4>2, <5>2
          <5> QED
            BY <5>2, <5>3
        <4> QED
          BY <4>1, <4>2
      <3>2. PICK x \in ToSet(d.links) : z = Pair(d, x) /\ (IF x = l THEN down ELSE x.down)
        BY <3>1
      <3>3. PICK k \in DOMAIN d.links : x = d.links[k]
        BY DEF ToSet
      <3>4. PICK y : y = e.links[k]
        OBVIOUS
      <3>5. y \in ToSet(e.links) /\ Pair(e, y) = z /\ y.down = IF x = l THEN down ELSE x.down
        BY <1>9, <3>2, <3>3, <3>4
      <3> QED
        BY <3>2, <3>5 DEF Downs
    <2> QED
      BY <2>1, <2>2
  <1>13. Started(d, q)
    BY <1>6 DEF IsRun, Started
  <1> QED
    BY <1>4, <1>10, <1>12, <1>13, SameRunStays

\* No network runs at first.
LEMMA InitRun ==
    ASSUME Init
    PROVE  RunInv
  <1>1. LinksInv
    BY InitLinks
  <1>2. net.running = FALSE
    BY DEF Init, NoNet
  <1> QED
    BY <1>1, <1>2 DEF RunInv, RunsDrawn

\* What keeps the drawing and the network, while one runs.
LEMMA RunLeft ==
    ASSUME RunsDrawn, trouble \subseteq trouble', tools' = tools, net' = net, net.running => m' = m
    PROVE  RunsDrawn'
  <1>1. Orderly' => Orderly
    BY DEF Orderly, Without
  <1>2. ASSUME Orderly', net.running PROVE IsRun(m', net')
    <2>1. IsRun(m, net)
      BY <1>1, <1>2 DEF RunsDrawn
    <2> QED
      BY <1>2, <2>1
  <1> QED
    BY <1>2 DEF RunsDrawn

\* What is known to go wrong while a network runs.
LEMMA RunSpoiled ==
    ASSUME RunsDrawn, tools' = tools, net' = net,
           net.running => "staleDialog" \in trouble' \/ "fileWhileRunning" \in trouble'
    PROVE  RunsDrawn'
  <1>1. net.running => ~Orderly'
    BY DEF Orderly, Without
  <1> QED
    BY <1>1 DEF RunsDrawn

\* doStop() and quit() end the network.
LEMMA RunEnded ==
    ASSUME net' = NoNet
    PROVE  RunsDrawn'
  BY DEF RunsDrawn, NoNet

\* linkUp() and linkDown() keep the network the one drawn.
LEMMA LinkSetRuns ==
    ASSUME RunInv, NEW l \in ToSet(m.links), NEW down \in BOOLEAN, SetLinkDown(l, down)
    PROVE  RunsDrawn'
  <1>1. PICK d, e, n, q : d = m /\ e = m' /\ n = net /\ q = net'
    OBVIOUS
  <1>2. /\ n.running /\ l.type = "data"
        /\ q = ConfigLinkStatus(n, {Text(d, l.src), Text(d, l.dest)}, down)
        /\ e = WithLink(d, l.item, LAMBDA k : [k EXCEPT !.down = down])
        /\ tools' = tools /\ trouble \subseteq trouble'
    BY <1>1 DEF SetLinkDown, Then
  <1>3. Shape(d) /\ NetForm(n) /\ l \in ToSet(d.links) /\ down \in BOOLEAN
    BY <1>1 DEF RunInv, LinksInv, TypeInv
  <1>4. tools' = "disabled"
    BY <1>1, <1>2 DEF RunInv, RunsDrawn
  <1>5. ASSUME Orderly' PROVE IsRun(e, q)
    <2>1. Orderly /\ Unspoiled
      BY <1>2, <1>5 DEF Orderly, Unspoiled, Without
    <2>2. Good(d, {}) /\ IsRun(d, n)
      BY <1>1, <1>2, <2>1 DEF RunInv, LinksInv, RunsDrawn
    <2> QED
      BY <1>2, <1>3, <2>2, LinkIsSet
  <1> QED
    BY <1>1, <1>4, <1>5 DEF RunsDrawn

\* doRun() makes the network that is drawn.
LEMMA RunRuns ==
    ASSUME RunInv, DoRun
    PROVE  RunsDrawn'
  <1>1. PICK d, e, n, q, p : d = m /\ e = m' /\ n = net /\ q = net' /\ p = prefs
    OBVIOUS
  <1>2. tools' = "disabled" /\ trouble' = trouble
    BY DEF DoRun
  <1>3. (Orderly' <=> Orderly) /\ (Orderly => Unspoiled)
    BY <1>2 DEF Orderly, Unspoiled, Without
  <1>4. CASE UNCHANGED <<net, m>>
    BY <1>2, <1>3, <1>4 DEF RunInv, RunsDrawn
  <1>5. CASE q = RunNet(d, p) /\ e = Undashed(d, ToSet(d.links))
    <2>1. ASSUME Orderly' PROVE IsRun(e, q)
      <3>1. Shape(d) /\ Good(d, {})
        BY <1>1, <1>3, <2>1 DEF RunInv, LinksInv, TypeInv
      <3> QED
        BY <1>5, <3>1, RunStarted
    <2> QED
      BY <1>1, <1>2, <2>1 DEF RunsDrawn
  <1>6. CASE ~n.running /\ q = n
    BY <1>1, <1>6 DEF RunsDrawn
  <1>7. \/ UNCHANGED <<net, m>>
        \/ q = RunNet(d, p) /\ e = Undashed(d, ToSet(d.links))
        \/ ~n.running /\ q = n
    BY <1>1 DEF DoRun
  <1> QED
    BY <1>4, <1>5, <1>6, <1>7

\* Every gesture keeps it.
LEMMA NextRun ==
    ASSUME RunInv, [Next]_vars
    PROVE  RunInv'
  <1>1. LinksInv'
    BY NextLinks DEF RunInv
  <1>2. RunsDrawn /\ (net.running => tools = "disabled")
    BY DEF RunInv, RunsDrawn
  <1>3. trouble \subseteq trouble'
    BY NextChanges DEF RunInv, LinksInv
  <1> DEFINE G == RunsDrawn'
  <1>4. ASSUME NEW kind \in Kinds, ClickNode(kind) PROVE G
    <2>1. ~net.running /\ tools' = tools /\ net' = net
      BY <1>2, <1>4 DEF ClickNode
    <2> QED
      BY <1>2, <1>3, <2>1, RunLeft
  <1>5. ASSUME NEW a \in Nodes(m), NEW b \in Nodes(m), DragLink(a, b) PROVE G
    <2>1. ~net.running /\ tools' = tools /\ net' = net
      BY <1>2, <1>5 DEF DragLink
    <2> QED
      BY <1>2, <1>3, <2>1, RunLeft
  <1>6. ASSUME NEW item, DeleteSelection(item) PROVE G
    <2>1. tools' = tools /\ net' = net /\ m' = DeleteItem(m, tools, item).m
      BY <1>6 DEF DeleteSelection, Then
    <2>2. net.running => m' = m
      <3>1. PICK t, i : t = tools /\ i = item
        OBVIOUS
      <3>2. t = "disabled" => DeleteItem(m, t, i) = [m |-> m, ok |-> TRUE]
        BY DEF DeleteItem, Ok
      <3> QED
        BY <1>2, <2>1, <3>1, <3>2
    <2> QED
      BY <1>2, <1>3, <2>1, <2>2, RunLeft
  <1>7. ASSUME NEW w, OpenDetails(w) PROVE G
    <2>1. m' = m /\ tools' = tools /\ net' = net
      BY <1>7 DEF OpenDetails
    <2> QED
      BY <1>2, <1>3, <2>1, RunLeft
  <1>8. ASSUME CancelDetails PROVE G
    <2>1. m' = m /\ tools' = tools /\ net' = net
      BY <1>8 DEF CancelDetails
    <2> QED
      BY <1>2, <1>3, <2>1, RunLeft
  <1>9. ASSUME NEW typed, OkDetails(typed) PROVE G
    <2>1. tools' = tools /\ net' = net
      BY <1>9 DEF OkDetails
    <2>3. PICK d, t : Then(d, t) /\ Answered(dialog, typed, d, t)
      BY <1>9, OkDetailsThen
    <2>2. net.running => "staleDialog" \in trouble'
      BY <2>3, ThenIs, AnsweredTroubles
    <2> QED
      BY <1>2, <2>1, <2>2, RunSpoiled
  <1>10. ASSUME NEW w, NEW typed, ControllerDetails(w, typed) PROVE G
    <2>1. ~net.running /\ tools' = tools /\ net' = net
      BY <1>10 DEF ControllerDetails
    <2> QED
      BY <1>2, <1>3, <2>1, RunLeft
  <1>11. ASSUME NEW l, LinkDetails(l) PROVE G
    <2>1. ~net.running /\ tools' = tools /\ net' = net
      BY <1>11 DEF LinkDetails
    <2> QED
      BY <1>2, <1>3, <2>1, RunLeft
  <1>12. ASSUME NEW l \in ToSet(m.links), NEW down \in BOOLEAN, SetLinkDown(l, down) PROVE G
    BY <1>12, LinkSetRuns
  <1>13. ASSUME PrefDetails PROVE G
    <2>1. m' = m /\ tools' = tools /\ net' = net
      BY <1>13 DEF PrefDetails
    <2> QED
      BY <1>2, <1>3, <2>1, RunLeft
  <1>14. ASSUME FileNew PROVE G
    <2>1. tools' = tools /\ net' = net
      BY <1>14 DEF FileNew
    <2>2. tools = "disabled" => "fileWhileRunning" \in trouble'
      BY <1>14 DEF FileNew, Then, When, WhileRunning
    <2> QED
      BY <1>2, <2>1, <2>2, RunSpoiled
  <1>15. ASSUME NEW f, FileOpen(f) PROVE G
    <2>1. tools' = tools /\ net' = net
      BY <1>15 DEF FileOpen
    <2>2. tools = "disabled" => "fileWhileRunning" \in trouble'
      BY <1>15 DEF FileOpen, Then, When, WhileRunning
    <2> QED
      BY <1>2, <2>1, <2>2, RunSpoiled
  <1>16. ASSUME DoRun PROVE G
    BY <1>16, RunRuns
  <1>17. ASSUME DoStop PROVE G
    BY <1>17, RunEnded DEF DoStop
  <1>18. ASSUME Quit PROVE G
    BY <1>18, RunEnded DEF Quit
  <1>19. ASSUME UNCHANGED vars PROVE G
    <2>1. m' = m /\ tools' = tools /\ net' = net
      BY <1>19 DEF vars
    <2> QED
      BY <1>2, <1>3, <2>1, RunLeft
  <1> HIDE DEF G
  <1>20. G
    <2>1. CASE Next
      BY <1>4, <1>5, <1>6, <1>7, <1>8, <1>9, <1>10, <1>11, <1>12, <1>13, <1>14, <1>15, <1>16,
         <1>17, <1>18, <2>1 DEF Next
    <2> QED
      BY <1>19, <2>1
  <1> QED
    BY <1>1, <1>20 DEF RunInv, G

\* As long as a network runs the toolbar is disabled, and what runs is what
\* is drawn (doRun(), doStop(), linkUp(), linkDown(), and the guards of the
\* dialogs).
THEOREM RunKept == Spec => []RunInv
  <1>1. Init => RunInv
    BY InitRun
  <1>2. RunInv /\ [Next]_vars => RunInv'
    BY NextRun
  <1> QED
    BY <1>1, <1>2, PTL DEF Spec

\* A switch is started with the controllers that links join to it.
LEMMA StartsAreDrawn ==
    ASSUME NEW d, Shape(d), Good(d, {}), Managed(d, {}), NEW w \in Starting(d),
           NEW s, s = StartedWith(d, w)
    PROVE  s[1] = w.name /\ ToSet(s[2]) = JoinedControllers(d, w.item)
  <1>1. w \in Nodes(d)
    BY DEF Starting
  <1>2. CASE w.kind = "Switch"
    <2>1. s = <<w.name, ListOf(d, w)>>
      BY <1>2 DEF StartedWith, ListOf
    <2>2. ToSet(ListOf(d, w)) = JoinedControllers(d, w.item)
      BY <1>1, <1>2, ListIsDrawn
    <2> QED
      BY <2>1, <2>2
  <1>3. CASE w.kind = "LegacySwitch"
    <2>1. s = <<w.name, <<>> >>
      BY <1>3 DEF StartedWith
    <2>2. s[1] = w.name /\ ToSet(s[2]) = {}
      BY <2>1 DEF ToSet
    <2>3. ASSUME NEW name \in JoinedControllers(d, w.item) PROVE FALSE
      <3>1. PICK l \in ToSet(d.links) : l.type = "control" /\ w.item \in {l.src, l.dest}
        BY DEF JoinedControllers
      <3>2. PICK X : X = {}
        OBVIOUS
      <3>3. Good(d, X) /\ X = {}
        BY <3>2
      <3>4. PICK u, c \in Nodes(d) :
                /\ u.kind \in SwitchLike /\ c.kind = "Controller" /\ u # c
                /\ \/ l.src = c.item /\ l.dest = u.item
                   \/ l.src = u.item /\ l.dest = c.item
        BY <3>1, <3>3, ControlLinkIs
      <3>5. w # c
        BY <1>3, <3>4
      <3>6. w.item # c.item
        BY <1>1, <3>4, <3>5, NodesDiffer
      <3>7. w.item = u.item
        BY <3>1, <3>4, <3>6
      <3>8. w = u
        BY <1>1, <3>4, <3>7, NodesDiffer
      <3>9. Joins(l, w, c)
        BY <3>4, <3>8 DEF Joins
      <3>10. Managing(d, w, c)
        BY <3>1, <3>9 DEF Managing
      <3>11. w.kind = "Switch"
        BY <1>1, <3>4, <3>10 DEF Managed
      <3> QED
        BY <1>3, <3>11
    <2> QED
      BY <2>2, <2>3
  <1> QED
    BY <1>2, <1>3 DEF Starting

\* stop() finds every host and switch of a good drawing.
LEMMA RunCanStop ==
    ASSUME NEW d, Good(d, {}), NEW n, IsRun(d, n)
    PROVE  CanStop(d, n)
  <1>1. AllHaveOpts(d)
    BY EquippedHasOpts DEF Good
  <1>2. ASSUME NEW w \in Nodes(d), w.kind \in {"Host", "Switch"}
        PROVE  /\ w.name \in {b.name : b \in n.nodes}
               /\ w.name \in DOMAIN IF w.kind = "Host" THEN d.hostOpts ELSE d.switchOpts
    <2>1. PICK b, p, x : b = Built(d, p, w) /\ p = n.prefs /\ x = w.name
      OBVIOUS
    <2>2. b.name = x
      <3>1. CASE w.kind = "Host"
        BY <2>1, <3>1 DEF Built
      <3>2. CASE w.kind = "Switch"
        BY <2>1, <3>2 DEF Built
      <3> QED
        BY <1>2, <3>1, <3>2
    <2>3. b \in n.nodes
      BY <2>1 DEF IsRun
    <2>4. w.name \in DOMAIN IF w.kind = "Host" THEN d.hostOpts ELSE d.switchOpts
      BY <1>1, <1>2 DEF AllHaveOpts, HostLike, SwitchLike
    <2> QED
      BY <2>1, <2>2, <2>3, <2>4
  <1> QED
    BY <1>2 DEF CanStop

\* The links built are those drawn, but for options of ends that have rows.
LEMMA BuiltAreDrawn ==
    ASSUME NEW d, NEW b, b = BuiltLinks(d)
    PROVE  LinksAreDrawn(d, b)
  <1>1. PICK r : r = DrawnLinks(d)
    OBVIOUS
  <1>2. BuiltFrom(d, r, b)
    BY <1>1, BuiltEnds
  <1>3. ASSUME NEW k \in DOMAIN r, ~Addressed(d, r[k][1]), ~Addressed(d, r[k][2])
        PROVE  b[k][3] = r[k][3]
    <2>1. MultiLink(d, k) = {}
      BY <1>1, <1>3, NoRowsNoParams
    <2> QED
      BY <1>2, <2>1 DEF BuiltFrom
  <1> QED
    BY <1>1, <1>2, <1>3 DEF LinksAreDrawn, BuiltFrom

RunIsDrawn(d, n) ==
    /\ n.nodes = {Built(d, n.prefs, w) : w \in Nodes(d)}
    /\ LinksAreDrawn(d, n.links)
    /\ {<<s[1], ToSet(s[2])>> : s \in n.started} =
          {<<w.name, JoinedControllers(d, w.item)>> :
                w \in ToSet(NodesLike(d, {"Switch", "LegacySwitch"}))}
    /\ n.down = {{Text(d, l.src), Text(d, l.dest)} : l \in {k \in ToSet(d.links) : k.down}}
    /\ CanStop(d, n)

\* What the invariant says of the network that runs.
LEMMA RunSaysWhatIsDrawn ==
    ASSUME NEW d, Shape(d), Good(d, {}), Managed(d, {}), NEW n, IsRun(d, n)
    PROVE  RunIsDrawn(d, n)
  <1>1. PICK K : K = {"Switch", "LegacySwitch"}
    OBVIOUS
  <1>2. ToSet(NodesLike(d, K)) = {w \in Nodes(d) : w.kind \in K}
    BY LikeIs
  <1>3. ToSet(NodesLike(d, {"Switch", "LegacySwitch"})) = Starting(d)
    BY <1>1, <1>2 DEF Starting
  <1>4. n.started = {StartedWith(d, w) : w \in Starting(d)}
    BY DEF IsRun
  <1>5. \A w \in Starting(d) :
            <<StartedWith(d, w)[1], ToSet(StartedWith(d, w)[2])>>
                = <<w.name, JoinedControllers(d, w.item)>>
    BY StartsAreDrawn
  <1>6. {<<s[1], ToSet(s[2])>> : s \in n.started} =
            {<<w.name, JoinedControllers(d, w.item)>> : w \in Starting(d)}
    <2>1. {<<s[1], ToSet(s[2])>> : s \in n.started} =
              {<<StartedWith(d, w)[1], ToSet(StartedWith(d, w)[2])>> : w \in Starting(d)}
      BY <1>4
    <2> QED
      BY <1>5, <2>1
  <1>7. n.down = {{Text(d, l.src), Text(d, l.dest)} : l \in {k \in ToSet(d.links) : k.down}}
    BY DEF IsRun, Downs, Pair
  <1>8. CanStop(d, n)
    BY RunCanStop
  <1>9. n.nodes = {Built(d, n.prefs, w) : w \in Nodes(d)} /\ LinksAreDrawn(d, n.links)
    BY BuiltAreDrawn DEF IsRun
  <1> QED
    BY <1>3, <1>6, <1>7, <1>8, <1>9 DEF RunIsDrawn

\* While a network runs it has the nodes that are drawn and the links, with
\* their options where no end has addresses for further interfaces, each
\* switch was started with the controllers drawn to it, the links set down
\* are those that the canvas shows so, and stop() finds everything it looks
\* up (build(), start(), stop(), linkUp(), linkDown()).
THEOREM RunsAreDrawn == Spec => []RunIsWhatIsDrawn
  <1>1. RunInv => RunIsWhatIsDrawn
    <2>1. SUFFICES ASSUME RunInv, Orderly, net.running PROVE RunIsWhatIsDrawn
      BY DEF RunIsWhatIsDrawn
    <2>2. PICK d, n : d = m /\ n = net
      OBVIOUS
    <2>3. Shape(d) /\ Good(d, {}) /\ Managed(d, {}) /\ IsRun(d, n)
      BY <2>1, <2>2 DEF RunInv, RunsDrawn, LinksInv, TypeInv, Orderly, Unspoiled, Without
    <2>4. RunIsDrawn(d, n)
      BY <2>3, RunSaysWhatIsDrawn
    <2>5. \A item : JoinedControllers(d, item) = DrawnControllers(item)
      BY <2>2 DEF JoinedControllers, DrawnControllers
    <2>6. {<<w.name, JoinedControllers(d, w.item)>> :
               w \in ToSet(NodesLike(d, {"Switch", "LegacySwitch"}))} =
          {<<w.name, DrawnControllers(w.item)>> :
               w \in ToSet(NodesLike(m, {"Switch", "LegacySwitch"}))}
      BY <2>2, <2>5
    <2>7. RunIsDrawn(m, net) /\ m = d
      BY <2>2, <2>4
    <2> QED
      BY <2>6, <2>7 DEF RunIsWhatIsDrawn, RunIsDrawn
  <1> QED
    BY <1>1, RunKept, PTL

(***************************************************************************)
(* A drawing comes back.  Reading the file of the drawing d, the drawing e *)
(* so far holds the nodes F of d, each with what d says of it.             *)
(***************************************************************************)
SaysSame(d, w, e) ==
    /\ w.kind \in HostLike =>
          w.name \in DOMAIN e.hostOpts /\ e.hostOpts[w.name] = d.hostOpts[w.name]
    /\ w.kind \in SwitchLike =>
          /\ w.name \in DOMAIN e.switchOpts
          /\ e.switchOpts[w.name].num = d.switchOpts[w.name].num
          /\ e.switchOpts[w.name].type = d.switchOpts[w.name].type
          /\ w.kind = "Switch" => e.switchOpts[w.name].controllers = d.switchOpts[w.name].controllers
    /\ w.kind = "Controller" =>
          w.name \in DOMAIN e.controllers /\ e.controllers[w.name] = d.controllers[w.name]

Holding(d, e, F) ==
    /\ Shape(e) /\ Named(e)
    /\ \A w \in F : \E v \in Nodes(e) : v.name = w.name /\ v.kind = w.kind
    /\ \A v \in Nodes(e) : \E w \in F : v.name = w.name /\ v.kind = w.kind
    /\ \A w \in F : SaysSame(d, w, e)

(* The options under other names are the same.                             *)
OthersKept(e, f, name) ==
    \A n : n # name =>
        /\ n \in DOMAIN e.hostOpts => n \in DOMAIN f.hostOpts /\ f.hostOpts[n] = e.hostOpts[n]
        /\ n \in DOMAIN e.switchOpts => n \in DOMAIN f.switchOpts /\ f.switchOpts[n] = e.switchOpts[n]
        /\ n \in DOMAIN e.controllers =>
              n \in DOMAIN f.controllers /\ f.controllers[n] = e.controllers[n]

\* A step that keeps the options under other names changes nothing of what is
\* said of other nodes.
LEMMA OthersSaySame ==
    ASSUME NEW d, NEW e, NEW f, NEW name, OthersKept(e, f, name), NEW w, w.name # name, SaysSame(d, w, e)
    PROVE  SaysSame(d, w, f)
  <1>1. PICK n : n = w.name
    OBVIOUS
  <1>2. /\ n \in DOMAIN e.hostOpts => n \in DOMAIN f.hostOpts /\ f.hostOpts[n] = e.hostOpts[n]
        /\ n \in DOMAIN e.switchOpts => n \in DOMAIN f.switchOpts /\ f.switchOpts[n] = e.switchOpts[n]
        /\ n \in DOMAIN e.controllers =>
              n \in DOMAIN f.controllers /\ f.controllers[n] = e.controllers[n]
    BY <1>1 DEF OthersKept
  <1> QED
    BY <1>1, <1>2 DEF SaysSame

\* A step that adds a node of the drawing, with what the drawing says of it,
\* holds one node more.
LEMMA NodeHeld ==
    ASSUME NEW d, Named(d), NEW F, F \subseteq Nodes(d), NEW e, Holding(d, e, F),
           NEW w \in Nodes(d), w \notin F, NEW f, Shape(f), NodeAdded(e, w.kind, w.name, f),
           OthersKept(e, f, w.name), SaysSame(d, w, f)
    PROVE  Holding(d, f, F \cup {w})
  <1>1. PICK kind, name : kind = w.kind /\ name = w.name
    OBVIOUS
  <1>2. PICK k : k = [item |-> e.next, kind |-> kind, name |-> name]
    OBVIOUS
  <1>3. k.kind = w.kind /\ k.name = w.name
    BY <1>1, <1>2
  <1>4. \A u \in F : u.name # name
    BY <1>1 DEF Named
  <1>5. name \notin NodeNames(e)
    BY <1>4 DEF Holding, NodeNames
  <1>6. Shape(e) /\ NodeAdded(e, kind, name, f) /\ Named(e)
    BY <1>1 DEF Holding
  <1>7. Nodes(f) = Nodes(e) \cup {k} /\ Named(f)
    <2>1. /\ Nodes(f) = Nodes(e) \cup {k} /\ k \notin Nodes(e)
          /\ NodeNames(f) = NodeNames(e) \cup {name}
          /\ Named(f) <=> Named(e) /\ name \notin NodeNames(e)
      BY <1>2, <1>6, NodeAddedNames
    <2> QED
      BY <1>5, <1>6, <2>1
  <1>8. \A u \in F \cup {w} : \E v \in Nodes(f) : v.name = u.name /\ v.kind = u.kind
    BY <1>3, <1>7 DEF Holding
  <1>9. \A v \in Nodes(f) : \E u \in F \cup {w} : v.name = u.name /\ v.kind = u.kind
    BY <1>3, <1>7 DEF Holding
  <1>10. \A u \in F \cup {w} : SaysSame(d, u, f)
    <2>1. ASSUME NEW u \in F PROVE SaysSame(d, u, f)
      <3>1. u.name # name /\ SaysSame(d, u, e) /\ OthersKept(e, f, name)
        BY <1>1, <1>4 DEF Holding
      <3> QED
        BY <3>1, OthersSaySame
    <2> QED
      BY <2>1
  <1> QED
    BY <1>7, <1>8, <1>9, <1>10 DEF Holding

(* Only links are new.                                                     *)
LEMMA LinkedHeld ==
    ASSUME NEW d, NEW F, NEW e, Holding(d, e, F), NEW f, LinkedOnly(e, f)
    PROVE  Holding(d, f, F)
  <1>1. Shape(f) /\ SameNodes(e, f) /\ SameOpts(e, f)
    BY DEF LinkedOnly
  <1>2. Nodes(f) = Nodes(e) /\ Named(f)
    BY <1>1, SameNames DEF Holding
  <1>3. \A w \in F : SaysSame(d, w, f)
    BY <1>1 DEF Holding, SaysSame, SameOpts
  <1> QED
    BY <1>1, <1>2, <1>3 DEF Holding

(* One entry of the file.                                                  *)
LEMMA ControllerHeld ==
    ASSUME NEW d, Shape(d), Named(d), NEW F, F \subseteq Nodes(d), NEW e, Holding(d, e, F),
           NEW w \in Nodes(d), w \notin F, w.kind = "Controller",
           NEW c, c.hostname = w.name, c.type = d.controllers[w.name], NEW r, r = LoadController(e, c)
    PROVE  r.ok /\ Holding(d, r.m, F \cup {w})
  <1>1. PICK name, type : name = c.hostname /\ type = c.type
    OBVIOUS
  <1>2. Shape(e)
    BY DEF Holding
  <1>3. r.ok /\ ControllerAdded(e, name, type, r.m)
    BY <1>1, <1>2, LoadControllerIs
  <1>4. Shape(r.m)
    BY <1>2, <1>3, ControllerAddedShape
  <1>5. NodeAdded(e, w.kind, w.name, r.m)
    BY <1>1, <1>3 DEF ControllerAdded
  <1>6. OthersKept(e, r.m, w.name)
    BY <1>1, <1>3 DEF ControllerAdded, Entered, OthersKept
  <1>7. SaysSame(d, w, r.m)
    <2>1. name \in DOMAIN r.m.controllers /\ r.m.controllers[name] = type
      BY <1>3 DEF ControllerAdded, Entered
    <2> QED
      BY <1>1, <2>1 DEF SaysSame, HostLike, SwitchLike
  <1> QED
    BY <1>3, <1>4, <1>5, <1>6, <1>7, NodeHeld

(* No name was left blank.                                                 *)
LEMMA HostNamed ==
    ASSUME NEW d, Shape(d), Good(d, {}), ~Unnamed(d), NEW w \in Nodes(d), w.kind \in HostLike,
           NEW o, o = d.hostOpts[w.name]
    PROVE  /\ IsHostEntry(o) /\ LoadedName("h", o) = w.name /\ w.name \in DOMAIN d.hostOpts
           /\ o = [o EXCEPT !.hostname = w.name] /\ w.kind = (IF o.docker THEN "Docker" ELSE "Host")
  <1>1. w.name \in DOMAIN d.hostOpts /\ FitsHost(w.kind, w.name, o)
    BY DEF Good, Equipped, EquippedNode
  <1>2. IsHostEntry(o)
    BY <1>1 DEF Shape, Entries
  <1>3. o.hostname # NoName
    BY DEF Unnamed
  <1>4. o.hostname = w.name
    BY <1>1, <1>3 DEF FitsHost
  <1>5. o = [o EXCEPT !.hostname = w.name]
    BY <1>2, <1>4 DEF IsHostEntry
  <1> QED
    BY <1>1, <1>2, <1>3, <1>4, <1>5 DEF LoadedName, FitsHost, HostLike

\* Reading the entry of a host (the loop over hosts of loadTopology()) adds
\* that host as it was drawn.
LEMMA HostHeld ==
    ASSUME NEW d, Shape(d), Good(d, {}), ~Unnamed(d), NEW F, F \subseteq Nodes(d),
           NEW e, Holding(d, e, F), NEW w \in Nodes(d), w \notin F, w.kind \in HostLike,
           NEW o, o = d.hostOpts[w.name], NEW r, r = LoadHost(e, o)
    PROVE  r.ok /\ Holding(d, r.m, F \cup {w})
  <1>1. /\ IsHostEntry(o) /\ LoadedName("h", o) = w.name
        /\ o = [o EXCEPT !.hostname = w.name] /\ w.kind = (IF o.docker THEN "Docker" ELSE "Host")
    BY HostNamed
  <1>2. Shape(e) /\ Named(d)
    BY DEF Holding, Good
  <1>3. PICK name : name = LoadedName("h", o)
    OBVIOUS
  <1>4. r.ok /\ \E kind, p : /\ HostAdded(e, kind, name, p, r.m)
                             /\ p = [o EXCEPT !.hostname = name]
                             /\ kind = IF o.docker THEN "Docker" ELSE "Host"
    BY <1>1, <1>2, <1>3, LoadHostIs
  <1>5. HostAdded(e, w.kind, w.name, o, r.m)
    BY <1>1, <1>3, <1>4
  <1>6. Shape(r.m)
    BY <1>2, <1>5, HostAddedShape
  <1>7. NodeAdded(e, w.kind, w.name, r.m)
    BY <1>5 DEF HostAdded
  <1>8. OthersKept(e, r.m, w.name)
    BY <1>5 DEF HostAdded, Entered, OthersKept
  <1>9. SaysSame(d, w, r.m)
    <2>1. w.name \in DOMAIN r.m.hostOpts /\ r.m.hostOpts[w.name] = o
      BY <1>5 DEF HostAdded, Entered
    <2> QED
      BY <2>1 DEF SaysSame, HostLike, SwitchLike
  <1> QED
    BY <1>2, <1>4, <1>6, <1>7, <1>8, <1>9, NodeHeld

(* The links of a switch that is loaded to controllers that are.           *)
LEMMA LinkControllersOk ==
    ASSUME NEW q, q.ok, Shape(q.m), NEW name, name \in NodeNames(q.m), NEW s, IsSeq(s),
           ToSet(s) \subseteq NodeNames(q.m), NEW r, r = LinkControllers(q, name, s)
    PROVE  r.ok /\ LinkedOnly(q.m, r.m)
  <1>0. PICK b : b = q.m
    OBVIOUS
  <1>1. PICK N \in Nat : Len(s) = N /\ DOMAIN s = 1..N
    BY SeqIs
  <1>2. PICK after : Runs(after, "linkController", name, q, s, N, r)
    BY <1>1, LinkControllersRuns
  <1> DEFINE Fine(e) == e.ok /\ LinkedOnly(b, e.m)
             T == {k \in 0..N : Fine(after[k])}
  <1>3. 0 \in T
    <2>1. LinkedOnly(b, b)
      BY <1>0 DEF LinkedOnly, SameNodes, SameOpts
    <2> QED
      BY <1>0, <1>2, <2>1 DEF Runs
  <1>4. ASSUME NEW n \in Nat, n < N, n \in T PROVE n + 1 \in T
    <2>1. PICK x, y, c, d, type, opts :
             /\ x = after[n] /\ y = after[n + 1] /\ c = s[n + 1] /\ d = x.m
             /\ type = "control" /\ opts = {}
      OBVIOUS
    <2>2. x.ok /\ LinkedOnly(b, d)
      BY <1>4, <2>1
    <2>3. n + 1 \in 0..N /\ n + 1 \in 1..N
          /\ y = IF x.ok THEN Step("linkController", name, x.m, c) ELSE x
      BY <1>2, <1>4, <2>1, LoopStep
    <2>4. y = LinkByName(d, name, c, type, opts) /\ type \in {"data", "control"}
      BY <2>1, <2>2, <2>3 DEF Step
    <2>5. Shape(d) /\ SameNodes(b, d)
      BY <2>2 DEF LinkedOnly
    <2>6. LinkedOnly(d, y.m)
      BY <2>4, <2>5, LinkByNameOnly
    <2>7. name \in NodeNames(d) /\ c \in NodeNames(d)
      <3>1. NodeNames(d) = NodeNames(b)
        BY <2>5, SameNames
      <3>2. c \in ToSet(s)
        BY <1>1, <2>1, <2>3 DEF ToSet
      <3> QED
        BY <1>0, <3>1, <3>2
    <2>8. y.ok
      <3>1. /\ ~y.ok => {name, c} \cap NodeNames(d) # {name, c}
        BY <2>4, <2>5, LinkByNameIs
      <3> QED
        BY <2>7, <3>1
    <2>9. LinkedOnly(b, y.m)
      BY <2>2, <2>6 DEF LinkedOnly, SameNodes, SameOpts
    <2>10. Fine(after[n + 1])
      BY <2>1, <2>8, <2>9
    <2> HIDE DEF Fine
    <2> QED
      BY <2>3, <2>10
  <1>5. \A n \in 0..N : n \in T
    <2> HIDE DEF T
    <2> QED
      BY <1>3, <1>4, UpTo
  <1>6. Fine(after[N])
    BY <1>5
  <1> QED
    BY <1>0, <1>2, <1>6 DEF Runs

\* The entry that a good drawing has of a switch is well-formed, names it,
\* gives its kind, and lists controllers of the drawing.
LEMMA SwitchNamed ==
    ASSUME NEW d, Shape(d), Good(d, {}), ~Unnamed(d), NEW w \in Nodes(d), w.kind \in SwitchLike,
           NEW o, o = d.switchOpts[w.name]
    PROVE  /\ IsSwitchEntry(o) /\ LoadedName("s", o) = w.name /\ LoadedKind(o) = w.kind
           /\ ToSet(LoadedList(o)) \subseteq ControllerNames(d)
           /\ w.kind = "Switch" => LoadedList(o) = o.controllers
  <1>1. /\ w.name \in DOMAIN d.switchOpts /\ FitsSwitch(w.kind, w.name, o)
        /\ FitList(w.kind, o.controllers, ControllerNames(d))
    BY DEF Good, Equipped, EquippedNode, ListOf
  <1>2. IsSwitchEntry(o)
    BY <1>1 DEF Shape, Entries
  <1>3. o.hostname # NoName
    BY DEF Unnamed
  <1>4. LoadedName("s", o) = w.name
    BY <1>1, <1>3 DEF LoadedName, FitsSwitch
  <1>5. LoadedKind(o) = w.kind
    <2>1. w.kind \in {"Switch", "LegacySwitch", "LegacyRouter"}
      BY DEF SwitchLike
    <2> QED
      BY <1>1, <2>1 DEF LoadedKind, FitsSwitch
  <1>6. ToSet(LoadedList(o)) \subseteq ControllerNames(d)
    <2>1. CASE o.controllers = NoList
      BY <2>1 DEF LoadedList, ToSet
    <2>2. CASE o.controllers # NoList
      BY <1>1, <2>2 DEF LoadedList, FitList
    <2> QED
      BY <2>1, <2>2
  <1>7. w.kind = "Switch" => LoadedList(o) = o.controllers
    BY <1>1 DEF FitList, LoadedList
  <1> QED
    BY <1>2, <1>4, <1>5, <1>6, <1>7

\* Reading the entry of a switch (the loop over switches of loadTopology())
\* adds that switch as it was drawn, if all controllers were read before.
LEMMA SwitchHeld ==
    ASSUME NEW d, Shape(d), Good(d, {}), ~Unnamed(d), NEW F, F \subseteq Nodes(d),
           {c \in Nodes(d) : c.kind = "Controller"} \subseteq F,
           NEW e, Holding(d, e, F), NEW w \in Nodes(d), w \notin F, w.kind \in SwitchLike,
           NEW o, o = d.switchOpts[w.name], NEW v, v = 2, NEW r, r = LoadSwitch(e, o, v)
    PROVE  r.ok /\ Holding(d, r.m, F \cup {w})
  <1>1. PICK name, kind, list : name = w.name /\ kind = w.kind /\ list = LoadedList(o)
    OBVIOUS
  <1>2. /\ IsSwitchEntry(o) /\ LoadedName("s", o) = name /\ LoadedKind(o) = kind
        /\ ToSet(list) \subseteq ControllerNames(d)
        /\ kind = "Switch" => list = o.controllers
    <2>1. /\ IsSwitchEntry(o) /\ LoadedName("s", o) = w.name /\ LoadedKind(o) = w.kind
          /\ ToSet(LoadedList(o)) \subseteq ControllerNames(d)
          /\ w.kind = "Switch" => LoadedList(o) = o.controllers
      BY SwitchNamed
    <2> QED
      BY <1>1, <2>1
  <1>3. Shape(e) /\ Named(d)
    BY DEF Holding, Good
  <1>4. PICK p, f : SwitchLoaded(e, o, v, r, p, f)
    BY <1>2, <1>3, LoadSwitchIs
  <1>5. /\ SwitchAdded(e, kind, name, p, f) /\ IsSeq(list)
        /\ p = [o EXCEPT !.hostname = name, !.controllers = list]
        /\ r = LinkControllers(Ok(f), name, list)
    <2>1. /\ SwitchAdded(e, LoadedKind(o), LoadedName("s", o), p, f) /\ IsSeq(LoadedList(o))
          /\ p = [o EXCEPT !.hostname = LoadedName("s", o), !.controllers = LoadedList(o)]
          /\ r = LinkControllers(Ok(f), LoadedName("s", o),
                                 IF v > 1 THEN LoadedList(o) ELSE <<<<"c", 0>>>>)
      BY <1>4 DEF SwitchLoaded
    <2>2. v > 1
      OBVIOUS
    <2> QED
      BY <1>1, <1>2, <2>1, <2>2
  <1>6. Shape(f) /\ NodeAdded(e, kind, name, f)
    BY <1>3, <1>5, SwitchAddedShape DEF SwitchAdded
  <1>7. OthersKept(e, f, name)
    BY <1>5 DEF SwitchAdded, Entered, OthersKept
  <1>8. SaysSame(d, w, f)
    <2>1. name \in DOMAIN f.switchOpts /\ f.switchOpts[name] = p
      BY <1>5 DEF SwitchAdded, Entered
    <2>2. p.num = o.num /\ p.type = o.type /\ p.controllers = list
      BY <1>2, <1>5 DEF IsSwitchEntry
    <2>3. w.kind \notin HostLike /\ w.kind # "Controller"
      BY DEF HostLike, SwitchLike
    <2> QED
      BY <1>1, <1>2, <2>1, <2>2, <2>3 DEF SaysSame
  <1>9. Holding(d, f, F \cup {w})
    BY <1>1, <1>3, <1>6, <1>7, <1>8, NodeHeld
  <1>10. PICK q : q = Ok(f)
    OBVIOUS
  <1>11. q.ok /\ q.m = f /\ r = LinkControllers(q, name, list)
    BY <1>5, <1>10 DEF Ok
  <1>12. name \in NodeNames(f) /\ ToSet(list) \subseteq NodeNames(f)
    <2>1. \A u \in F \cup {w} : u.name \in NodeNames(f)
      BY <1>9 DEF Holding, NodeNames
    <2>2. \A n \in ControllerNames(d) : \E u \in F : u.name = n
      BY DEF ControllerNames
    <2> QED
      BY <1>1, <1>2, <2>1, <2>2
  <1>13. r.ok /\ LinkedOnly(f, r.m)
    <2>1. r.ok /\ LinkedOnly(q.m, r.m)
      BY <1>5, <1>6, <1>11, <1>12, LinkControllersOk
    <2> QED
      BY <1>11, <2>1
  <1> QED
    BY <1>9, <1>13, LinkedHeld

(* The entries of the file, one after the other: s are nodes of d.         *)
Following(d, s, F) ==
    IsSeq(s) /\ NoTwice(s) /\ ToSet(s) \subseteq Nodes(d) /\ ToSet(s) \cap F = {} /\ F \subseteq Nodes(d)

\* The next node of the file is one that was not read yet.
LEMMA FollowingOne ==
    ASSUME NEW d, NEW s, NEW F, Following(d, s, F), NEW n \in Nat, n < Len(s),
           NEW w, w = s[n + 1]
    PROVE  /\ n + 1 \in DOMAIN s /\ w \in ToSet(s) /\ w \in Nodes(d)
           /\ w \notin F \cup Upto(s, n) /\ F \cup Upto(s, n) \subseteq Nodes(d)
           /\ F \cup Upto(s, n + 1) = (F \cup Upto(s, n)) \cup {w}
  <1>1. IsSeq(s) /\ NoTwice(s) /\ ToSet(s) \subseteq Nodes(d) /\ ToSet(s) \cap F = {} /\ F \subseteq Nodes(d)
    BY DEF Following
  <1>2. DOMAIN s = 1..Len(s) /\ Len(s) \in Nat
    BY <1>1, SeqIs
  <1>3. Upto(s, n + 1) = Upto(s, n) \cup {w} /\ w \notin Upto(s, n)
    BY <1>1, UptoIs
  <1>4. n + 1 \in DOMAIN s
    BY <1>2
  <1>5. w \in ToSet(s)
    BY <1>4 DEF ToSet
  <1>6. Upto(s, n) \subseteq ToSet(s)
    BY <1>2 DEF Upto, ToSet
  <1> QED
    BY <1>1, <1>3, <1>4, <1>5, <1>6

\* Reading all entries of controllers adds those controllers,
LEMMA LoadControllersHeld ==
    ASSUME NEW d, Shape(d), Named(d), NEW F, NEW s, Following(d, s, F),
           \A w \in ToSet(s) : w.kind = "Controller",
           NEW z, z = [k \in DOMAIN s |-> [hostname |-> s[k].name, type |-> d.controllers[s[k].name]]],
           NEW q, q.ok, Holding(d, q.m, F), NEW r, r = LoadControllers(q, z)
    PROVE  r.ok /\ Holding(d, r.m, F \cup ToSet(s))
  <1>0. IsSeq(s)
    BY DEF Following
  <1>1. PICK N \in Nat : Len(s) = N /\ Len(z) = N /\ DOMAIN s = 1..N
    BY <1>0, SeqIs
  <1>2. PICK after : Runs(after, "loadController", NoName, q, z, N, r)
    BY <1>1, LoadControllersRuns
  <1> DEFINE Fine(e, k) == e.ok /\ Holding(d, e.m, F \cup Upto(s, k))
             T == {k \in 0..N : Fine(after[k], k)}
  <1>3. 0 \in T
    <2>1. F \cup Upto(s, 0) = F
      BY <1>0, UptoIs
    <2>2. after[0] = q
      BY <1>2 DEF Runs
    <2>3. Fine(after[0], 0)
      BY <2>1, <2>2
    <2>4. 0 \in 0..N
      OBVIOUS
    <2> HIDE DEF Fine
    <2> QED
      BY <2>3, <2>4
  <1>4. ASSUME NEW n \in Nat, n < N, n \in T PROVE n + 1 \in T
    <2>1. PICK x, y, c, w : x = after[n] /\ y = after[n + 1] /\ c = z[n + 1] /\ w = s[n + 1]
      OBVIOUS
    <2>2. x.ok /\ Holding(d, x.m, F \cup Upto(s, n))
      BY <1>4, <2>1
    <2>3. n + 1 \in 0..N /\ y = IF x.ok THEN Step("loadController", NoName, x.m, c) ELSE x
      <3>1. /\ n + 1 \in 1..N /\ n + 1 \in 0..N
            /\ after[n + 1] = IF after[n].ok THEN Step("loadController", NoName, after[n].m, z[n + 1])
                              ELSE after[n]
        <4>1. PICK op, nn : op = "loadController" /\ nn = NoName
          OBVIOUS
        <4>2. Runs(after, op, nn, q, z, N, r)
          BY <1>2, <4>1
        <4> HIDE <1>2
        <4>3. /\ n + 1 \in 1..N /\ n + 1 \in 0..N
              /\ after[n + 1] = IF after[n].ok THEN Step(op, nn, after[n].m, z[n + 1]) ELSE after[n]
          BY <1>4, <4>2, LoopStep
        <4> QED
          BY <4>1, <4>3
      <3> QED
        BY <2>1, <3>1
    <2>4. y = LoadController(x.m, c)
      BY <2>2, <2>3 DEF Step
    <2>5. /\ n + 1 \in DOMAIN s /\ w \in ToSet(s) /\ w \in Nodes(d)
          /\ w \notin F \cup Upto(s, n) /\ F \cup Upto(s, n) \subseteq Nodes(d)
          /\ F \cup Upto(s, n + 1) = (F \cup Upto(s, n)) \cup {w}
      BY <1>1, <1>4, <2>1, FollowingOne
    <2>6. c.hostname = w.name /\ c.type = d.controllers[w.name] /\ w.kind = "Controller"
      BY <2>1, <2>5
    <2>7. PICK G : G = F \cup Upto(s, n)
      OBVIOUS
    <2>8. y.ok /\ Holding(d, y.m, G \cup {w})
      BY <2>2, <2>4, <2>5, <2>6, <2>7, ControllerHeld
    <2>9. Fine(after[n + 1], n + 1)
      BY <2>1, <2>5, <2>7, <2>8
    <2> HIDE DEF Fine
    <2> QED
      BY <2>3, <2>9
  <1>5. \A n \in 0..N : n \in T
    <2> HIDE DEF T
    <2> QED
      BY <1>3, <1>4, UpTo
  <1>6. Fine(after[N], N)
    <2>1. N \in T
      <3> HIDE DEF T
      <3> QED
        BY <1>5
    <2> HIDE DEF Fine
    <2> QED
      BY <2>1
  <1>7. Upto(s, N) = ToSet(s)
    BY <1>0, <1>1, UptoIs
  <1> QED
    BY <1>2, <1>6, <1>7 DEF Runs

\* of hosts those hosts,
LEMMA LoadHostsHeld ==
    ASSUME NEW d, Shape(d), Good(d, {}), ~Unnamed(d), NEW F, NEW s, Following(d, s, F),
           \A w \in ToSet(s) : w.kind \in HostLike,
           NEW z, z = [k \in DOMAIN s |-> d.hostOpts[s[k].name]],
           NEW q, q.ok, Holding(d, q.m, F), NEW r, r = LoadHosts(q, z)
    PROVE  r.ok /\ Holding(d, r.m, F \cup ToSet(s))
  <1>0. IsSeq(s)
    BY DEF Following
  <1>1. PICK N \in Nat : Len(s) = N /\ Len(z) = N /\ DOMAIN s = 1..N
    BY <1>0, SeqIs
  <1>2. PICK after : Runs(after, "loadHost", NoName, q, z, N, r)
    BY <1>1, LoadHostsRuns
  <1> DEFINE Fine(e, k) == e.ok /\ Holding(d, e.m, F \cup Upto(s, k))
             T == {k \in 0..N : Fine(after[k], k)}
  <1>3. 0 \in T
    <2>1. F \cup Upto(s, 0) = F
      BY <1>0, UptoIs
    <2>2. after[0] = q
      BY <1>2 DEF Runs
    <2>3. Fine(after[0], 0)
      BY <2>1, <2>2
    <2>4. 0 \in 0..N
      OBVIOUS
    <2> HIDE DEF Fine
    <2> QED
      BY <2>3, <2>4
  <1>4. ASSUME NEW n \in Nat, n < N, n \in T PROVE n + 1 \in T
    <2>1. PICK x, y, c, w : x = after[n] /\ y = after[n + 1] /\ c = z[n + 1] /\ w = s[n + 1]
      OBVIOUS
    <2>2. x.ok /\ Holding(d, x.m, F \cup Upto(s, n))
      BY <1>4, <2>1
    <2>3. n + 1 \in 0..N /\ y = IF x.ok THEN Step("loadHost", NoName, x.m, c) ELSE x
      <3>1. /\ n + 1 \in 1..N /\ n + 1 \in 0..N
            /\ after[n + 1] = IF after[n].ok THEN Step("loadHost", NoName, after[n].m, z[n + 1])
                              ELSE after[n]
        <4>1. PICK op, nn : op = "loadHost" /\ nn = NoName
          OBVIOUS
        <4>2. Runs(after, op, nn, q, z, N, r)
          BY <1>2, <4>1
        <4> HIDE <1>2
        <4>3. /\ n + 1 \in 1..N /\ n + 1 \in 0..N
              /\ after[n + 1] = IF after[n].ok THEN Step(op, nn, after[n].m, z[n + 1]) ELSE after[n]
          BY <1>4, <4>2, LoopStep
        <4> QED
          BY <4>1, <4>3
      <3> QED
        BY <2>1, <3>1
    <2>4. y = LoadHost(x.m, c)
      BY <2>2, <2>3 DEF Step
    <2>5. /\ n + 1 \in DOMAIN s /\ w \in ToSet(s) /\ w \in Nodes(d)
          /\ w \notin F \cup Upto(s, n) /\ F \cup Upto(s, n) \subseteq Nodes(d)
          /\ F \cup Upto(s, n + 1) = (F \cup Upto(s, n)) \cup {w}
      BY <1>1, <1>4, <2>1, FollowingOne
    <2>6. c = d.hostOpts[w.name] /\ w.kind \in HostLike
      BY <2>1, <2>5
    <2>7. PICK G : G = F \cup Upto(s, n)
      OBVIOUS
    <2>8. y.ok /\ Holding(d, y.m, G \cup {w})
      BY <2>2, <2>4, <2>5, <2>6, <2>7, HostHeld
    <2>9. Fine(after[n + 1], n + 1)
      BY <2>1, <2>5, <2>7, <2>8
    <2> HIDE DEF Fine
    <2> QED
      BY <2>3, <2>9
  <1>5. \A n \in 0..N : n \in T
    <2> HIDE DEF T
    <2> QED
      BY <1>3, <1>4, UpTo
  <1>6. Fine(after[N], N)
    <2>1. N \in T
      <3> HIDE DEF T
      <3> QED
        BY <1>5
    <2> HIDE DEF Fine
    <2> QED
      BY <2>1
  <1>7. Upto(s, N) = ToSet(s)
    BY <1>0, <1>1, UptoIs
  <1> QED
    BY <1>2, <1>6, <1>7 DEF Runs

\* and of switches those switches, which are linked to controllers that are
\* there.
LEMMA LoadSwitchesHeld ==
    ASSUME NEW d, Shape(d), Good(d, {}), ~Unnamed(d), NEW F, NEW s, Following(d, s, F),
           \A w \in ToSet(s) : w.kind \in SwitchLike,
           NEW z, z = [k \in DOMAIN s |-> d.switchOpts[s[k].name]],
           {c \in Nodes(d) : c.kind = "Controller"} \subseteq F, NEW v, v = 2,
           NEW q, q.ok, Holding(d, q.m, F), NEW r, r = LoadSwitches(q, z, v)
    PROVE  r.ok /\ Holding(d, r.m, F \cup ToSet(s))
  <1>0. IsSeq(s)
    BY DEF Following
  <1>1. PICK N \in Nat : Len(s) = N /\ Len(z) = N /\ DOMAIN s = 1..N
    BY <1>0, SeqIs
  <1>2. PICK after : Runs(after, "loadSwitch", v, q, z, N, r)
    BY <1>1, LoadSwitchesRuns
  <1> DEFINE Fine(e, k) == e.ok /\ Holding(d, e.m, F \cup Upto(s, k))
             T == {k \in 0..N : Fine(after[k], k)}
  <1>3. 0 \in T
    <2>1. F \cup Upto(s, 0) = F
      BY <1>0, UptoIs
    <2>2. after[0] = q
      BY <1>2 DEF Runs
    <2>3. Fine(after[0], 0)
      BY <2>1, <2>2
    <2>4. 0 \in 0..N
      OBVIOUS
    <2> HIDE DEF Fine
    <2> QED
      BY <2>3, <2>4
  <1>4. ASSUME NEW n \in Nat, n < N, n \in T PROVE n + 1 \in T
    <2>1. PICK x, y, c, w : x = after[n] /\ y = after[n + 1] /\ c = z[n + 1] /\ w = s[n + 1]
      OBVIOUS
    <2>2. x.ok /\ Holding(d, x.m, F \cup Upto(s, n))
      BY <1>4, <2>1
    <2>3. n + 1 \in 0..N /\ y = IF x.ok THEN Step("loadSwitch", v, x.m, c) ELSE x
      <3>1. /\ n + 1 \in 1..N /\ n + 1 \in 0..N
            /\ after[n + 1] = IF after[n].ok THEN Step("loadSwitch", v, after[n].m, z[n + 1])
                              ELSE after[n]
        <4>1. PICK op, nn : op = "loadSwitch" /\ nn = v
          OBVIOUS
        <4>2. Runs(after, op, nn, q, z, N, r)
          BY <1>2, <4>1
        <4> HIDE <1>2
        <4>3. /\ n + 1 \in 1..N /\ n + 1 \in 0..N
              /\ after[n + 1] = IF after[n].ok THEN Step(op, nn, after[n].m, z[n + 1]) ELSE after[n]
          BY <1>4, <4>2, LoopStep
        <4> QED
          BY <4>1, <4>3
      <3> QED
        BY <2>1, <3>1
    <2>4. y = LoadSwitch(x.m, c, v)
      BY <2>2, <2>3 DEF Step
    <2>5. /\ n + 1 \in DOMAIN s /\ w \in ToSet(s) /\ w \in Nodes(d)
          /\ w \notin F \cup Upto(s, n) /\ F \cup Upto(s, n) \subseteq Nodes(d)
          /\ F \cup Upto(s, n + 1) = (F \cup Upto(s, n)) \cup {w}
      BY <1>1, <1>4, <2>1, FollowingOne
    <2>6. c = d.switchOpts[w.name] /\ w.kind \in SwitchLike
      BY <2>1, <2>5
    <2>7. PICK G : G = F \cup Upto(s, n)
      OBVIOUS
    <2>8. {k \in Nodes(d) : k.kind = "Controller"} \subseteq G
      BY <2>7
    <2>9. y.ok /\ Holding(d, y.m, G \cup {w})
      BY <2>2, <2>4, <2>5, <2>6, <2>7, <2>8, SwitchHeld
    <2>10. Fine(after[n + 1], n + 1)
      BY <2>1, <2>5, <2>7, <2>9
    <2> HIDE DEF Fine
    <2> QED
      BY <2>3, <2>10
  <1>5. \A n \in 0..N : n \in T
    <2> HIDE DEF T
    <2> QED
      BY <1>3, <1>4, UpTo
  <1>6. Fine(after[N], N)
    <2>1. N \in T
      <3> HIDE DEF T
      <3> QED
        BY <1>5
    <2> HIDE DEF Fine
    <2> QED
      BY <2>1
  <1>7. Upto(s, N) = ToSet(s)
    BY <1>0, <1>1, UptoIs
  <1> QED
    BY <1>2, <1>6, <1>7 DEF Runs

(* The data links come back in their order.                                *)

(* The elements of s that are in S are those that are in T.                *)
ChosenSame(s, S, T) == \A k \in DOMAIN s : s[k] \in S <=> s[k] \in T
ChosenOneMore(s, S, e, z, T) ==
    /\ e \in T => Chosen(z, T) = Append(Chosen(s, S), e)
    /\ e \notin T => Chosen(z, T) = Chosen(s, S)
\* An element appended to a sequence is chosen last.
LEMMA ChosenAppended ==
    ASSUME NEW s, IsSeq(s), NEW e, NEW z, z = Append(s, e), NEW S, NEW T, ChosenSame(s, S, T)
    PROVE  ChosenOneMore(s, S, e, z, T)
  <1>1. PICK N \in Nat : /\ DOMAIN s = 1..N /\ z[N + 1] = e /\ Len(z) = N + 1
                         /\ \A i \in 1..N : z[i] = s[i]
    BY AppendedLast
  <1>2. Len(s) = N /\ IsSeq(z)
    BY <1>1, SeqIs, AppendedSeq
  <1>3. PICK f : /\ f[0] = <<>> /\ f[N] = Chosen(s, S)
                 /\ \A n \in Nat : n < N =>
                       f[n + 1] = IF s[n + 1] \in S THEN Append(f[n], s[n + 1]) ELSE f[n]
    <2>1. \E f1 : ChoiceOf(f1, s, S, N)
      BY <1>2, ChoiceIs
    <2> QED
      BY <2>1 DEF ChoiceOf
  <1>4. PICK M \in Nat : M = N + 1
    OBVIOUS
  <1>5. PICK g : /\ g[0] = <<>> /\ g[M] = Chosen(z, T)
                 /\ \A n \in Nat : n < M =>
                       g[n + 1] = IF z[n + 1] \in T THEN Append(g[n], z[n + 1]) ELSE g[n]
    <2>1. IsSeq(z) /\ M = Len(z)
      BY <1>1, <1>2, <1>4
    <2>2. \E f1 : ChoiceOf(f1, z, T, M)
      BY <2>1, ChoiceIs
    <2> QED
      BY <2>2 DEF ChoiceOf
  <1> DEFINE K == {k \in 0..N : g[k] = f[k]}
  <1>6. 0 \in K
    BY <1>3, <1>5
  <1>7. ASSUME NEW n \in Nat, n < N, n \in K PROVE n + 1 \in K
    <2>1. n + 1 \in 1..N /\ n < M
      BY <1>4, <1>7
    <2>2. g[n] = f[n]
      BY <1>7
    <2>3. z[n + 1] = s[n + 1] /\ (s[n + 1] \in S <=> z[n + 1] \in T)
      BY <1>1, <2>1 DEF ChosenSame
    <2>4. g[n + 1] = IF z[n + 1] \in T THEN Append(g[n], z[n + 1]) ELSE g[n]
      BY <1>5, <2>1
    <2>5. f[n + 1] = IF s[n + 1] \in S THEN Append(f[n], s[n + 1]) ELSE f[n]
      BY <1>3, <1>7
    <2>6. g[n + 1] = f[n + 1]
      BY <2>2, <2>3, <2>4, <2>5
    <2> QED
      BY <2>1, <2>6
  <1>8. g[N] = f[N]
    <2>1. \A n \in 0..N : n \in K
      <3> HIDE DEF K
      <3> QED
        BY <1>6, <1>7, UpTo
    <2> QED
      BY <2>1
  <1>9. N < M
    BY <1>4
  <1>10. g[N + 1] = IF z[N + 1] \in T THEN Append(g[N], z[N + 1]) ELSE g[N]
    BY <1>5, <1>9
  <1>11. PICK b, c, x : b = Chosen(s, S) /\ c = Chosen(z, T) /\ x = z[N + 1]
    OBVIOUS
  <1>12. g[N] = b /\ g[N + 1] = c /\ x = e
    BY <1>1, <1>3, <1>4, <1>5, <1>8, <1>11
  <1>13. c = IF x \in T THEN Append(b, x) ELSE b
    BY <1>10, <1>11, <1>12
  <1> QED
    BY <1>11, <1>12, <1>13 DEF ChosenOneMore

\* Names are those of the nodes on the canvas.
LEMMA SameText ==
    ASSUME NEW e, NEW f, Nodes(f) = Nodes(e), f.gone = e.gone, NEW item
    PROVE  Text(f, item) = Text(e, item)
  BY DEF Text

\* What the data links are, and the links that build() makes of them.
LEMMA DataLinksIs ==
    ASSUME NEW e, Shape(e)
    PROVE  /\ IsSeq(DataLinks(e)) /\ ToSet(DataLinks(e)) = {l \in ToSet(e.links) : l.type = "data"}
           /\ IsSeq(DrawnLinks(e)) /\ DOMAIN DrawnLinks(e) = DOMAIN DataLinks(e)
           /\ \A k \in DOMAIN DataLinks(e) :
                 DrawnLinks(e)[k] = <<Text(e, DataLinks(e)[k].src), Text(e, DataLinks(e)[k].dest),
                                      DataLinks(e)[k].opts>>
  <1>1. PICK s : s = DataLinks(e)
    OBVIOUS
  <1>2. PICK b : b = DrawnLinks(e)
    OBVIOUS
  <1>3. IsSeq(e.links)
    BY DEF Shape, Drawn
  <1>4. IsSeq(s) /\ ToSet(s) = {l \in ToSet(e.links) : l.type = "data"}
    <2>1. PICK S : S = {l \in ToSet(e.links) : l.type = "data"}
      OBVIOUS
    <2>2. s = Chosen(e.links, S)
      BY <1>1, <2>1 DEF DataLinks
    <2>3. IsSeq(s) /\ ToSet(s) = ToSet(e.links) \cap S
      BY <1>3, <2>2, ChosenIs
    <2> QED
      BY <2>1, <2>3
  <1>5. b = [k \in DOMAIN s |-> <<Text(e, s[k].src), Text(e, s[k].dest), s[k].opts>>]
    BY <1>1, <1>2 DEF DrawnLinks, Each
  <1>6. b = [k \in DOMAIN s |-> b[k]]
    BY <1>5
  <1>7. IsSeq(b) /\ DOMAIN b = DOMAIN s
    BY <1>4, <1>6, EachSeq
  <1> QED
    BY <1>1, <1>2, <1>4, <1>5, <1>7

BuiltOneMore(e, x, f) == DrawnLinks(f) = Append(DrawnLinks(e), x)
\* Adding a data link adds the link that build() makes of it at the end.
LEMMA DataLinkTold ==
    ASSUME NEW e, Shape(e), e.gone = {}, NEW v \in Nodes(e), NEW w \in Nodes(e), NEW type, type = "data",
           NEW opts, NEW f, LinkAdded(e, v.item, w.item, type, opts, f), NEW x, x = <<v.name, w.name, opts>>
    PROVE  BuiltOneMore(e, x, f)
  <1>0. PICK src, dest : src = v.item /\ dest = w.item
    OBVIOUS
  <1>1. PICK l : l = [item |-> e.next, type |-> type, src |-> src, dest |-> dest,
                      opts |-> opts, down |-> FALSE]
    OBVIOUS
  <1>2. l.type = "data" /\ l.src = v.item /\ l.dest = w.item /\ l.opts = opts
    BY <1>0, <1>1
  <1>3. f.links = Append(e.links, l) /\ SameNodes(e, f)
    BY <1>0, <1>1 DEF LinkAdded
  <1>4. Shape(f)
    <2>1. LinkAdded(e, src, dest, type, opts, f) /\ type \in {"data", "control"}
      BY <1>0
    <2> QED
      BY <2>1, LinkAddedShape
  <1>5. PICK s, z : s = DataLinks(e) /\ z = DataLinks(f)
    OBVIOUS
  <1>6. z = Append(s, l)
    <2>1. PICK S, T : S = {k \in ToSet(e.links) : k.type = "data"} /\ T = {k \in ToSet(f.links) : k.type = "data"}
      OBVIOUS
    <2>2. s = Chosen(e.links, S) /\ z = Chosen(f.links, T)
      BY <1>5, <2>1 DEF DataLinks
    <2>3. IsSeq(e.links)
      BY DEF Shape, Drawn
    <2>4. ToSet(f.links) = ToSet(e.links) \cup {l}
      BY <1>3, <2>3, AppendedSet
    <2>5. \A k \in DOMAIN e.links : e.links[k] \in ToSet(e.links)
      BY DEF ToSet
    <2>6. \A k \in DOMAIN e.links : e.links[k] \in S <=> e.links[k] \in T
      BY <2>1, <2>4, <2>5
    <2>7. l \in T
      BY <1>2, <2>1, <2>4
    <2>8. PICK a, b : a = e.links /\ b = f.links
      OBVIOUS
    <2>9. IsSeq(a) /\ b = Append(a, l) /\ ChosenSame(a, S, T)
      BY <1>3, <2>3, <2>6, <2>8 DEF ChosenSame
    <2>10. ChosenOneMore(a, S, l, b, T)
      BY <2>9, ChosenAppended
    <2> QED
      BY <2>2, <2>7, <2>8, <2>10 DEF ChosenOneMore
  <1>7. PICK b, c : b = DrawnLinks(e) /\ c = DrawnLinks(f)
    OBVIOUS
  <1>8. /\ IsSeq(s) /\ IsSeq(b) /\ DOMAIN b = DOMAIN s
        /\ \A k \in DOMAIN s : b[k] = <<Text(e, s[k].src), Text(e, s[k].dest), s[k].opts>>
    BY <1>5, <1>7, DataLinksIs
  <1>9. /\ IsSeq(c) /\ DOMAIN c = DOMAIN z
        /\ \A k \in DOMAIN z : c[k] = <<Text(f, z[k].src), Text(f, z[k].dest), z[k].opts>>
    BY <1>4, <1>5, <1>7, DataLinksIs
  <1>10. PICK n \in Nat : /\ DOMAIN s = 1..n /\ DOMAIN z = 1..(n + 1) /\ z[n + 1] = l
                          /\ \A i \in 1..n : z[i] = s[i]
    BY <1>6, <1>8, AppendedLast
  <1>11. PICK k \in Nat : /\ DOMAIN b = 1..k /\ DOMAIN Append(b, x) = 1..(k + 1)
                          /\ Append(b, x)[k + 1] = x
                          /\ \A i \in 1..k : Append(b, x)[i] = b[i]
    BY <1>8, AppendedLast
  <1>12. k = n
    <2>1. Len(b) = k /\ Len(s) = n /\ 1..k = 1..n
      BY <1>8, <1>10, <1>11, SeqIs
    <2> QED
      BY <2>1
  <1>13. \A item : Text(f, item) = Text(e, item)
    <2>1. Nodes(f) = Nodes(e) /\ f.gone = e.gone
      BY <1>3 DEF SameNodes, Nodes
    <2> QED
      BY <2>1, SameText
  <1>14. Text(e, v.item) = v.name /\ Text(e, w.item) = w.name
    BY TextIs
  <1>15. \A i \in 1..(n + 1) : c[i] = Append(b, x)[i]
    <2>1. ASSUME NEW i \in 1..n PROVE c[i] = Append(b, x)[i]
      <3>1. i \in DOMAIN s /\ i \in DOMAIN z /\ z[i] = s[i]
        BY <1>10
      <3>2. b[i] = <<Text(e, s[i].src), Text(e, s[i].dest), s[i].opts>>
        BY <1>8, <3>1
      <3>3. c[i] = <<Text(f, z[i].src), Text(f, z[i].dest), z[i].opts>>
        BY <1>9, <3>1
      <3>4. c[i] = b[i]
        BY <1>13, <3>1, <3>2, <3>3
      <3> QED
        BY <1>11, <1>12, <3>4
    <2>2. c[n + 1] = Append(b, x)[n + 1]
      <3>1. n + 1 \in DOMAIN z
        BY <1>10
      <3>2. c[n + 1] = <<Text(f, l.src), Text(f, l.dest), l.opts>>
        BY <1>9, <1>10, <3>1
      <3> QED
        BY <1>2, <1>7, <1>11, <1>12, <1>13, <1>14, <3>2
    <2>3. \A i \in 1..(n + 1) : i \in 1..n \/ i = n + 1
      OBVIOUS
    <2> QED
      BY <2>1, <2>2, <2>3
  <1>16. IsSeq(Append(b, x))
    BY <1>8, AppendedSeq
  <1>17. c = [i \in 1..(n + 1) |-> c[i]] /\ Append(b, x) = [i \in 1..(n + 1) |-> Append(b, x)[i]]
    BY <1>9, <1>10, <1>11, <1>12, <1>16 DEF IsSeq
  <1>18. c = Append(b, x)
    <2>1. PICK a : a = Append(b, x)
      OBVIOUS
    <2>2. c = a
      BY <1>15, <1>17, <2>1
    <2> QED
      BY <2>1, <2>2
  <1> QED
    BY <1>7, <1>18 DEF BuiltOneMore

(* The links of the file z are the first of B, by the names of nodes that
   are there.                                                              *)
LinksTold(z, B, names) ==
    \A i \in DOMAIN z : B[i] = <<z[i].src, z[i].dest, z[i].opts>> /\ {z[i].src, z[i].dest} \subseteq names

(* The data links so far.                                                  *)
LinkedUpto(d, e, B, k) ==
    /\ LinkedOnly(d, e) /\ DOMAIN DrawnLinks(e) = 1..k /\ \A i \in 1..k : DrawnLinks(e)[i] = B[i]

\* Reading a link (the loop over links of loadTopology()) makes the next link
\* of the list,
LEMMA OneLinkTold ==
    ASSUME NEW d, Shape(d), d.gone = {}, NEW B, NEW k \in Nat, NEW e, LinkedUpto(d, e, B, k),
           NEW a, NEW b, {a, b} \subseteq NodeNames(d), NEW opts, B[k + 1] = <<a, b, opts>>,
           NEW r, r = LinkByName(e, a, b, "data", opts)
    PROVE  r.ok /\ LinkedUpto(d, r.m, B, k + 1)
  <1>1. PICK type : type = "data" /\ type \in {"data", "control"}
    OBVIOUS
  <1>2. LinkedOnly(d, e) /\ Shape(e) /\ SameNodes(d, e)
    BY DEF LinkedUpto, LinkedOnly
  <1>3. r = LinkByName(e, a, b, type, opts)
    BY <1>1
  <1>4. NodeNames(e) = NodeNames(d) /\ e.gone = {}
    BY <1>2, SameNames DEF SameNodes
  <1>5. /\ ~r.ok => r.m = e /\ {a, b} \cap NodeNames(e) # {a, b}
        /\ r.ok => \E v, w \in Nodes(e) :
                      /\ v.name = a /\ w.name = b /\ LinkAdded(e, v.item, w.item, type, opts, r.m)
    BY <1>1, <1>2, <1>3, LinkByNameIs
  <1>6. r.ok
    BY <1>4, <1>5
  <1>7. PICK v \in Nodes(e), w \in Nodes(e) :
           v.name = a /\ w.name = b /\ LinkAdded(e, v.item, w.item, type, opts, r.m)
    BY <1>5, <1>6
  <1>8. LinkedOnly(d, r.m)
    <2>1. LinkedOnly(e, r.m)
      BY <1>1, <1>2, <1>3, LinkByNameOnly
    <2> QED
      BY <1>2, <2>1 DEF LinkedOnly, SameNodes, SameOpts
  <1>9. PICK old, new, x : old = DrawnLinks(e) /\ new = DrawnLinks(r.m) /\ x = <<a, b, opts>>
    OBVIOUS
  <1>10. new = Append(old, x)
    <2>1. PICK f : f = r.m
      OBVIOUS
    <2>2. LinkAdded(e, v.item, w.item, type, opts, f) /\ x = <<v.name, w.name, opts>>
      BY <1>1, <1>7, <1>9, <2>1
    <2>3. Shape(e) /\ e.gone = {} /\ type = "data"
      BY <1>1, <1>2, <1>4
    <2>4. BuiltOneMore(e, x, f)
      BY <2>2, <2>3, DataLinkTold
    <2> QED
      BY <1>9, <2>1, <2>4 DEF BuiltOneMore
  <1>11. IsSeq(old) /\ DOMAIN old = 1..k /\ \A i \in 1..k : old[i] = B[i]
    BY <1>2, <1>9, DataLinksIs DEF LinkedUpto
  <1>12. PICK j \in Nat : /\ DOMAIN old = 1..j /\ DOMAIN new = 1..(j + 1)
                          /\ new[j + 1] = x /\ \A i \in 1..j : new[i] = old[i]
    BY <1>10, <1>11, AppendedLast
  <1>13. j = k
    <2>1. Len(old) = j /\ 1..j = 1..k
      BY <1>11, <1>12, SeqIs
    <2> QED
      BY <2>1
  <1>14. \A i \in 1..(k + 1) : new[i] = B[i]
    <2>1. \A i \in 1..k : new[i] = B[i]
      BY <1>11, <1>12, <1>13
    <2>2. new[k + 1] = B[k + 1]
      BY <1>9, <1>12, <1>13
    <2>3. \A i \in 1..(k + 1) : i \in 1..k \/ i = k + 1
      OBVIOUS
    <2> QED
      BY <2>1, <2>2, <2>3
  <1> QED
    BY <1>6, <1>8, <1>9, <1>12, <1>13, <1>14 DEF LinkedUpto

\* and reading all of them the whole list.
LEMMA LoadLinksTold ==
    ASSUME NEW q, q.ok, Shape(q.m), q.m.gone = {}, NEW z, IsSeq(z), NEW N \in Nat, N = Len(z), NEW B,
           LinksTold(z, B, NodeNames(q.m)), LinkedUpto(q.m, q.m, B, 0), NEW r, r = LoadLinks(q, z)
    PROVE  r.ok /\ LinkedUpto(q.m, r.m, B, N)
  <1>0. PICK d : d = q.m
    OBVIOUS
  <1>1. Len(z) = N /\ DOMAIN z = 1..N
    BY SeqIs
  <1>2. PICK after : Runs(after, "loadLink", NoName, q, z, N, r)
    BY <1>1, LoadLinksRuns
  <1> DEFINE Fine(e, k) == e.ok /\ LinkedUpto(d, e.m, B, k)
             T == {k \in 0..N : Fine(after[k], k)}
  <1>3. 0 \in T
    <2>1. after[0] = q
      BY <1>2 DEF Runs
    <2>2. Fine(after[0], 0)
      BY <1>0, <2>1
    <2>3. 0 \in 0..N
      OBVIOUS
    <2> HIDE DEF Fine
    <2> QED
      BY <2>2, <2>3
  <1>4. ASSUME NEW n \in Nat, n < N, n \in T PROVE n + 1 \in T
    <2>1. PICK x, y, l, op, nn : /\ x = after[n] /\ y = after[n + 1] /\ l = z[n + 1]
                                 /\ op = "loadLink" /\ nn = NoName
      OBVIOUS
    <2>2. x.ok /\ LinkedUpto(d, x.m, B, n)
      BY <1>4, <2>1
    <2>3. n + 1 \in 0..N /\ n + 1 \in 1..N /\ y = IF x.ok THEN Step(op, nn, x.m, l) ELSE x
      <3>1. Runs(after, op, nn, q, z, N, r)
        BY <1>2, <2>1
      <3> HIDE <1>2
      <3>2. /\ n + 1 \in 1..N /\ n + 1 \in 0..N
            /\ after[n + 1] = IF after[n].ok THEN Step(op, nn, after[n].m, z[n + 1]) ELSE after[n]
        BY <1>4, <3>1, LoopStep
      <3> QED
        BY <2>1, <3>2
    <2>4. PICK a, b, opts : a = l.src /\ b = l.dest /\ opts = l.opts
      OBVIOUS
    <2>5. y = LinkByName(x.m, a, b, "data", opts)
      BY <2>1, <2>2, <2>3, <2>4 DEF Step, LoadLink
    <2>6. {a, b} \subseteq NodeNames(d) /\ B[n + 1] = <<a, b, opts>>
      BY <1>0, <1>1, <2>1, <2>3, <2>4 DEF LinksTold
    <2>7. y.ok /\ LinkedUpto(d, y.m, B, n + 1)
      BY <1>0, <2>2, <2>5, <2>6, OneLinkTold
    <2>8. Fine(after[n + 1], n + 1)
      BY <2>1, <2>7
    <2> HIDE DEF Fine
    <2> QED
      BY <2>3, <2>8
  <1>5. \A n \in 0..N : n \in T
    <2> HIDE DEF T
    <2> QED
      BY <1>3, <1>4, UpTo
  <1>6. Fine(after[N], N)
    <2>1. N \in T
      <3> HIDE DEF T
      <3> QED
        BY <1>5
    <2> HIDE DEF Fine
    <2> QED
      BY <2>1
  <1> QED
    BY <1>0, <1>2, <1>6 DEF Runs

(* Before the links are read there are none to data.                       *)
LEMMA NoneTold ==
    ASSUME NEW e, Shape(e), DataPairs(e) = {}, NEW B
    PROVE  LinkedUpto(e, e, B, 0)
  <1>1. LinkedOnly(e, e)
    BY DEF LinkedOnly, SameNodes, SameOpts
  <1>2. {l \in ToSet(e.links) : l.type = "data"} = {}
    BY DEF DataPairs
  <1>3. PICK s, b : s = DataLinks(e) /\ b = DrawnLinks(e)
    OBVIOUS
  <1>4. /\ IsSeq(s) /\ ToSet(s) = {l \in ToSet(e.links) : l.type = "data"}
        /\ IsSeq(b) /\ DOMAIN b = DOMAIN s
    BY <1>3, DataLinksIs
  <1>5. DOMAIN s = {}
    BY <1>2, <1>4 DEF ToSet
  <1>6. DOMAIN b = 1..0
    BY <1>4, <1>5
  <1> QED
    BY <1>1, <1>3, <1>6 DEF LinkedUpto

(* What the file says of the links can be read when the nodes are there.   *)
LEMMA SavedLinksTold ==
    ASSUME NEW d, Shape(d), NEW X, Good(d, X), NEW s, s = DataLinks(d),
           NEW z, z = [k \in DOMAIN s |-> [src |-> Text(d, s[k].src), dest |-> Text(d, s[k].dest),
                                           opts |-> s[k].opts]],
           NEW B, B = DrawnLinks(d), NEW names, NodeNames(d) \subseteq names
    PROVE  /\ IsSeq(z) /\ DOMAIN z = DOMAIN s /\ LinksTold(z, B, names)
           /\ IsSeq(B) /\ DOMAIN B = DOMAIN s
  <1>1. /\ IsSeq(s) /\ ToSet(s) = {l \in ToSet(d.links) : l.type = "data"}
        /\ IsSeq(B) /\ DOMAIN B = DOMAIN s
        /\ \A k \in DOMAIN s : B[k] = <<Text(d, s[k].src), Text(d, s[k].dest), s[k].opts>>
    BY DataLinksIs
  <1>2. z = [k \in DOMAIN s |-> z[k]]
    OBVIOUS
  <1>3. IsSeq(z) /\ DOMAIN z = DOMAIN s
    BY <1>1, <1>2, EachSeq
  <1>4. ASSUME NEW i \in DOMAIN z
        PROVE  B[i] = <<z[i].src, z[i].dest, z[i].opts>> /\ {z[i].src, z[i].dest} \subseteq names
    <2>1. PICK l : l = s[i]
      OBVIOUS
    <2>2. l \in ToSet(d.links) /\ l.type = "data"
      BY <1>1, <1>3, <1>4, <2>1 DEF ToSet
    <2>3. \E v, w \in Nodes(d) :
             /\ v # w /\ v.name # w.name /\ l.src = v.item /\ l.dest = w.item
             /\ v.name \notin ControllerNames(d) /\ w.name \notin ControllerNames(d)
             /\ Text(d, l.src) = v.name /\ Text(d, l.dest) = w.name
      BY <2>2, DataLinkIs
    <2>4. Text(d, l.src) \in NodeNames(d) /\ Text(d, l.dest) \in NodeNames(d)
      BY <2>3 DEF NodeNames
    <2>5. z[i].src = Text(d, l.src) /\ z[i].dest = Text(d, l.dest) /\ z[i].opts = l.opts
      BY <1>3, <1>4, <2>1
    <2>6. B[i] = <<Text(d, l.src), Text(d, l.dest), l.opts>>
      BY <1>1, <1>3, <1>4, <2>1
    <2> QED
      BY <2>4, <2>5, <2>6
  <1> QED
    BY <1>1, <1>3, <1>4 DEF LinksTold

(* The nodes of a drawing are its controllers, hosts and switches.         *)
InTurn(d, controllers, hosts, switches) ==
    /\ Following(d, controllers, {}) /\ \A w \in ToSet(controllers) : w.kind = "Controller"
    /\ Following(d, hosts, ToSet(controllers)) /\ \A w \in ToSet(hosts) : w.kind \in HostLike
    /\ Following(d, switches, ToSet(controllers) \cup ToSet(hosts))
    /\ \A w \in ToSet(switches) : w.kind \in SwitchLike
    /\ {c \in Nodes(d) : c.kind = "Controller"} \subseteq ToSet(controllers)
    /\ Nodes(d) = ToSet(controllers) \cup ToSet(hosts) \cup ToSet(switches)

\* saveTopology() writes every node once, in one of its three lists.
LEMMA SavedInTurn ==
    ASSUME NEW d, Shape(d), NEW p, NEW f, NEW hosts, NEW switches, NEW controllers, NEW links,
           SavedAs(d, p, f, hosts, switches, controllers, links)
    PROVE  InTurn(d, controllers, hosts, switches)
  <1>1. /\ IsSeq(hosts) /\ NoTwice(hosts) /\ ToSet(hosts) = {w \in Nodes(d) : w.kind \in HostLike}
        /\ IsSeq(switches) /\ NoTwice(switches)
        /\ ToSet(switches) = {w \in Nodes(d) : w.kind \in SwitchLike}
        /\ IsSeq(controllers) /\ NoTwice(controllers)
        /\ ToSet(controllers) = {w \in Nodes(d) : w.kind = "Controller"}
    BY DEF SavedAs
  <1>2. PICK H, S, C : H = ToSet(hosts) /\ S = ToSet(switches) /\ C = ToSet(controllers)
    OBVIOUS
  <1>3. \A w \in Nodes(d) : w.kind \in AllKinds
    BY DEF Shape, Drawn, IsNode, Nodes
  <1>4. /\ \A w \in H : w \in Nodes(d) /\ w.kind \in HostLike
        /\ \A w \in S : w \in Nodes(d) /\ w.kind \in SwitchLike
        /\ \A w \in C : w \in Nodes(d) /\ w.kind = "Controller"
        /\ \A w \in Nodes(d) : w.kind = "Controller" => w \in C
    BY <1>1, <1>2
  <1>5. \A w \in Nodes(d) : w \in C \/ w \in H \/ w \in S
    BY <1>1, <1>2, <1>3 DEF AllKinds, HostLike, SwitchLike
  <1>6. H \cap C = {} /\ S \cap (C \cup H) = {}
    BY <1>4 DEF HostLike, SwitchLike
  <1>7. Nodes(d) = C \cup H \cup S
    BY <1>4, <1>5
  <1>8. /\ Following(d, controllers, {}) /\ Following(d, hosts, C)
        /\ Following(d, switches, C \cup H)
    BY <1>1, <1>2, <1>4, <1>6 DEF Following
  <1> QED
    BY <1>2, <1>4, <1>7, <1>8 DEF InTurn

(* Every entry is read, whatever was drawn before.                         *)
LEMMA SavedHeld ==
    ASSUME NEW d, Shape(d), Good(d, {}), ~Unnamed(d), NEW p, NEW f, NEW hosts, NEW switches,
           NEW controllers, NEW links, SavedAs(d, p, f, hosts, switches, controllers, links),
           NEW n, n.ok, Shape(n.m), Nodes(n.m) = {},
           NEW c, c = LoadControllers(n, f.controllers), NEW h, h = LoadHosts(c, f.hosts),
           NEW v, v = 2, NEW s, s = LoadSwitches(h, f.switches, v)
    PROVE  s.ok /\ Holding(d, s.m, Nodes(d))
  <1>1. InTurn(d, controllers, hosts, switches)
    BY SavedInTurn
  <1>2. /\ f.hosts = [k \in DOMAIN hosts |-> d.hostOpts[hosts[k].name]]
        /\ f.switches = [k \in DOMAIN switches |-> d.switchOpts[switches[k].name]]
        /\ f.controllers = [k \in DOMAIN controllers |->
                               [hostname |-> controllers[k].name,
                                type |-> d.controllers[controllers[k].name]]]
    BY DEF SavedAs
  <1>3. PICK zh, zs, zc : zh = f.hosts /\ zs = f.switches /\ zc = f.controllers
    OBVIOUS
  <1>4. PICK E, H, S, C : E = {} /\ H = ToSet(hosts) /\ S = ToSet(switches) /\ C = ToSet(controllers)
    OBVIOUS
  <1>5. Named(d)
    BY DEF Good
  <1>6. Holding(d, n.m, E)
    BY <1>4 DEF Holding, Named
  <1>7. c.ok /\ Holding(d, c.m, C)
    <2>1. Following(d, controllers, E) /\ \A w \in ToSet(controllers) : w.kind = "Controller"
      BY <1>1, <1>4 DEF InTurn
    <2>2. /\ c = LoadControllers(n, zc)
          /\ zc = [k \in DOMAIN controllers |-> [hostname |-> controllers[k].name,
                                                 type |-> d.controllers[controllers[k].name]]]
      BY <1>2, <1>3
    <2>3. c.ok /\ Holding(d, c.m, E \cup ToSet(controllers))
      BY <1>5, <1>6, <2>1, <2>2, LoadControllersHeld
    <2>4. E \cup ToSet(controllers) = C
      BY <1>4
    <2> QED
      BY <2>3, <2>4
  <1>8. h.ok /\ Holding(d, h.m, C \cup H)
    <2>1. Following(d, hosts, C) /\ \A w \in ToSet(hosts) : w.kind \in HostLike
      BY <1>1, <1>4 DEF InTurn
    <2>2. h = LoadHosts(c, zh) /\ zh = [k \in DOMAIN hosts |-> d.hostOpts[hosts[k].name]]
      BY <1>2, <1>3
    <2>3. h.ok /\ Holding(d, h.m, C \cup ToSet(hosts))
      BY <1>7, <2>1, <2>2, LoadHostsHeld
    <2> QED
      BY <1>4, <2>3
  <1>9. PICK F : F = C \cup H
    OBVIOUS
  <1>10. s.ok /\ Holding(d, s.m, F \cup S)
    <2>1. /\ Following(d, switches, F) /\ \A w \in ToSet(switches) : w.kind \in SwitchLike
          /\ {k \in Nodes(d) : k.kind = "Controller"} \subseteq F
      BY <1>1, <1>4, <1>9 DEF InTurn
    <2>2. s = LoadSwitches(h, zs, v) /\ zs = [k \in DOMAIN switches |-> d.switchOpts[switches[k].name]]
      BY <1>2, <1>3
    <2>3. Holding(d, h.m, F)
      BY <1>8, <1>9
    <2>4. s.ok /\ Holding(d, s.m, F \cup ToSet(switches))
      BY <1>8, <2>1, <2>2, <2>3, LoadSwitchesHeld
    <2> QED
      BY <1>4, <2>4
  <1>11. Nodes(d) = F \cup S
    BY <1>1, <1>4, <1>9 DEF InTurn
  <1> QED
    BY <1>10, <1>11

(* The drawing that is read from a file that was saved from d.             *)
CameBack(d, r) ==
    /\ r.ok /\ Holding(d, r.m, Nodes(d)) /\ DrawnLinks(r.m) = DrawnLinks(d)
    /\ Good(r.m, {}) /\ Managed(r.m, {})

(* The part of a file that is read before the links.                       *)
NodesFit(f, C) ==
    IsFile(f) /\ f.version \in {1, 2} /\ \A k \in DOMAIN f.switches : ListFits(f.switches[k], C)
\* The nodes of a well-formed file can be read.
LEMMA FileNodesFit ==
    ASSUME NEW f, WellFormed(f), NEW C, C = Names(f.controllers)
    PROVE  NodesFit(f, C)
  <1>1. /\ IsFile(f) /\ f.version \in {1, 2} /\ (f.version = 1 => C = {<<"c", 0>>})
        /\ \A k \in DOMAIN f.switches : ListFits(f.switches[k], C)
        /\ \A i \in DOMAIN f.links :
              /\ f.links[i].src # f.links[i].dest /\ {f.links[i].src, f.links[i].dest} \cap C = {}
              /\ \A j \in DOMAIN f.links :
                    {f.links[i].src, f.links[i].dest} = {f.links[j].src, f.links[j].dest} => i = j
    BY FileFits
  <1> QED
    BY <1>1 DEF NodesFit

\* Opening the file that saveTopology() writes raises nothing, and gives the
\* nodes, options and data links of the drawing; the new drawing is good,
\* too.
LEMMA SavedComesBack ==
    ASSUME NEW d, Shape(d), Good(d, {}), ~Unnamed(d), NEW p \in {"ovs", "user"},
           NEW f, f = Saved(d, p), NEW t, t # "disabled", NEW r, r = Loaded(d, t, f)
    PROVE  CameBack(d, r)
  <1>1. PICK hosts, switches, controllers, links :
           SavedAs(d, p, f, hosts, switches, controllers, links)
    BY SavedIs
  <1>2. WellFormed(f) /\ f.version = 2
    BY SavedWellFormed
  <1>3. PICK n : n = NewTopology(d, t)
    OBVIOUS
  <1>4. PICK c : c = LoadControllers(n, f.controllers)
    OBVIOUS
  <1>5. PICK h : h = LoadHosts(c, f.hosts)
    OBVIOUS
  <1>6. PICK v : v = f.version
    OBVIOUS
  <1>7. PICK s : s = LoadSwitches(h, f.switches, v)
    OBVIOUS
  <1>8. PICK z : z = f.links
    OBVIOUS
  <1>9. r = LoadLinks(s, z)
    BY <1>3, <1>4, <1>5, <1>6, <1>7, <1>8 DEF Loaded
  <1>10. n.ok /\ Shape(n.m) /\ Blank(n.m)
    BY <1>3, NewTopologyBlank
  <1>11. v = 2
    BY <1>2, <1>6
  <1>12. s.ok /\ Holding(d, s.m, Nodes(d))
    <2>1. Nodes(n.m) = {}
      BY <1>10 DEF Blank
    <2> QED
      BY <1>1, <1>4, <1>5, <1>7, <1>10, <1>11, <2>1, SavedHeld
  <1>13. PICK C : C = Names(f.controllers)
    OBVIOUS
  <1>14. IsFile(f) /\ v \in {1, 2} /\ \A k \in DOMAIN f.switches : ListFits(f.switches[k], C)
    BY <1>2, <1>6, <1>13, FileNodesFit DEF NodesFit
  <1>15. Reading(s.m, v, C, {})
    <2>1. Reading(n.m, v, {}, {})
      BY <1>10, BlankIs DEF Reading, Sound
    <2>2. c.ok /\ Reading(c.m, v, C, {})
      BY <1>4, <1>10, <1>13, <1>14, <2>1, LoadControllersRead DEF IsFile
    <2>3. h.ok /\ Reading(h.m, v, C, {})
      BY <1>5, <1>14, <2>2, LoadHostsRead DEF IsFile
    <2>4. IsSeq(f.switches) /\ \A k \in DOMAIN f.switches :
             IsSwitchEntry(f.switches[k]) /\ ListFits(f.switches[k], C)
      BY <1>14 DEF IsFile
    <2> QED
      BY <1>7, <1>11, <1>14, <2>3, <2>4, LoadSwitchesRead
  <1>16. Shape(s.m) /\ s.m.gone = {} /\ DataPairs(s.m) = {}
    BY <1>12, <1>15 DEF Holding, Reading, Sound, Good, Wired
  <1>17. PICK B : B = DrawnLinks(d)
    OBVIOUS
  <1>18. PICK E : E = {}
    OBVIOUS
  <1>19. /\ IsSeq(z) /\ LinksTold(z, B, NodeNames(s.m))
         /\ IsSeq(B) /\ DOMAIN B = DOMAIN z
    <2>1. links = DataLinks(d) /\ z = [k \in DOMAIN links |-> [src |-> Text(d, links[k].src),
                                                               dest |-> Text(d, links[k].dest),
                                                               opts |-> links[k].opts]]
      BY <1>1, <1>8 DEF SavedAs
    <2>2. NodeNames(d) \subseteq NodeNames(s.m)
      BY <1>12 DEF Holding, NodeNames
    <2>3. Good(d, E)
      BY <1>18
    <2>4. PICK names : names = NodeNames(s.m)
      OBVIOUS
    <2>5. NodeNames(d) \subseteq names
      BY <2>2, <2>4
    <2>6. /\ IsSeq(z) /\ DOMAIN z = DOMAIN links /\ LinksTold(z, B, names)
          /\ IsSeq(B) /\ DOMAIN B = DOMAIN links
      BY <1>17, <2>1, <2>3, <2>5, SavedLinksTold
    <2> QED
      BY <2>4, <2>6
  <1>20. PICK N \in Nat : N = Len(z) /\ DOMAIN z = 1..N
    BY <1>19, SeqIs
  <1>21. r.ok /\ LinkedUpto(s.m, r.m, B, N)
    <2>1. LinkedUpto(s.m, s.m, B, 0)
      BY <1>16, NoneTold
    <2> QED
      BY <1>9, <1>12, <1>16, <1>19, <1>20, <2>1, LoadLinksTold
  <1>22. Holding(d, r.m, Nodes(d))
    <2>1. LinkedOnly(s.m, r.m)
      BY <1>21 DEF LinkedUpto
    <2> QED
      BY <1>12, <2>1, LinkedHeld
  <1>23. DrawnLinks(r.m) = B
    <2>1. PICK b : b = DrawnLinks(r.m)
      OBVIOUS
    <2>2. IsSeq(b)
      BY <1>22, <2>1, DataLinksIs DEF Holding
    <2>3. DOMAIN b = 1..N /\ \A i \in 1..N : b[i] = B[i]
      BY <1>21, <2>1 DEF LinkedUpto
    <2>4. b = [i \in 1..N |-> b[i]]
      BY <2>2, <2>3 DEF IsSeq
    <2>5. B = [i \in 1..N |-> B[i]]
      BY <1>19, <1>20 DEF IsSeq
    <2>6. b = B
      BY <2>3, <2>4, <2>5
    <2> QED
      BY <2>1, <2>6
  <1>24. Good(r.m, {}) /\ Managed(r.m, {})
    <2>1. PICK e : e = Loaded(d, t, f).m
      OBVIOUS
    <2>2. Named(e) /\ e = r.m
      BY <1>22, <2>1 DEF Holding
    <2>3. Good(e, {}) /\ (f.version = 2 => Managed(e, {}))
      BY <1>2, <2>1, <2>2, LoadedGood
    <2> QED
      BY <1>2, <2>2, <2>3
  <1> QED
    BY <1>17, <1>21, <1>22, <1>23, <1>24 DEF CameBack

(* The control links are what the lists of the switches say.               *)
ControlPairs(d) ==
    {{Text(d, l.src), Text(d, l.dest)} : l \in {k \in ToSet(d.links) : k.type = "control"}}
\* The control links of a good drawing are what the lists of its switches
\* say.
LEMMA ControlPairsAre ==
    ASSUME NEW d, Shape(d), Good(d, {}), Managed(d, {}), NEW x
    PROVE  x \in ControlPairs(d) <=>
              \E w \in Nodes(d) : w.kind = "Switch" /\ \E n \in ToSet(ListOf(d, w)) : x = {w.name, n}
  <1>0. d.gone = {}
    BY DEF Good, Wired
  <1>1. ASSUME NEW l \in ToSet(d.links), l.type = "control", x = {Text(d, l.src), Text(d, l.dest)}
        PROVE  \E w \in Nodes(d) : w.kind = "Switch" /\ \E n \in ToSet(ListOf(d, w)) : x = {w.name, n}
    <2>1. PICK X : X = {}
      OBVIOUS
    <2>2. Good(d, X)
      BY <2>1
    <2>3. PICK w \in Nodes(d), c \in Nodes(d) :
             /\ w.kind \in SwitchLike /\ c.kind = "Controller" /\ w # c /\ HasList(d, w.name)
             /\ \/ l.src = c.item /\ l.dest = w.item
                \/ l.src = w.item /\ l.dest = c.item
      BY <1>1, <2>2, ControlLinkIs
    <2>4. Managing(d, w, c)
      BY <1>1, <2>3 DEF Managing, Joins
    <2>5. w.kind = "Switch" /\ c.name \in ToSet(ListOf(d, w))
      BY <2>3, <2>4 DEF Managed
    <2>6. Text(d, w.item) = w.name /\ Text(d, c.item) = c.name
      BY <1>0, TextIs
    <2>7. x = {w.name, c.name}
      BY <1>1, <2>3, <2>6
    <2> QED
      BY <2>5, <2>7
  <1>2. ASSUME NEW w \in Nodes(d), w.kind = "Switch", NEW n \in ToSet(ListOf(d, w)), x = {w.name, n}
        PROVE  \E l \in ToSet(d.links) : l.type = "control" /\ x = {Text(d, l.src), Text(d, l.dest)}
    <2>1. n \in ControllerNames(d)
      BY <1>2, SwitchesNamed
    <2>2. PICK c \in Nodes(d) : c.kind = "Controller" /\ c.name = n
      BY <2>1 DEF ControllerNames
    <2>3. Managing(d, w, c)
      BY <1>2, <2>2 DEF Good, ListsDrawn
    <2>4. PICK l \in ToSet(d.links) : l.type = "control" /\ Joins(l, w, c)
      BY <2>3 DEF Managing
    <2>5. Text(d, w.item) = w.name /\ Text(d, c.item) = c.name
      BY <1>0, TextIs
    <2>6. x = {Text(d, l.src), Text(d, l.dest)}
      BY <1>2, <2>2, <2>4, <2>5 DEF Joins
    <2> QED
      BY <2>4, <2>6
  <1>3. x \in ControlPairs(d) <=>
           \E l \in ToSet(d.links) : l.type = "control" /\ x = {Text(d, l.src), Text(d, l.dest)}
    BY DEF ControlPairs
  <1> QED
    BY <1>1, <1>2, <1>3

(***************************************************************************)
(* The topology is the same, part by part.                                 *)
(***************************************************************************)
HostsOf(d) == {<<w.name, w.kind, d.hostOpts[w.name]>> : w \in {k \in Nodes(d) : k.kind \in HostLike}}
SwitchesOf(d) ==
    {<<w.name, w.kind, d.switchOpts[w.name].num, d.switchOpts[w.name].type>> :
        w \in {k \in Nodes(d) : k.kind \in SwitchLike}}
ListsOf(d) ==
    {<<w.name, d.switchOpts[w.name].controllers>> : w \in {k \in Nodes(d) : k.kind \in {"Switch"}}}
ControllersOf(d) ==
    {<<w.name, d.controllers[w.name]>> : w \in {k \in Nodes(d) : k.kind \in {"Controller"}}}

\* The topology, part by part.
LEMMA TopologyIs ==
    ASSUME NEW d, Shape(d)
    PROVE  Topology(d) = [hosts |-> HostsOf(d), switches |-> SwitchesOf(d), managed |-> ListsOf(d),
                          controllers |-> ControllersOf(d), data |-> DrawnLinks(d),
                          control |-> ControlPairs(d)]
  <1>1. \A kinds : ToSet(NodesLike(d, kinds)) = {w \in Nodes(d) : w.kind \in kinds}
    BY LikeIs
  <1> QED
    BY <1>1, Zenon DEF Topology, HostsOf, SwitchesOf, ListsOf, ControllersOf, ControlPairs

\* Two drawings with the same nodes and options have the same hosts,
\* switches, lists and controllers,
LEMMA HoldingSame ==
    ASSUME NEW d, NEW e, Holding(d, e, Nodes(d))
    PROVE  /\ HostsOf(e) = HostsOf(d) /\ SwitchesOf(e) = SwitchesOf(d)
           /\ ListsOf(e) = ListsOf(d) /\ ControllersOf(e) = ControllersOf(d)
  <1>1. /\ \A w \in Nodes(d) : \E v \in Nodes(e) : v.name = w.name /\ v.kind = w.kind
        /\ \A v \in Nodes(e) : \E w \in Nodes(d) : v.name = w.name /\ v.kind = w.kind
        /\ \A w \in Nodes(d) : SaysSame(d, w, e)
    BY DEF Holding
  <1>2. HostsOf(e) = HostsOf(d)
    <2>1. ASSUME NEW w \in Nodes(d), w.kind \in HostLike
          PROVE  e.hostOpts[w.name] = d.hostOpts[w.name]
      BY <1>1, <2>1 DEF SaysSame
    <2>2. \A x : x \in HostsOf(e) <=>
                    \E v \in Nodes(e) : v.kind \in HostLike /\ x = <<v.name, v.kind, e.hostOpts[v.name]>>
      BY DEF HostsOf
    <2>3. \A x : x \in HostsOf(d) <=>
                    \E v \in Nodes(d) : v.kind \in HostLike /\ x = <<v.name, v.kind, d.hostOpts[v.name]>>
      BY DEF HostsOf
    <2>4. ASSUME NEW x, x \in HostsOf(e) PROVE x \in HostsOf(d)
      <3>1. PICK v \in Nodes(e) : v.kind \in HostLike /\ x = <<v.name, v.kind, e.hostOpts[v.name]>>
        BY <2>2, <2>4
      <3>2. PICK w \in Nodes(d) : v.name = w.name /\ v.kind = w.kind
        BY <1>1
      <3>3. w.kind \in HostLike /\ x = <<w.name, w.kind, d.hostOpts[w.name]>>
        BY <2>1, <3>1, <3>2
      <3> QED
        BY <2>3, <3>3
    <2>5. ASSUME NEW x, x \in HostsOf(d) PROVE x \in HostsOf(e)
      <3>1. PICK w \in Nodes(d) : w.kind \in HostLike /\ x = <<w.name, w.kind, d.hostOpts[w.name]>>
        BY <2>3, <2>5
      <3>2. PICK v \in Nodes(e) : v.name = w.name /\ v.kind = w.kind
        BY <1>1
      <3>3. v.kind \in HostLike /\ x = <<v.name, v.kind, e.hostOpts[v.name]>>
        BY <2>1, <3>1, <3>2
      <3> QED
        BY <2>2, <3>3
    <2> QED
      BY <2>4, <2>5
  <1>3. SwitchesOf(e) = SwitchesOf(d)
    <2>1. ASSUME NEW w \in Nodes(d), w.kind \in SwitchLike
          PROVE  /\ e.switchOpts[w.name].num = d.switchOpts[w.name].num
                 /\ e.switchOpts[w.name].type = d.switchOpts[w.name].type
      BY <1>1, <2>1 DEF SaysSame
    <2>2. \A x : x \in SwitchesOf(e) <=>
                    \E v \in Nodes(e) : /\ v.kind \in SwitchLike
                                        /\ x = <<v.name, v.kind, e.switchOpts[v.name].num,
                                                 e.switchOpts[v.name].type>>
      BY DEF SwitchesOf
    <2>3. \A x : x \in SwitchesOf(d) <=>
                    \E v \in Nodes(d) : /\ v.kind \in SwitchLike
                                        /\ x = <<v.name, v.kind, d.switchOpts[v.name].num,
                                                 d.switchOpts[v.name].type>>
      BY DEF SwitchesOf
    <2>4. ASSUME NEW x, x \in SwitchesOf(e) PROVE x \in SwitchesOf(d)
      <3>1. PICK v \in Nodes(e) : /\ v.kind \in SwitchLike
                                  /\ x = <<v.name, v.kind, e.switchOpts[v.name].num,
                                           e.switchOpts[v.name].type>>
        BY <2>2, <2>4
      <3>2. PICK w \in Nodes(d) : v.name = w.name /\ v.kind = w.kind
        BY <1>1
      <3>3. w.kind \in SwitchLike /\ x = <<w.name, w.kind, d.switchOpts[w.name].num,
                                           d.switchOpts[w.name].type>>
        BY <2>1, <3>1, <3>2
      <3> QED
        BY <2>3, <3>3
    <2>5. ASSUME NEW x, x \in SwitchesOf(d) PROVE x \in SwitchesOf(e)
      <3>1. PICK w \in Nodes(d) : /\ w.kind \in SwitchLike
                                  /\ x = <<w.name, w.kind, d.switchOpts[w.name].num,
                                           d.switchOpts[w.name].type>>
        BY <2>3, <2>5
      <3>2. PICK v \in Nodes(e) : v.name = w.name /\ v.kind = w.kind
        BY <1>1
      <3>3. v.kind \in SwitchLike /\ x = <<v.name, v.kind, e.switchOpts[v.name].num,
                                           e.switchOpts[v.name].type>>
        BY <2>1, <3>1, <3>2
      <3> QED
        BY <2>2, <3>3
    <2> QED
      BY <2>4, <2>5
  <1>4. ListsOf(e) = ListsOf(d)
    <2>1. ASSUME NEW w \in Nodes(d), w.kind = "Switch"
          PROVE  e.switchOpts[w.name].controllers = d.switchOpts[w.name].controllers
      BY <1>1, <2>1 DEF SaysSame, SwitchLike
    <2>2. \A x : x \in ListsOf(e) <=>
                    \E v \in Nodes(e) : v.kind = "Switch" /\ x = <<v.name, e.switchOpts[v.name].controllers>>
      BY DEF ListsOf
    <2>3. \A x : x \in ListsOf(d) <=>
                    \E v \in Nodes(d) : v.kind = "Switch" /\ x = <<v.name, d.switchOpts[v.name].controllers>>
      BY DEF ListsOf
    <2>4. ASSUME NEW x, x \in ListsOf(e) PROVE x \in ListsOf(d)
      <3>1. PICK v \in Nodes(e) : v.kind = "Switch" /\ x = <<v.name, e.switchOpts[v.name].controllers>>
        BY <2>2, <2>4
      <3>2. PICK w \in Nodes(d) : v.name = w.name /\ v.kind = w.kind
        BY <1>1
      <3>3. w.kind = "Switch" /\ x = <<w.name, d.switchOpts[w.name].controllers>>
        BY <2>1, <3>1, <3>2
      <3> QED
        BY <2>3, <3>3
    <2>5. ASSUME NEW x, x \in ListsOf(d) PROVE x \in ListsOf(e)
      <3>1. PICK w \in Nodes(d) : w.kind = "Switch" /\ x = <<w.name, d.switchOpts[w.name].controllers>>
        BY <2>3, <2>5
      <3>2. PICK v \in Nodes(e) : v.name = w.name /\ v.kind = w.kind
        BY <1>1
      <3>3. v.kind = "Switch" /\ x = <<v.name, e.switchOpts[v.name].controllers>>
        BY <2>1, <3>1, <3>2
      <3> QED
        BY <2>2, <3>3
    <2> QED
      BY <2>4, <2>5
  <1>5. ControllersOf(e) = ControllersOf(d)
    <2>1. ASSUME NEW w \in Nodes(d), w.kind = "Controller"
          PROVE  e.controllers[w.name] = d.controllers[w.name]
      BY <1>1, <2>1 DEF SaysSame
    <2>2. \A x : x \in ControllersOf(e) <=>
                    \E v \in Nodes(e) : v.kind = "Controller" /\ x = <<v.name, e.controllers[v.name]>>
      BY DEF ControllersOf
    <2>3. \A x : x \in ControllersOf(d) <=>
                    \E v \in Nodes(d) : v.kind = "Controller" /\ x = <<v.name, d.controllers[v.name]>>
      BY DEF ControllersOf
    <2>4. ASSUME NEW x, x \in ControllersOf(e) PROVE x \in ControllersOf(d)
      <3>1. PICK v \in Nodes(e) : v.kind = "Controller" /\ x = <<v.name, e.controllers[v.name]>>
        BY <2>2, <2>4
      <3>2. PICK w \in Nodes(d) : v.name = w.name /\ v.kind = w.kind
        BY <1>1
      <3>3. w.kind = "Controller" /\ x = <<w.name, d.controllers[w.name]>>
        BY <2>1, <3>1, <3>2
      <3> QED
        BY <2>3, <3>3
    <2>5. ASSUME NEW x, x \in ControllersOf(d) PROVE x \in ControllersOf(e)
      <3>1. PICK w \in Nodes(d) : w.kind = "Controller" /\ x = <<w.name, d.controllers[w.name]>>
        BY <2>3, <2>5
      <3>2. PICK v \in Nodes(e) : v.name = w.name /\ v.kind = w.kind
        BY <1>1
      <3>3. v.kind = "Controller" /\ x = <<v.name, e.controllers[v.name]>>
        BY <2>1, <3>1, <3>2
      <3> QED
        BY <2>2, <3>3
    <2> QED
      BY <2>4, <2>5
  <1> QED
    BY <1>2, <1>3, <1>4, <1>5

\* and when one came back from a file the same control links,
LEMMA ControlSame ==
    ASSUME NEW d, Shape(d), Good(d, {}), Managed(d, {}), NEW r, CameBack(d, r)
    PROVE  ControlPairs(r.m) = ControlPairs(d)
  <1>1. PICK e : e = r.m
    OBVIOUS
  <1>2. Shape(e) /\ Good(e, {}) /\ Managed(e, {}) /\ Holding(d, e, Nodes(d))
    BY <1>1 DEF CameBack, Holding
  <1>3. /\ \A w \in Nodes(d) : \E v \in Nodes(e) : v.name = w.name /\ v.kind = w.kind
        /\ \A v \in Nodes(e) : \E w \in Nodes(d) : v.name = w.name /\ v.kind = w.kind
    BY <1>2 DEF Holding
  <1>4. ASSUME NEW w \in Nodes(d), NEW v \in Nodes(e), w.kind = "Switch", v.name = w.name
        PROVE  ListOf(e, v) = ListOf(d, w)
    <2>1. SaysSame(d, w, e)
      BY <1>2 DEF Holding
    <2> QED
      BY <1>4, <2>1 DEF SaysSame, ListOf, SwitchLike
  <1>5. ASSUME NEW x PROVE x \in ControlPairs(e) <=> x \in ControlPairs(d)
    <2>1. x \in ControlPairs(d) <=>
             \E w \in Nodes(d) : w.kind = "Switch" /\ \E n \in ToSet(ListOf(d, w)) : x = {w.name, n}
      BY ControlPairsAre
    <2>2. x \in ControlPairs(e) <=>
             \E w \in Nodes(e) : w.kind = "Switch" /\ \E n \in ToSet(ListOf(e, w)) : x = {w.name, n}
      BY <1>2, ControlPairsAre
    <2>3. ASSUME NEW w \in Nodes(d), w.kind = "Switch", NEW n \in ToSet(ListOf(d, w)), x = {w.name, n}
          PROVE  \E v \in Nodes(e) : v.kind = "Switch" /\ \E k \in ToSet(ListOf(e, v)) : x = {v.name, k}
      <3>1. PICK v \in Nodes(e) : v.name = w.name /\ v.kind = w.kind
        BY <1>3
      <3>2. ListOf(e, v) = ListOf(d, w)
        BY <1>4, <2>3, <3>1
      <3> QED
        BY <2>3, <3>1, <3>2
    <2>4. ASSUME NEW v \in Nodes(e), v.kind = "Switch", NEW n \in ToSet(ListOf(e, v)), x = {v.name, n}
          PROVE  \E w \in Nodes(d) : w.kind = "Switch" /\ \E k \in ToSet(ListOf(d, w)) : x = {w.name, k}
      <3>1. PICK w \in Nodes(d) : v.name = w.name /\ v.kind = w.kind
        BY <1>3
      <3>2. ListOf(e, v) = ListOf(d, w)
        BY <1>4, <2>4, <3>1
      <3> QED
        BY <2>4, <3>1, <3>2
    <2> QED
      BY <2>1, <2>2, <2>3, <2>4
  <1> QED
    BY <1>1, <1>5

\* thus the same topology.
LEMMA TopologySame ==
    ASSUME NEW d, Shape(d), Good(d, {}), Managed(d, {}), NEW r, CameBack(d, r)
    PROVE  Topology(r.m) = Topology(d)
  <1>1. PICK e : e = r.m
    OBVIOUS
  <1>2. Shape(e) /\ Holding(d, e, Nodes(d)) /\ DrawnLinks(e) = DrawnLinks(d)
    BY <1>1 DEF CameBack, Holding
  <1>3. ControlPairs(e) = ControlPairs(d)
    BY <1>1, ControlSame
  <1>4. /\ HostsOf(e) = HostsOf(d) /\ SwitchesOf(e) = SwitchesOf(d)
        /\ ListsOf(e) = ListsOf(d) /\ ControllersOf(e) = ControllersOf(d)
    BY <1>2, HoldingSame
  <1>5. Topology(e) = Topology(d)
    <2>1. Topology(e) = [hosts |-> HostsOf(e), switches |-> SwitchesOf(e), managed |-> ListsOf(e),
                         controllers |-> ControllersOf(e), data |-> DrawnLinks(e),
                         control |-> ControlPairs(e)]
      BY <1>2, TopologyIs
    <2>2. Topology(d) = [hosts |-> HostsOf(d), switches |-> SwitchesOf(d), managed |-> ListsOf(d),
                         controllers |-> ControllersOf(d), data |-> DrawnLinks(d),
                         control |-> ControlPairs(d)]
      BY TopologyIs
    <2> QED
      BY <1>2, <1>3, <1>4, <2>1, <2>2
  <1> QED
    BY <1>1, <1>5

(* A drawing that is saved and opened comes back as it was: the nodes with their
   options, the controllers of the switches, the links in their order
   (saveTopology(), loadTopology()).                                       *)
THEOREM DrawingsComeBack == Spec => []SavedIsLoaded
  <1>1. LinksInv => SavedIsLoaded
    <2>1. SUFFICES ASSUME LinksInv, Orderly, ~Unnamed(m)
                   PROVE  \A file \in {Saved(m, prefs)} : \A loaded \in {Loaded(m, "normal", file)} :
                             loaded.ok /\ Topology(loaded.m) = Topology(m)
      BY DEF SavedIsLoaded
    <2>2. PICK d, p, t : d = m /\ p = prefs /\ t = "normal"
      OBVIOUS
    <2>3. Unspoiled
      BY <2>1 DEF Orderly, Unspoiled, Without
    <2>4. /\ Shape(d) /\ Good(d, {}) /\ Managed(d, {}) /\ ~Unnamed(d)
          /\ p \in {"ovs", "user"} /\ t # "disabled"
      BY <2>1, <2>2, <2>3 DEF LinksInv, TypeInv
    <2>5. PICK f : f = Saved(d, p)
      OBVIOUS
    <2>6. PICK r : r = Loaded(d, t, f)
      OBVIOUS
    <2>7. CameBack(d, r)
      BY <2>4, <2>5, <2>6, SavedComesBack
    <2>8. r.ok /\ Topology(r.m) = Topology(d)
      <3>1. Topology(r.m) = Topology(d)
        BY <2>4, <2>7, TopologySame
      <3> QED
        BY <2>7, <3>1 DEF CameBack
    <2> QED
      BY <2>2, <2>5, <2>6, <2>8
  <1> QED
    BY <1>1, LinksKept, PTL
=============================================================================
