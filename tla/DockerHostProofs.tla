-------------------------- MODULE DockerHostProofs --------------------------
(* Docker hosts and access points: commands, limits, hosts and what is left, for all
   names and limits, and every number of calls, objects, troubles and processes.  *)
EXTENDS DockerHost, SequenceTheorems, WellFoundedInduction, TLAPS

USE DEF vars

(***************************************************************************)
(* Sequences.                                                              *)
(***************************************************************************)
IsSeq(s) == \E k \in Nat : s = [i \in 1..k |-> s[i]]

\* The empty sequence.
LEMMA NothingIsSeq ==
    ASSUME NEW s, s = <<>>
    PROVE  IsSeq(s)
  <1> SUFFICES \E k \in Nat : s = [i \in 1..k |-> s[i]]
    BY DEF IsSeq
  <1>1. s = [i \in 1..0 |-> s[i]]
    OBVIOUS
  <1> WITNESS 0 \in Nat
  <1> QED
    BY <1>1

\* A sequence with another element.
LEMMA AppendedSeq ==
    ASSUME NEW s, IsSeq(s), NEW e
    PROVE  /\ IsSeq(Append(s, e))
           /\ \A i \in DOMAIN Append(s, e) :
                 \/ i \in DOMAIN s /\ Append(s, e)[i] = s[i]
                 \/ Append(s, e)[i] = e
  <1>1. PICK k \in Nat : s = [i \in 1..k |-> s[i]]
    BY DEF IsSeq
  <1> DEFINE T == {s[i] : i \in 1..k} \cup {e}
  <1>2. s \in [1..k -> T]
    BY <1>1
  <1>3. s \in Seq(T)
    BY <1>2, SeqDef
  <1>4. /\ Append(s, e) \in Seq(T) /\ DOMAIN s = 1..Len(s) /\ Len(s) \in Nat
        /\ Len(Append(s, e)) = Len(s) + 1
        /\ \A i \in 1..Len(s) : Append(s, e)[i] = s[i]
        /\ Append(s, e)[Len(s) + 1] = e
    <2> HIDE DEF T
    <2> QED
      BY <1>3, e \in T, AppendProperties DEF T
  <1>5. PICK n \in Nat : Append(s, e) \in [1..n -> T]
    <2> HIDE DEF T
    <2> QED
      BY <1>4, LenProperties
  <1>6. IsSeq(Append(s, e))
    <2> HIDE DEF T
    <2> QED
      BY <1>5 DEF IsSeq
  <1>7. n = Len(s) + 1
    <2> HIDE DEF T
    <2> QED
      BY <1>4, <1>5
  <1>8. \A i \in DOMAIN Append(s, e) : i \in 1..Len(s) \/ i = Len(s) + 1
    <2> HIDE DEF T
    <2> QED
      BY <1>4, <1>5, <1>7
  <1> QED
    BY <1>4, <1>6, <1>8

\* A sequence in which one element is another.
LEMMA ExceptedSeq ==
    ASSUME NEW s, IsSeq(s), NEW n, NEW e
    PROVE  IsSeq([s EXCEPT ![n] = e])
  <1>1. PICK k \in Nat : s = [i \in 1..k |-> s[i]]
    BY DEF IsSeq
  <1> DEFINE t == [s EXCEPT ![n] = e]
  <1>2. t = [i \in 1..k |-> t[i]]
    BY <1>1
  <1> QED
    BY <1>2 DEF IsSeq

\* The last element is the one appended.
LEMMA AppendedLast ==
    ASSUME NEW s, IsSeq(s), NEW e
    PROVE  \E k \in Nat : /\ DOMAIN s = 1..k /\ DOMAIN Append(s, e) = 1..(k + 1)
                          /\ Append(s, e)[k + 1] = e /\ Len(Append(s, e)) = k + 1
                          /\ \A i \in 1..k : Append(s, e)[i] = s[i]
  <1>1. PICK k \in Nat : s = [i \in 1..k |-> s[i]]
    BY DEF IsSeq
  <1>2. PICK T : T = {s[i] : i \in 1..k} \cup {e}
    OBVIOUS
  <1>3. s \in Seq(T) /\ e \in T
    BY <1>1, <1>2, SeqDef
  <1>4. /\ Append(s, e) \in Seq(T) /\ Len(Append(s, e)) = Len(s) + 1
        /\ \A i \in 1..Len(s) : Append(s, e)[i] = s[i]
        /\ Append(s, e)[Len(s) + 1] = e
    BY <1>3, AppendProperties
  <1>5. /\ Len(s) \in Nat /\ DOMAIN s = 1..Len(s)
        /\ DOMAIN Append(s, e) = 1..Len(Append(s, e))
    BY <1>3, <1>4, LenProperties
  <1> QED
    BY <1>4, <1>5

\* The least of some numbers is one of them.
LEMMA LeastIsOne ==
    ASSUME NEW I \in SUBSET Nat, NEW k \in I
    PROVE  Min(I) \in I
  <1>1. Min(I) = CHOOSE x \in I : \A y \in I : x <= y
    BY DEF Min
  <1>2. \E x \in I : \A y \in I : x <= y
    <2>1. \E R : IsWellFoundedOn(R, Nat) /\ R = {q \in Nat \X Nat : q[1] < q[2]}
      BY NatLessThanWellFounded, Zenon DEF OpToRel
    <2>2. PICK x \in I : \A y \in I : ~(<<y, x>> \in {q \in Nat \X Nat : q[1] < q[2]})
      <3>1. I \subseteq Nat /\ k \in I
        OBVIOUS
      <3> QED
        BY <2>1, <3>1, WFMin, ZenonT(60)
    <2>3. ASSUME NEW y \in I, y < x PROVE FALSE
      <3> DEFINE pair == <<y, x>>
      <3>1. pair \in Nat \X Nat /\ pair[1] < pair[2]
        BY <2>3
      <3>2. pair \in {q \in Nat \X Nat : q[1] < q[2]}
        BY <3>1
      <3> QED
        BY <2>2, <3>2
    <2> QED
      BY <2>3
  <1> QED
    BY <1>1, <1>2

\* The part of a sequence from some place on.
LEMMA FromPlace ==
    ASSUME NEW S, NEW s, NEW n \in Nat, NEW p \in 1..n, \A i \in 1..n : s[i] \in S,
           NEW b, b = SubSeq(s, p + 1, n)
    PROVE  /\ b \in Seq(S) /\ Len(b) = n - p
           /\ \A i \in 1..(n - p) : b[i] = s[i + p]
  <1>1. PICK m \in Int : m = p + 1
    OBVIOUS
  <1>2. /\ SubSeq(s, m, n) \in Seq(S)
        /\ Len(SubSeq(s, m, n)) = IF m <= n THEN n - m + 1 ELSE 0
        /\ \A i \in 1..(n - m + 1) : SubSeq(s, m, n)[i] = s[m + i - 1]
    <2>1. \A i \in m..n : s[i] \in S
      BY <1>1
    <2> QED
      BY <2>1, SubSeqProperties
  <1>3. b = SubSeq(s, m, n)
    BY <1>1
  <1>4. n - m + 1 = n - p /\ \A i \in 1..(n - p) : m + i - 1 = i + p
    BY <1>1
  <1> QED
    BY <1>1, <1>2, <1>3, <1>4

\* A sequence without the element of some place.
LEMMA PlaceRemoved ==
    ASSUME NEW S, NEW s \in Seq(S), NEW p \in DOMAIN s
    PROVE  \E n \in Nat :
              /\ DOMAIN s = 1..n /\ p \in 1..n
              /\ RemoveAt(s, p) \in Seq(S) /\ DOMAIN RemoveAt(s, p) = 1..(n - 1)
              /\ \A i \in 1..(n - 1) : RemoveAt(s, p)[i] = IF i < p THEN s[i] ELSE s[i + 1]
  <1>0. PICK n, r : n = Len(s) /\ n \in Nat /\ p \in 1..n /\ r = RemoveAt(s, p)
    BY LenProperties
  <1>1. PICK a, b : a = SubSeq(s, 1, p - 1) /\ b = SubSeq(s, p + 1, n)
    OBVIOUS
  <1>2. r = a \o b
    BY <1>0, <1>1 DEF RemoveAt
  <1>3. n \in Nat /\ p \in 1..n /\ \A i \in 1..n : s[i] \in S
    BY <1>0, LenProperties
  <1>4. /\ a \in Seq(S) /\ Len(a) = p - 1
        /\ \A i \in 1..(p - 1) : a[i] = s[i]
    BY <1>1, <1>3, SubSeqProperties
  <1>5. /\ b \in Seq(S) /\ Len(b) = n - p
        /\ \A i \in 1..(n - p) : b[i] = s[i + p]
    BY <1>1, <1>3, FromPlace
  <1>6. /\ r \in Seq(S) /\ Len(r) = n - 1
        /\ \A i \in 1..(n - 1) : r[i] = IF i <= p - 1 THEN a[i] ELSE b[i - (p - 1)]
    <2>1. /\ r \in Seq(S) /\ Len(r) = Len(a) + Len(b)
          /\ \A i \in 1..Len(a) + Len(b) : r[i] = IF i <= Len(a) THEN a[i] ELSE b[i - Len(a)]
      <3>1. a \in Seq(S) /\ b \in Seq(S)
        BY <1>4, <1>5
      <3> QED
        BY <1>2, <3>1, ConcatProperties
    <2>2. Len(a) + Len(b) = n - 1 /\ Len(a) = p - 1
      BY <1>3, <1>4, <1>5
    <2> QED
      BY <2>1, <2>2
  <1>7. ASSUME NEW i \in 1..(n - 1)
        PROVE  r[i] = IF i < p THEN s[i] ELSE s[i + 1]
    <2>1. CASE i < p
      BY <1>3, <1>4, <1>6, <2>1
    <2>2. CASE ~(i < p)
      <3>1. i - (p - 1) \in 1..(n - p) /\ (i - (p - 1)) + p = i + 1
        BY <1>3, <2>2
      <3> QED
        <4>1. r[i] = b[i - (p - 1)]
          BY <1>3, <1>6, <2>2
        <4>2. b[i - (p - 1)] = s[i + 1]
          BY <1>5, <3>1
        <4> QED
          BY <2>2, <4>1, <4>2
    <2> QED
      BY <1>3, <2>1, <2>2
  <1> QED
    BY <1>0, <1>6, <1>7, LenProperties

\* Without the first that is equal to something.
LEMMA FirstRemoved ==
    ASSUME NEW S, NEW s \in Seq(S), NEW e
    PROVE  /\ RemoveFirst(s, e) \in Seq(S)
           /\ \A j \in DOMAIN RemoveFirst(s, e) : \E i \in DOMAIN s : RemoveFirst(s, e)[j] = s[i]
           /\ \A i \in DOMAIN s :
                 s[i] = e \/ \E j \in DOMAIN RemoveFirst(s, e) : RemoveFirst(s, e)[j] = s[i]
  <1>0. PICK n \in Nat : n = Len(s) /\ DOMAIN s = 1..n /\ \A i \in 1..n : s[i] \in S
    BY LenProperties
  <1>1. CASE \A i \in DOMAIN s : s[i] # e
    <2>1. RemoveFirst(s, e) = s
      BY <1>0, <1>1 DEF RemoveFirst
    <2> QED
      BY <2>1
  <1>2. CASE \E k \in DOMAIN s : s[k] = e
    <2>1. PICK k \in 1..n : s[k] = e
      BY <1>0, <1>2
    <2>2. PICK I : I = {i \in 1..n : s[i] = e}
      OBVIOUS
    <2>3. PICK p \in 1..n : p = Min(I) /\ s[p] = e
      <3>1. I \in SUBSET Nat /\ k \in I
        BY <2>1, <2>2
      <3>2. Min(I) \in I
        BY <3>1, LeastIsOne
      <3> QED
        BY <2>2, <3>2
    <2>4. PICK r : r = RemoveAt(s, p)
      OBVIOUS
    <2>5. RemoveFirst(s, e) = r
      BY <1>0, <2>1, <2>2, <2>3, <2>4 DEF RemoveFirst, SelectInSeq
    <2>6. p \in DOMAIN s
      BY <1>0, <2>3
    <2>7. PICK m \in Nat :
              /\ DOMAIN s = 1..m /\ p \in 1..m
              /\ RemoveAt(s, p) \in Seq(S) /\ DOMAIN RemoveAt(s, p) = 1..(m - 1)
              /\ \A i \in 1..(m - 1) : RemoveAt(s, p)[i] = IF i < p THEN s[i] ELSE s[i + 1]
      BY <2>6, PlaceRemoved
    <2>8. m = n /\ r \in Seq(S) /\ DOMAIN r = 1..(n - 1)
          /\ \A i \in 1..(n - 1) : r[i] = IF i < p THEN s[i] ELSE s[i + 1]
      BY <1>0, <2>4, <2>7
    <2>9. ASSUME NEW j \in DOMAIN r PROVE \E i \in DOMAIN s : r[j] = s[i]
      <3>1. j \in 1..n /\ j + 1 \in 1..n /\ (r[j] = s[j] \/ r[j] = s[j + 1])
        BY <2>8, <2>9
      <3> QED
        BY <1>0, <3>1
    <2>10. ASSUME NEW i \in DOMAIN s, s[i] # e
           PROVE  \E j \in DOMAIN r : r[j] = s[i]
      <3>0. i \in 1..n /\ i # p
        BY <1>0, <2>3, <2>10
      <3>1. CASE i < p
        <4>1. i \in DOMAIN r /\ r[i] = s[i]
          BY <2>8, <3>0, <3>1
        <4> QED
          BY <4>1
      <3>2. CASE i > p
        <4>1. i - 1 \in 1..(n - 1) /\ ~(i - 1 < p) /\ (i - 1) + 1 = i
          BY <3>0, <3>2
        <4>2. (i - 1) \in DOMAIN r /\ r[i - 1] = s[i]
          BY <2>8, <4>1
        <4> QED
          BY <4>2
      <3> QED
        BY <3>0, <3>1, <3>2
    <2> QED
      BY <2>5, <2>8, <2>9, <2>10
  <1> QED
    BY <1>1, <1>2

(***************************************************************************)
(* Containers and objects.                                                 *)
(***************************************************************************)
ConFields == {"name", "status", "limits"}
NodeFields == {"name", "id", "resources", "astray", "shell", "dead"}
HistoryFields == {"orphans", "served", "strays", "lastId", "calls", "troubles", "runs"}

\* Containers have names of their own and ids that were given to them.
Containers ==
    /\ con = [id \in DOMAIN con |-> con[id]]
    /\ \A id \in DOMAIN con :
          /\ id \in 1..history.lastId
          /\ con[id] = [f \in ConFields |-> con[id][f]]
    /\ \A a, b \in DOMAIN con : con[a].name = con[b].name => a = b

\* The container of an object has the object's name, as long as there is one, and the
\* shell of an object is none or its container's.
Objects ==
    /\ IsSeq(node)
    /\ \A n \in DOMAIN node :
          /\ node[n] = [f \in NodeFields |-> node[n][f]]
          /\ node[n].id \in 1..history.lastId
          /\ node[n].id \in DOMAIN con => con[node[n].id].name = node[n].name
          /\ node[n].shell \in {0, node[n].id}

Past ==
    /\ history = [f \in HistoryFields |-> history[f]]
    /\ history.lastId \in Nat
    /\ CommandsReachTheirOwn

OwnContainers == Containers /\ Objects /\ Past

\* In the beginning there are no containers.
LEMMA OwnInitially == Init => OwnContainers
  <1> SUFFICES ASSUME Init PROVE OwnContainers
    OBVIOUS
  <1>1. con = <<>> /\ node = <<>> /\ history = Fresh
    BY DEF Init
  <1>2. IsSeq(node)
    BY <1>1 DEF IsSeq
  <1>3. history.lastId = 0 /\ history.served = {}
        /\ history = [f \in HistoryFields |-> history[f]]
    BY <1>1 DEF Fresh, HistoryFields
  <1> QED
    BY <1>1, <1>2, <1>3
       DEF OwnContainers, Containers, Objects, Past, CommandsReachTheirOwn

\* A running container of an object is the one that docker exec finds by its name.
LEMMA ExecIsOwn ==
    ASSUME OwnContainers, NEW n \in DOMAIN node, IsRunning(node[n])
    PROVE  ExecedIn(node[n]) = node[n].id
  <1>1. node[n].id \in DOMAIN con
    BY DEF IsRunning, Running
  <1>2. Named(con, node[n].name) = {node[n].id}
    BY <1>1 DEF Named, OwnContainers, Containers, Objects
  <1> QED
    BY <1>2 DEF ExecedIn

(***************************************************************************)
(* What most steps do: containers may go, objects stay, commands are run.  *)
(***************************************************************************)
FewerContainers ==
    /\ con' = [id \in DOMAIN con' |-> con'[id]]
    /\ \A id \in DOMAIN con' : /\ id \in DOMAIN con /\ con'[id].name = con[id].name
                               /\ con'[id] = [f \in ConFields |-> con'[id][f]]
SameObjects ==
    /\ IsSeq(node') /\ DOMAIN node' = DOMAIN node
    /\ \A n \in DOMAIN node : /\ node'[n].id = node[n].id /\ node'[n].name = node[n].name
                              /\ node'[n].shell \in {0, node[n].id}
                              /\ node'[n] = [f \in NodeFields |-> node'[n][f]]
MorePast ==
    /\ history' = [f \in HistoryFields |-> history'[f]]
    /\ history'.lastId = history.lastId
    /\ \A s \in history'.served : s \in history.served \/ s[1] = s[2]

\* Such steps keep what is one's own.
LEMMA OwnKept ==
    ASSUME OwnContainers, FewerContainers, SameObjects, MorePast
    PROVE  OwnContainers'
  <1>1. Past'
    BY DEF OwnContainers, Past, CommandsReachTheirOwn, MorePast
  <1>2. Containers'
    <2>1. history'.lastId = history.lastId /\ con' = [id \in DOMAIN con' |-> con'[id]]
      BY DEF FewerContainers, MorePast
    <2>2. ASSUME NEW id \in DOMAIN con'
          PROVE  id \in 1..history'.lastId /\ con'[id] = [f \in ConFields |-> con'[id][f]]
      BY <2>1, <2>2 DEF OwnContainers, Containers, FewerContainers
    <2>3. ASSUME NEW a \in DOMAIN con', NEW b \in DOMAIN con', con'[a].name = con'[b].name
          PROVE  a = b
      BY <2>3 DEF OwnContainers, Containers, FewerContainers
    <2> QED
      BY <2>1, <2>2, <2>3 DEF Containers
  <1>3. Objects'
    <2>1. history'.lastId = history.lastId /\ IsSeq(node')
      BY DEF SameObjects, MorePast
    <2>2. ASSUME NEW n \in DOMAIN node'
          PROVE  /\ node'[n] = [f \in NodeFields |-> node'[n][f]]
                 /\ node'[n].id \in 1..history'.lastId
                 /\ node'[n].id \in DOMAIN con' => con'[node'[n].id].name = node'[n].name
                 /\ node'[n].shell \in {0, node'[n].id}
      BY <2>1, <2>2 DEF OwnContainers, Objects, FewerContainers, SameObjects
    <2> QED
      BY <2>1, <2>2 DEF Objects
  <1> QED
    BY <1>1, <1>2, <1>3 DEF OwnContainers

\* Nothing changes in what is left unchanged.
LEMMA LeftAlone ==
    ASSUME OwnContainers
    PROVE  /\ con' = con => FewerContainers
           /\ node' = node => SameObjects
           /\ history' = history => MorePast
  <1>1. con' = con => FewerContainers
    BY DEF OwnContainers, Containers, FewerContainers
  <1>2. node' = node => SameObjects
    BY DEF OwnContainers, Objects, SameObjects
  <1>3. history' = history => MorePast
    BY DEF OwnContainers, Past, CommandsReachTheirOwn, MorePast
  <1> QED
    BY <1>1, <1>2, <1>3

\* Counting changes nothing else of the past.
LEMMA Counted ==
    ASSUME OwnContainers, NEW c, NEW t, NEW o, NEW r,
           history' = [history EXCEPT !.calls = c, !.troubles = t, !.orphans = o, !.strays = r]
    PROVE  MorePast
  BY DEF OwnContainers, Past, CommandsReachTheirOwn, MorePast, HistoryFields

\* An object of which the fields that matter stay as they are, in place of itself.
LEMMA ObjectKept ==
    ASSUME OwnContainers, NEW n, NEW nd,
           n \in DOMAIN node => /\ nd = [f \in NodeFields |-> nd[f]]
                               /\ nd.id = node[n].id /\ nd.name = node[n].name
                               /\ nd.shell \in {0, nd.id},
           node' = [node EXCEPT ![n] = nd]
    PROVE  SameObjects
  <1>1. IsSeq(node')
    BY ExceptedSeq DEF OwnContainers, Objects
  <1>2. DOMAIN node' = DOMAIN node
    OBVIOUS
  <1>3. ASSUME NEW m \in DOMAIN node
        PROVE  /\ node'[m].id = node[m].id /\ node'[m].name = node[m].name
               /\ node'[m].shell \in {0, node[m].id}
               /\ node'[m] = [f \in NodeFields |-> node'[m][f]]
    <2>1. CASE m = n
      <3>1. node'[m] = nd
        BY <2>1
      <3> QED
        BY <2>1, <3>1
    <2>2. CASE m # n
      <3>1. node'[m] = node[m]
        BY <2>2
      <3> QED
        BY <3>1 DEF OwnContainers, Objects
    <2> QED
      BY <2>1, <2>2
  <1> QED
    BY <1>1, <1>2, <1>3 DEF SameObjects

\* A container with other limits or another status.
LEMMA ContainerChanged ==
    ASSUME OwnContainers, NEW id, NEW x,
           \/ con' = [con EXCEPT ![id].limits = x]
           \/ con' = [con EXCEPT ![id].status = x]
    PROVE  FewerContainers
  <1>1. con' = [i \in DOMAIN con' |-> con'[i]] /\ DOMAIN con' = DOMAIN con
    BY DEF OwnContainers, Containers
  <1>2. ASSUME NEW i \in DOMAIN con'
        PROVE  con'[i].name = con[i].name /\ con'[i] = [f \in ConFields |-> con'[i][f]]
    <2>1. con[i] = [f \in ConFields |-> con[i][f]]
      BY <1>1 DEF OwnContainers, Containers
    <2> QED
      BY <1>1, <2>1 DEF ConFields
  <1> QED
    BY <1>1, <1>2 DEF FewerContainers

\* Some of the containers.
LEMMA ContainersRemoved ==
    ASSUME OwnContainers, NEW gone
    PROVE  con' = Without(con, gone) => FewerContainers
  BY DEF OwnContainers, Containers, FewerContainers, Without

\* The shell that a command goes to is the object's own.
LEMMA CheckedIsOwn ==
    ASSUME OwnContainers, NEW n \in DOMAIN node
    PROVE  /\ Checked(node[n]) = [f \in NodeFields |-> Checked(node[n])[f]]
           /\ Checked(node[n]).id = node[n].id /\ Checked(node[n]).name = node[n].name
           /\ Checked(node[n]).shell \in {0, node[n].id}
  <1>1. node[n] = [f \in NodeFields |-> node[n][f]] /\ node[n].shell \in {0, node[n].id}
    BY DEF OwnContainers, Objects
  <1>2. IsRunning(node[n]) => ExecedIn(node[n]) = node[n].id
    BY ExecIsOwn
  <1>3. CASE ~IsRunning(node[n])
    BY <1>1, <1>3 DEF Checked, NodeFields
  <1>4. CASE IsRunning(node[n]) /\ ShellLives(node[n])
    BY <1>1, <1>4 DEF Checked
  <1>5. CASE IsRunning(node[n]) /\ ~ShellLives(node[n])
    <2>1. Checked(node[n]) = [node[n] EXCEPT !.shell = node[n].id, !.dead = FALSE]
      BY <1>2, <1>5 DEF Checked
    <2> QED
      BY <1>1, <2>1 DEF NodeFields
  <1> QED
    BY <1>3, <1>4, <1>5

(***************************************************************************)
(* The constructor.                                                        *)
(***************************************************************************)
\* Containers that were there, and perhaps one more with a new id and a name of its own.
Added(c, name, status, limits) ==
    /\ c = [id \in DOMAIN c |-> c[id]]
    /\ \A id \in DOMAIN c : id \in DOMAIN con /\ c[id] = con[id]
    /\ \/ con' = c
       \/ Named(c, name) = {} /\ con' = Created(c, name, status, limits)

\* A container has the name it had, or is the new one.
NamesAdded(name) ==
    \A id \in DOMAIN con' :
        \/ id \in DOMAIN con /\ con'[id].name = con[id].name
        \/ id = NewId /\ con'[id].name = name
NewPast ==
    /\ history' = [f \in HistoryFields |-> history'[f]]
    /\ history'.lastId = NewId /\ history'.served = history.served

\* The new container takes nobody's id or name.
LEMMA AddedKeeps ==
    ASSUME OwnContainers, NewPast, NEW c, NEW name, NEW status, NEW limits,
           Added(c, name, status, limits)
    PROVE  /\ Containers' /\ Past'
           /\ NamesAdded(name)
  <1> DEFINE fresh == [name |-> name, status |-> status, limits |-> limits]
  <1>1. history.lastId \in Nat /\ NewId = history.lastId + 1
    BY DEF OwnContainers, Past, NewId
  <1>2. Past'
    BY <1>1 DEF OwnContainers, Past, CommandsReachTheirOwn, NewPast
  <1>3. \A id \in DOMAIN c : /\ id \in 1..history.lastId /\ id # NewId
                             /\ c[id] = [f \in ConFields |-> c[id][f]]
    BY <1>1 DEF OwnContainers, Containers, Added
  <1>4. \A a, b \in DOMAIN c : c[a].name = c[b].name => a = b
    BY DEF OwnContainers, Containers, Added
  <1>5. CASE con' = c
    <2>1. Containers'
      BY <1>1, <1>3, <1>4, <1>5 DEF Containers, Added, NewPast
    <2> QED
      BY <1>2, <1>5, <2>1 DEF Added, NamesAdded
  <1>6. CASE Named(c, name) = {} /\ con' = Created(c, name, status, limits)
    <2>1. /\ con' = [id \in DOMAIN con' |-> con'[id]]
          /\ DOMAIN con' = DOMAIN c \cup {NewId}
          /\ \A id \in DOMAIN c : con'[id] = c[id]
          /\ con'[NewId] = fresh
      BY <1>3, <1>6 DEF Created
    <2>2. \A id \in DOMAIN c : c[id].name # name
      BY <1>6 DEF Named
    <2>3. fresh = [f \in ConFields |-> fresh[f]] /\ fresh.name = name
      BY DEF ConFields
    <2>4. \A id \in DOMAIN con' : id \in 1..history'.lastId
      BY <1>1, <1>3, <2>1 DEF NewPast
    <2>5. \A id \in DOMAIN con' : con'[id] = [f \in ConFields |-> con'[id][f]]
      <3> HIDE DEF fresh
      <3> QED
        BY <1>3, <2>1, <2>3
    <2>6. ASSUME NEW a \in DOMAIN con', NEW b \in DOMAIN con', con'[a].name = con'[b].name
          PROVE  a = b
      <3> HIDE DEF fresh
      <3> QED
        BY <1>4, <2>1, <2>2, <2>3, <2>6
    <2>7. Containers'
      BY <2>1, <2>4, <2>5, <2>6 DEF Containers
    <2>8. NamesAdded(name)
      <3> HIDE DEF fresh
      <3> QED
        BY <2>1, <2>3 DEF Added, NamesAdded
    <2> QED
      BY <1>2, <2>7, <2>8
  <1> QED
    BY <1>5, <1>6 DEF Added

\* Docker() keeps what is one's own, whether it raises or not, and with the option rm.
LEMMA NewKeeps ==
    ASSUME OwnContainers, NEW name, NEW rm, NEW want, New(name, rm, want)
    PROVE  OwnContainers'
  <1> DEFINE c == AfterRm(name, rm)
             made == CreateLimits(want)
             object == [name |-> name, id |-> NewId, resources |-> want,
                        astray |-> {}, shell |-> NewId, dead |-> FALSE]
  <1>1. history.lastId \in Nat /\ NewId = history.lastId + 1
    BY DEF OwnContainers, Past, NewId
  <1>2. /\ c = [id \in DOMAIN c |-> c[id]]
        /\ \A id \in DOMAIN c : id \in DOMAIN con /\ c[id] = con[id]
    BY DEF AfterRm, Without, OwnContainers, Containers
  <1> HIDE DEF c
  <1>3. \A k, lost : Raised(k, lost) => NewPast
    BY DEF Raised, NewPast, Called, OwnContainers, Past, HistoryFields
  <1>4. CASE \E lost, status, limits :
                /\ \/ Raised(c, lost)
                   \/ Named(c, name) = {} /\ Raised(Created(c, name, status, limits), lost)
    <2>1. PICK lost, status, limits :
              \/ Raised(c, lost)
              \/ Named(c, name) = {} /\ Raised(Created(c, name, status, limits), lost)
      BY <1>4
    <2>2. Added(c, name, status, limits) /\ NewPast /\ node' = node
      BY <1>2, <1>3, <2>1 DEF Raised, Added
    <2>3. /\ Containers' /\ Past'
          /\ NamesAdded(name)
      BY <2>2, AddedKeeps
    <2>4. Objects'
      BY <1>1, <2>2, <2>3 DEF OwnContainers, Objects, NewPast, NamesAdded
    <2> QED
      BY <2>3, <2>4 DEF OwnContainers
  <1>5. CASE /\ Named(c, name) = {}
             /\ con' = Created(c, name, "running", Over(made, want))
             /\ node' = Append(node, object)
             /\ history' = [Called EXCEPT !.lastId = NewId]
    <2>1. NewPast
      BY <1>5 DEF NewPast, Called, OwnContainers, Past, HistoryFields
    <2>2. Added(c, name, "running", Over(made, want))
      BY <1>2, <1>5 DEF Added
    <2>3. /\ Containers' /\ Past'
          /\ NamesAdded(name)
      BY <2>1, <2>2, AddedKeeps
    <2>4. /\ object = [f \in NodeFields |-> object[f]]
          /\ object.id = NewId /\ object.shell = NewId /\ object.name = name
      BY DEF NodeFields
    <2> HIDE DEF object
    <2>5. /\ IsSeq(node')
          /\ \A n \in DOMAIN node' : \/ n \in DOMAIN node /\ node'[n] = node[n]
                                     \/ node'[n] = object
      BY <1>5, AppendedSeq DEF OwnContainers, Objects
    <2>6. ASSUME NEW n \in DOMAIN node'
          PROVE  /\ node'[n] = [f \in NodeFields |-> node'[n][f]]
                 /\ node'[n].id \in 1..history'.lastId
                 /\ node'[n].id \in DOMAIN con' => con'[node'[n].id].name = node'[n].name
                 /\ node'[n].shell \in {0, node'[n].id}
      <3>1. CASE n \in DOMAIN node /\ node'[n] = node[n]
        BY <1>1, <2>1, <2>3, <3>1 DEF OwnContainers, Objects, NewPast, NamesAdded
      <3>2. CASE node'[n] = object
        <4>1. NewId \in DOMAIN con' => con'[NewId].name = name
          BY <1>1, <2>3 DEF OwnContainers, Containers, NamesAdded
        <4> QED
          BY <1>1, <2>1, <2>4, <3>2, <4>1 DEF NewPast
      <3> QED
        BY <2>5, <3>1, <3>2
    <2>7. Objects'
      BY <2>5, <2>6 DEF Objects
    <2> QED
      BY <2>3, <2>7 DEF OwnContainers
  <1>6. ASSUME ~(RmRaises(name, rm) \/ Named(c, name) # {} \/ ~hasImage')
        PROVE  \/ Raised(Created(c, name, "created", made), {NewId})
               \/ /\ con' = Created(c, name, "running", Over(made, want))
                  /\ node' = Append(node, object)
                  /\ history' = [Called EXCEPT !.lastId = NewId]
               \/ Raised(Created(c, name, "running", made), {NewId})
               \/ Raised(c, {})
    BY <1>6 DEF New, c
  <1>7. RmRaises(name, rm) \/ Named(c, name) # {} \/ ~hasImage' => Raised(c, {})
    BY DEF New, c
  <1> QED
    BY <1>4, <1>5, <1>6, <1>7

(***************************************************************************)
(* Commands, limits and ends.                                              *)
(***************************************************************************)
\* What a command is told to, it is told to the container of its object.
LEMMA CommandsKeep ==
    ASSUME OwnContainers, NEW n \in DOMAIN node, Cmd(n) \/ Popen(n)
    PROVE  OwnContainers'
  <1>1. FewerContainers
    BY LeftAlone DEF Cmd, Popen, docker
  <1>2. CASE Cmd(n)
    <2> DEFINE nd == Checked(node[n])
    <2>1. /\ nd = [f \in NodeFields |-> nd[f]] /\ nd.id = node[n].id /\ nd.name = node[n].name
          /\ nd.shell \in {0, node[n].id}
      BY CheckedIsOwn
    <2>2. /\ node' = [node EXCEPT ![n] = nd]
          /\ history' = [Called EXCEPT !.served = @ \cup Served(nd, nd.shell)]
      BY <1>2 DEF Cmd
    <2> HIDE DEF nd
    <2>3. SameObjects
      BY <2>1, <2>2, ObjectKept
    <2>4. \A s \in Served(nd, nd.shell) : s[1] = s[2]
      BY <2>1 DEF Served
    <2>5. MorePast
      BY <2>2, <2>4 DEF MorePast, Called, OwnContainers, Past, HistoryFields
    <2> QED
      BY <1>1, <2>3, <2>5, OwnKept
  <1>3. CASE Popen(n)
    <2> DEFINE id == IF IsRunning(node[n]) THEN ExecedIn(node[n]) ELSE 0
    <2>1. id \in {0, node[n].id}
      BY ExecIsOwn
    <2>2. history' = [Called EXCEPT !.served = @ \cup Served(node[n], id)]
      BY <1>3 DEF Popen
    <2> HIDE DEF id
    <2>3. \A s \in Served(node[n], id) : s[1] = s[2]
      BY <2>1 DEF Served
    <2>4. MorePast
      BY <2>2, <2>3 DEF MorePast, Called, OwnContainers, Past, HistoryFields
    <2>5. SameObjects
      BY <1>3, LeftAlone DEF Popen, docker
    <2> QED
      BY <1>1, <2>4, <2>5, OwnKept
  <1> QED
    BY <1>2, <1>3

\* A step that only counts.
LEMMA OnlyCounted ==
    ASSUME OwnContainers,
           \/ history' = Called
           \/ \E o : history' = [history EXCEPT !.orphans = o, !.troubles = @ + 1]
           \/ history' = [history EXCEPT !.troubles = @ + 1]
           \/ \E r : history' = [Called EXCEPT !.strays = r]
           \/ \E o, r : history' = [history EXCEPT !.troubles = @ + 1, !.orphans = o,
                                                   !.strays = r]
           \/ \E o, r : history' = [history EXCEPT !.orphans = o, !.strays = r]
    PROVE  MorePast
  BY DEF MorePast, Called, OwnContainers, Past, HistoryFields

\* Objects and shells change in fields of their own.
LEMMA ObjectUpdated ==
    ASSUME OwnContainers, NEW n,
           \/ \E r, a : Recorded(n, r, a)
           \/ node' = [node EXCEPT ![n].shell = 0]
           \/ node' = [node EXCEPT ![n].dead = TRUE]
    PROVE  SameObjects
  <1>1. n \in DOMAIN node => /\ node[n] = [f \in NodeFields |-> node[n][f]]
                             /\ node[n].shell \in {0, node[n].id}
    BY DEF OwnContainers, Objects
  <1>2. PICK nd : /\ n \in DOMAIN node =>
                        /\ nd = [f \in NodeFields |-> nd[f]]
                        /\ nd.id = node[n].id /\ nd.name = node[n].name
                        /\ nd.shell \in {0, nd.id}
                  /\ node' = [node EXCEPT ![n] = nd]
    <2>1. CASE \E r, a : Recorded(n, r, a)
      <3>1. PICK r, a : node' = [node EXCEPT ![n].resources = r, ![n].astray = a]
        BY <2>1 DEF Recorded
      <3> DEFINE nd == [node[n] EXCEPT !.resources = r, !.astray = a]
      <3>2. node' = [node EXCEPT ![n] = nd]
        BY <3>1
      <3>3. n \in DOMAIN node => /\ nd = [f \in NodeFields |-> nd[f]]
                                 /\ nd.id = node[n].id /\ nd.name = node[n].name
                                 /\ nd.shell \in {0, nd.id}
        BY <1>1 DEF NodeFields
      <3> QED
        BY <3>2, <3>3
    <2>2. CASE node' = [node EXCEPT ![n].shell = 0]
      <3> DEFINE nd == [node[n] EXCEPT !.shell = 0]
      <3>1. node' = [node EXCEPT ![n] = nd]
        BY <2>2
      <3>2. n \in DOMAIN node => /\ nd = [f \in NodeFields |-> nd[f]]
                                 /\ nd.id = node[n].id /\ nd.name = node[n].name
                                 /\ nd.shell \in {0, nd.id}
        BY <1>1 DEF NodeFields
      <3> QED
        BY <3>1, <3>2
    <2>3. CASE node' = [node EXCEPT ![n].dead = TRUE]
      <3> DEFINE nd == [node[n] EXCEPT !.dead = TRUE]
      <3>1. node' = [node EXCEPT ![n] = nd]
        BY <2>3
      <3>2. n \in DOMAIN node => /\ nd = [f \in NodeFields |-> nd[f]]
                                 /\ nd.id = node[n].id /\ nd.name = node[n].name
                                 /\ nd.shell \in {0, nd.id}
        BY <1>1 DEF NodeFields
      <3> QED
        BY <3>1, <3>2
    <2> QED
      BY <2>1, <2>2, <2>3
  <1> QED
    BY <1>2, ObjectKept

\* Limits that the daemon takes change no names.
LEMMA LimitsKeep ==
    ASSUME OwnContainers, NEW n,
           \/ \E want \in Limits : UpdateResources(n, want)
           \/ \E call \in CpuCalls : UpdateCpuLimit(n, call)
           \/ \E call \in MemoryCalls : UpdateMemoryLimit(n, call)
    PROVE  OwnContainers'
  <1>1. history' = Called /\ \E r, a : Recorded(n, r, a)
    BY ZenonT(60) DEF UpdateResources, UpdateCpuLimit, UpdateMemoryLimit
  <1>2. con' = con \/ \E l : Limit(n, l)
    BY ZenonT(60) DEF UpdateResources, UpdateCpuLimit, UpdateMemoryLimit
  <1>3. FewerContainers
    BY <1>2, LeftAlone, ContainerChanged DEF Limit
  <1> QED
    BY <1>1, <1>3, OnlyCounted, ObjectUpdated, OwnKept

\* terminate() takes the container away, or leaves it as it was.
LEMMA TerminatedKeeps ==
    ASSUME OwnContainers, NEW n, Terminated(n)
    PROVE  OwnContainers'
  <1>1. CASE UNCHANGED <<con, node, history>>
    BY <1>1, LeftAlone, OwnKept
  <1>2. CASE /\ \/ con' = Without(con, {node[n].id}) /\ UNCHANGED history
                \/ /\ history' = [history EXCEPT !.orphans = @ \cup {node[n].id},
                                                  !.troubles = @ + 1]
                   /\ UNCHANGED con
             /\ node' = [node EXCEPT ![n].shell = 0]
    <2>1. SameObjects
      BY <1>2, ObjectUpdated
    <2>2. MorePast
      BY <1>2, LeftAlone, OnlyCounted
    <2>3. FewerContainers
      BY <1>2, LeftAlone, ContainersRemoved
    <2> QED
      BY <2>1, <2>2, <2>3, OwnKept
  <1> QED
    BY <1>1, <1>2 DEF Terminated

(***************************************************************************)
(* Every step.                                                             *)
(***************************************************************************)
\* Every step keeps the commands with their own containers.
LEMMA OwnStep == OwnContainers /\ [Next]_vars => OwnContainers'
  <1> SUFFICES ASSUME OwnContainers, [Next]_vars PROVE OwnContainers'
    OBVIOUS
  <1>1. ASSUME NEW name \in Names, NEW rm \in BOOLEAN, NEW want \in Limits,
               New(name, rm, want)
        PROVE  OwnContainers'
    BY <1>1, NewKeeps
  <1>2. ASSUME NEW n \in DOMAIN node, Cmd(n) \/ Popen(n) PROVE OwnContainers'
    BY <1>2, CommandsKeep
  <1>3. ASSUME NEW n \in DOMAIN node, ShellDies(n) PROVE OwnContainers'
    BY <1>3, ObjectUpdated, OnlyCounted, LeftAlone, OwnKept DEF ShellDies
  <1>4. ASSUME NEW n \in DOMAIN node,
               \/ \E want \in Limits : UpdateResources(n, want)
               \/ \E call \in CpuCalls : UpdateCpuLimit(n, call)
               \/ \E call \in MemoryCalls : UpdateMemoryLimit(n, call)
        PROVE  OwnContainers'
    BY <1>4, LimitsKeep
  <1>5. ASSUME NEW id \in DOMAIN con, ContainerExits(id) PROVE OwnContainers'
    BY <1>5, ContainerChanged, OnlyCounted, LeftAlone, OwnKept DEF ContainerExits
  <1>6. ASSUME NEW name \in Names, RemoveDocker(name) PROVE OwnContainers'
    BY <1>6, TerminatedKeeps DEF RemoveDocker
  <1>7. CASE \/ \E s \in Saps, net \in Nets, isNat \in BOOLEAN : AddExtSAP(s, net, isNat)
             \/ \E s \in Saps : AddSAPNAT(s) \/ RemoveExtSAP(s)
    <2>1. /\ con' = con /\ node' = node
          /\ history' = Called \/ \E r : history' = [Called EXCEPT !.strays = r]
      BY <1>7 DEF AddExtSAP, AddSAPNAT, RemoveExtSAP, docker
    <2> QED
      BY <2>1, OnlyCounted, LeftAlone, OwnKept
  <1>8. CASE StopCall
    BY <1>8, LeftAlone, OwnKept DEF StopCall, docker
  <1>9. CASE StopHost
    BY <1>9, TerminatedKeeps DEF StopHost
  <1>10. CASE StopEnds
    BY <1>10, LeftAlone, OwnKept DEF StopEnds, docker
  <1>11. CASE Crash
    BY <1>11, OnlyCounted, LeftAlone, OwnKept DEF Crash, docker
  <1>12. CASE Cleanup
    <2>1. con' = <<>> /\ node' = node
          /\ history' = [history EXCEPT !.orphans = {}, !.strays = {}]
      BY <1>12 DEF Cleanup
    <2>2. FewerContainers
      BY <2>1 DEF FewerContainers
    <2> QED
      BY <2>1, <2>2, OnlyCounted, LeftAlone, OwnKept
  <1>13. CASE StartAgain
    <2>1. /\ con' = con /\ node' = <<>>
          /\ history' = [history EXCEPT !.runs = @ + 1, !.calls = 0, !.served = {}]
      BY <1>13 DEF StartAgain
    <2>2. /\ history' = [f \in HistoryFields |-> history'[f]]
          /\ history'.lastId = history.lastId /\ history'.served = {}
      BY <2>1 DEF OwnContainers, Past, HistoryFields
    <2>3. Past'
      BY <2>2 DEF OwnContainers, Past, CommandsReachTheirOwn
    <2>4. Containers'
      BY <2>1, <2>2 DEF OwnContainers, Containers
    <2>5. Objects'
      <3>1. IsSeq(node')
        BY <2>1, NothingIsSeq
      <3> QED
        BY <2>1, <3>1 DEF Objects
    <2> QED
      BY <2>3, <2>4, <2>5 DEF OwnContainers
  <1>14. CASE UNCHANGED vars
    BY <1>14, LeftAlone, OwnKept
  <1> QED
    BY <1>1, <1>2, <1>3, <1>4, <1>5, <1>6, <1>7, <1>8, <1>9, <1>10, <1>11, <1>12, <1>13,
       <1>14 DEF Next

(***************************************************************************)
(* Limits and what is recorded of them.                                    *)
(***************************************************************************)
Limited(id) ==
    /\ con[id].limits = [f \in Fields |-> con[id].limits[f]]
    /\ Accepts(con[id].limits)
    /\ con[id].status \in {"created", "running", "exited"}

RecordTold(n) ==
    /\ node[n].resources = [f \in Fields |-> node[n].resources[f]]
    /\ Running(node[n].id) =>
          \A f \in Given(node[n].resources) \ node[n].astray :
              node[n].resources[f] = con[node[n].id].limits[f]

Records ==
    /\ \A id \in DOMAIN con : Limited(id)
    /\ \A a, b \in DOMAIN node : node[a].id = node[b].id => a = b
    /\ \A n \in DOMAIN node : RecordTold(n)

\* A step that leaves limits and records alone.
LEMMA RecordsLeft ==
    ASSUME Records, DOMAIN con' \subseteq DOMAIN con, DOMAIN node' = DOMAIN node,
           \A id \in DOMAIN con' : /\ con'[id].limits = con[id].limits
                                   /\ con'[id].status \in {con[id].status, "exited"},
           \A n \in DOMAIN node : /\ node'[n].id = node[n].id
                                  /\ node'[n].resources = node[n].resources
                                  /\ node'[n].astray = node[n].astray
    PROVE  Records'
  <1>1. \A id \in DOMAIN con' : Limited(id)'
    BY DEF Records, Limited
  <1>2. \A id : Running(id)' => Running(id)
    BY DEF Running
  <1>3. ASSUME NEW n \in DOMAIN node' PROVE RecordTold(n)'
    <2>1. RecordTold(n)
      BY <1>3 DEF Records
    <2>2. /\ node'[n].id = node[n].id /\ node'[n].resources = node[n].resources
          /\ node'[n].astray = node[n].astray
      BY <1>3
    <2>3. CASE Running(node[n].id)'
      <3>1. Running(node[n].id) /\ node[n].id \in DOMAIN con'
        BY <1>2, <2>3 DEF Running
      <3>2. con'[node[n].id].limits = con[node[n].id].limits
        BY <3>1
      <3> QED
        BY <2>1, <2>2, <3>1, <3>2 DEF RecordTold
    <2>4. CASE ~Running(node[n].id)'
      BY <2>1, <2>2, <2>4 DEF RecordTold
    <2> QED
      BY <2>3, <2>4
  <1> QED
    BY <1>1, <1>3 DEF Records

\* The limits, the record and what is known to differ, as updates hand them on.
Tells(s, exists, running) ==
    /\ s = [f \in {"limits", "resources", "astray"} |-> s[f]]
    /\ s.limits = [f \in Fields |-> s.limits[f]]
    /\ s.resources = [f \in Fields |-> s.resources[f]]
    /\ exists => Accepts(s.limits)
    /\ running => \A f \in Given(s.resources) \ s.astray : s.resources[f] = s.limits[f]

\* Writing a file of the control group and reading it back records what is there.
LEMMA WrittenTells ==
    ASSUME NEW s, NEW exists, NEW running, Tells(s, exists, running),
           NEW g \in Fields, NEW v, NEW found, NEW r, r = Written(s, g, v, found)
    PROVE  Tells(r, exists, running)
  <1>1. CASE r = s
    BY <1>1
  <1>2. CASE r = CgroupSet(s, g, v, found) /\ found /\ Accepts([s.limits EXCEPT ![g] = v])
    <2>1. r = [limits |-> [s.limits EXCEPT ![g] = v],
               resources |-> [s.resources EXCEPT ![g] = v], astray |-> s.astray \ {g}]
      BY <1>2 DEF CgroupSet
    <2>2. PICK l, d : l = [s.limits EXCEPT ![g] = v] /\ d = [s.resources EXCEPT ![g] = v]
      OBVIOUS
    <2>3. /\ l = [f \in Fields |-> IF f = g THEN v ELSE s.limits[f]]
          /\ d = [f \in Fields |-> IF f = g THEN v ELSE s.resources[f]]
      BY <2>2 DEF Tells
    <2>4. r = [limits |-> l, resources |-> d, astray |-> s.astray \ {g}] /\ Accepts(l)
      BY <1>2, <2>1, <2>2
    <2>5. /\ l = [f \in Fields |-> l[f]] /\ d = [f \in Fields |-> d[f]]
          /\ l[g] = d[g]
          /\ \A f \in Fields : f # g => l[f] = s.limits[f] /\ d[f] = s.resources[f]
      BY <2>3
    <2>6. running => \A f \in Given(d) \ (s.astray \ {g}) : d[f] = l[f]
      BY <2>5 DEF Tells, Given
    <2> QED
      BY <2>4, <2>5, <2>6 DEF Tells
  <1>3. CASE r = CgroupSet(s, g, v, found) /\ ~(found /\ Accepts([s.limits EXCEPT ![g] = v]))
    <2>1. r = [s EXCEPT !.resources[g] = None, !.astray = @ \ {g}]
      BY <1>3 DEF CgroupSet
    <2>2. PICK d : d = [s.resources EXCEPT ![g] = None]
      OBVIOUS
    <2>3. /\ r = [f \in {"limits", "resources", "astray"} |-> r[f]]
          /\ r.limits = s.limits /\ r.resources = d /\ r.astray = s.astray \ {g}
      BY <2>1, <2>2 DEF Tells
    <2>4. /\ d = [f \in Fields |-> d[f]] /\ d[g] = None
          /\ \A f \in Fields : f # g => d[f] = s.resources[f]
      BY <2>2 DEF Tells
    <2>5. running => \A f \in Given(d) \ (s.astray \ {g}) : d[f] = s.limits[f]
      BY <2>4 DEF Tells, Given
    <2> QED
      BY <2>3, <2>4, <2>5 DEF Tells
  <1> QED
    BY <1>1, <1>2, <1>3 DEF Written

\* What an object holds, and its container, before an update.
LEMMA HeldTells ==
    ASSUME OwnContainers, Records, NEW n \in DOMAIN node
    PROVE  Tells(Held(n), Exists(n), Running(node[n].id))
  <1>1. RecordTold(n)
    BY DEF Records
  <1>2. CASE Exists(n)
    <2>1. Limited(node[n].id) /\ Current(n) = con[node[n].id].limits
      BY <1>2 DEF Records, Exists, Current
    <2> QED
      BY <1>1, <2>1 DEF Held, Tells, RecordTold, Limited
  <1>3. CASE ~Exists(n)
    <2>1. Current(n) = NewLimits /\ ~Running(node[n].id)
      BY <1>3 DEF Exists, Current, Running
    <2>2. NewLimits = [f \in Fields |-> NewLimits[f]]
      BY DEF NewLimits, Fields
    <2> QED
      BY <1>1, <1>3, <2>1, <2>2 DEF Held, Tells, RecordTold
  <1> QED
    BY <1>2, <1>3

\* An update of the limits and of the record that tells.
LEMMA RecordChanged ==
    ASSUME OwnContainers, Records, NEW n \in DOMAIN node, NEW s,
           Tells(s, Exists(n), Running(node[n].id)),
           \/ Limit(n, s.limits)
           \/ con' = con /\ (Exists(n) => s.limits = con[node[n].id].limits),
           Recorded(n, s.resources, s.astray)
    PROVE  Records'
  <1>1. node' = [node EXCEPT ![n].resources = s.resources, ![n].astray = s.astray]
    BY DEF Recorded
  <1>2. node[n] = [f \in NodeFields |-> node[n][f]]
    BY DEF OwnContainers, Objects
  <1>3. DOMAIN node' = DOMAIN node /\ \A m \in DOMAIN node : m # n => node'[m] = node[m]
    BY <1>1
  <1>4. /\ node'[n].id = node[n].id /\ node'[n].resources = s.resources
        /\ node'[n].astray = s.astray
    BY <1>1, <1>2 DEF NodeFields
  <1>5. /\ DOMAIN con' = DOMAIN con
        /\ \A id \in DOMAIN con : /\ id # node[n].id => con'[id] = con[id]
                                  /\ con'[id].status = con[id].status
        /\ Exists(n) => con'[node[n].id].limits = s.limits
    <2>1. \A id \in DOMAIN con : con[id] = [f \in ConFields |-> con[id][f]]
      BY DEF OwnContainers, Containers
    <2>2. CASE Limit(n, s.limits)
      BY <2>1, <2>2 DEF Limit, Exists, ConFields
    <2>3. CASE con' = con /\ (Exists(n) => s.limits = con[node[n].id].limits)
      BY <2>3
    <2> QED
      BY <2>2, <2>3
  <1>6. \A id : /\ id \in DOMAIN con' <=> id \in DOMAIN con
                /\ id \in DOMAIN con => con'[id].status = con[id].status
    BY <1>5
  <1>7. ASSUME NEW id \in DOMAIN con' PROVE Limited(id)'
    <2>1. id \in DOMAIN con /\ Limited(id)
      BY <1>5, <1>7 DEF Records
    <2>2. CASE id # node[n].id
      BY <1>5, <2>1, <2>2 DEF Limited
    <2>3. CASE id = node[n].id
      <3>1. Exists(n)
        BY <2>1, <2>3 DEF Exists
      <3>2. con'[id].limits = s.limits /\ con'[id].status = con[id].status
        BY <1>5, <2>1, <2>3, <3>1
      <3> QED
        BY <2>1, <3>1, <3>2 DEF Limited, Tells
    <2> QED
      BY <2>2, <2>3
  <1>8. \A a, b \in DOMAIN node' : node'[a].id = node'[b].id => a = b
    <2>1. \A m \in DOMAIN node' : node'[m].id = node[m].id
      BY <1>3, <1>4
    <2> QED
      BY <1>3, <2>1 DEF Records
  <1>9. ASSUME NEW m \in DOMAIN node' PROVE RecordTold(m)'
    <2>1. m \in DOMAIN node /\ RecordTold(m)
      BY <1>3, <1>9 DEF Records
    <2>2. CASE m = n
      <3>1. /\ node'[m].id = node[n].id /\ node'[m].resources = s.resources
            /\ node'[m].astray = s.astray
        BY <1>4, <2>2
      <3>2. Running(node[n].id) => con'[node[n].id].limits = s.limits
        BY <1>5 DEF Running, Exists
      <3> QED
        BY <1>6, <3>1, <3>2 DEF RecordTold, Tells, Running
    <2>3. CASE m # n
      <3>1. node'[m] = node[m] /\ node[m].id # node[n].id
        BY <1>3, <2>1, <2>3 DEF Records
      <3>2. node[m].id \in DOMAIN con => con'[node[m].id] = con[node[m].id]
        BY <1>5, <3>1
      <3> QED
        BY <1>6, <2>1, <3>1, <3>2 DEF RecordTold, Running
    <2> QED
      BY <2>2, <2>3
  <1> QED
    BY <1>7, <1>8, <1>9 DEF Records

\* update_resources(), updateCpuLimit() and updateMemoryLimit() record what they set.
LEMMA UpdatesTell ==
    ASSUME OwnContainers, Records, NEW n \in DOMAIN node,
           \/ \E want \in Limits : UpdateResources(n, want)
           \/ \E call \in CpuCalls : UpdateCpuLimit(n, call)
           \/ \E call \in MemoryCalls : UpdateMemoryLimit(n, call)
    PROVE  Records'
  <1> DEFINE Told(s) == Tells(s, Exists(n), Running(node[n].id))
  <1>1. Told(Held(n))
    BY HeldTells
  <1>2. \A s, f, v, found : Told(s) /\ f \in Fields => Told(Written(s, f, v, found))
    <2> SUFFICES ASSUME NEW s, NEW f \in Fields, NEW v, NEW found, Told(s)
                 PROVE  Told(Written(s, f, v, found))
      OBVIOUS
    <2>1. PICK r : r = Written(s, f, v, found)
      OBVIOUS
    <2> QED
      BY <2>1, WrittenTells
  <1>3. ASSUME NEW want \in Limits, UpdateResources(n, want)
        PROVE  Records'
    <2>1. PICK r : r = Over(node[n].resources, want)
      OBVIOUS
    <2>2. PICK l : l = Over(Current(n), r)
      OBVIOUS
    <2>3. /\ r = [f \in Fields |-> r[f]] /\ l = [f \in Fields |-> l[f]]
          /\ \A f \in Given(r) : l[f] = r[f]
          /\ \A f \in Fields \ Given(want) : r[f] = node[n].resources[f]
      BY <2>1, <2>2 DEF Over, Given
    <2>4. CASE Exists(n) /\ Accepts(l)
      <3>1. Limit(n, l) /\ Recorded(n, r, {})
        BY <1>3, <2>1, <2>2, <2>4 DEF UpdateResources
      <3>2. PICK s : s = [limits |-> l, resources |-> r, astray |-> {}]
        OBVIOUS
      <3>3. Told(s) /\ s.limits = l /\ s.resources = r /\ s.astray = {}
        BY <2>3, <2>4, <3>2 DEF Tells
      <3> QED
        BY <3>1, <3>3, RecordChanged
    <2>5. CASE ~(Exists(n) /\ Accepts(l))
      <3>1. PICK a : a = node[n].astray \cup Given(want)
        OBVIOUS
      <3>2. con' = con /\ Recorded(n, r, a)
        BY <1>3, <2>1, <2>2, <2>5, <3>1 DEF UpdateResources
      <3>3. PICK s : s = [limits |-> Current(n), resources |-> r, astray |-> a]
        OBVIOUS
      <3>4. s.limits = Current(n) /\ s.resources = r /\ s.astray = a
        BY <3>3
      <3>5. Told(s)
        <4>1. PICK h : h = Held(n)
          OBVIOUS
        <4>2. /\ h.limits = Current(n) /\ h.resources = node[n].resources
              /\ h.astray = node[n].astray
          BY <4>1 DEF Held
        <4>3. \A f \in Given(r) \ a : f \in Given(h.resources) \ h.astray /\ r[f] = h.resources[f]
          BY <2>3, <3>1, <4>2 DEF Given
        <4> QED
          BY <1>1, <2>3, <3>3, <3>4, <4>1, <4>2, <4>3 DEF Tells
      <3>6. Exists(n) => s.limits = con[node[n].id].limits
        BY <3>4 DEF Current
      <3> QED
        BY <3>2, <3>4, <3>5, <3>6, RecordChanged
    <2> QED
      BY <2>4, <2>5
  <1>4. ASSUME NEW call \in CpuCalls, UpdateCpuLimit(n, call)
        PROVE  Records'
    <2>1. PICK there, quota, period, s, pinned :
              /\ quota = Written(Held(n), "cpu_quota", call.quota, there)
              /\ period = Written(quota, "cpu_period", call.period, there)
              /\ s = Written(period, "cpu_shares", call.shares, there)
              /\ pinned <=> (Exists(n) /\ call.cores # {}
                             /\ Accepts([s.limits EXCEPT !.cpuset_cpus = call.cores]))
              /\ Limit(n, IF pinned THEN [s.limits EXCEPT !.cpuset_cpus = call.cores]
                          ELSE s.limits)
              /\ Recorded(n, s.resources, s.astray \cup IF pinned THEN {"cpuset_cpus"} ELSE {})
      BY <1>4 DEF UpdateCpuLimit
    <2>2. Told(s)
      <3>1. {"cpu_quota", "cpu_period", "cpu_shares"} \subseteq Fields
        BY DEF Fields
      <3> HIDE DEF Told
      <3> QED
        BY <1>1, <1>2, <2>1, <3>1
    <2>3. CASE pinned
      <3>1. PICK l, t : /\ l = [s.limits EXCEPT !.cpuset_cpus = call.cores]
                        /\ t = [limits |-> l, resources |-> s.resources,
                                astray |-> s.astray \cup {"cpuset_cpus"}]
        OBVIOUS
      <3>2. /\ l = [f \in Fields |-> l[f]]
            /\ \A f \in Fields \ {"cpuset_cpus"} : l[f] = s.limits[f]
        BY <2>2, <3>1 DEF Tells
      <3>3. /\ Limit(n, l) /\ Accepts(l)
            /\ Recorded(n, s.resources, s.astray \cup {"cpuset_cpus"})
        BY <2>1, <2>3, <3>1
      <3>4. /\ t.limits = l /\ t.resources = s.resources
            /\ t.astray = s.astray \cup {"cpuset_cpus"}
        BY <3>1
      <3>5. Told(t)
        BY <2>2, <3>1, <3>2, <3>3, <3>4 DEF Tells, Given
      <3> QED
        BY <3>3, <3>4, <3>5, RecordChanged
    <2>4. CASE ~pinned
      <3>1. Limit(n, s.limits) /\ Recorded(n, s.resources, s.astray)
        BY <2>1, <2>4
      <3> QED
        BY <2>2, <3>1, RecordChanged
    <2> QED
      BY <2>3, <2>4
  <1>5. ASSUME NEW call \in MemoryCalls, UpdateMemoryLimit(n, call)
        PROVE  Records'
    <2>1. PICK there, mem, s :
              /\ mem = Written(Held(n), "mem_limit", call.mem, there)
              /\ s = Written(mem, "memswap_limit", call.memswap, there)
              /\ Limit(n, s.limits) /\ Recorded(n, s.resources, s.astray)
      BY <1>5 DEF UpdateMemoryLimit
    <2>2. Told(s)
      <3>1. {"mem_limit", "memswap_limit"} \subseteq Fields
        BY DEF Fields
      <3> HIDE DEF Told
      <3> QED
        BY <1>1, <1>2, <2>1, <3>1
    <2> QED
      BY <2>1, <2>2, RecordChanged
  <1> QED
    BY <1>3, <1>4, <1>5

\* A new container has the limits that its object records, and no other object.
LEMMA NewTells ==
    ASSUME OwnContainers, Records, NEW name, NEW rm, NEW want \in Limits, New(name, rm, want)
    PROVE  Records'
  <1>1. PICK c : c = AfterRm(name, rm)
    OBVIOUS
  <1>2. PICK made : made = CreateLimits(want)
    OBVIOUS
  <1>3. PICK object : object = [name |-> name, id |-> NewId, resources |-> want,
                                astray |-> {}, shell |-> NewId, dead |-> FALSE]
    OBVIOUS
  <1>4. /\ DOMAIN c \subseteq DOMAIN con
        /\ \A id \in DOMAIN c : c[id] = con[id]
    BY <1>1 DEF AfterRm, Without
  <1>5. history.lastId \in Nat /\ NewId = history.lastId + 1
    BY DEF OwnContainers, Past, NewId
  <1>6. NewId \notin DOMAIN con
    BY <1>5 DEF OwnContainers, Containers
  <1>7. \A n \in DOMAIN node : node[n].id # NewId
    BY <1>5 DEF OwnContainers, Objects
  <1>8. want = [f \in Fields |-> want[f]]
    BY LimitsAssumption
  <1>9. made = [f \in Fields |-> made[f]]
    <2>1. NewLimits = [f \in Fields |-> NewLimits[f]]
      BY DEF NewLimits, Fields
    <2> QED
      BY <1>2, <2>1 DEF CreateLimits
  <1>10. PICK l : l = Over(made, want)
    OBVIOUS
  <1>11. /\ l = [f \in Fields |-> l[f]]
         /\ \A f \in Given(want) : l[f] = want[f]
    BY <1>10 DEF Over, Given
  <1>12. ASSUME NEW status \in {"created", "running"}, NEW x \in {made, l}, Accepts(x),
                con' = Created(c, name, status, x)
         PROVE  /\ \A id \in DOMAIN con' : Limited(id)'
                /\ \A id \in DOMAIN con' : id # NewId => id \in DOMAIN con /\ con'[id] = con[id]
                /\ NewId \in DOMAIN con' /\ con'[NewId].limits = x
    <2>1. PICK new : new = [name |-> name, status |-> status, limits |-> x]
      OBVIOUS
    <2>2. con' = [id \in DOMAIN c \cup {NewId} |-> IF id = NewId THEN new ELSE c[id]]
      BY <1>12, <2>1 DEF Created
    <2>3. new.limits = x /\ new.status = status
      BY <2>1
    <2>4. x = [f \in Fields |-> x[f]]
      BY <1>9, <1>11, <1>12
    <2>5. \A id \in DOMAIN con' : id # NewId => id \in DOMAIN con /\ con'[id] = con[id]
      BY <1>4, <2>2
    <2>6. NewId \in DOMAIN con' /\ con'[NewId] = new
      BY <2>2
    <2>7. ASSUME NEW id \in DOMAIN con' PROVE Limited(id)'
      <3>1. CASE id = NewId
        BY <1>12, <2>3, <2>4, <2>6, <3>1 DEF Limited
      <3>2. CASE id # NewId
        BY <2>5, <2>7, <3>2 DEF Records, Limited
      <3> QED
        BY <3>1, <3>2
    <2> QED
      BY <2>3, <2>5, <2>6, <2>7
  <1>13. CASE \E lost : Raised(c, lost)
    <2>1. con' = c /\ node' = node
      BY <1>13 DEF Raised
    <2> QED
      BY <1>4, <2>1, RecordsLeft
  <1>14. CASE /\ Accepts(made) /\ node' = node
              /\ \/ con' = Created(c, name, "created", made)
                 \/ con' = Created(c, name, "running", made)
    <2>1. PICK status \in {"created", "running"} :
              con' = Created(c, name, status, made) /\ Accepts(made)
      BY <1>14
    <2>2. node' = node
      BY <1>14
    <2>3. /\ \A id \in DOMAIN con' : Limited(id)'
          /\ \A id \in DOMAIN con' : id # NewId => id \in DOMAIN con /\ con'[id] = con[id]
      BY <1>12, <2>1
    <2>4. ASSUME NEW n \in DOMAIN node' PROVE RecordTold(n)'
      <3>1. RecordTold(n) /\ node'[n] = node[n] /\ node[n].id # NewId
        BY <1>7, <2>2, <2>4 DEF Records
      <3> QED
        BY <2>3, <3>1 DEF RecordTold, Running
    <2> QED
      BY <2>2, <2>3, <2>4 DEF Records
  <1>15. CASE /\ Accepts(l) /\ con' = Created(c, name, "running", l)
              /\ node' = Append(node, object)
    <2>1. /\ \A id \in DOMAIN con' : Limited(id)'
          /\ \A id \in DOMAIN con' : id # NewId => id \in DOMAIN con /\ con'[id] = con[id]
          /\ con'[NewId].limits = l
      BY <1>12, <1>15
    <2>2. object.id = NewId /\ object.resources = want /\ object.astray = {}
      BY <1>3
    <2>3. PICK k \in Nat : /\ DOMAIN node = 1..k /\ DOMAIN node' = 1..(k + 1)
                           /\ node'[k + 1] = object
                           /\ \A n \in 1..k : node'[n] = node[n]
      <3>1. IsSeq(node)
        BY DEF OwnContainers, Objects
      <3>2. \E k \in Nat : /\ DOMAIN node = 1..k /\ DOMAIN Append(node, object) = 1..(k + 1)
                           /\ Append(node, object)[k + 1] = object
                           /\ \A n \in 1..k : Append(node, object)[n] = node[n]
        BY <3>1, AppendedLast
      <3>3. node' = Append(node, object)
        BY <1>15
      <3> QED
        BY <3>2, <3>3
    <2>4. ASSUME NEW n \in DOMAIN node' PROVE RecordTold(n)'
      <3>1. CASE n = k + 1
        <4>1. node'[n] = object
          BY <2>3, <3>1
        <4> QED
          BY <1>8, <1>11, <2>1, <2>2, <4>1 DEF RecordTold
      <3>2. CASE n \in DOMAIN node
        <4>1. RecordTold(n) /\ node'[n] = node[n] /\ node[n].id # NewId
          BY <1>7, <2>3, <3>2 DEF Records
        <4> QED
          BY <2>1, <4>1 DEF RecordTold, Running
      <3> QED
        BY <2>3, <2>4, <3>1, <3>2
    <2>5. ASSUME NEW a \in DOMAIN node', NEW b \in DOMAIN node', node'[a].id = node'[b].id
          PROVE  a = b
      <3>1. \A n \in 1..k : node'[n].id = node[n].id /\ node'[n].id # NewId
        BY <1>7, <2>3
      <3>2. node'[k + 1].id = NewId
        BY <2>2, <2>3
      <3>3. \A m, n \in 1..k : node[m].id = node[n].id => m = n
        BY <2>3 DEF Records
      <3> QED
        BY <2>3, <2>5, <3>1, <3>2, <3>3
    <2> QED
      BY <2>1, <2>4, <2>5 DEF Records
  <1>16. ~(RmRaises(name, rm) \/ Named(c, name) # {} \/ ~hasImage' \/ ~Accepts(made)) =>
             \/ Raised(Created(c, name, "created", made), {NewId})
             \/ /\ Accepts(l) /\ con' = Created(c, name, "running", l)
                /\ node' = Append(node, object)
             \/ Raised(Created(c, name, "running", made), {NewId})
    BY <1>1, <1>2, <1>3, <1>10 DEF New
  <1>17. RmRaises(name, rm) \/ Named(c, name) # {} \/ ~hasImage' \/ ~Accepts(made) =>
             Raised(c, {})
    BY <1>1, <1>2 DEF New
  <1>18. CASE RmRaises(name, rm) \/ Named(c, name) # {} \/ ~hasImage' \/ ~Accepts(made)
    BY <1>13, <1>17, <1>18
  <1>19. CASE ~(RmRaises(name, rm) \/ Named(c, name) # {} \/ ~hasImage' \/ ~Accepts(made))
    <2>1. Accepts(made)
      BY <1>19
    <2>2. CASE \/ Raised(Created(c, name, "created", made), {NewId})
               \/ Raised(Created(c, name, "running", made), {NewId})
      BY <1>14, <2>1, <2>2 DEF Raised
    <2> QED
      BY <1>15, <1>16, <1>19, <2>2
  <1> QED
    BY <1>18, <1>19

\* Every step keeps limits and records in step.
LEMMA RecordsStep == OwnContainers /\ Records /\ [Next]_vars => Records'
  <1> SUFFICES ASSUME OwnContainers, Records, [Next]_vars PROVE Records'
    OBVIOUS
  <1>0. /\ \A n \in DOMAIN node : node[n] = [f \in NodeFields |-> node[n][f]]
        /\ \A id \in DOMAIN con : con[id] = [f \in ConFields |-> con[id][f]]
    BY DEF OwnContainers, Objects, Containers
  <1>1. ASSUME NEW name \in Names, NEW rm \in BOOLEAN, NEW want \in Limits,
               New(name, rm, want)
        PROVE  Records'
    BY <1>1, NewTells
  <1>2. ASSUME con' = con, node' = node PROVE Records'
    BY <1>2, RecordsLeft
  <1>3. ASSUME NEW n \in DOMAIN node, Cmd(n) PROVE Records'
    <2>1. PICK nd : nd = Checked(node[n])
      OBVIOUS
    <2>2. nd.id = node[n].id /\ nd.resources = node[n].resources /\ nd.astray = node[n].astray
      <3>1. node[n] = [f \in NodeFields |-> node[n][f]]
        BY <1>0
      <3> QED
        BY <2>1, <3>1 DEF Checked, NodeFields
    <2>3. con' = con /\ node' = [node EXCEPT ![n] = nd]
      BY <1>3, <2>1 DEF Cmd
    <2>4. /\ DOMAIN node' = DOMAIN node
          /\ \A m \in DOMAIN node : /\ node'[m].id = node[m].id
                                    /\ node'[m].resources = node[m].resources
                                    /\ node'[m].astray = node[m].astray
      BY <2>2, <2>3
    <2> QED
      BY <2>3, <2>4, RecordsLeft
  <1>4. ASSUME NEW n \in DOMAIN node, ShellDies(n) PROVE Records'
    <2>1. con' = con /\ node' = [node EXCEPT ![n].dead = TRUE]
      BY <1>4 DEF ShellDies
    <2>2. \A m \in DOMAIN node : /\ node'[m].id = node[m].id
                                 /\ node'[m].resources = node[m].resources
                                 /\ node'[m].astray = node[m].astray
      BY <1>0, <2>1 DEF NodeFields
    <2> QED
      BY <2>1, <2>2, RecordsLeft
  <1>5. ASSUME NEW n \in DOMAIN node,
               \/ \E want \in Limits : UpdateResources(n, want)
               \/ \E call \in CpuCalls : UpdateCpuLimit(n, call)
               \/ \E call \in MemoryCalls : UpdateMemoryLimit(n, call)
        PROVE  Records'
    BY <1>5, UpdatesTell
  <1>6. ASSUME NEW id \in DOMAIN con, ContainerExits(id) PROVE Records'
    <2>1. node' = node /\ con' = [con EXCEPT ![id].status = "exited"]
      BY <1>6 DEF ContainerExits
    <2>2. \A i \in DOMAIN con : /\ con'[i].limits = con[i].limits
                                /\ con'[i].status \in {con[i].status, "exited"}
      BY <1>0, <2>1 DEF ConFields
    <2> QED
      BY <2>1, <2>2, RecordsLeft
  <1>7. ASSUME NEW n, Terminated(n) PROVE Records'
    <2>1. DOMAIN con' \subseteq DOMAIN con /\ \A i \in DOMAIN con' : con'[i] = con[i]
      BY <1>7 DEF Terminated, Without
    <2>2. node' = node \/ node' = [node EXCEPT ![n].shell = 0]
      BY <1>7 DEF Terminated
    <2>3. /\ DOMAIN node' = DOMAIN node
          /\ \A m \in DOMAIN node : /\ node'[m].id = node[m].id
                                    /\ node'[m].resources = node[m].resources
                                    /\ node'[m].astray = node[m].astray
      BY <1>0, <2>2 DEF NodeFields
    <2> QED
      BY <2>1, <2>3, RecordsLeft
  <1>8. CASE (\E name \in Names : RemoveDocker(name)) \/ StopHost
    BY <1>7, <1>8 DEF RemoveDocker, StopHost
  <1>9. CASE Cleanup
    BY <1>9 DEF Cleanup, Records, RecordTold, Running
  <1>10. CASE StartAgain
    <2>1. con' = con /\ node' = <<>>
      BY <1>10 DEF StartAgain
    <2> QED
      BY <2>1 DEF Records, Limited
  <1>11. CASE \/ \E n \in DOMAIN node : Popen(n)
              \/ \E s \in Saps, net \in Nets, isNat \in BOOLEAN : AddExtSAP(s, net, isNat)
              \/ \E s \in Saps : AddSAPNAT(s) \/ RemoveExtSAP(s)
              \/ StopCall \/ StopEnds \/ Crash \/ UNCHANGED vars
    <2>1. con' = con /\ node' = node
      BY <1>11 DEF Popen, AddExtSAP, AddSAPNAT, RemoveExtSAP, StopCall, StopEnds, Crash,
                   docker, vars
    <2> QED
      BY <1>2, <2>1
  <1> QED
    BY <1>1, <1>3, <1>4, <1>5, <1>6, <1>8, <1>9, <1>10, <1>11 DEF Next

\* In the beginning there is nothing to record.
LEMMA RecordsInitially == Init => Records
  BY DEF Init, Records

(***************************************************************************)
(* Hosts, their names and what runs.                                       *)
(***************************************************************************)
InHosts(n) == \E i \in DOMAIN hosts : hosts[i] = n

\* A container that runs is that of a host while the process lives, or is lost sight of.
Kept(id) ==
    \/ id \in history.orphans
    \/ phase \in {"up", "stopping"} /\ \E n \in DOMAIN node : InHosts(n) /\ node[n].id = id

Hosting ==
    /\ hosts \in Seq(Nat)
    /\ \A i \in DOMAIN hosts : hosts[i] \in DOMAIN node
    /\ named = [x \in DOMAIN named |-> named[x]]
    /\ \A x \in DOMAIN named : named[x] \in DOMAIN node /\ node[named[x]].name = x
    /\ phase = "up" => \A x \in DOMAIN named : InHosts(named[x])
    /\ \A id \in DOMAIN con : Running(id) => Kept(id)

\* A step that leaves hosts and names alone and starts no container.
LEMMA HostingLeft ==
    ASSUME Hosting, hosts' = hosts, named' = named,
           phase' = phase \/ (phase = "up" /\ phase' = "stopping"),
           DOMAIN node' = DOMAIN node,
           \A n \in DOMAIN node : node'[n].id = node[n].id /\ node'[n].name = node[n].name,
           \A id \in DOMAIN con' : /\ id \in DOMAIN con
                                   /\ con'[id].status = con[id].status \/ con'[id].status = "exited",
           history.orphans \subseteq history'.orphans
    PROVE  Hosting'
  <1>1. ASSUME NEW id \in DOMAIN con', Running(id)' PROVE Kept(id)'
    <2>1. Running(id)
      BY <1>1 DEF Running
    <2>2. Kept(id)
      BY <2>1 DEF Hosting, Running
    <2>3. CASE id \in history.orphans
      BY <2>3 DEF Kept
    <2>4. CASE phase \in {"up", "stopping"} /\ \E n \in DOMAIN node : InHosts(n) /\ node[n].id = id
      BY <2>4 DEF Kept, InHosts
    <2> QED
      BY <2>2, <2>3, <2>4 DEF Kept
  <1>2. \A x \in DOMAIN named' : named'[x] \in DOMAIN node' /\ node'[named'[x]].name = x
    BY DEF Hosting
  <1>3. phase' = "up" => \A x \in DOMAIN named' : InHosts(named[x])
    BY DEF Hosting
  <1> QED
    BY <1>1, <1>2, <1>3 DEF Hosting, InHosts

\* terminate() leaves no container of the object running but one that is lost sight of.
LEMMA TerminatedEnds ==
    ASSUME OwnContainers, NEW n, Terminated(n)
    PROVE  /\ DOMAIN node' = DOMAIN node
           /\ \A m \in DOMAIN node : node'[m].id = node[m].id /\ node'[m].name = node[m].name
           /\ \A id \in DOMAIN con' :
                 /\ id \in DOMAIN con /\ con'[id] = con[id]
                 /\ Running(id) => id # node[n].id \/ id \in history'.orphans
           /\ history.orphans \subseteq history'.orphans
  <1>1. node' = node \/ node' = [node EXCEPT ![n].shell = 0]
    BY DEF Terminated
  <1>2. \A m \in DOMAIN node : node[m] = [f \in NodeFields |-> node[m][f]]
    BY DEF OwnContainers, Objects
  <1>3. /\ DOMAIN node' = DOMAIN node
        /\ \A m \in DOMAIN node : node'[m].id = node[m].id /\ node'[m].name = node[m].name
    BY <1>1, <1>2 DEF NodeFields
  <1>4. CASE UNCHANGED <<con, node, history>> /\ ~IsRunning(node[n])
    BY <1>3, <1>4 DEF IsRunning
  <1>5. CASE con' = Without(con, {node[n].id}) /\ history' = history
    BY <1>3, <1>5 DEF Without
  <1>6. CASE /\ history' = [history EXCEPT !.orphans = @ \cup {node[n].id}, !.troubles = @ + 1]
             /\ con' = con
    <2>1. history'.orphans = history.orphans \cup {node[n].id}
      BY <1>6 DEF OwnContainers, Past, HistoryFields
    <2> QED
      BY <1>3, <1>6, <2>1
  <1> QED
    BY <1>4, <1>5, <1>6 DEF Terminated

\* One host is terminated and taken out of the list, another is not.
LEMMA HostGone ==
    ASSUME OwnContainers, Hosting, NEW n \in DOMAIN node, Terminated(n),
           phase \in {"up", "stopping"}, phase' = phase,
           hosts' \in Seq(Nat),
           \A j \in DOMAIN hosts' : \E i \in DOMAIN hosts : hosts'[j] = hosts[i],
           \A i \in DOMAIN hosts : hosts[i] = n \/ \E j \in DOMAIN hosts' : hosts'[j] = hosts[i],
           named' = [x \in DOMAIN named' |-> named'[x]],
           \A x \in DOMAIN named' : x \in DOMAIN named /\ named'[x] = named[x],
           phase = "up" => \A x \in DOMAIN named' : named[x] # n
    PROVE  Hosting'
  <1>1. /\ DOMAIN node' = DOMAIN node
        /\ \A m \in DOMAIN node : node'[m].id = node[m].id /\ node'[m].name = node[m].name
        /\ \A id \in DOMAIN con' :
              /\ id \in DOMAIN con /\ con'[id] = con[id]
              /\ Running(id) => id # node[n].id \/ id \in history'.orphans
        /\ history.orphans \subseteq history'.orphans
    BY TerminatedEnds
  <1>2. \A m : InHosts(m) /\ m # n => InHosts(m)'
    BY DEF InHosts
  <1>3. ASSUME NEW id \in DOMAIN con', Running(id)' PROVE Kept(id)'
    <2>1. Running(id) /\ id \in DOMAIN con
      BY <1>1, <1>3 DEF Running
    <2>2. Kept(id)
      BY <2>1 DEF Hosting
    <2>3. CASE id \in history'.orphans
      BY <2>3 DEF Kept
    <2>4. CASE id \notin history'.orphans
      <3>1. PICK m \in DOMAIN node : InHosts(m) /\ node[m].id = id
        BY <1>1, <2>2, <2>4 DEF Kept
      <3>2. m # n
        BY <1>1, <1>3, <2>1, <2>4, <3>1
      <3> QED
        BY <1>1, <1>2, <3>1, <3>2 DEF Kept
    <2> QED
      BY <2>3, <2>4
  <1>4. \A j \in DOMAIN hosts' : hosts'[j] \in DOMAIN node'
    BY <1>1 DEF Hosting
  <1>5. \A x \in DOMAIN named' : named'[x] \in DOMAIN node' /\ node'[named'[x]].name = x
    BY <1>1 DEF Hosting
  <1>6. ASSUME phase' = "up", NEW x \in DOMAIN named' PROVE InHosts(named[x])'
    <2>1. InHosts(named[x]) /\ named[x] # n
      BY <1>6 DEF Hosting
    <2>2. PICK i \in DOMAIN hosts : hosts[i] = named[x]
      BY <2>1 DEF InHosts
    <2>3. \E j \in DOMAIN hosts' : hosts'[j] = named'[x]
      BY <1>6, <2>1, <2>2
    <2> QED
      BY <2>3 DEF InHosts
  <1> QED
    BY <1>3, <1>4, <1>5, <1>6 DEF Hosting

\* removeDocker() takes the host from the list and its name from the names.
LEMMA RemovedKeeps ==
    ASSUME OwnContainers, Hosting, NEW name, RemoveDocker(name)
    PROVE  Hosting'
  <1>1. PICK n : n = named[name]
    OBVIOUS
  <1>2. /\ phase = "up" /\ phase' = phase /\ name \in DOMAIN named
        /\ Terminated(n) /\ hosts' = RemoveFirst(hosts, n)
        /\ named' = [x \in DOMAIN named \ {name} |-> named[x]]
    BY <1>1 DEF RemoveDocker, MayCall, Without
  <1>3. n \in DOMAIN node /\ hosts \in Seq(Nat)
    BY <1>1, <1>2 DEF Hosting
  <1>4. /\ hosts' \in Seq(Nat)
        /\ \A j \in DOMAIN hosts' : \E i \in DOMAIN hosts : hosts'[j] = hosts[i]
        /\ \A i \in DOMAIN hosts : hosts[i] = n \/ \E j \in DOMAIN hosts' : hosts'[j] = hosts[i]
    <2>1. PICK r : r = RemoveFirst(hosts, n)
      OBVIOUS
    <2>2. /\ r \in Seq(Nat)
          /\ \A j \in DOMAIN r : \E i \in DOMAIN hosts : r[j] = hosts[i]
          /\ \A i \in DOMAIN hosts : hosts[i] = n \/ \E j \in DOMAIN r : r[j] = hosts[i]
      BY <1>3, <2>1, FirstRemoved
    <2> QED
      BY <1>2, <2>1, <2>2
  <1>5. /\ named' = [x \in DOMAIN named' |-> named'[x]]
        /\ \A x \in DOMAIN named' : x \in DOMAIN named /\ named'[x] = named[x] /\ x # name
    BY <1>2
  <1>6. \A x \in DOMAIN named' : named[x] # n
    BY <1>1, <1>2, <1>5 DEF Hosting
  <1>7. phase \in {"up", "stopping"}
    BY <1>2
  <1> QED
    BY <1>2, <1>3, <1>4, <1>5, <1>6, <1>7, HostGone

\* stop() terminates the first host of the list.
LEMMA StopHostKeeps ==
    ASSUME OwnContainers, Hosting, StopHost
    PROVE  Hosting'
  <1>1. PICK n, t : n = Head(hosts) /\ t = Tail(hosts)
    OBVIOUS
  <1>2. /\ phase = "stopping" /\ phase' = phase /\ named' = named
        /\ Terminated(n) /\ hosts # <<>> /\ hosts' = t
    BY <1>1 DEF StopHost
  <1>3. hosts \in Seq(Nat) /\ \A i \in DOMAIN hosts : hosts[i] \in DOMAIN node
    BY DEF Hosting
  <1>4. PICK k \in Nat : k = Len(hosts) /\ DOMAIN hosts = 1..k
    BY <1>3, LenProperties
  <1>5. k # 0
    BY <1>2, <1>3, <1>4, EmptySeq
  <1>6. n = hosts[1] /\ 1 \in DOMAIN hosts
    BY <1>1, <1>3, <1>4, <1>5
  <1>7. /\ t \in Seq(Nat) /\ Len(t) = k - 1
        /\ \A i \in 1..Len(t) : t[i] = hosts[i + 1]
    BY <1>1, <1>2, <1>3, <1>4, HeadTailProperties
  <1>8. DOMAIN t = 1..(k - 1) /\ \A i \in 1..(k - 1) : t[i] = hosts[i + 1]
    BY <1>7, LenProperties
  <1>9. \A j \in DOMAIN t : \E i \in DOMAIN hosts : t[j] = hosts[i]
    <2> SUFFICES ASSUME NEW j \in DOMAIN t PROVE \E i \in DOMAIN hosts : t[j] = hosts[i]
      OBVIOUS
    <2>1. (j + 1) \in DOMAIN hosts /\ t[j] = hosts[j + 1]
      BY <1>4, <1>5, <1>8
    <2> QED
      BY <2>1
  <1>10. \A i \in DOMAIN hosts : hosts[i] = n \/ \E j \in DOMAIN t : t[j] = hosts[i]
    <2> SUFFICES ASSUME NEW i \in DOMAIN hosts, hosts[i] # n
                 PROVE  \E j \in DOMAIN t : t[j] = hosts[i]
      OBVIOUS
    <2>1. i \in 1..k /\ i # 1
      BY <1>4, <1>6
    <2>2. i - 1 \in 1..(k - 1) /\ (i - 1) + 1 = i
      BY <2>1
    <2>3. (i - 1) \in DOMAIN t /\ t[i - 1] = hosts[i]
      BY <1>8, <2>2
    <2> QED
      BY <2>3
  <1>11. n \in DOMAIN node /\ named' = [x \in DOMAIN named' |-> named'[x]]
    BY <1>2, <1>3, <1>6 DEF Hosting
  <1>12. phase \in {"up", "stopping"} /\ phase # "up"
    BY <1>2
  <1>13. hosts' \in Seq(Nat)
    BY <1>2, <1>7
  <1>14. \A j \in DOMAIN hosts' : \E i \in DOMAIN hosts : hosts'[j] = hosts[i]
    BY <1>2, <1>9
  <1>15. \A i \in DOMAIN hosts : hosts[i] = n \/ \E j \in DOMAIN hosts' : hosts'[j] = hosts[i]
    BY <1>2, <1>10
  <1>16. \A x \in DOMAIN named' : x \in DOMAIN named /\ named'[x] = named[x]
    BY <1>2
  <1> QED
    BY <1>2, <1>11, <1>12, <1>13, <1>14, <1>15, <1>16, HostGone

\* A constructor that succeeds makes a host; one that raises is lost sight of.
LEMMA NewHosted ==
    ASSUME OwnContainers, Hosting, NEW name, NEW rm, NEW want, New(name, rm, want)
    PROVE  Hosting'
  <1>1. PICK c : c = AfterRm(name, rm)
    OBVIOUS
  <1>2. PICK made : made = CreateLimits(want)
    OBVIOUS
  <1>3. PICK object : object = [name |-> name, id |-> NewId, resources |-> want,
                                astray |-> {}, shell |-> NewId, dead |-> FALSE]
    OBVIOUS
  <1>4. /\ DOMAIN c \subseteq DOMAIN con
        /\ \A id \in DOMAIN c : c[id] = con[id]
    BY <1>1 DEF AfterRm, Without
  <1>5. phase = "up" /\ phase' = phase
    BY DEF New, MayCall
  <1>6. \A k, lost : Raised(k, lost) => /\ history'.orphans = history.orphans \cup lost
                                        /\ con' = k /\ node' = node /\ hosts' = hosts
                                        /\ named' = named
    BY DEF Raised, Called, OwnContainers, Past, HistoryFields
  <1>7. ASSUME con' = c \/ \E status, limits : con' = Created(c, name, status, limits),
               NEW id \in DOMAIN con', Running(id)', id # NewId
        PROVE  id \in DOMAIN con /\ Running(id) /\ Kept(id)
    <2>1. id \in DOMAIN c /\ con'[id] = c[id]
      BY <1>7 DEF Created
    <2>2. id \in DOMAIN con /\ Running(id)
      BY <1>4, <1>7, <2>1 DEF Running
    <2> QED
      BY <2>2 DEF Hosting
  <1>8. CASE Raised(c, {})
    <2>1. /\ history'.orphans = history.orphans \cup {}
          /\ con' = c /\ node' = node /\ hosts' = hosts /\ named' = named
      BY <1>6, <1>8
    <2> QED
      BY <1>4, <1>5, <2>1, HostingLeft
  <1>9. CASE \/ Raised(Created(c, name, "created", made), {NewId})
             \/ Raised(Created(c, name, "running", made), {NewId})
    <2>1. /\ history'.orphans = history.orphans \cup {NewId}
          /\ node' = node /\ hosts' = hosts /\ named' = named
          /\ \E status, limits : con' = Created(c, name, status, limits)
      BY <1>6, <1>9
    <2>2. ASSUME NEW id \in DOMAIN con', Running(id)' PROVE Kept(id)'
      <3>1. CASE id = NewId
        BY <2>1, <3>1 DEF Kept
      <3>2. CASE id # NewId
        BY <1>5, <1>7, <2>1, <2>2, <3>2 DEF Kept, InHosts
      <3> QED
        BY <3>1, <3>2
    <2> QED
      BY <1>5, <2>1, <2>2 DEF Hosting, InHosts
  <1>10. CASE /\ con' = Created(c, name, "running", Over(made, want))
              /\ node' = Append(node, object)
              /\ hosts' = Append(hosts, Len(node'))
              /\ named' = [x \in DOMAIN named \cup {name} |->
                              IF x = name THEN Len(node') ELSE named[x]]
              /\ history' = [Called EXCEPT !.lastId = NewId]
    <2>1. history'.orphans = history.orphans
      BY <1>10 DEF Called, OwnContainers, Past, HistoryFields
    <2>2. object.id = NewId /\ object.name = name
      BY <1>3
    <2>3. PICK k \in Nat : /\ DOMAIN node = 1..k /\ DOMAIN node' = 1..(k + 1)
                           /\ node'[k + 1] = object /\ Len(node') = k + 1
                           /\ \A n \in 1..k : node'[n] = node[n]
      <3>1. IsSeq(node)
        BY DEF OwnContainers, Objects
      <3>2. \E k \in Nat : /\ DOMAIN node = 1..k /\ DOMAIN Append(node, object) = 1..(k + 1)
                           /\ Append(node, object)[k + 1] = object
                           /\ Len(Append(node, object)) = k + 1
                           /\ \A n \in 1..k : Append(node, object)[n] = node[n]
        BY <3>1, AppendedLast
      <3>3. node' = Append(node, object)
        BY <1>10
      <3> QED
        BY <3>2, <3>3
    <2>4. PICK h : h = Append(hosts, k + 1)
      OBVIOUS
    <2>5. /\ hosts' = h
          /\ named' = [x \in DOMAIN named \cup {name} |-> IF x = name THEN k + 1 ELSE named[x]]
      BY <1>10, <2>3, <2>4
    <2>6. PICK m \in Nat : m = Len(hosts) /\ DOMAIN hosts = 1..m
      BY LenProperties DEF Hosting
    <2>7. /\ h \in Seq(Nat) /\ DOMAIN h = 1..(m + 1) /\ h[m + 1] = k + 1
          /\ \A i \in 1..m : h[i] = hosts[i]
      <3>1. hosts \in Seq(Nat) /\ k + 1 \in Nat
        BY DEF Hosting
      <3>2. /\ h \in Seq(Nat) /\ Len(h) = Len(hosts) + 1 /\ h[Len(hosts) + 1] = k + 1
            /\ \A i \in 1..Len(hosts) : h[i] = hosts[i]
        BY <2>4, <3>1, AppendProperties
      <3> QED
        BY <2>6, <3>2, LenProperties
    <2>8. \A n : InHosts(n) => InHosts(n)'
      BY <2>5, <2>6, <2>7 DEF InHosts
    <2>9. \E i \in DOMAIN hosts' : hosts'[i] = k + 1
      BY <2>5, <2>7
    <2>10. \A i \in DOMAIN hosts' : hosts'[i] \in DOMAIN node'
      <3>1. \A i \in 1..m : hosts[i] \in 1..k
        BY <2>3, <2>6 DEF Hosting
      <3>2. \A i \in 1..(m + 1) : i \in 1..m \/ i = m + 1
        OBVIOUS
      <3>3. k + 1 \in 1..(k + 1) /\ \A n \in 1..k : n \in 1..(k + 1)
        OBVIOUS
      <3> QED
        BY <2>3, <2>5, <2>7, <3>1, <3>2, <3>3
    <2>11. \A x \in DOMAIN named' : named'[x] \in DOMAIN node' /\ node'[named'[x]].name = x
      <3>1. \A x \in DOMAIN named : named[x] \in 1..k /\ node[named[x]].name = x
        BY <2>3 DEF Hosting
      <3>2. k + 1 \in 1..(k + 1) /\ \A n \in 1..k : n \in 1..(k + 1)
        OBVIOUS
      <3> QED
        BY <2>2, <2>3, <2>5, <3>1, <3>2
    <2>12. ASSUME NEW x \in DOMAIN named' PROVE InHosts(named[x])' 
      <3>1. CASE x = name
        BY <2>5, <2>9, <3>1 DEF InHosts
      <3>2. CASE x # name
        <4>1. x \in DOMAIN named /\ named'[x] = named[x]
          BY <2>5, <2>12, <3>2
        <4>2. PICK n : n = named[x] /\ InHosts(n)
          BY <1>5, <4>1 DEF Hosting
        <4>3. InHosts(n)'
          BY <2>8, <4>2
        <4> QED
          BY <4>1, <4>2, <4>3 DEF InHosts
      <3> QED
        BY <3>1, <3>2
    <2>13. ASSUME NEW id \in DOMAIN con', Running(id)' PROVE Kept(id)'
      <3>1. CASE id = NewId
        <4>1. k + 1 \in DOMAIN node' /\ node'[k + 1].id = id
          BY <2>2, <2>3, <3>1
        <4>2. phase' \in {"up", "stopping"}
          BY <1>5
        <4> QED
          BY <2>9, <4>1, <4>2 DEF Kept, InHosts
      <3>2. CASE id # NewId
        <4>1. Kept(id)
          BY <1>7, <1>10, <2>13, <3>2
        <4>2. CASE id \in history.orphans
          BY <2>1, <4>2 DEF Kept
        <4>3. CASE \E n \in DOMAIN node : InHosts(n) /\ node[n].id = id
          <5>1. PICK n \in DOMAIN node : InHosts(n) /\ node[n].id = id
            BY <4>3
          <5>2. n \in DOMAIN node' /\ node'[n].id = id /\ InHosts(n)'
            BY <2>3, <2>8, <5>1
          <5> QED
            BY <1>5, <5>2 DEF Kept
        <4> QED
          BY <4>1, <4>2, <4>3 DEF Kept
      <3> QED
        BY <3>1, <3>2
    <2>14. hosts' \in Seq(Nat) /\ named' = [x \in DOMAIN named' |-> named'[x]]
      BY <2>5, <2>7
    <2> QED
      BY <2>10, <2>11, <2>12, <2>13, <2>14 DEF Hosting
  <1> QED
    BY <1>1, <1>2, <1>3, <1>8, <1>9, <1>10 DEF New

\* Every step keeps what runs with its host.
LEMMA HostingStep == OwnContainers /\ Hosting /\ [Next]_vars => Hosting'
  <1> SUFFICES ASSUME OwnContainers, Hosting, [Next]_vars PROVE Hosting'
    OBVIOUS
  <1>0. /\ \A n \in DOMAIN node : node[n] = [f \in NodeFields |-> node[n][f]]
        /\ \A id \in DOMAIN con : con[id] = [f \in ConFields |-> con[id][f]]
        /\ history = [f \in HistoryFields |-> history[f]]
    BY DEF OwnContainers, Objects, Containers, Past
  <1>1. ASSUME NEW name \in Names, NEW rm \in BOOLEAN, NEW want \in Limits,
               New(name, rm, want)
        PROVE  Hosting'
    BY <1>1, NewHosted
  <1>2. ASSUME NEW n \in DOMAIN node, Cmd(n) PROVE Hosting'
    <2>1. PICK nd : nd = Checked(node[n])
      OBVIOUS
    <2>2. nd.id = node[n].id /\ nd.name = node[n].name
      BY <2>1, CheckedIsOwn
    <2>3. /\ con' = con /\ node' = [node EXCEPT ![n] = nd]
          /\ hosts' = hosts /\ named' = named /\ phase' = phase
      BY <1>2, <2>1 DEF Cmd
    <2>4. history'.orphans = history.orphans
      BY <1>0, <1>2 DEF Cmd, Called, HistoryFields
    <2>5. /\ DOMAIN node' = DOMAIN node
          /\ \A m \in DOMAIN node : node'[m].id = node[m].id /\ node'[m].name = node[m].name
      BY <2>2, <2>3
    <2> QED
      BY <2>3, <2>4, <2>5, HostingLeft
  <1>3. ASSUME NEW n \in DOMAIN node,
               \/ ShellDies(n)
               \/ \E want \in Limits : UpdateResources(n, want)
               \/ \E call \in CpuCalls : UpdateCpuLimit(n, call)
               \/ \E call \in MemoryCalls : UpdateMemoryLimit(n, call)
        PROVE  Hosting'
    <2>1. /\ hosts' = hosts /\ named' = named /\ phase' = phase
          /\ history' = Called \/ history' = [history EXCEPT !.troubles = @ + 1]
      BY <1>3 DEF ShellDies, UpdateResources, UpdateCpuLimit, UpdateMemoryLimit
    <2>2. history'.orphans = history.orphans
      BY <1>0, <2>1 DEF Called, HistoryFields
    <2>3. node' = [node EXCEPT ![n].dead = TRUE] \/ \E r, a : Recorded(n, r, a)
      BY <1>3, ZenonT(60) DEF ShellDies, UpdateResources, UpdateCpuLimit, UpdateMemoryLimit
    <2>4. /\ DOMAIN node' = DOMAIN node
          /\ \A m \in DOMAIN node : node'[m].id = node[m].id /\ node'[m].name = node[m].name
      <3>1. CASE node' = [node EXCEPT ![n].dead = TRUE]
        BY <1>0, <3>1 DEF NodeFields
      <3>2. CASE \E r, a : Recorded(n, r, a)
        <4>1. PICK r, a : node' = [node EXCEPT ![n].resources = r, ![n].astray = a]
          BY <3>2 DEF Recorded
        <4> QED
          BY <1>0, <4>1 DEF NodeFields
      <3> QED
        BY <2>3, <3>1, <3>2
    <2>5. con' = con \/ \E l : Limit(n, l)
      BY <1>3, ZenonT(60) DEF ShellDies, UpdateResources, UpdateCpuLimit, UpdateMemoryLimit
    <2>6. \A id \in DOMAIN con' : id \in DOMAIN con /\ con'[id].status = con[id].status
      <3>1. CASE con' = con
        BY <3>1
      <3>2. CASE \E l : Limit(n, l)
        <4>1. PICK l : con' = con \/ con' = [con EXCEPT ![node[n].id].limits = l]
          BY <3>2 DEF Limit
        <4> QED
          BY <1>0, <4>1 DEF ConFields
      <3> QED
        BY <2>5, <3>1, <3>2
    <2> QED
      BY <2>1, <2>2, <2>4, <2>6, HostingLeft
  <1>4. ASSUME NEW id \in DOMAIN con, ContainerExits(id) PROVE Hosting'
    <2>1. /\ node' = node /\ con' = [con EXCEPT ![id].status = "exited"]
          /\ hosts' = hosts /\ named' = named /\ phase' = phase
      BY <1>4 DEF ContainerExits
    <2>2. history'.orphans = history.orphans
      BY <1>0, <1>4 DEF ContainerExits, HistoryFields
    <2>3. \A i \in DOMAIN con' : /\ i \in DOMAIN con
                                 /\ con'[i].status = con[i].status \/ con'[i].status = "exited"
      BY <1>0, <2>1 DEF ConFields
    <2> QED
      BY <2>1, <2>2, <2>3, HostingLeft
  <1>5. ASSUME NEW name \in Names, RemoveDocker(name) PROVE Hosting'
    BY <1>5, RemovedKeeps
  <1>6. CASE StopHost
    BY <1>6, StopHostKeeps
  <1>7. CASE \/ \E n \in DOMAIN node : Popen(n)
             \/ \E s \in Saps, net \in Nets, isNat \in BOOLEAN : AddExtSAP(s, net, isNat)
             \/ \E s \in Saps : AddSAPNAT(s) \/ RemoveExtSAP(s)
    <2>1. con' = con /\ node' = node /\ hosts' = hosts /\ named' = named /\ phase' = phase
      BY <1>7 DEF Popen, AddExtSAP, AddSAPNAT, RemoveExtSAP, docker
    <2>2. \/ \E S : history' = [Called EXCEPT !.served = S]
          \/ \E S : history' = [Called EXCEPT !.strays = S]
          \/ history' = Called
      BY <1>7 DEF Popen, AddExtSAP, AddSAPNAT, RemoveExtSAP
    <2>3. history'.orphans = history.orphans
      BY <1>0, <2>2 DEF Called, HistoryFields
    <2> QED
      BY <2>1, <2>3, HostingLeft
  <1>8. CASE StopCall \/ UNCHANGED vars
    <2>1. /\ con' = con /\ node' = node /\ hosts' = hosts /\ named' = named
          /\ history' = history
          /\ phase' = phase \/ (phase = "up" /\ phase' = "stopping")
      BY <1>8 DEF StopCall, docker, vars
    <2> QED
      BY <2>1, HostingLeft
  <1>9. CASE StopEnds
    <2>1. /\ con' = con /\ node' = node /\ hosts' = hosts /\ named' = named
          /\ history' = history /\ phase' = "stopped" /\ DOMAIN hosts = {}
      BY <1>9 DEF StopEnds, docker
    <2>2. \A id \in DOMAIN con : Running(id) => id \in history.orphans
      BY <2>1 DEF Hosting, Kept, InHosts
    <2> QED
      BY <2>1, <2>2 DEF Hosting, Kept, Running
  <1>10. CASE Crash
    <2>1. /\ con' = con /\ node' = node /\ hosts' = hosts /\ named' = named
          /\ phase' = "dead"
      BY <1>10 DEF Crash, docker
    <2>2. history'.orphans = history.orphans \cup DOMAIN con
      BY <1>0, <1>10 DEF Crash, HistoryFields
    <2> QED
      BY <2>1, <2>2 DEF Hosting, Kept
  <1>11. CASE Cleanup
    <2>1. /\ DOMAIN con' = {} /\ node' = node /\ hosts' = hosts /\ named' = named
          /\ phase' = phase /\ phase # "up"
      BY <1>11 DEF Cleanup
    <2> QED
      BY <2>1 DEF Hosting
  <1>12. CASE StartAgain
    <2>1. /\ con' = con /\ DOMAIN hosts' = {} /\ DOMAIN named' = {} /\ hosts' \in Seq(Nat)
          /\ phase \notin {"up", "stopping"}
          /\ named' = [x \in DOMAIN named' |-> named'[x]]
      <3>1. hosts' = <<>> /\ named' = <<>>
        BY <1>12 DEF StartAgain
      <3>2. hosts' \in Seq(Nat)
        BY <3>1, EmptySeq
      <3> QED
        BY <1>12, <3>1, <3>2 DEF StartAgain
    <2>2. history'.orphans = history.orphans
      BY <1>0, <1>12 DEF StartAgain, HistoryFields
    <2>3. \A id \in DOMAIN con' : Running(id)' => id \in history'.orphans
      BY <2>1, <2>2 DEF Hosting, Kept, Running
    <2> QED
      BY <2>1, <2>3 DEF Hosting, Kept
  <1> QED
    BY <1>1, <1>2, <1>3, <1>4, <1>5, <1>6, <1>7, <1>8, <1>9, <1>10, <1>11, <1>12 DEF Next

\* In the beginning there are no hosts.
LEMMA HostingInitially == Init => Hosting
  <1> SUFFICES ASSUME Init PROVE Hosting
    OBVIOUS
  <1>1. con = <<>> /\ hosts = <<>> /\ named = <<>>
    BY DEF Init
  <1>2. hosts \in Seq(Nat)
    BY <1>1, EmptySeq
  <1> QED
    BY <1>1, <1>2 DEF Hosting

(***************************************************************************)
(* The rules of access points.                                             *)
(***************************************************************************)
\* One of each of some rules more.
LEMMA RulesAdded ==
    ASSUME NEW bag, IsABag(bag), NEW S, NEW b, b = bag (+) SetToBag(S)
    PROVE  /\ IsABag(b) /\ DOMAIN b = DOMAIN bag \cup S
           /\ \A r \in DOMAIN bag : r \notin S => b[r] = bag[r]
           /\ \A r \in S : b[r] = IF r \in DOMAIN bag THEN bag[r] + 1 ELSE 1
  <1>1. b = [e \in DOMAIN bag \cup S |->
                (IF e \in DOMAIN bag THEN bag[e] ELSE 0) + (IF e \in S THEN 1 ELSE 0)]
    BY DEF (+), SetToBag
  <1>2. \A r \in DOMAIN bag : bag[r] \in Nat /\ bag[r] > 0
    BY DEF IsABag
  <1>3. \A r \in DOMAIN b : b[r] \in Nat /\ b[r] > 0
    BY <1>1, <1>2
  <1> QED
    BY <1>1, <1>2, <1>3 DEF IsABag

\* One of each of some rules less.
LEMMA RulesTaken ==
    ASSUME NEW bag, IsABag(bag), NEW S, NEW b, b = bag (-) SetToBag(S)
    PROVE  /\ IsABag(b) /\ DOMAIN b \subseteq DOMAIN bag
           /\ \A r \in DOMAIN b : r \in S => bag[r] > 1
           /\ \A r \in DOMAIN b : r \notin S => b[r] = bag[r]
  <1>1. \A r \in DOMAIN bag : bag[r] \in Nat /\ bag[r] > 0
    BY DEF IsABag
  <1> DEFINE left == [e \in DOMAIN bag |-> IF e \in S THEN bag[e] - 1 ELSE bag[e]]
  <1>2. b = [e \in {d \in DOMAIN left : left[d] > 0} |-> left[e]]
    BY DEF (-), SetToBag
  <1>3. \A r \in DOMAIN bag : left[r] \in Int
    BY <1>1
  <1>4. \A r \in DOMAIN b : /\ r \in DOMAIN bag /\ b[r] = left[r] /\ left[r] > 0
                            /\ b[r] \in Nat
    <2> HIDE DEF left
    <2>1. DOMAIN left = DOMAIN bag
      BY DEF left
    <2> QED
      BY <1>2, <1>3, <2>1
  <1>5. b \in [DOMAIN b -> {n \in Nat : n > 0}]
    <2> HIDE DEF left
    <2> QED
      BY <1>2, <1>4
  <1>6. \A r \in DOMAIN b : left[r] = IF r \in S THEN bag[r] - 1 ELSE bag[r]
    BY <1>4
  <1> HIDE DEF left
  <1> QED
    BY <1>1, <1>4, <1>5, <1>6 DEF IsABag

\* A rule is the single one of an access point that is up, while the process lives, or
\* one of those that the process has lost sight of.
RuleOf(r) ==
    /\ phase \in {"up", "stopping"}
    /\ \E s \in DOMAIN saps : saps[s].up = TRUE /\ r = <<s, saps[s].net>> /\ rules[r] = 1

SapAsMade(s) ==
    /\ saps[s] = [f \in {"net", "up"} |-> saps[s][f]]
    /\ saps[s].up \in BOOLEAN
Rules ==
    /\ python \in {2, 3} /\ phase \in {"up", "stopping", "stopped", "dead"}
    /\ saps = [s \in DOMAIN saps |-> saps[s]] /\ DOMAIN saps \subseteq Saps
    /\ \A s \in DOMAIN saps : SapAsMade(s)
    /\ IsABag(rules)
    /\ python = 3 => DOMAIN rules = {}
    /\ \A r \in DOMAIN rules : r \in history.strays \/ RuleOf(r)

\* A step that has nothing to do with access points.
LEMMA RulesLeft ==
    ASSUME Rules, nat' = nat, python' = python, history'.strays = history.strays,
           \/ phase' = phase
           \/ phase = "up" /\ phase' = "stopping"
    PROVE  Rules'
  BY DEF nat, Rules, RuleOf, IsABag, SapAsMade

\* A rule is added to an access point that is up: the second one is lost.
LEMMA RulesMore ==
    ASSUME Rules, phase = "up", phase' = phase, python = 2, python' = python,
           NEW s \in DOMAIN saps', NEW net,
           \A t \in DOMAIN saps : t # s => t \in DOMAIN saps' /\ saps'[t] = saps[t],
           s \in DOMAIN saps => saps'[s] = saps[s] \/ saps[s].up # TRUE,
           saps'[s].up = TRUE, saps'[s].net = net,
           saps' = [t \in DOMAIN saps' |-> saps'[t]], DOMAIN saps' \subseteq Saps,
           \A t \in DOMAIN saps' : SapAsMade(t)',
           rules' = rules (+) SetToBag({<<s, net>>}),
           history'.strays = history.strays \cup {r \in DOMAIN rules' : rules'[r] > 1}
    PROVE  Rules'
  <1>1. /\ IsABag(rules') /\ DOMAIN rules' = DOMAIN rules \cup {<<s, net>>}
        /\ \A r \in DOMAIN rules : r # <<s, net>> => rules'[r] = rules[r]
        /\ rules'[<<s, net>>] = IF <<s, net>> \in DOMAIN rules
                                THEN rules[<<s, net>>] + 1 ELSE 1
    <2>1. PICK S : S = {<<s, net>>}
      OBVIOUS
    <2>2. IsABag(rules) /\ rules' = rules (+) SetToBag(S)
      BY <2>1 DEF Rules
    <2>3. /\ IsABag(rules') /\ DOMAIN rules' = DOMAIN rules \cup S
          /\ \A r \in DOMAIN rules : r \notin S => rules'[r] = rules[r]
          /\ \A r \in S : rules'[r] = IF r \in DOMAIN rules THEN rules[r] + 1 ELSE 1
      BY <2>2, RulesAdded
    <2> QED
      BY <2>1, <2>3
  <1>2. \A r \in DOMAIN rules : rules[r] \in Nat /\ rules[r] > 0
    BY DEF Rules, IsABag
  <1>3. ASSUME NEW r \in DOMAIN rules'
        PROVE  r \in history'.strays \/ RuleOf(r)'
    <2>1. CASE r = <<s, net>>
      <3>1. CASE r \in DOMAIN rules
        BY <1>1, <1>2, <2>1, <3>1
      <3>2. CASE r \notin DOMAIN rules
        BY <1>1, <2>1, <3>2 DEF RuleOf
      <3> QED
        BY <3>1, <3>2
    <2>2. CASE r # <<s, net>>
      <3>1. r \in DOMAIN rules /\ rules'[r] = rules[r]
        BY <1>1, <1>3, <2>2
      <3>2. CASE r \in history.strays
        BY <3>2
      <3>3. CASE RuleOf(r)
        <4>1. PICK t \in DOMAIN saps :
                  saps[t].up = TRUE /\ r = <<t, saps[t].net>> /\ rules[r] = 1
          BY <3>3 DEF RuleOf
        <4>2. t \in DOMAIN saps' /\ saps'[t] = saps[t]
          BY <2>2, <4>1
        <4> QED
          BY <3>1, <4>1, <4>2 DEF RuleOf
      <3> QED
        BY <3>1, <3>2, <3>3 DEF Rules
    <2> QED
      BY <2>1, <2>2
  <1>4. /\ python' \in {2, 3} /\ phase' \in {"up", "stopping", "stopped", "dead"}
        /\ python' # 3
    BY DEF Rules
  <1> QED
    BY <1>1, <1>3, <1>4 DEF Rules

\* Rules are taken away: from one access point, or from all when the network has stopped.
LEMMA RulesFewer ==
    ASSUME Rules, phase \in {"up", "stopping"}, python' = python, history'.strays = history.strays,
           DOMAIN saps' = DOMAIN saps,
           saps' = [t \in DOMAIN saps' |-> saps'[t]],
           \A t \in DOMAIN saps' : SapAsMade(t)',
           NEW S,
           \A s \in DOMAIN saps :
              \/ <<s, saps[s].net>> \in S
              \/ phase' = phase /\ saps'[s] = saps[s],
           rules' = IF UsesUnicode THEN rules (-) SetToBag(S) ELSE rules,
           phase' \in {phase, "stopped"}
    PROVE  Rules'
  <1>1. CASE python = 2
    <2>1. /\ IsABag(rules') /\ DOMAIN rules' \subseteq DOMAIN rules
          /\ \A r \in DOMAIN rules' : r \in S => rules[r] > 1
          /\ \A r \in DOMAIN rules' : r \notin S => rules'[r] = rules[r]
      <3>1. IsABag(rules) /\ rules' = rules (-) SetToBag(S)
        BY <1>1 DEF Rules, UsesUnicode
      <3> QED
        BY <3>1, RulesTaken
    <2>2. ASSUME NEW r \in DOMAIN rules'
          PROVE  r \in history'.strays \/ RuleOf(r)'
      <3>1. CASE r \in history.strays
        BY <3>1
      <3>2. CASE RuleOf(r)
        <4>1. PICK t \in DOMAIN saps :
                  saps[t].up = TRUE /\ r = <<t, saps[t].net>> /\ rules[r] = 1
          BY <3>2 DEF RuleOf
        <4>2. r \notin S
          <5>1. r \in S => rules[r] > 1
            BY <2>1, <2>2
          <5> QED
            BY <4>1, <5>1
        <4>3. phase' = phase /\ saps'[t] = saps[t] /\ rules'[r] = rules[r]
          BY <2>1, <2>2, <4>1, <4>2
        <4> QED
          BY <4>1, <4>3 DEF RuleOf
      <3> QED
        BY <2>1, <2>2, <3>1, <3>2 DEF Rules
    <2> QED
      BY <1>1, <2>1, <2>2 DEF Rules
  <1>2. CASE python = 3
    <2>1. rules' = rules /\ DOMAIN rules = {}
      BY <1>2 DEF Rules, UsesUnicode
    <2> QED
      BY <1>2, <2>1 DEF Rules, IsABag
  <1> QED
    BY <1>1, <1>2 DEF Rules

\* Of what a step does to history, the part that the rules have to do with.
LEMMA StraysKept ==
    ASSUME Past,
           \/ history' = Called
           \/ \E S : history' = [Called EXCEPT !.served = S]
           \/ \E o : history' = [history EXCEPT !.orphans = o, !.troubles = @ + 1]
           \/ history' = [history EXCEPT !.troubles = @ + 1]
           \/ \E i, o, t : history' = [Called EXCEPT !.lastId = i, !.orphans = o, !.troubles = t]
           \/ \E i : history' = [Called EXCEPT !.lastId = i]
           \/ history' = history
           \/ history' = [history EXCEPT !.runs = @ + 1, !.calls = 0, !.served = {}]
    PROVE  history'.strays = history.strays
  BY DEF Past, Called, HistoryFields

\* What is not done to access points.
LEMMA RulesAside ==
    ASSUME OwnContainers, Rules,
           \/ \E name, rm, want : New(name, rm, want)
           \/ \E n : \/ Cmd(n) \/ Popen(n) \/ ShellDies(n)
                     \/ \E want : UpdateResources(n, want)
                     \/ \E call : UpdateCpuLimit(n, call)
                     \/ \E call : UpdateMemoryLimit(n, call)
           \/ \E id : ContainerExits(id)
           \/ \E name : RemoveDocker(name)
           \/ StopCall \/ StopHost
    PROVE  Rules'
  <1>1. Past
    BY DEF OwnContainers
  <1>2. CASE \E name, rm, want : New(name, rm, want)
    <2>1. PICK name, rm, want : New(name, rm, want)
      BY <1>2
    <2>2. \/ \E k, lost : Raised(k, lost)
          \/ history' = [Called EXCEPT !.lastId = NewId]
      BY <2>1 DEF New
    <2>3. \/ \E i, o, t : history' = [Called EXCEPT !.lastId = i, !.orphans = o, !.troubles = t]
          \/ \E i : history' = [Called EXCEPT !.lastId = i]
      BY <2>2 DEF Raised
    <2>4. nat' = nat /\ python' = python /\ phase' = phase
      BY <2>1 DEF New
    <2> QED
      BY <1>1, <2>3, <2>4, StraysKept, RulesLeft
  <1>3. CASE \E n : \/ Cmd(n) \/ Popen(n) \/ ShellDies(n)
                    \/ \E want : UpdateResources(n, want)
                    \/ \E call : UpdateCpuLimit(n, call)
                    \/ \E call : UpdateMemoryLimit(n, call)
    <2>1. /\ nat' = nat /\ python' = python /\ phase' = phase
          /\ \/ history' = Called
             \/ \E S : history' = [Called EXCEPT !.served = S]
             \/ history' = [history EXCEPT !.troubles = @ + 1]
      BY <1>3 DEF Cmd, Popen, ShellDies, UpdateResources, UpdateCpuLimit, UpdateMemoryLimit
    <2> QED
      BY <1>1, <2>1, StraysKept, RulesLeft
  <1>4. CASE \E id : ContainerExits(id)
    <2>1. /\ nat' = nat /\ python' = python /\ phase' = phase
          /\ history' = [history EXCEPT !.troubles = @ + 1]
      BY <1>4 DEF ContainerExits
    <2> QED
      BY <1>1, <2>1, StraysKept, RulesLeft
  <1>5. CASE (\E name : RemoveDocker(name)) \/ StopHost
    <2>1. nat' = nat /\ python' = python /\ phase' = phase /\ \E n : Terminated(n)
      BY <1>5 DEF RemoveDocker, StopHost
    <2>2. \/ history' = history
          \/ \E o : history' = [history EXCEPT !.orphans = o, !.troubles = @ + 1]
      BY <2>1 DEF Terminated
    <2> QED
      BY <1>1, <2>1, <2>2, StraysKept, RulesLeft
  <1>6. CASE StopCall
    BY <1>6, RulesLeft DEF StopCall
  <1> QED
    BY <1>2, <1>3, <1>4, <1>5, <1>6

\* Every step keeps the rules known.
LEMMA RulesStep == OwnContainers /\ Rules /\ [Next]_vars => Rules'
  <1> SUFFICES ASSUME OwnContainers, Rules, [Next]_vars PROVE Rules'
    OBVIOUS
  <1>0. Past
    BY DEF OwnContainers
  <1>1. CASE \/ \E name \in Names, rm \in BOOLEAN, want \in Limits : New(name, rm, want)
             \/ \E n \in DOMAIN node :
                   \/ Cmd(n) \/ Popen(n) \/ ShellDies(n)
                   \/ \E want \in Limits : UpdateResources(n, want)
                   \/ \E call \in CpuCalls : UpdateCpuLimit(n, call)
                   \/ \E call \in MemoryCalls : UpdateMemoryLimit(n, call)
             \/ \E id \in DOMAIN con : ContainerExits(id)
             \/ \E name \in Names : RemoveDocker(name)
             \/ StopCall \/ StopHost
    BY <1>1, RulesAside
  <1>2. ASSUME NEW s \in Saps, NEW net \in Nets, NEW isNat \in BOOLEAN, AddExtSAP(s, net, isNat)
        PROVE  Rules'
    <2>0. PICK entry : entry = [net |-> net, up |-> TRUE]
      OBVIOUS
    <2>1. /\ phase = "up" /\ phase' = phase /\ python' = python
          /\ rules' = IF isNat /\ UsesUnicode THEN rules (+) SetToBag({<<s, net>>}) ELSE rules
          /\ history' = [Called EXCEPT !.strays = @ \cup {r \in DOMAIN rules' : rules'[r] > 1}]
      BY <1>2 DEF AddExtSAP, MayCall
    <2>2. history'.strays = history.strays \cup {r \in DOMAIN rules' : rules'[r] > 1}
      BY <1>0, <2>1 DEF Past, Called, HistoryFields
    <2>3. /\ entry = [f \in {"net", "up"} |-> entry[f]] /\ entry.up = TRUE /\ entry.net = net
          /\ entry.up \in BOOLEAN
      <3>1. entry = [f \in {"net", "up"} |-> entry[f]] /\ entry.up = TRUE /\ entry.net = net
        BY <2>0
      <3> QED
        BY <3>1, Zenon
    <2>4. /\ s \in DOMAIN saps' /\ saps'[s] = entry
          /\ \A t \in DOMAIN saps : t # s => t \in DOMAIN saps' /\ saps'[t] = saps[t]
          /\ saps' = [t \in DOMAIN saps' |-> saps'[t]] /\ DOMAIN saps' \subseteq Saps
          /\ \A t \in DOMAIN saps' : SapAsMade(t)'
          /\ s \in DOMAIN saps => saps[s].up # TRUE
      <3>1. /\ saps' = [x \in DOMAIN saps \cup {s} |-> IF x = s THEN entry ELSE saps[x]]
            /\ s \in DOMAIN saps => ~saps[s].up
        BY <1>2, <2>0 DEF AddExtSAP
      <3>2. DOMAIN saps' = DOMAIN saps \cup {s} /\ saps'[s] = entry
        BY <3>1
      <3>3. \A t \in DOMAIN saps : t # s => saps'[t] = saps[t]
        BY <3>1
      <3>4. DOMAIN saps \subseteq Saps /\ \A t \in DOMAIN saps : SapAsMade(t)
        BY DEF Rules
      <3>5. \A t \in DOMAIN saps' : SapAsMade(t)'
        BY <2>3, <3>2, <3>3, <3>4 DEF SapAsMade
      <3>6. saps' = [t \in DOMAIN saps' |-> saps'[t]]
        BY <3>1
      <3>7. s \in DOMAIN saps => saps[s].up # TRUE
        BY <3>1
      <3>8. DOMAIN saps' \subseteq Saps
        BY <3>2, <3>4
      <3> QED
        BY <3>2, <3>3, <3>5, <3>6, <3>7, <3>8
    <2>5. CASE isNat /\ python = 2
      <3>1. rules' = rules (+) SetToBag({<<s, net>>})
        BY <2>1, <2>5 DEF UsesUnicode
      <3> QED
        BY <2>1, <2>2, <2>3, <2>4, <2>5, <3>1, RulesMore
    <2>6. CASE ~(isNat /\ python = 2)
      <3>1. rules' = rules
        BY <2>1, <2>6 DEF UsesUnicode
      <3>2. ASSUME NEW r \in DOMAIN rules'
            PROVE  r \in history'.strays \/ RuleOf(r)'
        <4>1. CASE r \in history.strays
          BY <2>2, <4>1
        <4>2. CASE RuleOf(r)
          <5>1. PICK t \in DOMAIN saps :
                    saps[t].up = TRUE /\ r = <<t, saps[t].net>> /\ rules[r] = 1
            BY <4>2 DEF RuleOf
          <5>2. t # s
            BY <2>4, <5>1
          <5> QED
            BY <2>1, <2>4, <3>1, <5>1, <5>2 DEF RuleOf
        <4> QED
          BY <3>1, <3>2, <4>1, <4>2 DEF Rules
      <3> QED
        BY <2>1, <2>4, <3>1, <3>2 DEF Rules, IsABag
    <2> QED
      BY <2>5, <2>6
  <1>3. ASSUME NEW s \in Saps, AddSAPNAT(s)
        PROVE  Rules'
    <2>1. /\ phase = "up" /\ phase' = phase /\ python' = python /\ python = 2
          /\ s \in DOMAIN saps /\ saps[s].up /\ saps' = saps
          /\ rules' = rules (+) SetToBag({<<s, saps[s].net>>})
          /\ history' = [Called EXCEPT !.strays = @ \cup {r \in DOMAIN rules' : rules'[r] > 1}]
      BY <1>3 DEF AddSAPNAT, MayCall, UsesUnicode, Rule
    <2>2. history'.strays = history.strays \cup {r \in DOMAIN rules' : rules'[r] > 1}
      BY <1>0, <2>1 DEF Past, Called, HistoryFields
    <2>3. /\ saps' = [t \in DOMAIN saps' |-> saps'[t]] /\ DOMAIN saps' \subseteq Saps
          /\ \A t \in DOMAIN saps' : SapAsMade(t)'
      BY <2>1 DEF Rules, SapAsMade
    <2>4. PICK net : net = saps[s].net
      OBVIOUS
    <2>5. rules' = rules (+) SetToBag({<<s, net>>}) /\ saps'[s].net = net
      BY <2>1, <2>4
    <2>6. saps'[s].up = TRUE
      BY <2>1, Zenon DEF Rules, SapAsMade
    <2> QED
      BY <2>1, <2>2, <2>3, <2>5, <2>6, RulesMore
  <1>4. ASSUME NEW s \in Saps, RemoveExtSAP(s)
        PROVE  Rules'
    <2>1. /\ phase = "up" /\ phase' = phase /\ python' = python
          /\ s \in DOMAIN saps /\ saps' = [saps EXCEPT ![s].up = FALSE]
          /\ rules' = IF UsesUnicode THEN rules (-) SetToBag({<<s, saps[s].net>>}) ELSE rules
          /\ history' = Called
      BY <1>4 DEF RemoveExtSAP, MayCall, Rule, RulesWithout
    <2>2. history'.strays = history.strays
      BY <1>0, <2>1, StraysKept
    <2>3. /\ DOMAIN saps' = DOMAIN saps /\ saps' = [t \in DOMAIN saps' |-> saps'[t]]
          /\ \A t \in DOMAIN saps' : SapAsMade(t)'
          /\ \A t \in DOMAIN saps : t = s \/ saps'[t] = saps[t]
      BY <2>1 DEF Rules, SapAsMade
    <2>4. PICK S : S = {<<s, saps[s].net>>}
      OBVIOUS
    <2>5. \A t \in DOMAIN saps : <<t, saps[t].net>> \in S \/ (phase' = phase /\ saps'[t] = saps[t])
      BY <2>1, <2>3, <2>4
    <2>6. rules' = IF UsesUnicode THEN rules (-) SetToBag(S) ELSE rules
      BY <2>1, <2>4
    <2>7. phase \in {"up", "stopping"} /\ phase' \in {phase, "stopped"} /\ python' = python
      BY <2>1
    <2> QED
      BY <2>2, <2>3, <2>5, <2>6, <2>7, RulesFewer
  <1>5. CASE StopEnds
    <2>1. PICK S : S = {<<s, saps[s].net>> : s \in DOMAIN saps}
      OBVIOUS
    <2>2. /\ phase = "stopping" /\ phase' = "stopped" /\ python' = python
          /\ rules' = IF UsesUnicode THEN rules (-) SetToBag(S) ELSE rules
          /\ saps' = saps /\ history' = history
      BY <1>5, <2>1 DEF StopEnds
    <2>3. /\ saps' = [t \in DOMAIN saps' |-> saps'[t]]
          /\ \A t \in DOMAIN saps' : SapAsMade(t)'
      BY <2>2 DEF Rules, SapAsMade
    <2>4. \A t \in DOMAIN saps : <<t, saps[t].net>> \in S
      BY <2>1
    <2>5. /\ phase \in {"up", "stopping"} /\ phase' \in {phase, "stopped"}
          /\ DOMAIN saps' = DOMAIN saps /\ history'.strays = history.strays
      BY <2>2
    <2> QED
      BY <2>2, <2>3, <2>4, <2>5, RulesFewer
  <1>6. CASE Crash
    <2>1. history'.strays = history.strays \cup DOMAIN rules
      BY <1>0, <1>6 DEF Crash, Past, HistoryFields
    <2> QED
      BY <1>6, <2>1 DEF Crash, nat, Rules, IsABag, SapAsMade
  <1>7. CASE Cleanup
    BY <1>7 DEF Cleanup, Rules, EmptyBag, SetToBag, IsABag, SapAsMade
  <1>8. CASE StartAgain
    <2>1. history'.strays = history.strays
      BY <1>0, <1>8, StraysKept DEF StartAgain
    <2>2. \A r \in DOMAIN rules' : r \in history'.strays
      BY <1>8, <2>1 DEF StartAgain, Rules, RuleOf
    <2> QED
      BY <1>8, <2>1, <2>2 DEF StartAgain, Rules, IsABag
  <1>9. CASE UNCHANGED vars
    BY <1>9, RulesLeft DEF nat, vars
  <1> QED
    BY <1>1, <1>2, <1>3, <1>4, <1>5, <1>6, <1>7, <1>8, <1>9 DEF Next

\* In the beginning there are no rules.
LEMMA RulesInitially == Init => Rules
  BY DEF Init, Rules, EmptyBag, SetToBag, IsABag, SapAsMade

-----------------------------------------------------------------------------
\* Every command of a Docker host runs in the container that was made for it, although
\* docker exec is told a name: no order of constructors, removals, deaths, crashes,
\* clean-ups and restarts gives the name to another container while the object's own one
\* runs (_is_container_running(), _check_shell(), startShell(), popen()).
THEOREM CommandsStayAtHome == Spec => []CommandsReachTheirOwn
  <1>1. OwnContainers => CommandsReachTheirOwn
    BY DEF OwnContainers, Past
  <1> QED
    BY <1>1, OwnInitially, OwnStep, PTL DEF Spec

\* The four together are inductive.
HostsSound == OwnContainers /\ Records /\ Hosting /\ Rules

\* They hold in every behaviour.
LEMMA HostsAreSound == Spec => []HostsSound
  <1>1. Init => HostsSound
    BY OwnInitially, RecordsInitially, HostingInitially, RulesInitially DEF HostsSound
  <1>2. HostsSound /\ [Next]_vars => HostsSound'
    BY OwnStep, RecordsStep, HostingStep, RulesStep DEF HostsSound
  <1> QED
    BY <1>1, <1>2, PTL DEF Spec

\* Whatever constructors, updates, removals, failures and restarts there were, containers
\* have names of their own, objects have containers of their own, the limits in force are
\* such as the daemon takes, and whoever is found by name is a host of the network.
THEOREM HostsTyped == Spec => []TypeOK
  <1>1. HostsSound => TypeOK
    <2> SUFFICES ASSUME HostsSound PROVE TypeOK
      OBVIOUS
    <2>1. python \in {2, 3} /\ phase \in {"up", "stopping", "stopped", "dead"}
      BY DEF HostsSound, Rules
    <2>2. \A a, b \in DOMAIN con : con[a].name = con[b].name => a = b
      BY DEF HostsSound, OwnContainers, Containers
    <2>3. \A a, b \in DOMAIN node : node[a].id = node[b].id => a = b
      BY DEF HostsSound, Records
    <2>4. \A id \in DOMAIN con :
              id \in 1..history.lastId /\ Accepts(con[id].limits)
              /\ con[id].status \in {"created", "running", "exited"}
      BY DEF HostsSound, OwnContainers, Containers, Records, Limited
    <2>5. Range(hosts) \subseteq DOMAIN node
      BY DEF HostsSound, Hosting, Range
    <2>6. phase = "up" => Range(named) \subseteq Range(hosts)
      BY DEF HostsSound, Hosting, InHosts, Range
    <2>7. DOMAIN saps \subseteq Saps /\ IsABag(rules)
      BY DEF HostsSound, Rules
    <2> QED
      BY <2>1, <2>2, <2>3, <2>4, <2>5, <2>6, <2>7 DEF TypeOK
  <1> QED
    BY <1>1, HostsAreSound, PTL

\* What the object of a running container records of its limits is what is in force, after
\* every sequence of __init__(), update_resources(), updateCpuLimit() and
\* updateMemoryLimit(), whether the daemon and the files of the control group take them or
\* not (but for what a refused call asked for, and cores, which are not recorded).
THEOREM RecordsTell == Spec => []RecordTellsTheLimits
  <1>1. HostsSound => RecordTellsTheLimits
    BY DEF HostsSound, Records, RecordTold, RecordTellsTheLimits
  <1> QED
    BY <1>1, HostsAreSound, PTL

\* A container that runs belongs to a host of the network, and a rule to an access point,
\* or its constructor raised, its removal failed, the rule was set twice, or the process
\* died; after stop() nothing else of either is left.
THEOREM NothingStaysBehind == Spec => []NothingLeftBehind
  <1>1. HostsSound => NothingLeftBehind
    <2> SUFFICES ASSUME HostsSound PROVE NothingLeftBehind
      OBVIOUS
    <2> DEFINE own == {node[n].id : n \in Range(hosts)}
               ends == IF phase = "stopped" THEN {} ELSE {<<s, saps[s].net>> : s \in DOMAIN saps}
    <2>1. ASSUME NEW id \in DOMAIN con, Running(id) PROVE id \in own \cup history.orphans
      <3>1. Kept(id)
        BY <2>1 DEF HostsSound, Hosting
      <3> QED
        BY <3>1 DEF Kept, InHosts, Range
    <2>2. ASSUME NEW r \in DOMAIN rules PROVE r \in ends \cup history.strays
      <3>1. r \in history.strays \/ RuleOf(r)
        BY DEF HostsSound, Rules
      <3> QED
        BY <3>1 DEF RuleOf
    <2> QED
      BY <2>1, <2>2 DEF NothingLeftBehind, BagToSet
  <1> QED
    BY <1>1, HostsAreSound, PTL
===============================================================================
