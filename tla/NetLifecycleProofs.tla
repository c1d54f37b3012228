------------------------- MODULE NetLifecycleProofs -------------------------
EXTENDS NetLifecycle, SequenceTheorems, FiniteSetTheorems, WellFoundedInduction, TLAPS

(***************************************************************************)
(* What the sequential calls of Mininet leave of its lists and of the      *)
(* system: every list is of nodes, links and ports that are there, the     *)
(* world keeps its shape (NetSound), the variables their types (NetTyped), *)
(* and waitConnected() only says that all switches are connected after it  *)
(* has seen every one of them (NetWaits).                                  *)
(***************************************************************************)

USE DEF vars

(***************************************************************************)
(* Sequences.                                                              *)
(***************************************************************************)
IsSeq(s) == \E k \in Nat : s = [i \in 1..k |-> s[i]]

\* The empty sequence.
LEMMA NothingIsSeq ==
    ASSUME NEW s, s = <<>>
    PROVE  IsSeq(s)
  <1> SUFFICES \E k \in Nat : s = [i \in 1..k |-> s[i]]
    BY DEF IsSeq
  <1>1. s = [i \in 1..0 |-> s[i]]
    OBVIOUS
  <1> WITNESS 0 \in Nat
  <1> QED
    BY <1>1

\* A sequence with another element.
LEMMA AppendedSeq ==
    ASSUME NEW s, IsSeq(s), NEW e
    PROVE  /\ IsSeq(Append(s, e))
           /\ \A i \in DOMAIN Append(s, e) :
                 \/ i \in DOMAIN s /\ Append(s, e)[i] = s[i]
                 \/ Append(s, e)[i] = e
  <1>1. PICK k \in Nat : s = [i \in 1..k |-> s[i]]
    BY DEF IsSeq
  <1> DEFINE T == {s[i] : i \in 1..k} \cup {e}
  <1>2. s \in [1..k -> T]
    BY <1>1
  <1>3. s \in Seq(T)
    BY <1>2, SeqDef
  <1>4. /\ Append(s, e) \in Seq(T) /\ DOMAIN s = 1..Len(s) /\ Len(s) \in Nat
        /\ Len(Append(s, e)) = Len(s) + 1
        /\ \A i \in 1..Len(s) : Append(s, e)[i] = s[i]
        /\ Append(s, e)[Len(s) + 1] = e
    <2> HIDE DEF T
    <2> QED
      BY <1>3, e \in T, AppendProperties DEF T
  <1>5. PICK n \in Nat : Append(s, e) \in [1..n -> T]
    <2> HIDE DEF T
    <2> QED
      BY <1>4, LenProperties
  <1>6. IsSeq(Append(s, e))
    <2> HIDE DEF T
    <2> QED
      BY <1>5 DEF IsSeq
  <1>7. n = Len(s) + 1
    <2> HIDE DEF T
    <2> QED
      BY <1>4, <1>5
  <1>8. \A i \in DOMAIN Append(s, e) : i \in 1..Len(s) \/ i = Len(s) + 1
    <2> HIDE DEF T
    <2> QED
      BY <1>4, <1>5, <1>7
  <1> QED
    BY <1>4, <1>6, <1>8

\* A sequence in which one element is another.
LEMMA ExceptedSeq ==
    ASSUME NEW s, IsSeq(s), NEW n, NEW e
    PROVE  IsSeq([s EXCEPT ![n] = e])
  <1>1. PICK k \in Nat : s = [i \in 1..k |-> s[i]]
    BY DEF IsSeq
  <1> DEFINE t == [s EXCEPT ![n] = e]
  <1>2. t = [i \in 1..k |-> t[i]]
    BY <1>1
  <1> QED
    BY <1>2 DEF IsSeq

\* The last element is the one appended.
LEMMA AppendedLast ==
    ASSUME NEW s, IsSeq(s), NEW e
    PROVE  \E k \in Nat : /\ DOMAIN s = 1..k /\ DOMAIN Append(s, e) = 1..(k + 1)
                          /\ Append(s, e)[k + 1] = e /\ Len(Append(s, e)) = k + 1
                          /\ \A i \in 1..k : Append(s, e)[i] = s[i]
  <1>1. PICK k \in Nat : s = [i \in 1..k |-> s[i]]
    BY DEF IsSeq
  <1>2. PICK T : T = {s[i] : i \in 1..k} \cup {e}
    OBVIOUS
  <1>3. s \in Seq(T) /\ e \in T
    BY <1>1, <1>2, SeqDef
  <1>4. /\ Append(s, e) \in Seq(T) /\ Len(Append(s, e)) = Len(s) + 1
        /\ \A i \in 1..Len(s) : Append(s, e)[i] = s[i]
        /\ Append(s, e)[Len(s) + 1] = e
    BY <1>3, AppendProperties
  <1>5. /\ Len(s) \in Nat /\ DOMAIN s = 1..Len(s)
        /\ DOMAIN Append(s, e) = 1..Len(Append(s, e))
    BY <1>3, <1>4, LenProperties
  <1> QED
    BY <1>4, <1>5

\* The least of some numbers is one of them.
LEMMA LeastIsOne ==
    ASSUME NEW I \in SUBSET Nat, NEW k \in I
    PROVE  Min(I) \in I
  <1>1. Min(I) = CHOOSE x \in I : \A y \in I : x <= y
    BY DEF Min
  <1>2. \E x \in I : \A y \in I : x <= y
    <2>1. \E R : IsWellFoundedOn(R, Nat) /\ R = {q \in Nat \X Nat : q[1] < q[2]}
      BY NatLessThanWellFounded, Zenon DEF OpToRel
    <2>2. PICK x \in I : \A y \in I : ~(<<y, x>> \in {q \in Nat \X Nat : q[1] < q[2]})
      <3>1. I \subseteq Nat /\ k \in I
        OBVIOUS
      <3> QED
        BY <2>1, <3>1, WFMin, ZenonT(60)
    <2>3. ASSUME NEW y \in I, y < x PROVE FALSE
      <3> DEFINE pair == <<y, x>>
      <3>1. pair \in Nat \X Nat /\ pair[1] < pair[2]
        BY <2>3
      <3>2. pair \in {q \in Nat \X Nat : q[1] < q[2]}
        BY <3>1
      <3> QED
        BY <2>2, <3>2
    <2> QED
      BY <2>3
  <1> QED
    BY <1>1, <1>2

\* The part of a sequence from some place on.
LEMMA FromPlace ==
    ASSUME NEW Elements, NEW s, NEW n \in Nat, NEW p \in 1..n, \A i \in 1..n : s[i] \in Elements,
           NEW b, b = SubSeq(s, p + 1, n)
    PROVE  /\ b \in Seq(Elements) /\ Len(b) = n - p
           /\ \A i \in 1..(n - p) : b[i] = s[i + p]
  <1>1. PICK m \in Int : m = p + 1
    OBVIOUS
  <1>2. /\ SubSeq(s, m, n) \in Seq(Elements)
        /\ Len(SubSeq(s, m, n)) = IF m <= n THEN n - m + 1 ELSE 0
        /\ \A i \in 1..(n - m + 1) : SubSeq(s, m, n)[i] = s[m + i - 1]
    <2>1. \A i \in m..n : s[i] \in Elements
      BY <1>1
    <2> QED
      BY <2>1, SubSeqProperties
  <1>3. b = SubSeq(s, m, n)
    BY <1>1
  <1>4. n - m + 1 = n - p /\ \A i \in 1..(n - p) : m + i - 1 = i + p
    BY <1>1
  <1>5. Len(b) = n - p
    BY <1>1, <1>2, <1>3
  <1>6. ASSUME NEW i \in 1..(n - p) PROVE b[i] = s[i + p]
    <2>1. i \in 1..(n - m + 1) /\ m + i - 1 = i + p
      BY <1>4
    <2>2. b[i] = s[m + i - 1]
      BY <1>2, <1>3, <2>1
    <2> QED
      BY <2>1, <2>2
  <1>7. b \in Seq(Elements)
    BY <1>2, <1>3
  <1> QED
    BY <1>5, <1>6, <1>7

\* A sequence without the element of some place.
LEMMA PlaceRemoved ==
    ASSUME NEW Elements, NEW s \in Seq(Elements), NEW p \in DOMAIN s
    PROVE  \E n \in Nat :
              /\ DOMAIN s = 1..n /\ p \in 1..n
              /\ RemoveAt(s, p) \in Seq(Elements) /\ DOMAIN RemoveAt(s, p) = 1..(n - 1)
              /\ \A i \in 1..(n - 1) : RemoveAt(s, p)[i] = IF i < p THEN s[i] ELSE s[i + 1]
  <1>0. PICK n, r : n = Len(s) /\ n \in Nat /\ p \in 1..n /\ r = RemoveAt(s, p)
    BY LenProperties
  <1>1. PICK a, b : a = SubSeq(s, 1, p - 1) /\ b = SubSeq(s, p + 1, n)
    OBVIOUS
  <1>2. r = a \o b
    BY <1>0, <1>1 DEF RemoveAt
  <1>3. n \in Nat /\ p \in 1..n /\ \A i \in 1..n : s[i] \in Elements
    BY <1>0, LenProperties
  <1>4. /\ a \in Seq(Elements) /\ Len(a) = p - 1
        /\ \A i \in 1..(p - 1) : a[i] = s[i]
    BY <1>1, <1>3, SubSeqProperties
  <1>5. /\ b \in Seq(Elements) /\ Len(b) = n - p
        /\ \A i \in 1..(n - p) : b[i] = s[i + p]
    <2>1. b = SubSeq(s, p + 1, n)
      BY <1>1
    <2> QED
      BY <2>1, <1>3, FromPlace
  <1>6. /\ r \in Seq(Elements) /\ Len(r) = n - 1
        /\ \A i \in 1..(n - 1) : r[i] = IF i <= p - 1 THEN a[i] ELSE b[i - (p - 1)]
    <2>1. /\ r \in Seq(Elements) /\ Len(r) = Len(a) + Len(b)
          /\ \A i \in 1..Len(a) + Len(b) : r[i] = IF i <= Len(a) THEN a[i] ELSE b[i - Len(a)]
      <3>1. a \in Seq(Elements) /\ b \in Seq(Elements)
        BY <1>4, <1>5
      <3> QED
        BY <1>2, <3>1, ConcatProperties
    <2>2. Len(a) + Len(b) = n - 1 /\ Len(a) = p - 1
      BY <1>3, <1>4, <1>5
    <2> QED
      BY <2>1, <2>2
  <1>7. ASSUME NEW i \in 1..(n - 1)
        PROVE  r[i] = IF i < p THEN s[i] ELSE s[i + 1]
    <2>1. CASE i < p
      BY <1>3, <1>4, <1>6, <2>1
    <2>2. CASE ~(i < p)
      <3>1. i - (p - 1) \in 1..(n - p) /\ (i - (p - 1)) + p = i + 1
        BY <1>3, <2>2
      <3> QED
        <4>1. r[i] = b[i - (p - 1)]
          BY <1>3, <1>6, <2>2
        <4>2. b[i - (p - 1)] = s[i + 1]
          BY <1>5, <3>1
        <4> QED
          BY <2>2, <4>1, <4>2
    <2> QED
      BY <1>3, <2>1, <2>2
  <1> QED
    BY <1>0, <1>6, <1>7, LenProperties

(* No element comes twice.  *)
Once(s) == \A j, k \in DOMAIN s : s[j] = s[k] => j = k
IsList(s) == IsSeq(s) /\ Once(s)

\* A list without one of its elements.
LEMMA FirstRemoved ==
    ASSUME NEW s, IsList(s), NEW e, NEW r
    PROVE  r = RemoveFirst(s, e) => IsList(r) /\ Range(r) = Range(s) \ {e}
  <1>0. SUFFICES ASSUME r = RemoveFirst(s, e)
                 PROVE  IsList(r) /\ Range(r) = Range(s) \ {e}
    OBVIOUS
  <1>1. PICK n \in Nat : s = [i \in 1..n |-> s[i]]
    BY DEF IsList, IsSeq
  <1>2. PICK Elements : Elements = {s[i] : i \in 1..n}
    OBVIOUS
  <1>3. s \in Seq(Elements) /\ Len(s) = n /\ DOMAIN s = 1..n
    <2>1. s \in [1..n -> Elements]
      BY <1>1, <1>2
    <2>2. s \in Seq(Elements)
      BY <2>1, SeqDef
    <2>4. DOMAIN s = 1..n
      BY <2>1
    <2>3. Len(s) = n
      BY <2>2, <2>4, LenProperties
    <2> QED
      BY <2>2, <2>3, <2>4
  <1>4. \A j, k \in 1..n : s[j] = s[k] => j = k
    BY <1>3 DEF IsList, Once
  <1>5. CASE \A i \in DOMAIN s : s[i] # e
    <2>1. r = s
      BY <1>0, <1>3, <1>5 DEF RemoveFirst
    <2> QED
      BY <1>5, <2>1 DEF Range
  <1>6. CASE \E k \in DOMAIN s : s[k] = e
    <2>1. PICK k \in 1..n : s[k] = e
      BY <1>3, <1>6
    <2>2. PICK I : I = {i \in 1..n : s[i] = e}
      OBVIOUS
    <2>3. PICK p \in 1..n : p = Min(I) /\ s[p] = e
      <3>1. I \in SUBSET Nat /\ k \in I
        BY <2>1, <2>2
      <3>2. Min(I) \in I
        BY <3>1, LeastIsOne
      <3> QED
        BY <2>2, <3>2
    <2>4. r = RemoveAt(s, p)
      BY <1>0, <1>3, <2>1, <2>2, <2>3 DEF RemoveFirst, SelectInSeq
    <2>5. p \in DOMAIN s
      BY <1>3, <2>3
    <2>6. PICK m \in Nat :
              /\ DOMAIN s = 1..m /\ p \in 1..m
              /\ RemoveAt(s, p) \in Seq(Elements) /\ DOMAIN RemoveAt(s, p) = 1..(m - 1)
              /\ \A i \in 1..(m - 1) : RemoveAt(s, p)[i] = IF i < p THEN s[i] ELSE s[i + 1]
      BY <1>3, <2>5, PlaceRemoved
    <2>7. m = n /\ r \in Seq(Elements) /\ DOMAIN r = 1..(n - 1)
          /\ \A i \in 1..(n - 1) : r[i] = IF i < p THEN s[i] ELSE s[i + 1]
      BY <1>3, <2>4, <2>6
    <2>8. IsSeq(r)
      <3>0. r \in Seq(Elements)
        BY <2>7
      <3>1. PICK j \in Nat : r \in [1..j -> Elements]
        BY <3>0, SeqDef
      <3>2. r = [i \in 1..j |-> r[i]]
        BY <3>1
      <3> QED
        BY <3>2 DEF IsSeq
    <2>9. ASSUME NEW j \in DOMAIN r
          PROVE  \E i \in 1..n : r[j] = s[i] /\ i # p /\ (i < p => i = j) /\ (i > p => i = j + 1)
      <3>1. CASE j < p
        <4>1. j \in 1..n /\ j # p /\ r[j] = s[j] /\ ~(j > p)
          BY <2>7, <2>9, <3>1
        <4> QED
          BY <4>1
      <3>2. CASE ~(j < p)
        <4>1. j + 1 \in 1..n /\ j + 1 # p /\ r[j] = s[j + 1] /\ ~(j + 1 < p)
          BY <2>7, <2>9, <3>2
        <4> QED
          BY <4>1
      <3> QED
        BY <3>1, <3>2
    <2>10. Once(r)
      <3> SUFFICES ASSUME NEW j \in DOMAIN r, NEW i \in DOMAIN r, r[j] = r[i]
                   PROVE  j = i
        BY DEF Once
      <3>1. PICK a \in 1..n : r[j] = s[a] /\ a # p /\ (a < p => a = j) /\ (a > p => a = j + 1)
        BY <2>9
      <3>2. PICK b \in 1..n : r[i] = s[b] /\ b # p /\ (b < p => b = i) /\ (b > p => b = i + 1)
        BY <2>9
      <3>3. a = b
        BY <1>4, <3>1, <3>2
      <3> QED
        BY <2>3, <2>7, <3>1, <3>2, <3>3
    <2>11. ASSUME NEW j \in DOMAIN r PROVE r[j] \in Range(s) \ {e}
      <3>1. PICK a \in 1..n : r[j] = s[a] /\ a # p
        BY <2>9
      <3>2. s[a] # e
        BY <1>4, <2>3, <3>1
      <3> QED
        BY <1>3, <3>1, <3>2 DEF Range
    <2>12. ASSUME NEW i \in DOMAIN s, s[i] # e
           PROVE  \E j \in DOMAIN r : r[j] = s[i]
      <3>0. i \in 1..n /\ i # p
        BY <1>3, <2>3, <2>12
      <3>1. CASE i < p
        <4>1. i \in DOMAIN r /\ r[i] = s[i]
          BY <2>7, <3>0, <3>1
        <4> QED
          BY <4>1
      <3>2. CASE i > p
        <4>1. i - 1 \in 1..(n - 1) /\ ~(i - 1 < p) /\ (i - 1) + 1 = i
          BY <3>0, <3>2
        <4>2. (i - 1) \in DOMAIN r /\ r[i - 1] = s[i]
          BY <2>7, <4>1
        <4> QED
          BY <4>2
      <3> QED
        BY <3>0, <3>1, <3>2
    <2>13. Range(r) = Range(s) \ {e}
      <3>1. Range(r) \subseteq Range(s) \ {e}
        BY <2>11 DEF Range
      <3>2. Range(s) \ {e} \subseteq Range(r)
        BY <2>12 DEF Range
      <3> QED
        BY <3>1, <3>2
    <2> QED
      BY <2>8, <2>10, <2>13 DEF IsList
  <1> QED
    BY <1>5, <1>6

(* A sequence without its first element.  *)
RestOf(s, r) ==
    /\ IsSeq(r) /\ Head(s) = s[1] /\ 1 \in DOMAIN s
    /\ \A i \in DOMAIN r : i \in Nat /\ i > 0 /\ i + 1 \in DOMAIN s /\ r[i] = s[i + 1]
    /\ \A i \in DOMAIN s : i = 1 \/ (i - 1 \in DOMAIN r /\ (i - 1) + 1 = i)
    /\ Range(r) \subseteq Range(s) /\ Range(s) = Range(r) \cup {s[1]}
    /\ Once(s) => Once(r) /\ s[1] \notin Range(r)

\* The rest of a sequence, element by element.
LEMMA TailIs ==
    ASSUME NEW s, IsSeq(s), s # <<>>, NEW r
    PROVE  r = Tail(s) => RestOf(s, r)
  <1>0. SUFFICES ASSUME r = Tail(s) PROVE RestOf(s, r)
    OBVIOUS
  <1>1. PICK n \in Nat : s = [i \in 1..n |-> s[i]]
    BY DEF IsSeq
  <1>2. PICK Elements : Elements = {s[i] : i \in 1..n}
    OBVIOUS
  <1>3. s \in Seq(Elements) /\ DOMAIN s = 1..n
    <2>1. s \in [1..n -> Elements]
      BY <1>1, <1>2
    <2> QED
      BY <2>1, SeqDef
  <1>4. /\ Head(s) \in Elements /\ r \in Seq(Elements) /\ Len(s) = n /\ n > 0
        /\ Len(r) = n - 1 /\ DOMAIN r = 1..(n - 1) /\ Head(s) = s[1]
        /\ \A i \in 1..(n - 1) : r[i] = s[i + 1]
    <2>1. Len(s) = n
      BY <1>3, LenProperties
    <2>2. n # 0
      BY <1>3, <2>1, EmptySeq
    <2>3. /\ Head(s) \in Elements /\ Tail(s) \in Seq(Elements) /\ Len(Tail(s)) = Len(s) - 1
          /\ \A i \in 1..Len(Tail(s)) : Tail(s)[i] = s[i + 1]
      BY <1>3, HeadTailProperties
    <2>4. DOMAIN r = 1..(n - 1)
      BY <1>0, <2>1, <2>3, LenProperties
    <2> QED
      BY <1>0, <2>1, <2>2, <2>3, <2>4
  <1>5. IsSeq(r)
    <2>1. PICK j \in Nat : r \in [1..j -> Elements]
      BY <1>4, SeqDef
    <2>2. r = [i \in 1..j |-> r[i]]
      BY <2>1
    <2> QED
      BY <2>2 DEF IsSeq
  <1>6. \A i \in DOMAIN r : i \in Nat /\ i > 0 /\ i + 1 \in DOMAIN s /\ r[i] = s[i + 1]
    BY <1>3, <1>4
  <1>7. 1 \in DOMAIN s /\ \A i \in DOMAIN s : i = 1 \/ (i - 1 \in DOMAIN r /\ (i - 1) + 1 = i)
    BY <1>3, <1>4
  <1>8. Range(r) \subseteq Range(s) /\ s[1] \in Range(s)
    BY <1>6, <1>7 DEF Range
  <1>9. ASSUME NEW i \in DOMAIN s PROVE s[i] \in Range(r) \cup {s[1]}
    <2>1. CASE i = 1
      BY <2>1
    <2>2. CASE i - 1 \in DOMAIN r /\ (i - 1) + 1 = i
      <3>1. r[i - 1] = s[i]
        BY <1>6, <2>2
      <3> QED
        BY <2>2, <3>1 DEF Range
    <2> QED
      BY <1>7, <2>1, <2>2
  <1>10. Range(s) = Range(r) \cup {s[1]}
    BY <1>8, <1>9 DEF Range
  <1>11. ASSUME Once(s) PROVE Once(r) /\ s[1] \notin Range(r)
    <2>1. \A j, k \in 1..n : s[j] = s[k] => j = k
      BY <1>3, <1>11 DEF Once
    <2>2. Once(r)
      BY <1>3, <1>4, <1>6, <2>1 DEF Once
    <2>3. ASSUME NEW i \in DOMAIN r PROVE r[i] # s[1]
      BY <1>3, <1>4, <2>1, <2>3
    <2> QED
      BY <2>2, <2>3 DEF Range
  <1> QED
    BY <1>4, <1>5, <1>6, <1>7, <1>8, <1>10, <1>11 DEF RestOf

\* Induction over the numbers up to a bound, for a set of numbers.
LEMMA UpTo ==
    ASSUME NEW N \in Nat, NEW T, 0 \in T,
           \A n \in Nat : n < N /\ n \in T => n + 1 \in T
    PROVE  \A n \in 0..N : n \in T
  <1> DEFINE Rest == (0..N) \ T
  <1> SUFFICES ASSUME Rest # {} PROVE FALSE
    OBVIOUS
  <1>1. \E R : IsWellFoundedOn(R, Nat) /\ R = {p \in Nat \X Nat : p[1] < p[2]}
    BY NatLessThanWellFounded, Zenon DEF OpToRel
  <1>2. PICK x \in Rest : \A y \in Rest : ~(<<y, x>> \in {p \in Nat \X Nat : p[1] < p[2]})
    <2>1. Rest \subseteq Nat
      OBVIOUS
    <2> QED
      BY <1>1, <2>1, WFMin, ZenonT(60)
  <1>3. ASSUME NEW y \in Rest, y < x PROVE FALSE
    <2> DEFINE pair == <<y, x>>
    <2>1. pair \in Nat \X Nat /\ pair[1] < pair[2]
      BY <1>3
    <2>2. pair \in {p \in Nat \X Nat : p[1] < p[2]}
      BY <2>1
    <2> QED
      BY <1>2, <2>2
  <1>4. x # 0 /\ x - 1 \in Nat /\ x - 1 < N
    OBVIOUS
  <1>5. x - 1 \in T
    BY <1>3, <1>4
  <1> QED
    BY <1>4, <1>5

(***************************************************************************)
(* Nodes, interfaces and links.                                            *)
(***************************************************************************)
Plain(f) == f = [x \in DOMAIN f |-> f[x]]
WorldFields == {"node", "link", "veth", "bridge", "proc", "raised"}
NodeFields == {"name", "kind", "ip", "shell", "addr", "intfs", "ports"}
LinkFields == {"n", "p", "known"}

(* The maps of a node: what intfs gives for a port has that port, and an interface
   is the end of a link at this node, under the number that the link keeps.  *)
Bounded(ports) == \E bound \in Nat : \A i \in DOMAIN ports : ports[i] \in 0..bound
Maps(intfs, ports, kind, n, lk) ==
    /\ Plain(intfs) /\ Plain(ports)
    /\ \A p \in DOMAIN intfs : intfs[p] \in DOMAIN ports /\ ports[intfs[p]] = p
    /\ \A i \in DOMAIN ports \ {Lo} :
          /\ i = <<i[1], i[2]>> /\ i[1] \in DOMAIN lk /\ i[2] \in {1, 2}
          /\ lk[i[1]].n[i[2]] = n /\ ports[i] = lk[i[1]].p[i[2]]
    /\ Lo \in DOMAIN ports <=> kind = "switch"
    /\ kind = "switch" => ports[Lo] = 0 /\ 0 \in DOMAIN intfs /\ intfs[0] = Lo
    /\ Bounded(ports)
IsNode(nd) == nd = [f \in NodeFields |-> nd[f]]
NodeShape(nd, n, lk) ==
    /\ IsNode(nd)
    /\ nd.name \in NodeNames /\ nd.kind \in Kinds /\ nd.ip \in 0..MaxIP /\ nd.shell \in BOOLEAN
    /\ Maps(nd.intfs, nd.ports, nd.kind, n, lk)

IsLink(k) ==
    /\ k = [f \in LinkFields |-> k[f]] /\ k.known = [s \in {1, 2} |-> k.known[s]]
    /\ k.n = [s \in {1, 2} |-> k.n[s]]
LinkShape(w, l) ==
    LET k == w.link[l]
    IN  /\ IsLink(k)
        /\ \A s \in {1, 2} : /\ k.n[s] \in DOMAIN w.node /\ k.p[s] \in Nat /\ k.known[s] \in BOOLEAN
                             /\ w.node[k.n[s]].kind = "switch" => k.p[s] # 0
        /\ w.node[k.n[1]].name # w.node[k.n[2]].name

IsWorld(w) == w = [f \in WorldFields |-> w[f]]
Worldly(w) ==
    /\ IsWorld(w) /\ IsSeq(w.node) /\ IsSeq(w.link) /\ Plain(w.bridge)
    /\ \A v \in w.veth : \E x, y \in v : x # y /\ v = {x, y}
Shape(w) ==
    /\ Worldly(w)
    /\ \A n \in DOMAIN w.node : NodeShape(w.node[n], n, w.link)
    /\ \A l \in DOMAIN w.link : LinkShape(w, l)

(* Two worlds with the same nodes and links, by name, kind and number.  *)
Same(w, r) ==
    /\ DOMAIN r.node = DOMAIN w.node /\ DOMAIN r.link = DOMAIN w.link
    /\ \A n \in DOMAIN w.node : r.node[n].name = w.node[n].name /\ r.node[n].kind = w.node[n].kind
    /\ \A l \in DOMAIN w.link : r.link[l].n = w.link[l].n /\ r.link[l].p = w.link[l].p

\* The names of the interfaces are the same in both.
LEMMA SameNames ==
    ASSUME NEW w, NEW r, Shape(w), Same(w, r), NEW l \in DOMAIN w.link, NEW s \in {1, 2}
    PROVE  /\ IntfName(r, <<l, s>>) = IntfName(w, <<l, s>>)
           /\ End(r, <<l, s>>) = End(w, <<l, s>>)
  <1>1. w.link[l].n[s] \in DOMAIN w.node
    BY DEF Shape, LinkShape
  <1>2. r.link[l].n = w.link[l].n /\ r.link[l].p = w.link[l].p
    BY DEF Same
  <1>3. /\ r.node[w.link[l].n[s]].name = w.node[w.link[l].n[s]].name
        /\ r.node[w.link[l].n[s]].kind = w.node[w.link[l].n[s]].kind
    BY <1>1 DEF Same
  <1>4. <<l, s>>[1] = l /\ <<l, s>>[2] = s
    OBVIOUS
  <1> QED
    BY <1>2, <1>3, <1>4 DEF IntfName, End, Namespace

\* Being the same is transitive.
LEMMA SameSame ==
    ASSUME NEW w, NEW r, NEW q, Same(w, r), Same(r, q)
    PROVE  Same(w, q)
  BY DEF Same

\* One node changed, and neither its name nor the ports it ought to have: the shape
\* is kept.
LEMMA NodeChanged ==
    ASSUME NEW w, NEW r, NEW n \in DOMAIN w.node, Shape(w), Worldly(r), r.link = w.link,
           DOMAIN r.node = DOMAIN w.node,
           \A m \in DOMAIN w.node : m # n => r.node[m] = w.node[m],
           r.node[n].name = w.node[n].name, r.node[n].kind = w.node[n].kind,
           NodeShape(r.node[n], n, w.link)
    PROVE  Shape(r) /\ Same(w, r)
  <1>1. Same(w, r)
    BY DEF Same
  <1>2. ASSUME NEW m \in DOMAIN w.node PROVE NodeShape(r.node[m], m, r.link)
    <2>1. CASE m = n
      BY <2>1
    <2>2. CASE m # n
      <3>1. NodeShape(w.node[m], m, w.link) /\ r.node[m] = w.node[m] /\ r.link = w.link
        BY <2>2 DEF Shape
      <3> QED
        BY <3>1
    <2> QED
      BY <2>1, <2>2
  <1>3. ASSUME NEW l \in DOMAIN w.link PROVE LinkShape(r, l)
    <2>1. LinkShape(w, l)
      BY DEF Shape
    <2>2. r.link[l] = w.link[l] /\ w.link[l].n[1] \in DOMAIN w.node /\ w.link[l].n[2] \in DOMAIN w.node
      BY <2>1 DEF LinkShape
    <2>3. \A s \in {1, 2} : /\ r.node[w.link[l].n[s]].name = w.node[w.link[l].n[s]].name
                            /\ r.node[w.link[l].n[s]].kind = w.node[w.link[l].n[s]].kind
      BY <1>1, <2>2 DEF Same
    <2> QED
      BY <2>1, <2>2, <2>3 DEF LinkShape
  <1> QED
    BY <1>1, <1>2, <1>3 DEF Shape

\* A node with the name, kind and maps of another.
LEMMA SameMaps ==
    ASSUME NEW nd, NEW md, NEW n, NEW lk, NodeShape(nd, n, lk), IsNode(md),
           md.name = nd.name, md.kind = nd.kind, md.ip \in 0..MaxIP, md.shell \in BOOLEAN,
           md.intfs = nd.intfs, md.ports = nd.ports
    PROVE  NodeShape(md, n, lk)
  BY DEF NodeShape

\* Fewer pairs are pairs.
LEMMA FewerPairs ==
    ASSUME NEW w, NEW r, Worldly(w), IsWorld(r),
           IsSeq(r.node), r.link = w.link, r.veth \subseteq w.veth, Plain(r.bridge)
    PROVE  Worldly(r)
  BY DEF Worldly

(* A shell that ends: nothing happens to a container that does not run.  *)
Skips(w, n) == w.node[n].kind = "docker" /\ w.node[n].name \notin w.proc
ShellEnded(w, n, r) ==
    /\ r.link = w.link /\ r.bridge = w.bridge /\ r.raised = w.raised
    /\ \A m \in DOMAIN w.node : m # n => r.node[m] = w.node[m]
    /\ r.node[n].ip = w.node[n].ip
    /\ r.node[n].intfs = w.node[n].intfs /\ r.node[n].ports = w.node[n].ports
    /\ r.node[n].shell = IF Skips(w, n) THEN w.node[n].shell ELSE FALSE
    /\ r.proc = IF w.node[n].shell /\ ~Skips(w, n) THEN w.proc \ {w.node[n].name} ELSE w.proc
    /\ r.veth = IF w.node[n].shell /\ ~Skips(w, n)
                THEN WithoutNamespaces(w.veth, {w.node[n].name}) ELSE w.veth

\* terminate().
LEMMA TerminatedIs ==
    ASSUME NEW w, NEW n \in DOMAIN w.node, Shape(w), NEW r
    PROVE  r = Terminated(w, n) => Shape(r) /\ Same(w, r) /\ ShellEnded(w, n, r)
  <1>0. SUFFICES ASSUME r = Terminated(w, n)
                 PROVE  Shape(r) /\ Same(w, r) /\ ShellEnded(w, n, r)
    OBVIOUS
  <1>1. /\ IsWorld(w) /\ Worldly(w) /\ NodeShape(w.node[n], n, w.link)
        /\ IsNode(w.node[n]) /\ IsSeq(w.node)
        /\ w.node[n].ip \in 0..MaxIP /\ Plain(w.bridge)
    BY DEF Shape, NodeShape, Worldly
  <1>2. CASE Skips(w, n)
    <2>1. r = w
      BY <1>0, <1>2 DEF Terminated, Skips
    <2> QED
      BY <1>2, <2>1 DEF Same, ShellEnded
  <1>3. CASE ~Skips(w, n)
    <2>1. PICK nd : nd = [w.node[n] EXCEPT !.shell = FALSE]
      OBVIOUS
    <2>2. /\ IsWorld(r)
          /\ r.node = [w.node EXCEPT ![n] = nd] /\ r.link = w.link
          /\ r.bridge = w.bridge /\ r.raised = w.raised
          /\ r.proc = IF w.node[n].shell THEN w.proc \ {w.node[n].name} ELSE w.proc
          /\ r.veth = IF w.node[n].shell THEN WithoutNamespaces(w.veth, {w.node[n].name}) ELSE w.veth
      BY <1>0, <1>1, <1>3, <2>1 DEF Terminated, Skips, IsWorld, WorldFields
    <2>3. /\ nd.shell = FALSE /\ IsNode(nd)
          /\ nd.name = w.node[n].name /\ nd.kind = w.node[n].kind /\ nd.ip = w.node[n].ip
          /\ nd.intfs = w.node[n].intfs /\ nd.ports = w.node[n].ports
      BY <1>1, <2>1 DEF NodeFields, IsNode
    <2>4. IsSeq(r.node) /\ DOMAIN r.node = DOMAIN w.node /\ r.node[n] = nd
          /\ \A m \in DOMAIN w.node : m # n => r.node[m] = w.node[m]
      <3>1. IsSeq([w.node EXCEPT ![n] = nd])
        BY <1>1, ExceptedSeq
      <3> QED
        BY <2>2, <3>1
    <2>5. Worldly(r)
      <3>1. r.veth \subseteq w.veth
        BY <2>2 DEF WithoutNamespaces
      <3> QED
        BY <1>1, <2>2, <2>4, <3>1, FewerPairs
    <2>6. NodeShape(nd, n, w.link)
      BY <1>1, <2>3, SameMaps
    <2>7. NodeShape(r.node[n], n, w.link)
      BY <2>4, <2>6
    <2>8. Shape(r) /\ Same(w, r)
      BY <2>2, <2>3, <2>4, <2>5, <2>7, NodeChanged
    <2>9. ShellEnded(w, n, r)
      BY <1>3, <2>2, <2>3, <2>4 DEF ShellEnded
    <2> QED
      BY <2>8, <2>9
  <1> QED
    BY <1>2, <1>3

\* A command wakes the shell of a node that has one, and that is all.
LEMMA WokenIs ==
    ASSUME NEW w, NEW n, Worldly(w), NEW r, r = Woken(w, n)
    PROVE  /\ Worldly(r)
           /\ r.node = w.node /\ r.link = w.link /\ r.veth = w.veth /\ r.bridge = w.bridge
           /\ r.raised = w.raised
           /\ r.proc = IF Runs(w, n) THEN w.proc \cup {w.node[n].name} ELSE w.proc
  <1>1. IsWorld(w)
    BY DEF Worldly
  <1>2. /\ IsWorld(r)
        /\ r.node = w.node /\ r.link = w.link /\ r.veth = w.veth /\ r.bridge = w.bridge
        /\ r.raised = w.raised
        /\ r.proc = IF Runs(w, n) THEN w.proc \cup {w.node[n].name} ELSE w.proc
    BY <1>1 DEF Woken, IsWorld, WorldFields
  <1> QED
    BY <1>2 DEF Worldly

\* What is the same but for the processes, and the pairs and ports that are there,
\* has its shape.
LEMMA ShapeOfMaps ==
    ASSUME NEW w, NEW r, Shape(w), Worldly(r), r.node = w.node, r.link = w.link
    PROVE  Shape(r) /\ Same(w, r)
  BY DEF Shape, NodeShape, LinkShape, Same

(* A node without an interface, and with another.  *)
Lacks(nd, i, md) ==
    /\ md.name = nd.name /\ md.kind = nd.kind /\ md.ip = nd.ip /\ md.shell = nd.shell
    /\ DOMAIN md.ports = DOMAIN nd.ports \ {i}
    /\ \A j \in DOMAIN md.ports : md.ports[j] = nd.ports[j]
    /\ DOMAIN md.intfs = IF i \in DOMAIN nd.ports THEN DOMAIN nd.intfs \ {nd.ports[i]}
                         ELSE DOMAIN nd.intfs
    /\ \A p \in DOMAIN md.intfs : md.intfs[p] = nd.intfs[p]
Gains(nd, i, port, md) ==
    /\ md.name = nd.name /\ md.kind = nd.kind /\ md.ip = nd.ip /\ md.shell = nd.shell
    /\ DOMAIN md.ports = DOMAIN nd.ports \cup {i}
    /\ \A j \in DOMAIN nd.ports : j # i => md.ports[j] = nd.ports[j]
    /\ md.ports[i] = port
    /\ DOMAIN md.intfs = DOMAIN nd.intfs \cup {port}
    /\ \A p \in DOMAIN nd.intfs : p # port => md.intfs[p] = nd.intfs[p]
    /\ md.intfs[port] = i

\* An interface that is deleted: the maps of the node still have their shape, and
\* what else the node is stays.
LEMMA DelIntfIs ==
    ASSUME NEW nd, NEW n, NEW lk, NodeShape(nd, n, lk), NEW i, i # Lo,
           nd.kind = "switch" => (i \in DOMAIN nd.ports => nd.ports[i] # 0),
           NEW md, md = DelIntf(nd, i)
    PROVE  NodeShape(md, n, lk) /\ Lacks(nd, i, md)
  <1>1. CASE i \notin DOMAIN nd.ports
    <2>1. md = nd
      BY <1>1 DEF DelIntf
    <2> QED
      BY <1>1, <2>1 DEF Lacks
  <1>2. CASE i \in DOMAIN nd.ports
    <2>1. IsNode(nd)
      BY DEF NodeShape
    <2>2. PICK intfs, ports : /\ intfs = Without(nd.intfs, nd.ports[i])
                              /\ ports = Without(nd.ports, i)
      OBVIOUS
    <2>3. /\ IsNode(md)
          /\ md.name = nd.name /\ md.kind = nd.kind /\ md.ip = nd.ip /\ md.shell = nd.shell
          /\ md.intfs = intfs /\ md.ports = ports
      BY <1>2, <2>1, <2>2 DEF DelIntf, IsNode, NodeFields
    <2>4. /\ DOMAIN ports = DOMAIN nd.ports \ {i} /\ Plain(ports)
          /\ \A j \in DOMAIN ports : ports[j] = nd.ports[j]
          /\ DOMAIN intfs = DOMAIN nd.intfs \ {nd.ports[i]}
          /\ Plain(intfs)
          /\ \A p \in DOMAIN intfs : intfs[p] = nd.intfs[p]
      BY <2>2 DEF Without, Plain
    <2>5. \A p \in DOMAIN intfs : intfs[p] \in DOMAIN ports /\ ports[intfs[p]] = p
      BY <2>4 DEF NodeShape, Maps
    <2>6. \A j \in DOMAIN ports \ {Lo} :
             /\ j = <<j[1], j[2]>> /\ j[1] \in DOMAIN lk /\ j[2] \in {1, 2}
             /\ lk[j[1]].n[j[2]] = n /\ ports[j] = lk[j[1]].p[j[2]]
      BY <2>4 DEF NodeShape, Maps
    <2>7. Lo \in DOMAIN ports <=> nd.kind = "switch"
      BY <2>4 DEF NodeShape, Maps
    <2>8. nd.kind = "switch" => ports[Lo] = 0 /\ 0 \in DOMAIN intfs /\ intfs[0] = Lo
      BY <1>2, <2>4, <2>7 DEF NodeShape, Maps
    <2>9. Bounded(ports)
      <3>1. PICK bound \in Nat : \A j \in DOMAIN nd.ports : nd.ports[j] \in 0..bound
        BY DEF NodeShape, Maps, Bounded
      <3>2. \A j \in DOMAIN ports : ports[j] \in 0..bound
        BY <2>4, <3>1
      <3> QED
        BY <3>2 DEF Bounded
    <2>10. /\ nd.name \in NodeNames /\ nd.kind \in Kinds /\ nd.ip \in 0..MaxIP
           /\ nd.shell \in BOOLEAN
      BY DEF NodeShape
    <2>11. NodeShape(md, n, lk)
      <3>1. Maps(intfs, ports, nd.kind, n, lk)
        BY <2>4, <2>5, <2>6, <2>7, <2>8, <2>9 DEF Maps
      <3> QED
        BY <2>3, <2>10, <3>1 DEF NodeShape
    <2> QED
      BY <1>2, <2>3, <2>4, <2>11 DEF Lacks
  <1> QED
    BY <1>1, <1>2

\* An interface that is added under a number of its own name.
LEMMA AddIntfIs ==
    ASSUME NEW nd, NEW n, NEW lk, NodeShape(nd, n, lk),
           NEW l \in DOMAIN lk, NEW s \in {1, 2}, <<l, s>> \notin DOMAIN nd.ports, <<l, s>> # Lo,
           lk[l].n[s] = n, lk[l].p[s] \in Nat, nd.kind = "switch" => lk[l].p[s] # 0,
           NEW md, md = AddIntf(nd, <<l, s>>, lk[l].p[s])
    PROVE  NodeShape(md, n, lk) /\ Gains(nd, <<l, s>>, lk[l].p[s], md)
  <1>1. IsNode(nd)
    BY DEF NodeShape
  <1>2. PICK i, port, intfs, ports :
           /\ i = <<l, s>> /\ port = lk[l].p[s]
           /\ intfs = With(nd.intfs, port, i) /\ ports = With(nd.ports, i, port)
    OBVIOUS
  <1>3. /\ IsNode(md)
        /\ md.name = nd.name /\ md.kind = nd.kind /\ md.ip = nd.ip /\ md.shell = nd.shell
        /\ md.intfs = intfs /\ md.ports = ports
    BY <1>1, <1>2 DEF AddIntf, IsNode, NodeFields
  <1>4. /\ DOMAIN ports = DOMAIN nd.ports \cup {i} /\ Plain(ports)
        /\ \A j \in DOMAIN nd.ports : ports[j] = nd.ports[j]
        /\ ports[i] = port
        /\ DOMAIN intfs = DOMAIN nd.intfs \cup {port} /\ Plain(intfs)
        /\ \A p \in DOMAIN nd.intfs : p # port => intfs[p] = nd.intfs[p]
        /\ intfs[port] = i
    BY <1>2 DEF With, Plain
  <1>5. i = <<i[1], i[2]>> /\ i[1] = l /\ i[2] = s /\ i # Lo /\ i \notin DOMAIN nd.ports
    BY <1>2
  <1>6. \A p \in DOMAIN intfs : intfs[p] \in DOMAIN ports /\ ports[intfs[p]] = p
    BY <1>4 DEF NodeShape, Maps
  <1>7. \A j \in DOMAIN ports \ {Lo} :
           /\ j = <<j[1], j[2]>> /\ j[1] \in DOMAIN lk /\ j[2] \in {1, 2}
           /\ lk[j[1]].n[j[2]] = n /\ ports[j] = lk[j[1]].p[j[2]]
    <2> SUFFICES ASSUME NEW j \in DOMAIN ports \ {Lo}
                 PROVE  /\ j = <<j[1], j[2]>> /\ j[1] \in DOMAIN lk /\ j[2] \in {1, 2}
                        /\ lk[j[1]].n[j[2]] = n /\ ports[j] = lk[j[1]].p[j[2]]
      OBVIOUS
    <2>1. CASE j = i
      BY <1>2, <1>4, <1>5, <2>1
    <2>2. CASE j \in DOMAIN nd.ports
      BY <1>4, <2>2 DEF NodeShape, Maps
    <2> QED
      BY <1>4, <2>1, <2>2
  <1>8. Lo \in DOMAIN ports <=> nd.kind = "switch"
    BY <1>4, <1>5 DEF NodeShape, Maps
  <1>9. nd.kind = "switch" => ports[Lo] = 0 /\ 0 \in DOMAIN intfs /\ intfs[0] = Lo
    BY <1>2, <1>4, <1>5, <1>8 DEF NodeShape, Maps
  <1>10. Bounded(ports)
    <2>1. PICK bound \in Nat : \A j \in DOMAIN nd.ports : nd.ports[j] \in 0..bound
      BY DEF NodeShape, Maps, Bounded
    <2>2. port \in Nat /\ bound + port \in Nat
      BY <1>2
    <2>3. \A j \in DOMAIN ports : ports[j] \in 0..(bound + port)
      BY <1>4, <2>1, <2>2
    <2> QED
      BY <2>2, <2>3 DEF Bounded
  <1>11. /\ nd.name \in NodeNames /\ nd.kind \in Kinds /\ nd.ip \in 0..MaxIP
         /\ nd.shell \in BOOLEAN
    BY DEF NodeShape
  <1>12. NodeShape(md, n, lk)
    <2>1. Maps(intfs, ports, nd.kind, n, lk)
      BY <1>4, <1>6, <1>7, <1>8, <1>9, <1>10 DEF Maps
    <2> QED
      BY <1>3, <1>11, <2>1 DEF NodeShape
  <1> QED
    BY <1>2, <1>3, <1>4, <1>12 DEF Gains

\* The greatest of some numbers is one of them, and no less than any.
LEMMA GreatestIsOne ==
    ASSUME NEW bound \in Nat, NEW I \in SUBSET (0..bound), NEW k \in I
    PROVE  Max(I) \in I /\ \A y \in I : Max(I) >= y
  <1>1. Max(I) = CHOOSE x \in I : \A y \in I : x >= y
    BY DEF Max
  <1>2. \E x \in I : \A y \in I : x >= y
    <2>1. PICK J : J = {bound - x : x \in I}
      OBVIOUS
    <2>2. J \in SUBSET Nat /\ bound - k \in J
      BY <2>1
    <2>3. Min(J) \in J
      BY <2>2, LeastIsOne
    <2>4. \E x \in J : \A y \in J : x <= y
      <3>1. \E R : IsWellFoundedOn(R, Nat) /\ R = {q \in Nat \X Nat : q[1] < q[2]}
        BY NatLessThanWellFounded, Zenon DEF OpToRel
      <3>2. PICK x \in J : \A y \in J : ~(<<y, x>> \in {q \in Nat \X Nat : q[1] < q[2]})
        BY <2>2, <3>1, WFMin, ZenonT(60)
      <3>3. ASSUME NEW y \in J, y < x PROVE FALSE
        <4> DEFINE pair == <<y, x>>
        <4>1. pair \in Nat \X Nat /\ pair[1] < pair[2]
          BY <2>2, <3>3
        <4>2. pair \in {q \in Nat \X Nat : q[1] < q[2]}
          BY <4>1
        <4> QED
          BY <3>2, <4>2
      <3> QED
        BY <2>2, <3>3
    <2>5. PICK x \in I : \A y \in I : bound - x <= bound - y
      BY <2>1, <2>4
    <2>6. \A y \in I : x >= y
      BY <2>5
    <2> QED
      BY <2>6
  <1> QED
    BY <1>1, <1>2

\* A map of nothing is the empty sequence.
LEMMA EmptyIsNothing ==
    ASSUME NEW g, Plain(g), DOMAIN g = {}
    PROVE  g = <<>>
  <1>1. g \in [1..0 -> {}]
    BY DEF Plain
  <1>2. g \in Seq({})
    BY <1>1, SeqDef
  <1>3. Len(g) = 0
    <2>1. Len(g) \in Nat /\ DOMAIN g = 1..Len(g)
      BY <1>2, LenProperties
    <2> QED
      BY <2>1
  <1> QED
    BY <1>2, <1>3, EmptySeq

\* newPort(): a number above all that the node has, and not 0 for a switch.
LEMMA NewPortIs ==
    ASSUME NEW nd, NEW n, NEW lk, NodeShape(nd, n, lk)
    PROVE  /\ NewPort(nd) \in Nat
           /\ nd.kind = "switch" => NewPort(nd) # 0
           /\ \A i \in DOMAIN nd.ports : nd.ports[i] \in Nat /\ nd.ports[i] < NewPort(nd)
  <1>1. Plain(nd.ports)
    BY DEF NodeShape, Maps
  <1>2. CASE nd.ports = <<>>
    <2>1. DOMAIN nd.ports = {}
      BY <1>2
    <2> QED
      BY <1>2, <2>1 DEF NewPort
  <1>3. CASE nd.ports # <<>>
    <2>1. DOMAIN nd.ports # {}
      BY <1>1, <1>3, EmptyIsNothing
    <2>2. PICK bound \in Nat : \A j \in DOMAIN nd.ports : nd.ports[j] \in 0..bound
      BY DEF NodeShape, Maps, Bounded
    <2>3. PICK I : I = Range(nd.ports)
      OBVIOUS
    <2>4. I = {nd.ports[j] : j \in DOMAIN nd.ports}
      BY <2>3 DEF Range
    <2>5. PICK k : k \in I
      BY <2>1, <2>4
    <2>6. I \in SUBSET (0..bound)
      BY <2>2, <2>4
    <2>7. Max(I) \in I /\ \A y \in I : Max(I) >= y
      BY <2>5, <2>6, GreatestIsOne
    <2>8. NewPort(nd) = Max(I) + 1
      BY <1>3, <2>3 DEF NewPort
    <2>9. PICK top \in Nat : top = Max(I)
      <3>1. PICK top : top = Max(I)
        OBVIOUS
      <3>2. top \in I
        BY <2>7, <3>1
      <3>3. top \in 0..bound
        BY <2>6, <3>2
      <3> QED
        BY <3>1, <3>3
    <2>10. \A i \in DOMAIN nd.ports : nd.ports[i] \in 0..bound /\ nd.ports[i] <= top
      BY <2>2, <2>4, <2>7, <2>9
    <2>11. NewPort(nd) = top + 1
      BY <2>8, <2>9
    <2> QED
      BY <2>10, <2>11
  <1> QED
    BY <1>2, <1>3

\* The maps of a node have their shape when there are more links, and as long as the
\* ends of each stay.
LEMMA SameEnds ==
    ASSUME NEW nd, NEW n, NEW lk, NEW more, NodeShape(nd, n, lk),
           \A l \in DOMAIN lk : l \in DOMAIN more /\ more[l].n = lk[l].n /\ more[l].p = lk[l].p
    PROVE  NodeShape(nd, n, more)
  <1>1. PICK intfs, ports : intfs = nd.intfs /\ ports = nd.ports
    OBVIOUS
  <1>2. ASSUME NEW i \in DOMAIN ports \ {Lo}
        PROVE  /\ i = <<i[1], i[2]>> /\ i[1] \in DOMAIN more /\ i[2] \in {1, 2}
               /\ more[i[1]].n[i[2]] = n /\ ports[i] = more[i[1]].p[i[2]]
    <2>1. /\ i = <<i[1], i[2]>> /\ i[1] \in DOMAIN lk /\ i[2] \in {1, 2}
          /\ lk[i[1]].n[i[2]] = n /\ ports[i] = lk[i[1]].p[i[2]]
      BY <1>1 DEF NodeShape, Maps
    <2>2. more[i[1]].n = lk[i[1]].n /\ more[i[1]].p = lk[i[1]].p /\ i[1] \in DOMAIN more
      BY <2>1
    <2> QED
      BY <2>1, <2>2
  <1>3. Maps(intfs, ports, nd.kind, n, more)
    BY <1>1, <1>2 DEF NodeShape, Maps
  <1> QED
    BY <1>1, <1>3 DEF NodeShape

(* Nothing but the ports of one bridge, and it is still there.  *)
LacksPort(w, n, port, r) ==
    /\ r.node = w.node /\ r.link = w.link /\ r.veth = w.veth /\ r.proc = w.proc
    /\ r.raised = w.raised /\ DOMAIN r.bridge = DOMAIN w.bridge
    /\ \A b \in DOMAIN w.bridge :
          r.bridge[b] = IF Runs(w, n) /\ b = w.node[n].name THEN w.bridge[b] \ {port}
                        ELSE w.bridge[b]

\* A command that deletes a port of a bridge.
LEMMA PortDeletedIs ==
    ASSUME NEW w, NEW n, NEW port, Worldly(w), NEW r, r = PortDeleted(w, n, port)
    PROVE  Worldly(r) /\ LacksPort(w, n, port, r)
  <1>1. IsWorld(w) /\ Plain(w.bridge)
    BY DEF Worldly
  <1>2. CASE Runs(w, n) /\ w.node[n].name \in DOMAIN w.bridge
    <2>1. PICK m : m = [w.bridge EXCEPT ![w.node[n].name] = @ \ {port}]
      OBVIOUS
    <2>2. /\ IsWorld(r)
          /\ r.node = w.node /\ r.link = w.link /\ r.veth = w.veth /\ r.proc = w.proc
          /\ r.raised = w.raised /\ r.bridge = m
      BY <1>1, <1>2, <2>1 DEF PortDeleted, IsWorld, WorldFields
    <2>3. /\ DOMAIN m = DOMAIN w.bridge /\ Plain(m)
          /\ \A b \in DOMAIN w.bridge :
                m[b] = IF b = w.node[n].name THEN w.bridge[b] \ {port} ELSE w.bridge[b]
      BY <1>1, <1>2, <2>1 DEF Plain
    <2>4. Worldly(r)
      BY <2>2, <2>3 DEF Worldly
    <2> QED
      BY <1>2, <2>2, <2>3, <2>4 DEF LacksPort
  <1>3. CASE ~(Runs(w, n) /\ w.node[n].name \in DOMAIN w.bridge)
    <2>1. r = w
      BY <1>3 DEF PortDeleted
    <2> QED
      BY <1>3, <2>1 DEF LacksPort
  <1> QED
    BY <1>2, <1>3

\* A switch runs as long as its shell does.
LEMMA SwitchRuns ==
    ASSUME NEW w, NEW r, NEW n, r.node[n].shell = w.node[n].shell, r.node[n].kind = w.node[n].kind,
           r.node[n].name = w.node[n].name, w.node[n].kind = "switch" \/ r.proc = w.proc
    PROVE  Runs(r, n) <=> Runs(w, n)
  BY DEF Runs

\* What Intf.delete() does: see the definition, of which this is the unfolding.
WhatDeletedIntfDoes(w, l, s, n, r) ==
    /\ Shape(r) /\ Same(w, r) /\ r.link = w.link
    /\ \A m \in DOMAIN w.node : m # n => r.node[m] = w.node[m]
    /\ r.raised \in BOOLEAN /\ (r.raised <=> DelIntfRaises(w.node[n], <<l, s>>))
    /\ r.node[n] = IF r.raised THEN w.node[n] ELSE DelIntf(w.node[n], <<l, s>>)
    /\ r.veth = IF Runs(w, n) THEN WithoutEnd(w.veth, End(w, <<l, s>>)) ELSE w.veth
    /\ r.proc = IF Runs(w, n) THEN w.proc \cup {w.node[n].name} ELSE w.proc
    /\ DOMAIN r.bridge = DOMAIN w.bridge
    /\ \A b \in DOMAIN w.bridge :
          r.bridge[b] = IF ~r.raised /\ w.node[n].kind = "switch" /\ Runs(w, n) /\ b = w.node[n].name
                        THEN w.bridge[b] \ {IntfName(w, <<l, s>>)} ELSE w.bridge[b]

\* Intf.delete() of one end of a link, as the record of the world says it.
LEMMA DeletedIntfIs ==
    ASSUME NEW w, Shape(w), w.raised = FALSE, NEW l \in DOMAIN w.link, NEW s \in {1, 2}, <<l, s>> # Lo,
           NEW n, NEW r
    PROVE  n = w.link[l].n[s] /\ r = DeletedIntf(w, <<l, s>>) => WhatDeletedIntfDoes(w, l, s, n, r)
  <1>0. SUFFICES ASSUME n = w.link[l].n[s], r = DeletedIntf(w, <<l, s>>)
                 PROVE  WhatDeletedIntfDoes(w, l, s, n, r)
    OBVIOUS
  <1>1. PICK i : i = <<l, s>>
    OBVIOUS
  <1>2. i[1] = l /\ i[2] = s /\ i # Lo
    BY <1>1
  <1>3. n \in DOMAIN w.node /\ Worldly(w) /\ NodeShape(w.node[n], n, w.link)
    BY <1>0 DEF Shape, LinkShape
  <1>4. PICK cut : cut = PairDeleted(w, n, i)
    OBVIOUS
  <1>5. PICK md : md = DelIntf(w.node[n], i)
    OBVIOUS
  <1>8. /\ IsWorld(cut)
        /\ cut.node = w.node /\ cut.link = w.link /\ cut.bridge = w.bridge /\ cut.raised = w.raised
        /\ cut.proc = IF Runs(w, n) THEN w.proc \cup {w.node[n].name} ELSE w.proc
        /\ cut.veth = IF Runs(w, n) THEN WithoutEnd(w.veth, End(w, i)) ELSE w.veth
    <2>1. PICK woken : woken = Woken(w, n)
      OBVIOUS
    <2>2. /\ Worldly(woken)
          /\ woken.node = w.node /\ woken.link = w.link /\ woken.veth = w.veth
          /\ woken.bridge = w.bridge /\ woken.raised = w.raised
          /\ woken.proc = IF Runs(w, n) THEN w.proc \cup {w.node[n].name} ELSE w.proc
      BY <1>3, <2>1, WokenIs, ZenonT(60)
    <2>3. CASE Runs(w, n)
      <3>1. cut = [woken EXCEPT !.veth = WithoutEnd(@, End(w, i))]
        BY <1>4, <2>1, <2>3 DEF PairDeleted
      <3> QED
        BY <2>2, <2>3, <3>1 DEF Worldly, IsWorld, WorldFields
    <2>4. CASE ~Runs(w, n)
      <3>1. cut = w
        BY <1>4, <2>4 DEF PairDeleted
      <3> QED
        BY <1>3, <2>4, <3>1 DEF Worldly
    <2> QED
      BY <2>3, <2>4
  <1>9. cut.veth \subseteq w.veth
    BY <1>8 DEF WithoutEnd
  <1>10. IsSeq(w.node) /\ Plain(w.bridge)
    BY <1>3 DEF Worldly
  <1>11. CASE DelIntfRaises(w.node[n], i)
    <2>1. r = [cut EXCEPT !.raised = TRUE]
      BY <1>0, <1>1, <1>2, <1>4, <1>11 DEF DeletedIntf
    <2>2. /\ IsWorld(r) /\ r.raised = TRUE
          /\ r.node = cut.node /\ r.link = cut.link /\ r.bridge = cut.bridge /\ r.proc = cut.proc
          /\ r.veth = cut.veth
      BY <1>8, <2>1 DEF IsWorld, WorldFields
    <2>3. Worldly(r)
      BY <1>3, <1>8, <1>9, <1>10, <2>2, FewerPairs
    <2>4. Shape(r) /\ Same(w, r)
      BY <1>8, <2>2, <2>3, ShapeOfMaps
    <2> QED
      BY <1>1, <1>3, <1>8, <1>11, <2>2, <2>4 DEF WhatDeletedIntfDoes
  <1>12. CASE ~DelIntfRaises(w.node[n], i)
    <2>1. PICK forgotten : forgotten = IntfForgotten(cut, n, i)
      OBVIOUS
    <2>2. r = IF w.node[n].kind = "switch" THEN PortDeleted(forgotten, n, IntfName(w, i)) ELSE forgotten
      BY <1>0, <1>1, <1>2, <1>4, <1>12, <2>1 DEF DeletedIntf
    <2>3. /\ IsWorld(forgotten)
          /\ forgotten.node = [w.node EXCEPT ![n] = md] /\ forgotten.raised = w.raised
          /\ forgotten.link = cut.link /\ forgotten.bridge = cut.bridge /\ forgotten.proc = cut.proc
          /\ forgotten.veth = cut.veth
      BY <1>5, <1>8, <2>1 DEF IntfForgotten, IsWorld, WorldFields
    <2>4. /\ IsSeq(forgotten.node) /\ DOMAIN forgotten.node = DOMAIN w.node
          /\ forgotten.node[n] = md
          /\ \A m \in DOMAIN w.node : m # n => forgotten.node[m] = w.node[m]
      <3>1. IsSeq([w.node EXCEPT ![n] = md])
        BY <1>10, ExceptedSeq
      <3> QED
        BY <1>3, <2>3, <3>1
    <2>5. Worldly(forgotten)
      BY <1>3, <1>8, <1>9, <1>10, <2>3, <2>4, FewerPairs
    <2>6. /\ NodeShape(md, n, w.link) /\ Lacks(w.node[n], i, md) /\ md.name = w.node[n].name /\ md.kind = w.node[n].kind
          /\ md.shell = w.node[n].shell
      <3>1. w.node[n].kind = "switch" /\ i \in DOMAIN w.node[n].ports => w.node[n].ports[i] # 0
        <4>1. LinkShape(w, l)
          BY DEF Shape
        <4>2. w.node[n].kind = "switch" => w.link[l].p[s] # 0
          BY <1>0, <4>1 DEF LinkShape
        <4>3. i \in DOMAIN w.node[n].ports => w.node[n].ports[i] = w.link[l].p[s]
          BY <1>2, <1>3 DEF NodeShape, Maps
        <4> QED
          BY <4>2, <4>3
      <3>2. NodeShape(md, n, w.link) /\ Lacks(w.node[n], i, md)
        BY <1>2, <1>3, <1>5, <3>1, DelIntfIs
      <3> QED
        BY <3>2 DEF Lacks
    <2>7. Shape(forgotten) /\ Same(w, forgotten)
      BY <1>3, <1>8, <2>3, <2>4, <2>5, <2>6, NodeChanged
    <2>8. CASE w.node[n].kind = "switch"
      <3>1. r = PortDeleted(forgotten, n, IntfName(w, i))
        BY <2>2, <2>8
      <3>7. Worldly(r) /\ LacksPort(forgotten, n, IntfName(w, i), r)
        BY <2>5, <3>1, PortDeletedIs
      <3>2. /\ Worldly(r)
            /\ r.node = forgotten.node /\ r.link = forgotten.link /\ r.veth = forgotten.veth
            /\ r.proc = forgotten.proc
            /\ r.raised = forgotten.raised /\ DOMAIN r.bridge = DOMAIN forgotten.bridge
            /\ \A b \in DOMAIN forgotten.bridge :
                  r.bridge[b] = IF Runs(forgotten, n) /\ b = forgotten.node[n].name
                                THEN forgotten.bridge[b] \ {IntfName(w, i)} ELSE forgotten.bridge[b]
        BY <3>7 DEF LacksPort
      <3>3. Runs(forgotten, n) <=> Runs(w, n)
        BY <2>4, <2>6, <2>8, SwitchRuns
      <3>4. Shape(r) /\ Same(forgotten, r)
        BY <2>7, <3>2, ShapeOfMaps
      <3>5. Same(w, r)
        BY <2>7, <3>4, SameSame
      <3>6. r.raised = FALSE
        <4>1. r.raised = w.raised
          BY <2>3, <3>2
        <4> QED
          BY <4>1
      <3>8. /\ r.link = w.link /\ \A m \in DOMAIN w.node : m # n => r.node[m] = w.node[m]
            /\ r.node[n] = DelIntf(w.node[n], i)
        BY <1>5, <1>8, <2>3, <2>4, <3>2
      <3>9. /\ r.veth = IF Runs(w, n) THEN WithoutEnd(w.veth, End(w, i)) ELSE w.veth
            /\ r.proc = IF Runs(w, n) THEN w.proc \cup {w.node[n].name} ELSE w.proc
        BY <1>8, <2>3, <3>2
      <3>10. /\ DOMAIN r.bridge = DOMAIN w.bridge
             /\ \A b \in DOMAIN w.bridge :
                   r.bridge[b] = IF Runs(w, n) /\ b = w.node[n].name
                                 THEN w.bridge[b] \ {IntfName(w, i)} ELSE w.bridge[b]
        BY <1>8, <2>3, <2>4, <2>6, <3>2, <3>3
      <3> QED
        BY <1>1, <1>12, <2>8, <3>4, <3>5, <3>6, <3>8, <3>9, <3>10 DEF WhatDeletedIntfDoes
    <2>9. CASE w.node[n].kind # "switch"
      <3>1. r = forgotten
        BY <2>2, <2>9
      <3> QED
        BY <1>1, <1>3, <1>5, <1>8, <1>12, <2>3, <2>4, <2>7, <2>9, <3>1 DEF WhatDeletedIntfDoes
    <2> QED
      BY <2>8, <2>9
  <1> QED
    BY <1>11, <1>12

\* The interface of no link is the loopback one.
LEMMA NotLo ==
    ASSUME NEW w, Shape(w), NEW l \in DOMAIN w.link, NEW s
    PROVE  <<l, s>> # Lo
  <1>1. PICK k \in Nat : w.link = [j \in 1..k |-> w.link[j]]
    BY DEF Shape, Worldly, IsSeq
  <1>2. l \in 1..k
    BY <1>1
  <1> QED
    BY <1>2 DEF Lo

\* DelIntf() of one interface of a node.
LEMMA LacksIt ==
    ASSUME NEW w, Shape(w), NEW l \in DOMAIN w.link, NEW s \in {1, 2}, NEW md
    PROVE  md = DelIntf(w.node[w.link[l].n[s]], <<l, s>>)
              => Lacks(w.node[w.link[l].n[s]], <<l, s>>, md)
  <1>1. PICK n, i : n = w.link[l].n[s] /\ i = <<l, s>>
    OBVIOUS
  <1>2. n \in DOMAIN w.node /\ NodeShape(w.node[n], n, w.link) /\ i # Lo /\ i[1] = l /\ i[2] = s
    BY <1>1, NotLo DEF Shape, LinkShape
  <1>3. w.node[n].kind = "switch" => (i \in DOMAIN w.node[n].ports => w.node[n].ports[i] # 0)
    <2>1. LinkShape(w, l)
      BY DEF Shape
    <2>2. w.node[n].kind = "switch" => w.link[l].p[s] # 0
      BY <1>1, <2>1 DEF LinkShape
    <2>3. i \in DOMAIN w.node[n].ports => w.node[n].ports[i] = w.link[l].p[s]
      BY <1>2 DEF NodeShape, Maps
    <2> QED
      BY <2>2, <2>3
  <1>4. PICK nd : nd = w.node[n]
    OBVIOUS
  <1>5. ASSUME md = DelIntf(nd, i) PROVE Lacks(nd, i, md)
    BY <1>2, <1>3, <1>4, <1>5, DelIntfIs
  <1> QED
    BY <1>1, <1>4, <1>5

(* One end of a link is gone, with its pair, and its port of a bridge.  *)
EndGone(w, l, s, n, r) ==
    /\ \A m \in DOMAIN w.node : m # n => r.node[m] = w.node[m]
    /\ Lacks(w.node[n], <<l, s>>, r.node[n])
    /\ r.veth = IF Runs(w, n) THEN WithoutEnd(w.veth, End(w, <<l, s>>)) ELSE w.veth
    /\ r.proc = IF Runs(w, n) THEN w.proc \cup {w.node[n].name} ELSE w.proc
    /\ DOMAIN r.bridge = DOMAIN w.bridge
    /\ \A b \in DOMAIN w.bridge :
          r.bridge[b] = IF w.node[n].kind = "switch" /\ Runs(w, n) /\ b = w.node[n].name
                        THEN w.bridge[b] \ {IntfName(w, <<l, s>>)} ELSE w.bridge[b]
    /\ \A k \in DOMAIN w.link : k # l => r.link[k] = w.link[k]
    /\ \A t \in {1, 2} : t # s => r.link[l].known[t] = w.link[l].known[t]

\* Intf.delete() of an end as its link knows it.
LEMMA DeletedEndIs ==
    ASSUME NEW w, Shape(w), w.raised = FALSE, NEW l \in DOMAIN w.link, NEW s \in {1, 2},
           NEW n, NEW r
    PROVE  n = w.link[l].n[s] /\ r = DeletedEnd(w, l, s) =>
              /\ Shape(r) /\ Same(w, r) /\ r.raised \in BOOLEAN
              /\ r.raised <=> (~w.link[l].known[s] \/ DelIntfRaises(w.node[n], <<l, s>>))
              /\ ~r.raised => EndGone(w, l, s, n, r)
  <1>0. SUFFICES ASSUME n = w.link[l].n[s], r = DeletedEnd(w, l, s)
                 PROVE  /\ Shape(r) /\ Same(w, r) /\ r.raised \in BOOLEAN
                        /\ r.raised <=> (~w.link[l].known[s] \/ DelIntfRaises(w.node[n], <<l, s>>))
                        /\ ~r.raised => EndGone(w, l, s, n, r)
    OBVIOUS
  <1>1. <<l, s>> # Lo /\ Worldly(w) /\ IsWorld(w) /\ IsSeq(w.node) /\ Plain(w.bridge)
    BY NotLo DEF Shape, Worldly
  <1>2. PICK d : d = DeletedIntf(w, <<l, s>>)
    OBVIOUS
  <1>3. WhatDeletedIntfDoes(w, l, s, n, d)
    BY <1>0, <1>1, <1>2, DeletedIntfIs
  <1>4. w.link[l].known[s] \in BOOLEAN
    BY DEF Shape, LinkShape
  <1>5. CASE ~w.link[l].known[s]
    <2>1. r = [w EXCEPT !.raised = TRUE]
      BY <1>0, <1>5 DEF DeletedEnd
    <2>2. /\ IsWorld(r) /\ r.node = w.node /\ r.link = w.link /\ r.veth = w.veth
          /\ r.bridge = w.bridge /\ r.raised = TRUE
      BY <1>1, <2>1 DEF IsWorld, WorldFields
    <2>3. Worldly(r)
      BY <1>1, <2>2, FewerPairs
    <2>4. Shape(r) /\ Same(w, r)
      BY <2>2, <2>3, ShapeOfMaps
    <2> QED
      BY <1>5, <2>2, <2>4
  <1>6. CASE w.link[l].known[s] /\ d.raised
    <2>1. r = d
      BY <1>0, <1>2, <1>6 DEF DeletedEnd
    <2> QED
      BY <1>3, <1>6, <2>1 DEF WhatDeletedIntfDoes
  <1>7. CASE w.link[l].known[s] /\ ~d.raised
    <2>1. r = [d EXCEPT !.link[l].known[s] = FALSE]
      BY <1>0, <1>2, <1>7 DEF DeletedEnd
    <2>2. /\ Shape(d) /\ Same(w, d) /\ d.link = w.link /\ d.raised = FALSE /\ Worldly(d) /\ IsWorld(d)
          /\ IsSeq(d.link)
      BY <1>3, <1>7 DEF WhatDeletedIntfDoes, Shape, Worldly
    <2>3. PICK lk : lk = [d.link[l] EXCEPT !.known[s] = FALSE]
      OBVIOUS
    <2>4. /\ IsWorld(r) /\ r.node = d.node /\ r.link = [d.link EXCEPT ![l] = lk] /\ r.veth = d.veth
          /\ r.bridge = d.bridge /\ r.raised = d.raised /\ r.proc = d.proc
      BY <2>1, <2>2, <2>3 DEF IsWorld, WorldFields
    <2>5. /\ LinkShape(d, l) /\ IsLink(d.link[l])
      BY <2>2 DEF Shape, LinkShape
    <2>6. /\ IsLink(lk) /\ lk.n = d.link[l].n /\ lk.p = d.link[l].p
          /\ lk.known[s] = FALSE /\ \A t \in {1, 2} : t # s => lk.known[t] = d.link[l].known[t]
      BY <2>3, <2>5 DEF IsLink, LinkFields
    <2>7. /\ IsSeq(r.link) /\ DOMAIN r.link = DOMAIN d.link /\ r.link[l] = lk
          /\ \A k \in DOMAIN d.link : k # l => r.link[k] = d.link[k]
      <3>1. IsSeq([d.link EXCEPT ![l] = lk])
        BY <2>2, ExceptedSeq
      <3> QED
        BY <2>2, <2>4, <3>1
    <2>8. Same(d, r)
      BY <2>4, <2>6, <2>7 DEF Same
    <2>9. Worldly(r)
      BY <2>2, <2>4, <2>7 DEF Worldly
    <2>10. ASSUME NEW m \in DOMAIN d.node PROVE NodeShape(r.node[m], m, r.link)
      <3>1. NodeShape(d.node[m], m, d.link)
        BY <2>2 DEF Shape
      <3>2. \A k \in DOMAIN d.link : r.link[k].n = d.link[k].n /\ r.link[k].p = d.link[k].p
        BY <2>6, <2>7
      <3> QED
        BY <2>4, <2>7, <3>1, <3>2, SameEnds
    <2>11. ASSUME NEW k \in DOMAIN d.link PROVE LinkShape(r, k)
      <3>1. LinkShape(d, k)
        BY <2>2 DEF Shape
      <3>2. CASE k = l
        <4>1. \A t \in {1, 2} : lk.known[t] \in BOOLEAN
          BY <2>5, <2>6 DEF LinkShape
        <4> QED
          BY <2>4, <2>6, <2>7, <3>1, <3>2, <4>1 DEF LinkShape
      <3>3. CASE k # l
        BY <2>4, <2>7, <3>1, <3>3 DEF LinkShape
      <3> QED
        BY <3>2, <3>3
    <2>12. Shape(r)
      BY <2>4, <2>7, <2>9, <2>10, <2>11 DEF Shape
    <2>13. Same(w, r)
      BY <2>2, <2>8, SameSame
    <2>14. PICK nd, md : nd = w.node[n] /\ md = d.node[n] /\ md = DelIntf(nd, <<l, s>>)
      BY <1>3, <1>7 DEF WhatDeletedIntfDoes
    <2>15. Lacks(nd, <<l, s>>, md)
      BY <1>0, <2>14, LacksIt
    <2>16. EndGone(w, l, s, n, r)
      <3>1. /\ \A k \in DOMAIN w.link : k # l => r.link[k] = w.link[k]
            /\ \A t \in {1, 2} : t # s => r.link[l].known[t] = w.link[l].known[t]
        BY <2>2, <2>6, <2>7
      <3>2. /\ \A m \in DOMAIN w.node : m # n => r.node[m] = w.node[m]
            /\ Lacks(w.node[n], <<l, s>>, r.node[n])
        BY <1>3, <2>4, <2>14, <2>15 DEF WhatDeletedIntfDoes
      <3>3. /\ r.veth = IF Runs(w, n) THEN WithoutEnd(w.veth, End(w, <<l, s>>)) ELSE w.veth
            /\ r.proc = IF Runs(w, n) THEN w.proc \cup {w.node[n].name} ELSE w.proc
            /\ DOMAIN r.bridge = DOMAIN w.bridge
        BY <1>3, <2>4 DEF WhatDeletedIntfDoes
      <3>4. \A b \in DOMAIN w.bridge :
               r.bridge[b] = IF w.node[n].kind = "switch" /\ Runs(w, n) /\ b = w.node[n].name
                             THEN w.bridge[b] \ {IntfName(w, <<l, s>>)} ELSE w.bridge[b]
        BY <1>3, <1>7, <2>4 DEF WhatDeletedIntfDoes
      <3> QED
        BY <3>1, <3>2, <3>3, <3>4 DEF EndGone
    <2> QED
      BY <1>3, <1>7, <2>2, <2>4, <2>12, <2>13, <2>16 DEF WhatDeletedIntfDoes
  <1> QED
    BY <1>3, <1>4, <1>5, <1>6, <1>7 DEF WhatDeletedIntfDoes

(* Both ends of a link are gone.  *)
PairsLeft(w, l, r) ==
    \A v : v \in r.veth <=>
              v \in w.veth /\ \A s \in {1, 2} : Runs(w, w.link[l].n[s]) => End(w, <<l, s>>) \notin v
Wakes(w, l, r) ==
    \A x : x \in r.proc <=>
              x \in w.proc \/ \E s \in {1, 2} : Runs(w, w.link[l].n[s]) /\ x = w.node[w.link[l].n[s]].name
PortsLeft(w, l, r) ==
    \A b \in DOMAIN w.bridge : \A x :
        x \in r.bridge[b] <=>
           /\ x \in w.bridge[b]
           /\ \A s \in {1, 2} : ~(/\ w.node[w.link[l].n[s]].kind = "switch" /\ Runs(w, w.link[l].n[s])
                                  /\ b = w.node[w.link[l].n[s]].name /\ x = IntfName(w, <<l, s>>))
LinkGone(w, l, r) ==
    /\ \A m \in DOMAIN w.node : m \notin {w.link[l].n[1], w.link[l].n[2]} => r.node[m] = w.node[m]
    /\ \A s \in {1, 2} : Lacks(w.node[w.link[l].n[s]], <<l, s>>, r.node[w.link[l].n[s]])
    /\ PairsLeft(w, l, r) /\ Wakes(w, l, r)
    /\ DOMAIN r.bridge = DOMAIN w.bridge /\ PortsLeft(w, l, r)
    /\ \A k \in DOMAIN w.link : k # l => r.link[k] = w.link[k]

\* Link.delete(): both ends, unless an exception is raised; it is not if the link knows
\* its ends and the maps of both nodes agree.
LEMMA DeletedLinkIs ==
    ASSUME NEW w, Shape(w), w.raised = FALSE, NEW l \in DOMAIN w.link, NEW r
    PROVE  r = DeletedLink(w, l) =>
              /\ Shape(r) /\ Same(w, r) /\ r.raised \in BOOLEAN
              /\ (\A s \in {1, 2} : w.link[l].known[s] /\ ~DelIntfRaises(w.node[w.link[l].n[s]], <<l, s>>))
                    => ~r.raised
              /\ ~r.raised => LinkGone(w, l, r)
  <1>0. SUFFICES ASSUME r = DeletedLink(w, l)
                 PROVE  /\ Shape(r) /\ Same(w, r) /\ r.raised \in BOOLEAN
                        /\ (\A s \in {1, 2} : /\ w.link[l].known[s]
                                              /\ ~DelIntfRaises(w.node[w.link[l].n[s]], <<l, s>>))
                              => ~r.raised
                        /\ ~r.raised => LinkGone(w, l, r)
    OBVIOUS
  <1>1. PICK d, a, b : /\ d = DeletedEnd(w, l, 1) /\ a = w.link[l].n[1] /\ b = w.link[l].n[2]
    OBVIOUS
  <1>2. r = DeletedEnd(d, l, 2)
    BY <1>0, <1>1 DEF DeletedLink
  <1>3. /\ Shape(d) /\ Same(w, d) /\ d.raised \in BOOLEAN
        /\ d.raised <=> (~w.link[l].known[1] \/ DelIntfRaises(w.node[a], <<l, 1>>))
        /\ ~d.raised => EndGone(w, l, 1, a, d)
    <2>1. 1 \in {1, 2}
      OBVIOUS
    <2> QED
      BY <1>1, <2>1, DeletedEndIs
  <1>4. a \in DOMAIN w.node /\ b \in DOMAIN w.node /\ a # b /\ w.node[a].name # w.node[b].name
    BY <1>1 DEF Shape, LinkShape
  <1>5. CASE d.raised
    <2>1. r = d
      BY <1>2, <1>5 DEF DeletedEnd
    <2> QED
      BY <1>1, <1>3, <1>5, <2>1
  <1>6. CASE ~d.raised
    <2>1. EndGone(w, l, 1, a, d) /\ d.raised = FALSE
      BY <1>3, <1>6
    <2>2. l \in DOMAIN d.link /\ b = d.link[l].n[2] /\ 2 \in {1, 2}
      BY <1>1, <1>3 DEF Same
    <2>3. /\ Shape(r) /\ Same(d, r) /\ r.raised \in BOOLEAN
          /\ r.raised <=> (~d.link[l].known[2] \/ DelIntfRaises(d.node[b], <<l, 2>>))
          /\ ~r.raised => EndGone(d, l, 2, b, r)
      BY <1>2, <1>3, <2>1, <2>2, DeletedEndIs
    <2>4. Same(w, r)
      BY <1>3, <2>3, SameSame
    <2>5. d.node[b] = w.node[b] /\ d.link[l].known[2] = w.link[l].known[2]
      BY <1>4, <2>1 DEF EndGone
    <2>6. r.raised <=> (~w.link[l].known[2] \/ DelIntfRaises(w.node[b], <<l, 2>>))
      BY <2>3, <2>5
    <2>7. Runs(d, b) <=> Runs(w, b)
      BY <1>4, <2>1, <2>5 DEF EndGone, Runs
    <2>8. IntfName(d, <<l, 2>>) = IntfName(w, <<l, 2>>) /\ End(d, <<l, 2>>) = End(w, <<l, 2>>)
      BY <1>3, <2>2, SameNames
    <2>9. ASSUME ~r.raised PROVE LinkGone(w, l, r)
      <3>1. EndGone(d, l, 2, b, r)
        BY <2>3, <2>9
      <3>2. \A m \in DOMAIN w.node : m \notin {a, b} => r.node[m] = w.node[m]
        BY <1>3, <2>1, <3>1 DEF EndGone, Same
      <3>3. Lacks(w.node[a], <<l, 1>>, r.node[a]) /\ Lacks(w.node[b], <<l, 2>>, r.node[b])
        BY <1>3, <1>4, <2>1, <2>5, <3>1 DEF EndGone, Same
      <3>4. ASSUME NEW v
            PROVE  v \in r.veth <=> /\ v \in w.veth /\ (Runs(w, a) => End(w, <<l, 1>>) \notin v)
                                    /\ (Runs(w, b) => End(w, <<l, 2>>) \notin v)
        BY <2>1, <2>7, <2>8, <3>1 DEF EndGone, WithoutEnd
      <3>5. ASSUME NEW x
            PROVE  x \in r.proc <=> \/ x \in w.proc \/ (Runs(w, a) /\ x = w.node[a].name)
                                    \/ (Runs(w, b) /\ x = w.node[b].name)
        BY <2>1, <2>5, <2>7, <3>1 DEF EndGone
      <3>6. /\ DOMAIN r.bridge = DOMAIN w.bridge /\ DOMAIN d.bridge = DOMAIN w.bridge
            /\ \A k \in DOMAIN w.link : k # l => r.link[k] = w.link[k]
        BY <1>3, <2>1, <3>1 DEF EndGone, Same
      <3>7. ASSUME NEW c \in DOMAIN w.bridge, NEW x
            PROVE  x \in r.bridge[c] <=>
                      /\ x \in w.bridge[c]
                      /\ ~(/\ w.node[a].kind = "switch" /\ Runs(w, a)
                           /\ c = w.node[a].name /\ x = IntfName(w, <<l, 1>>))
                      /\ ~(/\ w.node[b].kind = "switch" /\ Runs(w, b)
                           /\ c = w.node[b].name /\ x = IntfName(w, <<l, 2>>))
        <4>1. d.bridge[c] = IF w.node[a].kind = "switch" /\ Runs(w, a) /\ c = w.node[a].name
                            THEN w.bridge[c] \ {IntfName(w, <<l, 1>>)} ELSE w.bridge[c]
          BY <2>1 DEF EndGone
        <4>2. r.bridge[c] = IF w.node[b].kind = "switch" /\ Runs(w, b) /\ c = w.node[b].name
                            THEN d.bridge[c] \ {IntfName(w, <<l, 2>>)} ELSE d.bridge[c]
          BY <2>5, <2>7, <2>8, <3>1, <3>6 DEF EndGone
        <4> QED
          BY <4>1, <4>2
      <3>8. \A s \in {1, 2} : Lacks(w.node[w.link[l].n[s]], <<l, s>>, r.node[w.link[l].n[s]])
        BY <1>1, <3>3
      <3>9. PairsLeft(w, l, r)
        <4> SUFFICES ASSUME NEW v
                     PROVE  v \in r.veth <=> /\ v \in w.veth
                                             /\ \A s \in {1, 2} : Runs(w, w.link[l].n[s])
                                                                      => End(w, <<l, s>>) \notin v
          BY DEF PairsLeft
        <4> QED
          BY <1>1, <3>4
      <3>10. Wakes(w, l, r)
        <4> SUFFICES ASSUME NEW x
                     PROVE  x \in r.proc <=>
                               x \in w.proc \/ \E s \in {1, 2} : /\ Runs(w, w.link[l].n[s])
                                                                /\ x = w.node[w.link[l].n[s]].name
          BY DEF Wakes
        <4> QED
          BY <1>1, <3>5
      <3>11. PortsLeft(w, l, r)
        <4> SUFFICES ASSUME NEW c \in DOMAIN w.bridge, NEW x
                     PROVE  x \in r.bridge[c] <=>
                       /\ x \in w.bridge[c]
                       /\ \A s \in {1, 2} : ~(/\ w.node[w.link[l].n[s]].kind = "switch"
                                              /\ Runs(w, w.link[l].n[s])
                                              /\ c = w.node[w.link[l].n[s]].name /\ x = IntfName(w, <<l, s>>))
          BY DEF PortsLeft
        <4> QED
          BY <1>1, <3>7
      <3>12. \A m \in DOMAIN w.node : m \notin {w.link[l].n[1], w.link[l].n[2]} => r.node[m] = w.node[m]
        BY <1>1, <3>2
      <3> QED
        BY <3>6, <3>8, <3>9, <3>10, <3>11, <3>12 DEF LinkGone
    <2> QED
      BY <1>1, <2>3, <2>4, <2>6, <2>9
  <1> QED
    BY <1>3, <1>5, <1>6

(* Some interfaces of a node are gone, and all that belongs to them.  *)
OwnIntfs(w, n) == Range(w.node[n].intfs) \ {Lo}
PairsBut(w, n, I, x) ==
    \A v : v \in x.veth <=> v \in w.veth /\ (Runs(w, n) => \A i \in I : End(w, i) \notin v)
ProcBut(w, n, I, x) ==
    \A p : p \in x.proc <=> p \in w.proc \/ (I # {} /\ Runs(w, n) /\ p = w.node[n].name)
Left(nd, I, md) ==
    /\ md.name = nd.name /\ md.kind = nd.kind /\ md.ip = nd.ip /\ md.shell = nd.shell
    /\ \A i \in DOMAIN md.ports : i \in DOMAIN nd.ports \ I /\ md.ports[i] = nd.ports[i]
    /\ \A p \in DOMAIN md.intfs : p \in DOMAIN nd.intfs /\ md.intfs[p] = nd.intfs[p] /\ nd.intfs[p] \notin I
    /\ \A p \in DOMAIN nd.intfs : nd.intfs[p] \notin I => p \in DOMAIN md.intfs
Swept(w, n, I, x) ==
    /\ Shape(x) /\ Same(w, x) /\ x.link = w.link /\ x.raised = FALSE
    /\ \A m \in DOMAIN w.node : m # n => x.node[m] = w.node[m]
    /\ Left(w.node[n], I, x.node[n])
    /\ PairsBut(w, n, I, x) /\ ProcBut(w, n, I, x)
    /\ DOMAIN x.bridge = DOMAIN w.bridge
    /\ \A b \in DOMAIN w.bridge : b # w.node[n].name => x.bridge[b] = w.bridge[b]

\* Nothing is gone at first.
LEMMA SweptNothing ==
    ASSUME NEW w, Shape(w), w.raised = FALSE, NEW n \in DOMAIN w.node
    PROVE  Swept(w, n, {}, w)
  <1>1. PICK nd, I : nd = w.node[n] /\ I = {}
    OBVIOUS
  <1>2. Left(nd, I, nd)
    BY <1>1 DEF Left
  <1>3. PairsBut(w, n, I, w) /\ ProcBut(w, n, I, w)
    BY <1>1 DEF PairsBut, ProcBut
  <1>4. Same(w, w)
    BY DEF Same
  <1>5. Swept(w, n, I, w)
    BY <1>1, <1>2, <1>3, <1>4 DEF Swept
  <1> QED
    BY <1>1, <1>5

\* An interface of a node, as its maps tell.
LEMMA OwnIntf ==
    ASSUME NEW w, Shape(w), NEW n \in DOMAIN w.node, NEW i \in OwnIntfs(w, n)
    PROVE  /\ i = <<i[1], i[2]>> /\ i[1] \in DOMAIN w.link /\ i[2] \in {1, 2} /\ i # Lo
           /\ w.link[i[1]].n[i[2]] = n /\ i \in DOMAIN w.node[n].ports
           /\ w.node[n].ports[i] \in DOMAIN w.node[n].intfs
           /\ w.node[n].intfs[w.node[n].ports[i]] = i
           /\ w.node[n].ports[i] = w.link[i[1]].p[i[2]]
  <1>1. PICK nd : nd = w.node[n] /\ NodeShape(nd, n, w.link)
    BY DEF Shape
  <1>2. PICK p \in DOMAIN nd.intfs : nd.intfs[p] = i /\ i # Lo
    BY <1>1 DEF OwnIntfs, Range
  <1>3. i \in DOMAIN nd.ports /\ nd.ports[i] = p
    BY <1>1, <1>2 DEF NodeShape, Maps
  <1>4. /\ i = <<i[1], i[2]>> /\ i[1] \in DOMAIN w.link /\ i[2] \in {1, 2}
        /\ w.link[i[1]].n[i[2]] = n /\ nd.ports[i] = w.link[i[1]].p[i[2]]
    BY <1>1, <1>2, <1>3 DEF NodeShape, Maps
  <1> QED
    BY <1>1, <1>2, <1>3, <1>4

\* One interface more.
LEMMA SweptOne ==
    ASSUME NEW w, Shape(w), NEW n \in DOMAIN w.node, NEW I, I \subseteq OwnIntfs(w, n),
           NEW x, Swept(w, n, I, x), NEW i \in OwnIntfs(w, n), i \notin I, NEW y
    PROVE  y = DeletedIntf(x, i) => Swept(w, n, I \cup {i}, y)
  <1>0. SUFFICES ASSUME y = DeletedIntf(x, i) PROVE Swept(w, n, I \cup {i}, y)
    OBVIOUS
  <1>1. /\ Shape(x) /\ Same(w, x) /\ x.link = w.link /\ x.raised = FALSE
        /\ \A m \in DOMAIN w.node : m # n => x.node[m] = w.node[m]
        /\ Left(w.node[n], I, x.node[n])
        /\ PairsBut(w, n, I, x) /\ ProcBut(w, n, I, x)
        /\ DOMAIN x.bridge = DOMAIN w.bridge
        /\ \A b \in DOMAIN w.bridge : b # w.node[n].name => x.bridge[b] = w.bridge[b]
    BY DEF Swept
  <1>2. PICK l \in DOMAIN x.link, s \in {1, 2} : i = <<l, s>> /\ x.link[l].n[s] = n /\ i # Lo
    BY <1>1, OwnIntf
  <1>3. WhatDeletedIntfDoes(x, l, s, n, y)
    <2>1. y = DeletedIntf(x, <<l, s>>) /\ n = x.link[l].n[s] /\ <<l, s>> # Lo
      BY <1>0, <1>2
    <2> QED
      BY <1>1, <2>1, DeletedIntfIs
  <1>4. PICK p, nd, md, xd : /\ p = w.node[n].ports[i] /\ nd = w.node[n] /\ xd = x.node[n] /\ md = y.node[n]
    OBVIOUS
  <1>5. p \in DOMAIN nd.intfs /\ nd.intfs[p] = i /\ i \in DOMAIN nd.ports
    BY <1>4, OwnIntf
  <1>6. ~DelIntfRaises(xd, i)
    <2>1. ASSUME i \in DOMAIN xd.ports PROVE xd.ports[i] \in DOMAIN xd.intfs
      <3>1. xd.ports[i] = p
        BY <1>1, <1>4, <2>1 DEF Left
      <3>2. p \in DOMAIN xd.intfs
        BY <1>1, <1>4, <1>5 DEF Left
      <3> QED
        BY <3>1, <3>2
    <2> QED
      BY <2>1 DEF DelIntfRaises
  <1>7. y.raised = FALSE /\ md = DelIntf(xd, i)
    BY <1>2, <1>3, <1>4, <1>6 DEF WhatDeletedIntfDoes
  <1>8. Lacks(xd, i, md)
    <2>1. md = DelIntf(x.node[x.link[l].n[s]], <<l, s>>)
      BY <1>2, <1>4, <1>7
    <2>2. Lacks(x.node[x.link[l].n[s]], <<l, s>>, md)
      BY <1>1, <2>1, LacksIt
    <2> QED
      BY <1>2, <1>4, <2>2
  <1>9. Left(nd, I \cup {i}, md)
    <2>1. Left(nd, I, xd)
      BY <1>1, <1>4
    <2>2. p \in DOMAIN xd.intfs /\ xd.intfs[p] = i
      BY <1>5, <2>1 DEF Left
    <2>3. i \in DOMAIN xd.ports /\ xd.ports[i] = p
      <3>1. NodeShape(xd, n, x.link)
        BY <1>1, <1>4 DEF Shape, Same
      <3> QED
        BY <2>2, <3>1 DEF NodeShape, Maps
    <2>4. \A j \in DOMAIN md.ports : j \in DOMAIN nd.ports \ (I \cup {i}) /\ md.ports[j] = nd.ports[j]
      BY <1>8, <2>1 DEF Left, Lacks
    <2>5. ASSUME NEW q \in DOMAIN md.intfs
          PROVE  q \in DOMAIN nd.intfs /\ md.intfs[q] = nd.intfs[q] /\ nd.intfs[q] \notin I \cup {i}
      <3>1. q \in DOMAIN xd.intfs /\ q # p /\ md.intfs[q] = xd.intfs[q]
        BY <1>8, <2>3, <2>5 DEF Lacks
      <3>2. q \in DOMAIN nd.intfs /\ xd.intfs[q] = nd.intfs[q] /\ nd.intfs[q] \notin I
        BY <2>1, <3>1 DEF Left
      <3>3. nd.intfs[q] # i
        <4>1. NodeShape(nd, n, w.link)
          BY <1>4 DEF Shape
        <4> QED
          BY <1>4, <3>1, <3>2, <4>1 DEF NodeShape, Maps
      <3> QED
        BY <3>1, <3>2, <3>3
    <2>6. ASSUME NEW q \in DOMAIN nd.intfs, nd.intfs[q] \notin I \cup {i}
          PROVE  q \in DOMAIN md.intfs
      <3>1. q \in DOMAIN xd.intfs /\ q # p
        BY <1>5, <2>1, <2>6 DEF Left
      <3> QED
        BY <1>8, <2>3, <3>1 DEF Lacks
    <2>7. md.name = nd.name /\ md.kind = nd.kind /\ md.ip = nd.ip /\ md.shell = nd.shell
      BY <1>8, <2>1 DEF Left, Lacks
    <2> QED
      BY <2>4, <2>5, <2>6, <2>7 DEF Left
  <1>10. x.node[n].name = w.node[n].name /\ x.node[n].kind = w.node[n].kind /\ x.node[n].shell = w.node[n].shell
    BY <1>1 DEF Left
  <1>11. Runs(x, n) <=> Runs(w, n)
    BY <1>1, <1>10 DEF Runs, ProcBut
  <1>12. End(x, i) = End(w, i) /\ IntfName(x, i) = IntfName(w, i)
    <2>1. l \in DOMAIN w.link
      BY <1>1, <1>2
    <2>2. Shape(w) /\ Same(w, x) /\ l \in DOMAIN w.link /\ s \in {1, 2}
      BY <1>1, <2>1
    <2>3. IntfName(x, <<l, s>>) = IntfName(w, <<l, s>>) /\ End(x, <<l, s>>) = End(w, <<l, s>>)
      BY <2>2, SameNames
    <2> QED
      BY <1>2, <2>3
  <1>13. PairsBut(w, n, I \cup {i}, y)
    <2> SUFFICES ASSUME NEW v
                 PROVE  v \in y.veth <=> /\ v \in w.veth
                                         /\ Runs(w, n) => \A j \in I \cup {i} : End(w, j) \notin v
      BY DEF PairsBut
    <2>1. v \in y.veth <=> v \in x.veth /\ (Runs(w, n) => End(w, i) \notin v)
      BY <1>2, <1>3, <1>11, <1>12 DEF WhatDeletedIntfDoes, WithoutEnd
    <2>2. v \in x.veth <=> v \in w.veth /\ (Runs(w, n) => \A j \in I : End(w, j) \notin v)
      BY <1>1 DEF PairsBut
    <2> QED
      BY <2>1, <2>2
  <1>14. ProcBut(w, n, I \cup {i}, y)
    <2> SUFFICES ASSUME NEW q
                 PROVE  q \in y.proc <=>
                           q \in w.proc \/ (I \cup {i} # {} /\ Runs(w, n) /\ q = w.node[n].name)
      BY DEF ProcBut
    <2>1. q \in y.proc <=> q \in x.proc \/ (Runs(w, n) /\ q = w.node[n].name)
      BY <1>3, <1>10, <1>11 DEF WhatDeletedIntfDoes
    <2>2. q \in x.proc <=> q \in w.proc \/ (I # {} /\ Runs(w, n) /\ q = w.node[n].name)
      BY <1>1 DEF ProcBut
    <2> QED
      BY <2>1, <2>2
  <1>15. /\ DOMAIN y.bridge = DOMAIN w.bridge
         /\ \A b \in DOMAIN w.bridge : b # w.node[n].name => y.bridge[b] = w.bridge[b]
    BY <1>1, <1>3, <1>10 DEF WhatDeletedIntfDoes
  <1>16. /\ Shape(y) /\ y.link = w.link /\ \A m \in DOMAIN w.node : m # n => y.node[m] = w.node[m]
    BY <1>1, <1>3 DEF WhatDeletedIntfDoes, Same
  <1>17. Same(w, y)
    <2>1. Same(x, y)
      BY <1>3 DEF WhatDeletedIntfDoes
    <2> QED
      BY <1>1, <2>1, SameSame
  <1> QED
    BY <1>4, <1>7, <1>9, <1>13, <1>14, <1>15, <1>16, <1>17 DEF Swept

\* after[k] is what the first k deletions make of w.
IsSweep(after, w, order, m) ==
    after = [k \in 0..m |-> IF k = 0 THEN w ELSE DeletedIntf(after[k - 1], order[k])]

\* Every list of interfaces can be deleted.
LEMMA SweepExists ==
    ASSUME NEW w, NEW order, NEW N \in Nat
    PROVE  \E after : IsSweep(after, w, order, N)
  <1> DEFINE T == {m \in 0..N : \E after : IsSweep(after, w, order, m)}
  <1>1. 0 \in T
    <2> DEFINE r == [k \in 0..0 |-> w]
    <2>1. IsSweep(r, w, order, 0)
      BY DEF IsSweep
    <2> QED
      BY <2>1
  <1>2. ASSUME NEW m \in Nat, m < N, m \in T
        PROVE  m + 1 \in T
    <2>1. PICK after : IsSweep(after, w, order, m)
      BY <1>2
    <2> DEFINE r == [k \in 0..(m + 1) |-> IF k = m + 1 THEN DeletedIntf(after[m], order[m + 1]) ELSE after[k]]
    <2>2. \A k \in 0..(m + 1) : r[k] = IF k = 0 THEN w ELSE DeletedIntf(r[k - 1], order[k])
      <3> SUFFICES ASSUME NEW k \in 0..(m + 1)
                   PROVE  r[k] = IF k = 0 THEN w ELSE DeletedIntf(r[k - 1], order[k])
        OBVIOUS
      <3>1. CASE k = m + 1
        <4>1. r[k] = DeletedIntf(after[m], order[k]) /\ k # 0 /\ k - 1 = m /\ r[m] = after[m]
          BY <3>1
        <4> QED
          BY <4>1
      <3>2. CASE k \in 0..m
        <4>1. r[k] = after[k] /\ (k # 0 => k - 1 \in 0..m /\ r[k - 1] = after[k - 1])
          BY <3>2
        <4>2. after[k] = IF k = 0 THEN w ELSE DeletedIntf(after[k - 1], order[k])
          BY <2>1, <3>2 DEF IsSweep
        <4> QED
          BY <4>1, <4>2
      <3> QED
        BY <3>1, <3>2
    <2>3. IsSweep(r, w, order, m + 1)
      BY <2>2 DEF IsSweep
    <2> QED
      BY <1>2, <2>3
  <1>3. \A m \in 0..N : m \in T
    <2> HIDE DEF T
    <2> QED
      BY <1>1, <1>2, UpTo
  <1> QED
    BY <1>3

\* DeletedIntfs() is the last of one.
LEMMA SweepRuns ==
    ASSUME NEW w, NEW order, NEW N \in Nat, Len(order) = N
    PROVE  \E after : /\ DeletedIntfs(w, order) = after[N] /\ after[0] = w
                      /\ \A k \in 1..N : after[k] = DeletedIntf(after[k - 1], order[k])
  <1> DEFINE that == CHOOSE that : IsSweep(that, w, order, Len(order))
  <1>1. IsSweep(that, w, order, Len(order))
    BY SweepExists
  <1>2. DeletedIntfs(w, order) = that[Len(order)]
    BY DEF DeletedIntfs, IsSweep
  <1> HIDE DEF that
  <1>3. that[0] = w
    BY <1>1 DEF IsSweep
  <1>4. ASSUME NEW k \in 1..N PROVE that[k] = DeletedIntf(that[k - 1], order[k])
    <2>1. k \in 0..Len(order) /\ k # 0
      OBVIOUS
    <2> QED
      BY <1>1, <2>1 DEF IsSweep
  <1> QED
    BY <1>2, <1>3, <1>4

\* after[k] is what the end of the first k nodes makes of w.
IsEnding(after, w, order, m) ==
    after = [k \in 0..m |-> IF k = 0 THEN w ELSE Terminated(after[k - 1], order[k])]

\* Every list of nodes can be ended.
LEMMA EndingExists ==
    ASSUME NEW w, NEW order, NEW N \in Nat
    PROVE  \E after : IsEnding(after, w, order, N)
  <1> DEFINE T == {m \in 0..N : \E after : IsEnding(after, w, order, m)}
  <1>1. 0 \in T
    <2> DEFINE r == [k \in 0..0 |-> w]
    <2>1. IsEnding(r, w, order, 0)
      BY DEF IsEnding
    <2> QED
      BY <2>1
  <1>2. ASSUME NEW m \in Nat, m < N, m \in T
        PROVE  m + 1 \in T
    <2>1. PICK after : IsEnding(after, w, order, m)
      BY <1>2
    <2> DEFINE r == [k \in 0..(m + 1) |-> IF k = m + 1 THEN Terminated(after[m], order[m + 1]) ELSE after[k]]
    <2>2. \A k \in 0..(m + 1) : r[k] = IF k = 0 THEN w ELSE Terminated(r[k - 1], order[k])
      <3> SUFFICES ASSUME NEW k \in 0..(m + 1)
                   PROVE  r[k] = IF k = 0 THEN w ELSE Terminated(r[k - 1], order[k])
        OBVIOUS
      <3>1. CASE k = m + 1
        <4>1. r[k] = Terminated(after[m], order[k]) /\ k # 0 /\ k - 1 = m /\ r[m] = after[m]
          BY <3>1
        <4> QED
          BY <4>1
      <3>2. CASE k \in 0..m
        <4>1. r[k] = after[k] /\ (k # 0 => k - 1 \in 0..m /\ r[k - 1] = after[k - 1])
          BY <3>2
        <4>2. after[k] = IF k = 0 THEN w ELSE Terminated(after[k - 1], order[k])
          BY <2>1, <3>2 DEF IsEnding
        <4> QED
          BY <4>1, <4>2
      <3> QED
        BY <3>1, <3>2
    <2>3. IsEnding(r, w, order, m + 1)
      BY <2>2 DEF IsEnding
    <2> QED
      BY <1>2, <2>3
  <1>3. \A m \in 0..N : m \in T
    <2> HIDE DEF T
    <2> QED
      BY <1>1, <1>2, UpTo
  <1> QED
    BY <1>3

\* AllTerminated() is the last of one.
LEMMA EndingRuns ==
    ASSUME NEW w, NEW order, NEW N \in Nat, Len(order) = N
    PROVE  \E after : /\ AllTerminated(w, order) = after[N] /\ after[0] = w
                      /\ \A k \in 1..N : after[k] = Terminated(after[k - 1], order[k])
  <1> DEFINE that == CHOOSE that : IsEnding(that, w, order, Len(order))
  <1>1. IsEnding(that, w, order, Len(order))
    BY EndingExists
  <1>2. AllTerminated(w, order) = that[Len(order)]
    BY DEF AllTerminated, IsEnding
  <1> HIDE DEF that
  <1>3. that[0] = w
    BY <1>1 DEF IsEnding
  <1>4. ASSUME NEW k \in 1..N PROVE that[k] = Terminated(that[k - 1], order[k])
    <2>1. k \in 0..Len(order) /\ k # 0
      OBVIOUS
    <2> QED
      BY <1>1, <2>1 DEF IsEnding
  <1> QED
    BY <1>2, <1>3, <1>4

First(order, m) == {order[k] : k \in 1..m}

\* Every interface of a list, once each.
LEMMA SweptAll ==
    ASSUME NEW w, Shape(w), w.raised = FALSE, NEW n \in DOMAIN w.node,
           NEW order, NEW N \in Nat, Len(order) = N,
           \A k \in 1..N : order[k] \in OwnIntfs(w, n),
           \A j, k \in 1..N : order[j] = order[k] => j = k
    PROVE  Swept(w, n, First(order, N), DeletedIntfs(w, order))
  <1>1. PICK after : /\ DeletedIntfs(w, order) = after[N] /\ after[0] = w
                     /\ \A k \in 1..N : after[k] = DeletedIntf(after[k - 1], order[k])
    BY SweepRuns
  <1> DEFINE T == {m \in 0..N : Swept(w, n, First(order, m), after[m])}
  <1>2. 0 \in T
    <2>1. First(order, 0) = {}
      BY DEF First
    <2>2. Swept(w, n, {}, w)
      BY SweptNothing
    <2>3. Swept(w, n, First(order, 0), after[0])
      BY <1>1, <2>1, <2>2
    <2> QED
      BY <2>3
  <1>3. ASSUME NEW m \in Nat, m < N, m \in T
        PROVE  m + 1 \in T
    <2>1. m + 1 \in 1..N /\ (m + 1) - 1 = m
      BY <1>3
    <2>2. PICK I, x, y, i : I = First(order, m) /\ x = after[m] /\ y = after[m + 1] /\ i = order[m + 1]
      OBVIOUS
    <2>3. y = DeletedIntf(x, i)
      BY <1>1, <2>1, <2>2
    <2>4. I \subseteq OwnIntfs(w, n) /\ i \in OwnIntfs(w, n)
      BY <1>3, <2>1, <2>2 DEF First
    <2>5. i \notin I
      BY <1>3, <2>1, <2>2 DEF First
    <2>6. Swept(w, n, I, x)
      BY <1>3, <2>2
    <2>7. Swept(w, n, I \cup {i}, y)
      BY <2>3, <2>4, <2>5, <2>6, SweptOne
    <2>8. I \cup {i} = First(order, m + 1)
      BY <1>3, <2>1, <2>2 DEF First
    <2>9. Swept(w, n, First(order, m + 1), after[m + 1])
      BY <2>2, <2>7, <2>8
    <2>10. m + 1 \in 0..N
      BY <2>1
    <2> QED
      BY <2>9, <2>10
  <1>4. \A m \in 0..N : m \in T
    <2> HIDE DEF T
    <2> QED
      BY <1>2, <1>3, UpTo
  <1>5. Swept(w, n, First(order, N), after[N])
    BY <1>4
  <1> QED
    BY <1>1, <1>5

\* The maps of a node are finite.
LEMMA FewIntfs ==
    ASSUME NEW w, Shape(w), NEW n \in DOMAIN w.node
    PROVE  IsFiniteSet(OwnIntfs(w, n))
  <1>1. PICK intfs, ports : /\ intfs = w.node[n].intfs /\ ports = w.node[n].ports
                            /\ Maps(intfs, ports, w.node[n].kind, n, w.link)
    BY DEF Shape, NodeShape
  <1>2. PICK bound \in Nat : \A i \in DOMAIN ports : ports[i] \in 0..bound
    BY <1>1 DEF Maps, Bounded
  <1>3. PICK P, R : P = DOMAIN intfs /\ R = Range(intfs)
    OBVIOUS
  <1>4. P \subseteq 0..bound
    BY <1>1, <1>2, <1>3 DEF Maps
  <1>5. IsFiniteSet(P)
    <2>1. IsFiniteSet(0..bound)
      BY FS_Interval
    <2> QED
      BY <1>4, <2>1, FS_Subset
  <1>6. intfs \in Surjection(P, R)
    <2>1. intfs \in [P -> R]
      BY <1>1, <1>3 DEF Maps, Plain, Range
    <2>2. \A t \in R : \E s \in P : intfs[s] = t
      BY <1>3 DEF Range
    <2> QED
      BY <2>1, <2>2 DEF Surjection
  <1>7. IsFiniteSet(R)
    BY <1>5, <1>6, FS_Surjection
  <1>8. OwnIntfs(w, n) \in SUBSET R
    BY <1>1, <1>3 DEF OwnIntfs
  <1> QED
    BY <1>7, <1>8, FS_Subset

\* A finite set in some order, once each.
LEMMA SetInOrder ==
    ASSUME NEW T, IsFiniteSet(T)
    PROVE  \E N \in Nat : /\ Len(SetToSeq(T)) = N
                          /\ \A k \in 1..N : SetToSeq(T)[k] \in T
                          /\ \A j, k \in 1..N : SetToSeq(T)[j] = SetToSeq(T)[k] => j = k
                          /\ {SetToSeq(T)[k] : k \in 1..N} = T
  <1>1. PICK N : N = Cardinality(T)
    OBVIOUS
  <1>2. N \in Nat /\ ExistsBijection(1..N, T)
    BY <1>1, FS_CardinalityType
  <1>3. \E g \in [1..N -> T] : IsInjective(g)
    BY <1>2 DEF ExistsBijection, Bijection, Injection
  <1>4. PICK f : f = SetToSeq(T)
    OBVIOUS
  <1>5. f = CHOOSE g \in [1..N -> T] : IsInjective(g)
    BY <1>1, <1>4 DEF SetToSeq
  <1>6. f \in [1..N -> T] /\ IsInjective(f)
    BY <1>3, <1>5
  <1>7. f \in Injection(1..N, T)
    BY <1>6 DEF Injection
  <1>8. f \in Surjection(1..N, T)
    <2>1. Cardinality(1..N) = N
      BY <1>2, FS_Interval
    <2> QED
      BY <1>1, <1>7, <2>1, FS_Injection
  <1>9. Len(f) = N
    <2>1. f \in Seq(T)
      BY <1>2, <1>6, SeqDef
    <2>2. DOMAIN f = 1..Len(f) /\ Len(f) \in Nat
      BY <2>1, LenProperties
    <2> QED
      BY <1>2, <1>6, <2>2
  <1>10. {f[k] : k \in 1..N} = T
    BY <1>6, <1>8 DEF Surjection
  <1>11. \A j, k \in 1..N : f[j] = f[k] => j = k
    BY <1>6 DEF IsInjective
  <1>12. \A k \in 1..N : f[k] \in T
    BY <1>6
  <1> QED
    BY <1>2, <1>4, <1>9, <1>10, <1>11, <1>12

\* stop(deleteIntfs = True): all interfaces of the node.
LEMMA WithoutIntfsIs ==
    ASSUME NEW w, Shape(w), w.raised = FALSE, NEW n \in DOMAIN w.node
    PROVE  Swept(w, n, OwnIntfs(w, n), WithoutIntfs(w, n))
  <1>1. PICK T : T = OwnIntfs(w, n)
    OBVIOUS
  <1>2. IsFiniteSet(T)
    BY <1>1, FewIntfs
  <1>3. PICK order : order = SetToSeq(T)
    OBVIOUS
  <1>4. PICK N \in Nat : /\ Len(order) = N /\ \A k \in 1..N : order[k] \in T
                         /\ \A j, k \in 1..N : order[j] = order[k] => j = k
                         /\ {order[k] : k \in 1..N} = T
    BY <1>2, <1>3, SetInOrder
  <1>5. WithoutIntfs(w, n) = DeletedIntfs(w, order)
    BY <1>1, <1>3 DEF WithoutIntfs, OwnIntfs
  <1>6. Swept(w, n, First(order, N), DeletedIntfs(w, order))
    BY <1>1, <1>4, SweptAll
  <1> QED
    BY <1>1, <1>4, <1>5, <1>6 DEF First

(* A node has stopped.  *)
PairsOfOthers(w, n, r) ==
    \A v : v \in r.veth <=>
              /\ v \in w.veth /\ (Runs(w, n) => \A i \in OwnIntfs(w, n) : End(w, i) \notin v)
              /\ w.node[n].shell /\ ~Skips(w, n) => v \in WithoutNamespaces(w.veth, {w.node[n].name})
ProcsOfOthers(w, n, r) ==
    \A p : p \in r.proc <=> p \in w.proc /\ ~(w.node[n].shell /\ p = w.node[n].name)
BridgesOfOthers(w, n, r) ==
    /\ \A b : b \in DOMAIN r.bridge <=>
                 b \in DOMAIN w.bridge /\ ~(w.node[n].kind = "switch" /\ Runs(w, n) /\ b = w.node[n].name)
    /\ \A b \in DOMAIN r.bridge : b # w.node[n].name => r.bridge[b] = w.bridge[b]
NodeGone(w, n, r) ==
    /\ r.link = w.link /\ r.raised = FALSE
    /\ \A m \in DOMAIN w.node : m # n => r.node[m] = w.node[m]
    /\ r.node[n].shell = IF Skips(w, n) THEN w.node[n].shell ELSE FALSE
    /\ Range(r.node[n].intfs) \subseteq {Lo}
    /\ PairsOfOthers(w, n, r) /\ ProcsOfOthers(w, n, r) /\ BridgesOfOthers(w, n, r)

\* The bridge of a switch that runs is deleted first.
LEMMA UnbridgedIs ==
    ASSUME NEW w, Shape(w), w.raised = FALSE, NEW n \in DOMAIN w.node,
           NEW u
    PROVE  u = (IF w.node[n].kind = "switch" /\ Runs(w, n)
                THEN [Woken(w, n) EXCEPT !.bridge = Without(@, w.node[n].name)] ELSE w) =>
              /\ Shape(u) /\ Same(w, u) /\ u.raised = FALSE
              /\ u.node = w.node /\ u.link = w.link /\ u.veth = w.veth
              /\ u.proc = IF w.node[n].kind = "switch" /\ Runs(w, n) THEN w.proc \cup {w.node[n].name} ELSE w.proc
              /\ BridgesOfOthers(w, n, u)
  <1>0. SUFFICES ASSUME u = (IF w.node[n].kind = "switch" /\ Runs(w, n)
                             THEN [Woken(w, n) EXCEPT !.bridge = Without(@, w.node[n].name)] ELSE w)
                 PROVE  /\ Shape(u) /\ Same(w, u) /\ u.raised = FALSE
                        /\ u.node = w.node /\ u.link = w.link /\ u.veth = w.veth
                        /\ u.proc = IF w.node[n].kind = "switch" /\ Runs(w, n)
                                    THEN w.proc \cup {w.node[n].name} ELSE w.proc
                        /\ BridgesOfOthers(w, n, u)
    OBVIOUS
  <1>1. Worldly(w)
    BY DEF Shape
  <1>2. CASE w.node[n].kind = "switch" /\ Runs(w, n)
    <2>1. PICK woken : woken = Woken(w, n)
      OBVIOUS
    <2>2. /\ Worldly(woken)
          /\ woken.node = w.node /\ woken.link = w.link /\ woken.veth = w.veth
          /\ woken.bridge = w.bridge /\ woken.raised = w.raised
          /\ woken.proc = IF Runs(w, n) THEN w.proc \cup {w.node[n].name} ELSE w.proc
      BY <1>1, <2>1, WokenIs, ZenonT(60)
    <2>3. PICK rest : rest = Without(w.bridge, w.node[n].name)
      OBVIOUS
    <2>4. u = [woken EXCEPT !.bridge = Without(@, w.node[n].name)]
      BY <1>0, <1>2, <2>1
    <2>5. /\ IsWorld(u) /\ u.node = w.node /\ u.link = w.link /\ u.veth = w.veth
          /\ u.raised = FALSE /\ u.bridge = rest /\ u.proc = w.proc \cup {w.node[n].name}
      BY <1>2, <2>2, <2>3, <2>4 DEF Worldly, IsWorld, WorldFields
    <2>6. /\ Plain(rest) /\ DOMAIN rest = DOMAIN w.bridge \ {w.node[n].name}
          /\ \A b \in DOMAIN rest : rest[b] = w.bridge[b]
      BY <2>3 DEF Plain, Without
    <2>7. Worldly(u)
      BY <1>1, <2>5, <2>6 DEF Worldly
    <2>8. Shape(u) /\ Same(w, u)
      BY <2>5, <2>7, ShapeOfMaps
    <2>9. BridgesOfOthers(w, n, u)
      BY <1>2, <2>5, <2>6 DEF BridgesOfOthers
    <2> QED
      BY <1>2, <2>5, <2>8, <2>9
  <1>3. CASE ~(w.node[n].kind = "switch" /\ Runs(w, n))
    <2>1. u = w
      BY <1>0, <1>3
    <2>2. BridgesOfOthers(w, n, w)
      BY <1>3 DEF BridgesOfOthers
    <2>3. Same(w, w)
      BY DEF Same
    <2> QED
      BY <1>3, <2>1, <2>2, <2>3
  <1> QED
    BY <1>2, <1>3

\* stop() of a node: its bridge, its interfaces, its shell or container.
LEMMA StoppedNodeIs ==
    ASSUME NEW w, Shape(w), w.raised = FALSE, NEW n \in DOMAIN w.node, NEW r
    PROVE  r = StoppedNode(w, n) => Shape(r) /\ Same(w, r) /\ NodeGone(w, n, r)
  <1>0. SUFFICES ASSUME r = StoppedNode(w, n)
                 PROVE  Shape(r) /\ Same(w, r) /\ NodeGone(w, n, r)
    OBVIOUS
  <1>1. PICK u : u = (IF w.node[n].kind = "switch" /\ Runs(w, n)
                      THEN [Woken(w, n) EXCEPT !.bridge = Without(@, w.node[n].name)] ELSE w)
    OBVIOUS
  <1>2. /\ Shape(u) /\ Same(w, u) /\ u.raised = FALSE
        /\ u.node = w.node /\ u.link = w.link /\ u.veth = w.veth
        /\ u.proc = IF w.node[n].kind = "switch" /\ Runs(w, n) THEN w.proc \cup {w.node[n].name} ELSE w.proc
        /\ BridgesOfOthers(w, n, u)
    BY <1>1, UnbridgedIs
  <1>3. PICK x, I : x = WithoutIntfs(u, n) /\ I = OwnIntfs(w, n)
    OBVIOUS
  <1>4. Swept(u, n, I, x)
    <2>1. OwnIntfs(u, n) = I /\ n \in DOMAIN u.node
      BY <1>2, <1>3 DEF OwnIntfs
    <2>2. Swept(u, n, OwnIntfs(u, n), WithoutIntfs(u, n))
      BY <1>2, <2>1, WithoutIntfsIs
    <2> QED
      BY <1>3, <2>1, <2>2
  <1>5. /\ Shape(x) /\ Same(u, x) /\ x.link = u.link /\ x.raised = FALSE
        /\ \A m \in DOMAIN u.node : m # n => x.node[m] = u.node[m]
        /\ Left(u.node[n], I, x.node[n])
        /\ PairsBut(u, n, I, x) /\ ProcBut(u, n, I, x)
        /\ DOMAIN x.bridge = DOMAIN u.bridge
        /\ \A b \in DOMAIN u.bridge : b # u.node[n].name => x.bridge[b] = u.bridge[b]
    BY <1>4 DEF Swept
  <1>6. r = Terminated(x, n)
    BY <1>0, <1>1, <1>3, <1>5 DEF StoppedNode
  <1>7. n \in DOMAIN x.node
    BY <1>2, <1>5 DEF Same
  <1>8. Shape(r) /\ Same(x, r) /\ ShellEnded(x, n, r)
    BY <1>5, <1>6, <1>7, TerminatedIs
  <1>19. /\ r.link = x.link /\ r.bridge = x.bridge /\ r.raised = x.raised
         /\ \A m \in DOMAIN x.node : m # n => r.node[m] = x.node[m]
         /\ r.node[n].intfs = x.node[n].intfs
         /\ r.node[n].shell = IF Skips(x, n) THEN x.node[n].shell ELSE FALSE
         /\ r.proc = IF x.node[n].shell /\ ~Skips(x, n) THEN x.proc \ {x.node[n].name} ELSE x.proc
         /\ r.veth = IF x.node[n].shell /\ ~Skips(x, n)
                     THEN WithoutNamespaces(x.veth, {x.node[n].name}) ELSE x.veth
    BY <1>8 DEF ShellEnded
  <1>9. /\ x.node[n].name = w.node[n].name /\ x.node[n].kind = w.node[n].kind
        /\ x.node[n].shell = w.node[n].shell
    BY <1>2, <1>5 DEF Left
  <1>10. Runs(u, n) <=> Runs(w, n)
    BY <1>2 DEF Runs
  <1>11. Skips(x, n) <=> Skips(w, n)
    <2>1. ASSUME w.node[n].kind = "docker"
          PROVE  w.node[n].name \in x.proc <=> w.node[n].name \in w.proc
      BY <1>2, <1>5, <1>10, <2>1 DEF ProcBut, Runs
    <2> QED
      BY <1>3, <1>9, <2>1 DEF Skips
  <1>12. Same(w, r)
    BY <1>2, <1>5, <1>8, SameSame
  <1>13. /\ r.link = w.link /\ r.raised = FALSE
         /\ \A m \in DOMAIN w.node : m # n => r.node[m] = w.node[m]
         /\ r.node[n].shell = IF Skips(w, n) THEN w.node[n].shell ELSE FALSE
    <2>1. /\ r.link = w.link /\ r.raised = FALSE
          /\ r.node[n].shell = IF Skips(w, n) THEN w.node[n].shell ELSE FALSE
      BY <1>2, <1>5, <1>9, <1>11, <1>19
    <2>2. DOMAIN x.node = DOMAIN w.node
      BY <1>2, <1>5 DEF Same
    <2>3. \A m \in DOMAIN w.node : m # n => r.node[m] = w.node[m]
      BY <1>2, <1>5, <1>19, <2>2
    <2> QED
      BY <2>1, <2>3
  <1>14. Range(r.node[n].intfs) \subseteq {Lo}
    <2>1. r.node[n].intfs = x.node[n].intfs
      BY <1>19
    <2>2. PICK nd, md : nd = w.node[n] /\ md = x.node[n]
      OBVIOUS
    <2>3. Left(nd, I, md)
      BY <1>2, <1>5, <2>2
    <2>4. ASSUME NEW p \in DOMAIN md.intfs PROVE md.intfs[p] = Lo
      <3>1. p \in DOMAIN nd.intfs /\ md.intfs[p] = nd.intfs[p] /\ nd.intfs[p] \notin I
        BY <2>3, <2>4 DEF Left
      <3> QED
        BY <1>3, <2>2, <3>1 DEF OwnIntfs, Range
    <2> QED
      BY <2>1, <2>2, <2>4 DEF Range
  <1>15. \A i \in I : End(u, i) = End(w, i)
    BY <1>2 DEF End, IntfName
  <1>16. PairsOfOthers(w, n, r)
    <2> SUFFICES ASSUME NEW v
                 PROVE  v \in r.veth <=>
                           /\ v \in w.veth /\ (Runs(w, n) => \A i \in OwnIntfs(w, n) : End(w, i) \notin v)
                           /\ w.node[n].shell /\ ~Skips(w, n)
                                 => v \in WithoutNamespaces(w.veth, {w.node[n].name})
      BY DEF PairsOfOthers
    <2>1. v \in x.veth <=> v \in w.veth /\ (Runs(w, n) => \A i \in I : End(w, i) \notin v)
      BY <1>2, <1>5, <1>10, <1>15 DEF PairsBut
    <2>2. v \in r.veth <=> /\ v \in x.veth
                           /\ w.node[n].shell /\ ~Skips(w, n) => \A e \in v : e[1] \notin {w.node[n].name}
      BY <1>9, <1>11, <1>19 DEF WithoutNamespaces
    <2> QED
      BY <1>3, <2>1, <2>2 DEF WithoutNamespaces
  <1>17. ProcsOfOthers(w, n, r)
    <2> SUFFICES ASSUME NEW p
                 PROVE  p \in r.proc <=> p \in w.proc /\ ~(w.node[n].shell /\ p = w.node[n].name)
      BY DEF ProcsOfOthers
    <2>1. p \in x.proc <=> p \in u.proc \/ (I # {} /\ Runs(w, n) /\ p = w.node[n].name)
      BY <1>2, <1>5, <1>10 DEF ProcBut
    <2>2. p \in u.proc <=> p \in w.proc \/ (w.node[n].kind = "switch" /\ Runs(w, n) /\ p = w.node[n].name)
      BY <1>2
    <2>3. p \in r.proc <=> p \in x.proc /\ ~(w.node[n].shell /\ ~Skips(w, n) /\ p = w.node[n].name)
      BY <1>9, <1>11, <1>19
    <2> QED
      BY <2>1, <2>2, <2>3 DEF Runs, Skips
  <1>18. BridgesOfOthers(w, n, r)
    BY <1>2, <1>5, <1>19 DEF BridgesOfOthers
  <1> QED
    BY <1>8, <1>12, <1>13, <1>14, <1>16, <1>17, <1>18 DEF NodeGone

(* Some nodes have ended.  *)
Ended(w, I, x) ==
    /\ Shape(x) /\ Same(w, x) /\ x.link = w.link /\ x.bridge = w.bridge /\ x.raised = w.raised
    /\ \A m \in DOMAIN w.node \ I : x.node[m] = w.node[m]
    /\ \A m \in I : x.node[m].shell = FALSE /\ x.node[m].intfs = w.node[m].intfs
    /\ x.veth \subseteq w.veth
    /\ \A p : p \in x.proc <=> p \in w.proc /\ \A m \in I : ~(w.node[m].shell /\ p = w.node[m].name)

\* stop(deleteIntfs = False) of some switches.
LEMMA EndedAll ==
    ASSUME NEW w, Shape(w), NEW order, NEW N \in Nat, Len(order) = N,
           \A k \in 1..N : order[k] \in DOMAIN w.node /\ w.node[order[k]].kind = "switch",
           \A j, k \in 1..N : order[j] = order[k] => j = k
    PROVE  Ended(w, First(order, N), AllTerminated(w, order))
  <1>1. PICK after : /\ AllTerminated(w, order) = after[N] /\ after[0] = w
                     /\ \A k \in 1..N : after[k] = Terminated(after[k - 1], order[k])
    BY EndingRuns
  <1> DEFINE T == {m \in 0..N : Ended(w, First(order, m), after[m])}
  <1>2. 0 \in T
    <2>1. First(order, 0) = {}
      BY DEF First
    <2>2. Same(w, w)
      BY DEF Same
    <2>3. Ended(w, First(order, 0), after[0])
      BY <1>1, <2>1, <2>2 DEF Ended
    <2> QED
      BY <2>3
  <1>3. ASSUME NEW m \in Nat, m < N, m \in T
        PROVE  m + 1 \in T
    <2>1. m + 1 \in 1..N /\ (m + 1) - 1 = m
      BY <1>3
    <2>2. PICK I, x, y, n : I = First(order, m) /\ x = after[m] /\ y = after[m + 1] /\ n = order[m + 1]
      OBVIOUS
    <2>3. y = Terminated(x, n)
      BY <1>1, <2>1, <2>2
    <2>4. n \in DOMAIN w.node /\ w.node[n].kind = "switch" /\ I \subseteq DOMAIN w.node
      BY <1>3, <2>1, <2>2 DEF First
    <2>5. n \notin I
      BY <1>3, <2>1, <2>2 DEF First
    <2>6. Ended(w, I, x)
      BY <1>3, <2>2
    <2>7. n \in DOMAIN x.node /\ x.node[n] = w.node[n] /\ Shape(x)
      BY <2>4, <2>5, <2>6 DEF Ended, Same
    <2>8. Shape(y) /\ Same(x, y) /\ ShellEnded(x, n, y)
      BY <2>3, <2>7, TerminatedIs
    <2>9. /\ y.link = x.link /\ y.bridge = x.bridge /\ y.raised = x.raised
          /\ \A k \in DOMAIN x.node : k # n => y.node[k] = x.node[k]
          /\ y.node[n].intfs = x.node[n].intfs
          /\ y.node[n].shell = IF Skips(x, n) THEN x.node[n].shell ELSE FALSE
          /\ y.proc = IF x.node[n].shell /\ ~Skips(x, n) THEN x.proc \ {x.node[n].name} ELSE x.proc
          /\ y.veth = IF x.node[n].shell /\ ~Skips(x, n)
                      THEN WithoutNamespaces(x.veth, {x.node[n].name}) ELSE x.veth
      BY <2>8 DEF ShellEnded
    <2>10. ~Skips(x, n)
      BY <2>4, <2>7 DEF Skips
    <2>11. y.node[n].intfs = w.node[n].intfs /\ y.node[n].shell = FALSE
      BY <2>7, <2>9, <2>10
    <2>12. Ended(w, I \cup {n}, y)
      <3>1. Same(w, y)
        BY <2>6, <2>8, SameSame DEF Ended
      <3>2. DOMAIN x.node = DOMAIN w.node
        BY <2>6 DEF Ended, Same
      <3>3. \A k \in DOMAIN w.node \ (I \cup {n}) : y.node[k] = w.node[k]
        BY <2>6, <2>9, <3>2 DEF Ended
      <3>4. \A k \in I \cup {n} : y.node[k].shell = FALSE /\ y.node[k].intfs = w.node[k].intfs
        BY <2>4, <2>5, <2>6, <2>9, <2>11, <3>2, ZenonT(60) DEF Ended
      <3>5. y.veth \subseteq w.veth
        BY <2>6, <2>9 DEF Ended, WithoutNamespaces
      <3>6. ASSUME NEW p
            PROVE  p \in y.proc <=> p \in w.proc /\ \A k \in I \cup {n} : ~(w.node[k].shell /\ p = w.node[k].name)
        <4>1. p \in y.proc <=> p \in x.proc /\ ~(w.node[n].shell /\ p = w.node[n].name)
          BY <2>7, <2>9, <2>10
        <4>2. p \in x.proc <=> p \in w.proc /\ \A k \in I : ~(w.node[k].shell /\ p = w.node[k].name)
          BY <2>6 DEF Ended
        <4> QED
          BY <4>1, <4>2
      <3>7. y.link = w.link /\ y.bridge = w.bridge /\ y.raised = w.raised
        BY <2>6, <2>9 DEF Ended
      <3> QED
        BY <2>8, <3>1, <3>3, <3>4, <3>5, <3>6, <3>7 DEF Ended
    <2>13. I \cup {n} = First(order, m + 1)
      BY <1>3, <2>1, <2>2 DEF First
    <2>14. Ended(w, First(order, m + 1), after[m + 1])
      BY <2>2, <2>12, <2>13
    <2>15. m + 1 \in 0..N
      BY <2>1
    <2> QED
      BY <2>14, <2>15
  <1>4. \A m \in 0..N : m \in T
    <2> HIDE DEF T
    <2> QED
      BY <1>2, <1>3, UpTo
  <1>5. Ended(w, First(order, N), after[N])
    BY <1>4
  <1> QED
    BY <1>1, <1>5

(* A bridge has one port more, if it is there.  *)
GainsPort(w, n, port, r) ==
    /\ r.node = w.node /\ r.link = w.link /\ r.veth = w.veth /\ r.proc = w.proc
    /\ r.raised = w.raised /\ DOMAIN r.bridge = DOMAIN w.bridge
    /\ \A b \in DOMAIN w.bridge :
          r.bridge[b] = IF Runs(w, n) /\ b = w.node[n].name THEN w.bridge[b] \cup {port}
                        ELSE w.bridge[b]

\* A command that adds a port to a bridge.
LEMMA PortAddedIs ==
    ASSUME NEW w, NEW n, NEW port, Worldly(w), NEW r, r = PortAdded(w, n, port)
    PROVE  Worldly(r) /\ GainsPort(w, n, port, r)
  <1>1. IsWorld(w) /\ Plain(w.bridge)
    BY DEF Worldly
  <1>2. CASE Runs(w, n) /\ w.node[n].name \in DOMAIN w.bridge
    <2>1. PICK m : m = [w.bridge EXCEPT ![w.node[n].name] = @ \cup {port}]
      OBVIOUS
    <2>2. /\ IsWorld(r)
          /\ r.node = w.node /\ r.link = w.link /\ r.veth = w.veth /\ r.proc = w.proc
          /\ r.raised = w.raised /\ r.bridge = m
      BY <1>1, <1>2, <2>1 DEF PortAdded, IsWorld, WorldFields
    <2>3. /\ DOMAIN m = DOMAIN w.bridge /\ Plain(m)
          /\ \A b \in DOMAIN w.bridge :
                m[b] = IF b = w.node[n].name THEN w.bridge[b] \cup {port} ELSE w.bridge[b]
      BY <1>1, <1>2, <2>1 DEF Plain
    <2>4. Worldly(r)
      BY <2>2, <2>3 DEF Worldly
    <2> QED
      BY <1>2, <2>2, <2>3, <2>4 DEF GainsPort
  <1>3. CASE ~(Runs(w, n) /\ w.node[n].name \in DOMAIN w.bridge)
    <2>1. r = w
      BY <1>3 DEF PortAdded
    <2> QED
      BY <1>3, <2>1 DEF GainsPort
  <1> QED
    BY <1>2, <1>3

(* The switch of an end has its interface as a port of the bridge.  *)
EndAttached(w, n, i, r) ==
    /\ r.node = w.node /\ r.link = w.link /\ r.veth = w.veth /\ r.raised = w.raised
    /\ r.proc = IF w.node[n].kind = "switch" /\ Runs(w, n) THEN w.proc \cup {w.node[n].name}
                ELSE w.proc
    /\ DOMAIN r.bridge = DOMAIN w.bridge
    /\ \A b \in DOMAIN w.bridge :
          r.bridge[b] = IF w.node[n].kind = "switch" /\ Runs(w, n) /\ b = w.node[n].name
                        THEN w.bridge[b] \cup {IntfName(w, i)} ELSE w.bridge[b]

\* attach() of a new interface, if its node is a switch.
LEMMA AttachedIs ==
    ASSUME NEW w, Shape(w), NEW n, NEW i, NEW r
    PROVE  r = Attached(w, n, i) => Shape(r) /\ Same(w, r) /\ EndAttached(w, n, i, r)
  <1>0. SUFFICES ASSUME r = Attached(w, n, i)
                 PROVE  Shape(r) /\ Same(w, r) /\ EndAttached(w, n, i, r)
    OBVIOUS
  <1>1. Worldly(w)
    BY DEF Shape
  <1>2. CASE w.node[n].kind = "switch"
    <2>1. PICK woken : woken = Woken(w, n)
      OBVIOUS
    <2>2. /\ Worldly(woken)
          /\ woken.node = w.node /\ woken.link = w.link /\ woken.veth = w.veth
          /\ woken.bridge = w.bridge /\ woken.raised = w.raised
          /\ woken.proc = IF Runs(w, n) THEN w.proc \cup {w.node[n].name} ELSE w.proc
      BY <1>1, <2>1, WokenIs, ZenonT(60)
    <2>3. r = PortAdded(woken, n, IntfName(w, i))
      BY <1>0, <1>2, <2>1 DEF Attached
    <2>4. Worldly(r) /\ GainsPort(woken, n, IntfName(w, i), r)
      BY <2>2, <2>3, PortAddedIs
    <2>5. Runs(woken, n) <=> Runs(w, n)
      BY <1>2, <2>2 DEF Runs
    <2>6. EndAttached(w, n, i, r)
      BY <1>2, <2>2, <2>4, <2>5 DEF GainsPort, EndAttached
    <2>7. r.node = w.node /\ r.link = w.link
      BY <2>6 DEF EndAttached
    <2>8. Shape(r) /\ Same(w, r)
      BY <2>4, <2>7, ShapeOfMaps
    <2> QED
      BY <2>6, <2>8
  <1>3. CASE w.node[n].kind # "switch"
    <2>1. r = w
      BY <1>0, <1>3 DEF Attached
    <2> QED
      BY <1>3, <2>1 DEF EndAttached, Same
  <1> QED
    BY <1>2, <1>3

(* There is one link more.  *)
NewLink(w, a, b, p1, p2, l, r) ==
    /\ r.node = w.node /\ r.veth = w.veth /\ r.proc = w.proc /\ r.bridge = w.bridge
    /\ r.raised = w.raised
    /\ l \in Nat /\ DOMAIN w.link = 1..(l - 1) /\ DOMAIN r.link = 1..l /\ l > 0
    /\ l = Len(r.link) /\ Len(w.link) = l - 1
    /\ \A k \in DOMAIN w.link : r.link[k] = w.link[k]
    /\ r.link[l].n[1] = a /\ r.link[l].n[2] = b
    /\ r.link[l].p[1] = p1 /\ r.link[l].p[2] = p2
    /\ r.link[l].known[1] = TRUE /\ r.link[l].known[2] = TRUE

\* A link object between two nodes of different names, at given ports.
LEMMA LinkAppended ==
    ASSUME NEW w, Shape(w), NEW a \in DOMAIN w.node, NEW b \in DOMAIN w.node,
           w.node[a].name # w.node[b].name, NEW p1 \in Nat, NEW p2 \in Nat,
           w.node[a].kind = "switch" => p1 # 0, w.node[b].kind = "switch" => p2 # 0,
           NEW r
    PROVE  r = [w EXCEPT !.link = Append(@, [n |-> <<a, b>>, p |-> <<p1, p2>>,
                                             known |-> <<TRUE, TRUE>>])] =>
              \E l \in Nat : Shape(r) /\ NewLink(w, a, b, p1, p2, l, r)
  <1>0. SUFFICES ASSUME r = [w EXCEPT !.link = Append(@, [n |-> <<a, b>>, p |-> <<p1, p2>>,
                                                          known |-> <<TRUE, TRUE>>])]
                 PROVE  \E l \in Nat : Shape(r) /\ NewLink(w, a, b, p1, p2, l, r)
    OBVIOUS
  <1>1. IsWorld(w) /\ IsSeq(w.link) /\ Worldly(w)
    BY DEF Shape, Worldly
  <1>2. PICK k, lk : /\ k = [n |-> <<a, b>>, p |-> <<p1, p2>>, known |-> <<TRUE, TRUE>>]
                     /\ lk = Append(w.link, k)
    OBVIOUS
  <1>3. /\ IsWorld(r) /\ r.link = lk
        /\ r.node = w.node /\ r.veth = w.veth /\ r.proc = w.proc /\ r.bridge = w.bridge
        /\ r.raised = w.raised
    BY <1>0, <1>1, <1>2 DEF IsWorld, WorldFields
  <1>4. PICK m \in Nat : /\ DOMAIN w.link = 1..m /\ DOMAIN lk = 1..(m + 1)
                         /\ lk[m + 1] = k /\ Len(lk) = m + 1
                         /\ \A i \in 1..m : lk[i] = w.link[i]
    <2>1. \E m \in Nat : /\ DOMAIN w.link = 1..m /\ DOMAIN Append(w.link, k) = 1..(m + 1)
                         /\ Append(w.link, k)[m + 1] = k /\ Len(Append(w.link, k)) = m + 1
                         /\ \A i \in 1..m : Append(w.link, k)[i] = w.link[i]
      BY <1>1, AppendedLast
    <2> QED
      BY <1>2, <2>1
  <1>5. IsSeq(lk)
    BY <1>1, <1>2, AppendedSeq
  <1>6. Worldly(r)
    BY <1>1, <1>3, <1>5 DEF Worldly
  <1>7. Len(w.link) = m
    <2>1. PICK j \in Nat : w.link = [i \in 1..j |-> w.link[i]]
      BY <1>1 DEF IsSeq
    <2>2. Len(w.link) = j
      BY <2>1
    <2>3. j = m
      BY <1>4, <2>1
    <2> QED
      BY <2>2, <2>3
  <1>8. /\ k.n[1] = a /\ k.n[2] = b /\ k.p[1] = p1 /\ k.p[2] = p2
        /\ k.known[1] = TRUE /\ k.known[2] = TRUE
    BY <1>2
  <1>9. IsLink(k)
    <2>1. /\ k = [f \in LinkFields |-> k[f]]
          /\ k.known = <<TRUE, TRUE>> /\ k.n = <<a, b>>
      BY <1>2 DEF LinkFields
    <2>6. PICK yes : yes = TRUE
      OBVIOUS
    <2>2. <<yes, yes>> = [s \in {1, 2} |-> <<yes, yes>>[s]]
      OBVIOUS
    <2>3. <<a, b>> = [s \in {1, 2} |-> <<a, b>>[s]]
      OBVIOUS
    <2>4. k.known = [s \in {1, 2} |-> k.known[s]]
      BY <2>1, <2>2, <2>6
    <2>5. k.n = [s \in {1, 2} |-> k.n[s]]
      BY <2>1, <2>3
    <2> QED
      BY <2>1, <2>4, <2>5 DEF IsLink
  <1>10. NewLink(w, a, b, p1, p2, m + 1, r)
    BY <1>3, <1>4, <1>7, <1>8 DEF NewLink
  <1>11. ASSUME NEW n \in DOMAIN r.node PROVE NodeShape(r.node[n], n, r.link)
    <2>1. NodeShape(w.node[n], n, w.link) /\ r.node[n] = w.node[n]
      BY <1>3, <1>11 DEF Shape
    <2>2. \A i \in DOMAIN w.link : i \in DOMAIN r.link /\ r.link[i] = w.link[i]
      BY <1>3, <1>4
    <2> QED
      BY <2>1, <2>2, SameEnds
  <1>12. ASSUME NEW i \in DOMAIN r.link PROVE LinkShape(r, i)
    <2>1. CASE i \in 1..m
      <3>1. LinkShape(w, i) /\ r.link[i] = w.link[i]
        BY <1>3, <1>4, <2>1 DEF Shape
      <3> QED
        BY <1>3, <3>1 DEF LinkShape
    <2>2. CASE i = m + 1
      <3>1. r.link[i] = k
        BY <1>3, <1>4, <2>2
      <3> QED
        BY <1>3, <1>8, <1>9, <3>1 DEF LinkShape
    <2> QED
      BY <1>3, <1>4, <2>1, <2>2
  <1>13. Shape(r)
    BY <1>6, <1>11, <1>12 DEF Shape
  <1> QED
    BY <1>10, <1>13

(* Ports a program may ask for: of its own accord, or not.  *)
Asked(nd, port) == port = None \/ (port \in Nat /\ (nd.kind = "switch" => port # 0))

\* addLink(): the Link object, with the ports asked for or new ones.
LEMMA WithLinkIs ==
    ASSUME NEW w, Shape(w), NEW a \in DOMAIN w.node, NEW b \in DOMAIN w.node,
           w.node[a].name # w.node[b].name, NEW port1, NEW port2,
           Asked(w.node[a], port1), Asked(w.node[b], port2), NEW r
    PROVE  r = WithLink(w, a, b, port1, port2) =>
              \E p1 \in Nat, p2 \in Nat, l \in Nat :
                 /\ Shape(r) /\ NewLink(w, a, b, p1, p2, l, r)
                 /\ p1 = IF port1 = None THEN NewPort(w.node[a]) ELSE port1
                 /\ p2 = IF port2 = None THEN NewPort(w.node[b]) ELSE port2
  <1>0. SUFFICES ASSUME r = WithLink(w, a, b, port1, port2)
                 PROVE  \E p1 \in Nat, p2 \in Nat, l \in Nat :
                           /\ Shape(r) /\ NewLink(w, a, b, p1, p2, l, r)
                           /\ p1 = IF port1 = None THEN NewPort(w.node[a]) ELSE port1
                           /\ p2 = IF port2 = None THEN NewPort(w.node[b]) ELSE port2
    OBVIOUS
  <1>1. PICK p1, p2 : /\ p1 = IF port1 = None THEN NewPort(w.node[a]) ELSE port1
                      /\ p2 = IF port2 = None THEN NewPort(w.node[b]) ELSE port2
    OBVIOUS
  <1>2. NodeShape(w.node[a], a, w.link) /\ NodeShape(w.node[b], b, w.link)
    BY DEF Shape
  <1>3. /\ NewPort(w.node[a]) \in Nat /\ NewPort(w.node[b]) \in Nat
        /\ w.node[a].kind = "switch" => NewPort(w.node[a]) # 0
        /\ w.node[b].kind = "switch" => NewPort(w.node[b]) # 0
    BY <1>2, NewPortIs
  <1>4. /\ p1 \in Nat /\ p2 \in Nat
        /\ w.node[a].kind = "switch" => p1 # 0
        /\ w.node[b].kind = "switch" => p2 # 0
    BY <1>1, <1>3 DEF Asked
  <1>5. r = [w EXCEPT !.link = Append(@, [n |-> <<a, b>>, p |-> <<p1, p2>>,
                                          known |-> <<TRUE, TRUE>>])]
    BY <1>0, <1>1 DEF WithLink
  <1>6. \E l \in Nat : Shape(r) /\ NewLink(w, a, b, p1, p2, l, r)
    BY <1>4, <1>5, LinkAppended
  <1> QED
    BY <1>1, <1>4, <1>6

(* A node has one interface more.  *)
IntfAdded(w, l, s, n, r) ==
    /\ r.link = w.link /\ r.veth = w.veth /\ r.proc = w.proc /\ r.bridge = w.bridge
    /\ r.raised = w.raised
    /\ \A m \in DOMAIN w.node : m # n => r.node[m] = w.node[m]
    /\ Gains(w.node[n], <<l, s>>, w.link[l].p[s], r.node[n])

\* addIntf() of an end of a new link.
LEMMA IntfAddedIs ==
    ASSUME NEW w, Shape(w), NEW l \in DOMAIN w.link, NEW s \in {1, 2}, NEW n,
           n = w.link[l].n[s], <<l, s>> \notin DOMAIN w.node[n].ports, NEW r
    PROVE  r = [w EXCEPT !.node[n] = AddIntf(@, <<l, s>>, w.link[l].p[s])] =>
              Shape(r) /\ Same(w, r) /\ IntfAdded(w, l, s, n, r)
  <1>0. SUFFICES ASSUME r = [w EXCEPT !.node[n] = AddIntf(@, <<l, s>>, w.link[l].p[s])]
                 PROVE  Shape(r) /\ Same(w, r) /\ IntfAdded(w, l, s, n, r)
    OBVIOUS
  <1>1. PICK md : md = AddIntf(w.node[n], <<l, s>>, w.link[l].p[s])
    OBVIOUS
  <1>2. LinkShape(w, l) /\ Worldly(w)
    BY DEF Shape
  <1>3. /\ n \in DOMAIN w.node /\ w.link[l].p[s] \in Nat
        /\ w.node[n].kind = "switch" => w.link[l].p[s] # 0
        /\ w.link[l].n[s] = n
    BY <1>2 DEF LinkShape
  <1>4. NodeShape(w.node[n], n, w.link) /\ IsWorld(w) /\ IsSeq(w.node) /\ Plain(w.bridge)
    BY <1>2, <1>3 DEF Shape, Worldly
  <1>5. <<l, s>> # Lo
    BY NotLo
  <1>6. NodeShape(md, n, w.link) /\ Gains(w.node[n], <<l, s>>, w.link[l].p[s], md)
    BY <1>1, <1>3, <1>4, <1>5, AddIntfIs
  <1>7. /\ IsWorld(r) /\ r.node = [w.node EXCEPT ![n] = md]
        /\ r.link = w.link /\ r.veth = w.veth /\ r.proc = w.proc /\ r.bridge = w.bridge
        /\ r.raised = w.raised
    BY <1>0, <1>1, <1>4 DEF IsWorld, WorldFields
  <1>8. IsSeq(r.node) /\ DOMAIN r.node = DOMAIN w.node /\ r.node[n] = md
        /\ \A m \in DOMAIN w.node : m # n => r.node[m] = w.node[m]
    <2>1. IsSeq([w.node EXCEPT ![n] = md])
      BY <1>4, ExceptedSeq
    <2> QED
      BY <1>3, <1>7, <2>1
  <1>9. Worldly(r)
    BY <1>2, <1>4, <1>7, <1>8, FewerPairs
  <1>10. md.name = w.node[n].name /\ md.kind = w.node[n].kind
    BY <1>6 DEF Gains
  <1>11. Shape(r) /\ Same(w, r)
    BY <1>3, <1>6, <1>7, <1>8, <1>9, <1>10, NodeChanged
  <1>12. IntfAdded(w, l, s, n, r)
    BY <1>6, <1>7, <1>8 DEF IntfAdded
  <1> QED
    BY <1>11, <1>12

(* A link has been made between two nodes.  *)
SwitchOf(w, l, s) == w.node[w.link[l].n[s]].kind = "switch" /\ Runs(w, w.link[l].n[s])
NameOf(w, l, s) == w.node[w.link[l].n[s]].name
JoinWakes(w, l, r) ==
    \A x : x \in r.proc <=> x \in w.proc \/ \E s \in {1, 2} : SwitchOf(w, l, s) /\ x = NameOf(w, l, s)
PortsMade(w, l, r) ==
    /\ DOMAIN r.bridge = DOMAIN w.bridge
    /\ \A b \in DOMAIN w.bridge : \A x :
          x \in r.bridge[b] <=>
             \/ x \in w.bridge[b]
             \/ \E s \in {1, 2} : /\ SwitchOf(w, l, s) /\ b = NameOf(w, l, s)
                                  /\ x = IntfName(w, <<l, s>>)
LinkMade(w, l, r) ==
    /\ r.link = w.link /\ r.veth = w.veth /\ r.raised = w.raised
    /\ \A m \in DOMAIN w.node : m \notin {w.link[l].n[1], w.link[l].n[2]} => r.node[m] = w.node[m]
    /\ \A s \in {1, 2} :
          Gains(w.node[w.link[l].n[s]], <<l, s>>, w.link[l].p[s], r.node[w.link[l].n[s]])
    /\ JoinWakes(w, l, r) /\ PortsMade(w, l, r)

\* The interfaces of both ends.
LEMMA JoinedIs ==
    ASSUME NEW w, Shape(w), NEW l \in DOMAIN w.link,
           \A s \in {1, 2} : <<l, s>> \notin DOMAIN w.node[w.link[l].n[s]].ports, NEW r
    PROVE  r = Joined(w, l) => Shape(r) /\ Same(w, r) /\ LinkMade(w, l, r)
  <1>0. SUFFICES ASSUME r = Joined(w, l)
                 PROVE  Shape(r) /\ Same(w, r) /\ LinkMade(w, l, r)
    OBVIOUS
  <1>1. PICK a, b, p, q : /\ a = w.link[l].n[1] /\ b = w.link[l].n[2]
                          /\ p = w.link[l].p[1] /\ q = w.link[l].p[2]
    OBVIOUS
  <1>2. PICK w1 : w1 = [w EXCEPT !.node[a] = AddIntf(@, <<l, 1>>, p)]
    OBVIOUS
  <1>3. PICK w2 : w2 = [w1 EXCEPT !.node[b] = AddIntf(@, <<l, 2>>, q)]
    OBVIOUS
  <1>4. PICK w3 : w3 = Attached(w2, a, <<l, 1>>)
    OBVIOUS
  <1>5. r = Attached(w3, b, <<l, 2>>)
    BY <1>0, <1>1, <1>2, <1>3, <1>4 DEF Joined
  <1>6. LinkShape(w, l)
    BY DEF Shape
  <1>7. a \in DOMAIN w.node /\ b \in DOMAIN w.node /\ a # b
        /\ w.node[a].name # w.node[b].name
    BY <1>1, <1>6 DEF LinkShape
  <1>8. <<l, 1>> \notin DOMAIN w.node[a].ports /\ <<l, 2>> \notin DOMAIN w.node[b].ports
    BY <1>1
  <1>9. Shape(w1) /\ Same(w, w1) /\ IntfAdded(w, l, 1, a, w1)
    <2>1. 1 \in {1, 2}
      OBVIOUS
    <2>2. w1 = [w EXCEPT !.node[a] = AddIntf(@, <<l, 1>>, w.link[l].p[1])]
      BY <1>1, <1>2
    <2> QED
      BY <1>1, <1>8, <2>1, <2>2, IntfAddedIs
  <1>10. /\ w1.link = w.link /\ w1.veth = w.veth /\ w1.proc = w.proc /\ w1.bridge = w.bridge
         /\ w1.raised = w.raised
         /\ \A m \in DOMAIN w.node : m # a => w1.node[m] = w.node[m]
         /\ Gains(w.node[a], <<l, 1>>, p, w1.node[a])
    BY <1>1, <1>9 DEF IntfAdded
  <1>11. w1.node[b] = w.node[b] /\ l \in DOMAIN w1.link
    BY <1>7, <1>10
  <1>12. Shape(w2) /\ Same(w1, w2) /\ IntfAdded(w1, l, 2, b, w2)
    <2>1. 2 \in {1, 2}
      OBVIOUS
    <2>2. w2 = [w1 EXCEPT !.node[b] = AddIntf(@, <<l, 2>>, w1.link[l].p[2])]
      BY <1>1, <1>3, <1>10
    <2>3. b = w1.link[l].n[2] /\ <<l, 2>> \notin DOMAIN w1.node[b].ports
      BY <1>1, <1>8, <1>10, <1>11
    <2> QED
      BY <1>9, <1>11, <2>1, <2>2, <2>3, IntfAddedIs
  <1>13. /\ w2.link = w.link /\ w2.veth = w.veth /\ w2.proc = w.proc /\ w2.bridge = w.bridge
         /\ w2.raised = w.raised
         /\ \A m \in DOMAIN w.node : m \notin {a, b} => w2.node[m] = w.node[m]
         /\ w2.node[a] = w1.node[a]
         /\ Gains(w.node[b], <<l, 2>>, q, w2.node[b])
    <2>1. DOMAIN w1.node = DOMAIN w.node
      BY <1>9 DEF Same
    <2>2. /\ w2.link = w1.link /\ w2.veth = w1.veth /\ w2.proc = w1.proc /\ w2.bridge = w1.bridge
          /\ w2.raised = w1.raised
          /\ \A m \in DOMAIN w1.node : m # b => w2.node[m] = w1.node[m]
          /\ Gains(w1.node[b], <<l, 2>>, w1.link[l].p[2], w2.node[b])
      BY <1>12 DEF IntfAdded
    <2> QED
      BY <1>1, <1>7, <1>10, <1>11, <2>1, <2>2
  <1>14. /\ Shape(w3) /\ Same(w2, w3) /\ EndAttached(w2, a, <<l, 1>>, w3)
    BY <1>4, <1>12, AttachedIs
  <1>15. Shape(r) /\ Same(w3, r) /\ EndAttached(w3, b, <<l, 2>>, r)
    BY <1>5, <1>14, AttachedIs
  <1>16. Same(w, w2) /\ Same(w, w3) /\ Same(w, r)
    BY <1>9, <1>12, <1>14, <1>15, SameSame
  <1>17. /\ w3.node = w2.node /\ w3.link = w.link /\ w3.veth = w.veth /\ w3.raised = w.raised
         /\ r.node = w2.node /\ r.link = w.link /\ r.veth = w.veth /\ r.raised = w.raised
    BY <1>13, <1>14, <1>15 DEF EndAttached
  <1>18. /\ w2.node[a].kind = w.node[a].kind /\ w2.node[a].name = w.node[a].name
         /\ w2.node[b].kind = w.node[b].kind /\ w2.node[b].name = w.node[b].name
         /\ w2.node[a].shell = w.node[a].shell /\ w2.node[b].shell = w.node[b].shell
    BY <1>10, <1>13 DEF Gains
  <1>19. /\ SwitchOf(w, l, 1) <=> w2.node[a].kind = "switch" /\ Runs(w2, a)
         /\ SwitchOf(w, l, 2) <=> w3.node[b].kind = "switch" /\ Runs(w3, b)
         /\ NameOf(w, l, 1) = w.node[a].name /\ NameOf(w, l, 2) = w.node[b].name
    BY <1>1, <1>17, <1>18 DEF SwitchOf, NameOf, Runs
  <1>20. /\ IntfName(w2, <<l, 1>>) = IntfName(w, <<l, 1>>)
         /\ IntfName(w3, <<l, 2>>) = IntfName(w, <<l, 2>>)
    BY <1>16, SameNames
  <1>21. JoinWakes(w, l, r)
    <2>1. w3.proc = IF SwitchOf(w, l, 1) THEN w.proc \cup {w.node[a].name} ELSE w.proc
      BY <1>13, <1>14, <1>18, <1>19 DEF EndAttached
    <2>2. r.proc = IF SwitchOf(w, l, 2) THEN w3.proc \cup {w.node[b].name} ELSE w3.proc
      BY <1>15, <1>17, <1>18, <1>19 DEF EndAttached
    <2> QED
      BY <1>19, <2>1, <2>2 DEF JoinWakes
  <1>22. PortsMade(w, l, r)
    <2>1. /\ DOMAIN w3.bridge = DOMAIN w.bridge
          /\ \A k \in DOMAIN w.bridge :
                w3.bridge[k] = IF SwitchOf(w, l, 1) /\ k = w.node[a].name
                               THEN w.bridge[k] \cup {IntfName(w, <<l, 1>>)} ELSE w.bridge[k]
      <3>1. /\ DOMAIN w3.bridge = DOMAIN w2.bridge
            /\ \A k \in DOMAIN w2.bridge :
                  w3.bridge[k] = IF w2.node[a].kind = "switch" /\ Runs(w2, a) /\ k = w2.node[a].name
                                 THEN w2.bridge[k] \cup {IntfName(w2, <<l, 1>>)} ELSE w2.bridge[k]
        BY <1>14 DEF EndAttached
      <3>2. w2.bridge = w.bridge /\ w2.node[a].name = w.node[a].name
        BY <1>13, <1>18
      <3>3. ASSUME NEW k \in DOMAIN w.bridge
            PROVE  w3.bridge[k] = IF SwitchOf(w, l, 1) /\ k = w.node[a].name
                                  THEN w.bridge[k] \cup {IntfName(w, <<l, 1>>)} ELSE w.bridge[k]
        <4>1. w3.bridge[k] = IF w2.node[a].kind = "switch" /\ Runs(w2, a) /\ k = w.node[a].name
                             THEN w.bridge[k] \cup {IntfName(w, <<l, 1>>)} ELSE w.bridge[k]
          BY <1>20, <3>1, <3>2, ZenonT(60)
        <4>2. CASE SwitchOf(w, l, 1)
          BY <1>19, <4>1, <4>2, ZenonT(60)
        <4>3. CASE ~SwitchOf(w, l, 1)
          BY <1>19, <4>1, <4>3, ZenonT(60)
        <4> QED
          BY <4>2, <4>3
      <3> QED
        BY <3>1, <3>2, <3>3, ZenonT(60)
    <2>2. /\ DOMAIN r.bridge = DOMAIN w3.bridge
          /\ \A k \in DOMAIN w3.bridge :
                r.bridge[k] = IF SwitchOf(w, l, 2) /\ k = w.node[b].name
                              THEN w3.bridge[k] \cup {IntfName(w, <<l, 2>>)} ELSE w3.bridge[k]
      <3>1. /\ DOMAIN r.bridge = DOMAIN w3.bridge
            /\ \A k \in DOMAIN w3.bridge :
                  r.bridge[k] = IF w3.node[b].kind = "switch" /\ Runs(w3, b) /\ k = w3.node[b].name
                                THEN w3.bridge[k] \cup {IntfName(w3, <<l, 2>>)} ELSE w3.bridge[k]
        BY <1>15 DEF EndAttached
      <3>2. w3.node[b].name = w.node[b].name
        BY <1>17, <1>18
      <3>3. ASSUME NEW k \in DOMAIN w3.bridge
            PROVE  r.bridge[k] = IF SwitchOf(w, l, 2) /\ k = w.node[b].name
                                 THEN w3.bridge[k] \cup {IntfName(w, <<l, 2>>)} ELSE w3.bridge[k]
        <4>1. r.bridge[k] = IF w3.node[b].kind = "switch" /\ Runs(w3, b) /\ k = w.node[b].name
                            THEN w3.bridge[k] \cup {IntfName(w, <<l, 2>>)} ELSE w3.bridge[k]
          BY <1>20, <3>1, <3>2, ZenonT(60)
        <4>2. (SwitchOf(w, l, 2) <=> w3.node[b].kind = "switch" /\ Runs(w3, b))
          BY <1>17, <1>19, ZenonT(60)
        <4>3. CASE SwitchOf(w, l, 2)
          BY <4>1, <4>2, <4>3, ZenonT(60)
        <4>4. CASE ~SwitchOf(w, l, 2)
          BY <4>1, <4>2, <4>4, ZenonT(60)
        <4> QED
          BY <4>3, <4>4
      <3> QED
        BY <3>1, <3>3, ZenonT(60)
    <2>3. PICK x1, x2 : x1 = IntfName(w, <<l, 1>>) /\ x2 = IntfName(w, <<l, 2>>)
      OBVIOUS
    <2>4. ASSUME NEW k \in DOMAIN w.bridge, NEW x
          PROVE  x \in r.bridge[k] <=>
                    \/ x \in w.bridge[k]
                    \/ \E s \in {1, 2} : /\ SwitchOf(w, l, s) /\ k = NameOf(w, l, s)
                                         /\ x = IntfName(w, <<l, s>>)
      <3>1. x \in w3.bridge[k] <=> x \in w.bridge[k] \/ (SwitchOf(w, l, 1) /\ k = NameOf(w, l, 1) /\ x = x1)
        <4>1. k = NameOf(w, l, 1) <=> k = w.node[a].name
          BY <1>19, Zenon
        <4>2. w3.bridge[k] = IF SwitchOf(w, l, 1) /\ k = w.node[a].name
                             THEN w.bridge[k] \cup {x1} ELSE w.bridge[k]
          BY <2>1, <2>3, Zenon
        <4> QED
          BY <4>1, <4>2, ZenonT(60)
      <3>2. x \in r.bridge[k] <=> x \in w3.bridge[k] \/ (SwitchOf(w, l, 2) /\ k = NameOf(w, l, 2) /\ x = x2)
        <4>1. k = NameOf(w, l, 2) <=> k = w.node[b].name
          BY <1>19, Zenon
        <4>2. r.bridge[k] = IF SwitchOf(w, l, 2) /\ k = w.node[b].name
                            THEN w3.bridge[k] \cup {x2} ELSE w3.bridge[k]
          BY <2>1, <2>2, <2>3, Zenon
        <4> QED
          BY <4>1, <4>2, ZenonT(60)
      <3> QED
        BY <2>3, <3>1, <3>2
    <2> QED
      BY <2>1, <2>2, <2>4 DEF PortsMade
  <1>23. /\ \A m \in DOMAIN w.node : m \notin {w.link[l].n[1], w.link[l].n[2]} => r.node[m] = w.node[m]
         /\ \A s \in {1, 2} :
               Gains(w.node[w.link[l].n[s]], <<l, s>>, w.link[l].p[s], r.node[w.link[l].n[s]])
    BY <1>1, <1>10, <1>13, <1>17
  <1> QED
    BY <1>15, <1>16, <1>17, <1>21, <1>22, <1>23 DEF LinkMade

(* There is one node more, without interfaces but the loopback one of a switch.  *)
NodeMade(w, name, kind, ip, k, r) ==
    /\ r.link = w.link
    /\ k \in Nat /\ DOMAIN w.node = 1..k /\ DOMAIN r.node = 1..(k + 1) /\ Len(r.node) = k + 1
    /\ \A m \in DOMAIN w.node : r.node[m] = w.node[m]
    /\ r.node[k + 1].name = name /\ r.node[k + 1].kind = kind /\ r.node[k + 1].shell = TRUE
    /\ r.node[k + 1].ip = ip
    /\ Range(r.node[k + 1].intfs) \subseteq {Lo} /\ DOMAIN r.node[k + 1].ports \subseteq {Lo}

IsNew(nd, name, kind, ip) ==
    /\ nd.name = name /\ nd.kind = kind /\ nd.shell = TRUE /\ nd.ip = ip
    /\ Range(nd.intfs) \subseteq {Lo} /\ DOMAIN nd.ports \subseteq {Lo}

\* The object of a new node.
LEMMA NewNodeIs ==
    ASSUME NEW name, name \in NodeNames, NEW kind, kind \in Kinds, NEW ip, ip \in 0..MaxIP,
           NEW n, NEW lk, NEW nd
    PROVE  nd = NewNode(name, kind, ip) => NodeShape(nd, n, lk) /\ IsNew(nd, name, kind, ip)
  <1>0. SUFFICES ASSUME nd = NewNode(name, kind, ip)
                 PROVE  NodeShape(nd, n, lk) /\ IsNew(nd, name, kind, ip)
    OBVIOUS
  <1>1. PICK intfs, ports :
           /\ intfs = IF kind = "switch" THEN With(<<>>, 0, Lo) ELSE <<>>
           /\ ports = IF kind = "switch" THEN With(<<>>, Lo, 0) ELSE <<>>
    OBVIOUS
  <1>2. nd = [name |-> name, kind |-> kind, ip |-> ip, shell |-> TRUE, addr |-> Lo,
              intfs |-> intfs, ports |-> ports]
    BY <1>0, <1>1 DEF NewNode
  <1>3. /\ nd.name = name /\ nd.kind = kind /\ nd.shell = TRUE /\ nd.ip = ip
        /\ nd.intfs = intfs /\ nd.ports = ports /\ IsNode(nd)
    BY <1>2 DEF IsNode, NodeFields
  <1>4. CASE kind = "switch"
    <2>1. DOMAIN <<>> = {}
      OBVIOUS
    <2>2. intfs = With(<<>>, 0, Lo) /\ ports = With(<<>>, Lo, 0)
      BY <1>1, <1>4
    <2>3. /\ DOMAIN intfs = {0} /\ intfs[0] = Lo /\ Plain(intfs)
          /\ DOMAIN ports = {Lo} /\ ports[Lo] = 0 /\ Plain(ports)
      BY <2>1, <2>2 DEF With, Plain
    <2>4. Bounded(ports)
      <3>1. \A i \in DOMAIN ports : ports[i] \in 0..0
        BY <2>3
      <3> QED
        BY <3>1 DEF Bounded
    <2>5. Maps(intfs, ports, kind, n, lk)
      BY <1>4, <2>3, <2>4 DEF Maps
    <2>6. NodeShape(nd, n, lk)
      BY <1>3, <2>5 DEF NodeShape
    <2>7. Range(intfs) \subseteq {Lo} /\ DOMAIN ports \subseteq {Lo}
      BY <2>3 DEF Range
    <2> QED
      BY <1>3, <2>6, <2>7 DEF IsNew
  <1>5. CASE kind # "switch"
    <2>1. intfs = <<>> /\ ports = <<>>
      BY <1>1, <1>5
    <2>2. DOMAIN intfs = {} /\ DOMAIN ports = {}
      BY <2>1
    <2>3. Plain(intfs) /\ Plain(ports)
      BY <2>1 DEF Plain
    <2>4. Bounded(ports)
      <3>1. \A i \in DOMAIN ports : ports[i] \in 0..0
        BY <2>2
      <3> QED
        BY <3>1 DEF Bounded
    <2>5. Maps(intfs, ports, kind, n, lk)
      BY <1>5, <2>2, <2>3, <2>4 DEF Maps
    <2>6. NodeShape(nd, n, lk)
      BY <1>3, <2>5 DEF NodeShape
    <2>7. Range(intfs) \subseteq {Lo} /\ DOMAIN ports \subseteq {Lo}
      BY <2>2 DEF Range
    <2> QED
      BY <1>3, <2>6, <2>7 DEF IsNew
  <1> QED
    BY <1>4, <1>5

\* addHost(), addDocker(), addSwitch().
LEMMA NodeMadeIs ==
    ASSUME NEW w, Shape(w), NEW name \in NodeNames, NEW kind \in Kinds, NEW ip \in 0..MaxIP,
           NEW r, IsWorld(r)
    PROVE  /\ r.node = Append(w.node, NewNode(name, kind, ip))
           /\ r.link = w.link /\ r.veth = w.veth /\ r.bridge = w.bridge
           => \E k \in Nat : Shape(r) /\ NodeMade(w, name, kind, ip, k, r)
  <1>0. SUFFICES ASSUME r.node = Append(w.node, NewNode(name, kind, ip)),
                        r.link = w.link, r.veth = w.veth, r.bridge = w.bridge
                 PROVE  \E k \in Nat : Shape(r) /\ NodeMade(w, name, kind, ip, k, r)
    OBVIOUS
  <1>1. PICK nd : nd = NewNode(name, kind, ip)
    OBVIOUS
  <1>2. Worldly(w) /\ IsSeq(w.node)
    BY DEF Shape, Worldly
  <1>3. r.node = Append(w.node, nd)
    BY <1>0, <1>1
  <1>4. PICK k \in Nat : /\ DOMAIN w.node = 1..k /\ DOMAIN r.node = 1..(k + 1)
                         /\ r.node[k + 1] = nd /\ Len(r.node) = k + 1
                         /\ \A i \in 1..k : r.node[i] = w.node[i]
    <2>1. \E m \in Nat : /\ DOMAIN w.node = 1..m /\ DOMAIN Append(w.node, nd) = 1..(m + 1)
                         /\ Append(w.node, nd)[m + 1] = nd /\ Len(Append(w.node, nd)) = m + 1
                         /\ \A i \in 1..m : Append(w.node, nd)[i] = w.node[i]
      BY <1>2, AppendedLast
    <2> QED
      BY <1>3, <2>1
  <1>5. IsSeq(r.node)
    <2>1. IsSeq(Append(w.node, nd))
      BY <1>2, AppendedSeq
    <2> QED
      BY <1>3, <2>1
  <1>6. Worldly(r)
    BY <1>0, <1>2, <1>5, FewerPairs DEF Worldly
  <1>7. NodeShape(nd, k + 1, w.link) /\ IsNew(nd, name, kind, ip)
    BY <1>1, NewNodeIs
  <1>8. ASSUME NEW n \in DOMAIN r.node PROVE NodeShape(r.node[n], n, r.link)
    <2>1. CASE n = k + 1
      BY <1>0, <1>4, <1>7, <2>1
    <2>2. CASE n \in 1..k
      <3>1. NodeShape(w.node[n], n, w.link) /\ r.node[n] = w.node[n]
        BY <1>0, <1>4, <2>2 DEF Shape
      <3> QED
        BY <1>0, <3>1
    <2> QED
      BY <1>4, <2>1, <2>2
  <1>9. ASSUME NEW l \in DOMAIN r.link PROVE LinkShape(r, l)
    <2>1. LinkShape(w, l)
      BY <1>0, <1>9 DEF Shape
    <2>2. ASSUME NEW s \in {1, 2}
          PROVE  /\ w.link[l].n[s] \in DOMAIN w.node
                 /\ w.link[l].n[s] \in DOMAIN r.node
                 /\ r.node[w.link[l].n[s]] = w.node[w.link[l].n[s]]
      <3>1. PICK n : n = w.link[l].n[s]
        OBVIOUS
      <3>2. n \in DOMAIN w.node
        BY <2>1, <3>1 DEF LinkShape
      <3>3. n \in DOMAIN r.node /\ r.node[n] = w.node[n]
        BY <1>4, <3>2
      <3> QED
        BY <3>1, <3>2, <3>3
    <2> QED
      BY <1>0, <2>1, <2>2 DEF LinkShape
  <1>10. Shape(r)
    BY <1>6, <1>8, <1>9 DEF Shape
  <1>11. NodeMade(w, name, kind, ip, k, r)
    BY <1>0, <1>4, <1>7 DEF NodeMade, IsNew
  <1> QED
    BY <1>10, <1>11

(* The addresses have been set, and nothing else.  *)
Addressed(w, r) ==
    /\ DOMAIN r.node = DOMAIN w.node
    /\ \A n \in DOMAIN w.node :
          /\ r.node[n].name = w.node[n].name /\ r.node[n].kind = w.node[n].kind
          /\ r.node[n].shell = w.node[n].shell
          /\ r.node[n].intfs = w.node[n].intfs /\ r.node[n].ports = w.node[n].ports

\* configHosts(), for one node.
LEMMA ConfiguredIs ==
    ASSUME NEW nd, NEW n, NEW lk, NodeShape(nd, n, lk), NEW md
    PROVE  md = Configured(nd) =>
              /\ NodeShape(md, n, lk)
              /\ md.name = nd.name /\ md.kind = nd.kind /\ md.shell = nd.shell
              /\ md.intfs = nd.intfs /\ md.ports = nd.ports
  <1>0. SUFFICES ASSUME md = Configured(nd)
                 PROVE  /\ NodeShape(md, n, lk)
                        /\ md.name = nd.name /\ md.kind = nd.kind /\ md.shell = nd.shell
                        /\ md.intfs = nd.intfs /\ md.ports = nd.ports
    OBVIOUS
  <1>1. IsNode(nd) /\ nd.ip \in 0..MaxIP /\ nd.shell \in BOOLEAN
    BY DEF NodeShape
  <1>2. /\ IsNode(md) /\ md.name = nd.name /\ md.kind = nd.kind /\ md.shell = nd.shell
        /\ md.intfs = nd.intfs /\ md.ports = nd.ports /\ (md.ip = nd.ip \/ md.ip = 0)
    <2>1. PICK first : first = nd.intfs[DefaultPort(nd)]
      OBVIOUS
    <2>2. \/ md = nd \/ md = [nd EXCEPT !.ip = 0] \/ md = [nd EXCEPT !.addr = first]
      BY <1>0, <2>1 DEF Configured
    <2> QED
      BY <1>1, <2>2 DEF IsNode, NodeFields
  <1>3. md.ip \in 0..MaxIP
    <2>1. MaxIP \in Nat
      BY BoundsAssumption
    <2> QED
      BY <1>1, <1>2, <2>1
  <1>4. NodeShape(md, n, lk)
    BY <1>1, <1>2, <1>3, SameMaps
  <1> QED
    BY <1>2, <1>4

\* configHosts().
LEMMA AddressedIs ==
    ASSUME NEW w, Shape(w), NEW r, IsWorld(r), r.node = [n \in DOMAIN w.node |-> Configured(w.node[n])],
           r.link = w.link, r.veth = w.veth, r.bridge = w.bridge
    PROVE  Shape(r) /\ Same(w, r) /\ Addressed(w, r)
  <1>1. Worldly(w) /\ IsSeq(w.node)
    BY DEF Shape, Worldly
  <1>2. ASSUME NEW n \in DOMAIN w.node
        PROVE  /\ NodeShape(r.node[n], n, r.link)
               /\ r.node[n].name = w.node[n].name /\ r.node[n].kind = w.node[n].kind
               /\ r.node[n].shell = w.node[n].shell
               /\ r.node[n].intfs = w.node[n].intfs /\ r.node[n].ports = w.node[n].ports
    <2>1. PICK nd, md : nd = w.node[n] /\ md = r.node[n]
      OBVIOUS
    <2>2. NodeShape(nd, n, w.link) /\ md = Configured(nd)
      BY <2>1 DEF Shape
    <2>3. /\ NodeShape(md, n, w.link)
          /\ md.name = nd.name /\ md.kind = nd.kind /\ md.shell = nd.shell
          /\ md.intfs = nd.intfs /\ md.ports = nd.ports
      BY <2>2, ConfiguredIs
    <2> QED
      BY <2>1, <2>3
  <1>3. DOMAIN r.node = DOMAIN w.node
    OBVIOUS
  <1>4. IsSeq(r.node)
    <2>1. PICK k \in Nat : w.node = [i \in 1..k |-> w.node[i]]
      BY <1>1 DEF IsSeq
    <2>2. DOMAIN w.node = 1..k
      BY <2>1
    <2>3. r.node = [i \in 1..k |-> r.node[i]]
      BY <2>2
    <2> QED
      BY <2>3 DEF IsSeq
  <1>5. Worldly(r)
    BY <1>1, <1>4, FewerPairs DEF Worldly
  <1>6. Same(w, r) /\ Addressed(w, r)
    BY <1>2, <1>3 DEF Same, Addressed
  <1>7. ASSUME NEW l \in DOMAIN r.link PROVE LinkShape(r, l)
    <2>1. LinkShape(w, l)
      BY DEF Shape
    <2>2. \A s \in {1, 2} : /\ w.link[l].n[s] \in DOMAIN w.node
                            /\ r.node[w.link[l].n[s]].name = w.node[w.link[l].n[s]].name
                            /\ r.node[w.link[l].n[s]].kind = w.node[w.link[l].n[s]].kind
      BY <1>2, <2>1 DEF LinkShape
    <2> QED
      BY <1>3, <2>1, <2>2 DEF LinkShape
  <1> QED
    BY <1>2, <1>3, <1>5, <1>6, <1>7 DEF Shape

(* A switch has its bridge made anew.  *)
BridgeMade(w, n, r) ==
    /\ r.node = w.node /\ r.link = w.link /\ r.veth = w.veth /\ r.raised = w.raised
    /\ r.proc = IF Runs(w, n) THEN w.proc \cup {w.node[n].name} ELSE w.proc
    /\ DOMAIN r.bridge = IF Runs(w, n) THEN DOMAIN w.bridge \cup {w.node[n].name} ELSE DOMAIN w.bridge
    /\ \A b \in DOMAIN r.bridge :
          r.bridge[b] = IF Runs(w, n) /\ b = w.node[n].name
                        THEN SwitchPorts(w, n)
                        ELSE w.bridge[b]

\* OVSSwitch.start().
LEMMA BridgeMadeIs ==
    ASSUME NEW w, Shape(w), NEW n, NEW r
    PROVE  w = World /\ r = StartedSwitch(n) => Shape(r) /\ Same(w, r) /\ BridgeMade(w, n, r)
  <1>0. SUFFICES ASSUME w = World, r = StartedSwitch(n)
                 PROVE  Shape(r) /\ Same(w, r) /\ BridgeMade(w, n, r)
    OBVIOUS
  <1>1. Worldly(w) /\ Plain(w.bridge)
    BY DEF Shape, Worldly
  <1>2. PICK woken : woken = Woken(w, n)
    OBVIOUS
  <1>3. /\ Worldly(woken)
        /\ woken.node = w.node /\ woken.link = w.link /\ woken.veth = w.veth
        /\ woken.bridge = w.bridge /\ woken.raised = w.raised
        /\ woken.proc = IF Runs(w, n) THEN w.proc \cup {w.node[n].name} ELSE w.proc
    BY <1>1, <1>2, WokenIs, ZenonT(60)
  <1>4. PICK ports : ports = SwitchPorts(w, n)
    OBVIOUS
  <1>5. CASE Runs(w, n)
    <2>1. PICK m : m = With(w.bridge, w.node[n].name, ports)
      OBVIOUS
    <2>2. SwitchPorts(woken, n) = ports
      BY <1>3, <1>4 DEF IntfName, SwitchPorts
    <2>3. node = w.node
      BY <1>0 DEF World
    <2>5. Runs(woken, n)
      BY <1>3, <1>5 DEF Runs
    <2>4. r = [woken EXCEPT !.bridge = With(@, node[n].name, SwitchPorts(woken, n))]
      BY <1>0, <1>2, <1>5, <2>5 DEF StartedSwitch
    <2>6. r = [woken EXCEPT !.bridge = m]
      BY <1>3, <2>1, <2>2, <2>3, <2>4
    <2>7. /\ IsWorld(r) /\ r.node = w.node /\ r.link = w.link /\ r.veth = w.veth
          /\ r.raised = w.raised /\ r.bridge = m /\ r.proc = w.proc \cup {w.node[n].name}
      BY <1>3, <1>5, <2>6 DEF Worldly, IsWorld, WorldFields
    <2>8. /\ DOMAIN m = DOMAIN w.bridge \cup {w.node[n].name} /\ Plain(m)
          /\ \A b \in DOMAIN m : m[b] = IF b = w.node[n].name THEN ports ELSE w.bridge[b]
      BY <2>1 DEF With, Plain
    <2>9. Worldly(r)
      BY <1>1, <2>7, <2>8 DEF Worldly
    <2>10. Shape(r) /\ Same(w, r)
      BY <2>7, <2>9, ShapeOfMaps
    <2>11. BridgeMade(w, n, r)
      BY <1>4, <1>5, <2>7, <2>8 DEF BridgeMade
    <2> QED
      BY <2>10, <2>11
  <1>6. CASE ~Runs(w, n)
    <2>1. r = w
      BY <1>0, <1>2, <1>6 DEF StartedSwitch, Woken
    <2> QED
      BY <1>6, <2>1 DEF BridgeMade, Same
  <1> QED
    BY <1>5, <1>6

(* The two ends of a pair that could be made, or of one of which an end could not be
   moved.  *)
PairMade(w, l, made) ==
    /\ made.result \in {"raises", "made", "exits"}
    /\ made.result # "raises" =>
          /\ \E x, y : x # y /\ made.pair = {{x, y}}
          /\ \A v \in w.veth : \A s \in {1, 2} : <<Root, IntfName(w, <<l, s>>)>> \notin v
    /\ made.result = "made" =>
          /\ made.pair = {{End(w, <<l, 1>>), End(w, <<l, 2>>)}}
          /\ \A s \in {1, 2} : w.node[w.link[l].n[s]].name \in w.proc
          /\ \A v \in w.veth : \A s \in {1, 2} : End(w, <<l, s>>) \notin v

\* makeIntfPair().
LEMMA PairMadeIs ==
    ASSUME NEW w, Shape(w), NEW l \in DOMAIN w.link, NEW made
    PROVE  made = PairResult(w, l) => PairMade(w, l, made)
  <1>0. SUFFICES ASSUME made = PairResult(w, l) PROVE PairMade(w, l, made)
    OBVIOUS
  <1>1. PICK name1, name2, move1, move2 :
           /\ name1 = IntfName(w, <<l, 1>>) /\ name2 = IntfName(w, <<l, 2>>)
           /\ move1 = Movable(w, w.link[l].n[1], name1) /\ move2 = Movable(w, w.link[l].n[2], name2)
    OBVIOUS
  <1>2. PICK x, y : /\ x = IF move1 THEN End(w, <<l, 1>>) ELSE <<Root, name1>>
                    /\ y = IF move1 /\ move2 THEN End(w, <<l, 2>>) ELSE <<Root, name2>>
    OBVIOUS
  <1>3. x # y
    <2>1. name1 # name2
      <3>1. LinkShape(w, l)
        BY DEF Shape
      <3>2. w.node[w.link[l].n[1]].name # w.node[w.link[l].n[2]].name
        BY <3>1 DEF LinkShape
      <3>3. <<l, 1>>[1] = l /\ <<l, 1>>[2] = 1 /\ <<l, 2>>[1] = l /\ <<l, 2>>[2] = 2
        OBVIOUS
      <3>4. /\ name1 = <<w.node[w.link[l].n[1]].name, w.link[l].p[1]>>
            /\ name2 = <<w.node[w.link[l].n[2]].name, w.link[l].p[2]>>
        BY <1>1, <3>3 DEF IntfName
      <3> QED
        BY <3>2, <3>4
    <2>2. PICK r1, r2 : x = <<r1, name1>> /\ y = <<r2, name2>>
      BY <1>1, <1>2 DEF End
    <2> QED
      BY <2>1, <2>2
  <1>4. PICK taken : taken = \E v \in w.veth, s \in 1..2 : <<Root, IntfName(w, <<l, s>>)>> \in v
    OBVIOUS
  <1>5. CASE taken
    <2>1. made = [result |-> "raises", pair |-> {}]
      BY <1>0, <1>4, <1>5 DEF PairResult
    <2> QED
      BY <2>1 DEF PairMade
  <1>6. CASE ~taken
    <2>1. /\ made.result = IF move1 /\ move2 THEN "made" ELSE "exits"
          /\ made.pair = {{x, y}}
      BY <1>0, <1>1, <1>2, <1>4, <1>6 DEF PairResult
    <2>2. \A v \in w.veth : \A s \in {1, 2} : <<Root, IntfName(w, <<l, s>>)>> \notin v
      BY <1>4, <1>6
    <2>3. made.result = "made" =>
             /\ made.pair = {{End(w, <<l, 1>>), End(w, <<l, 2>>)}}
             /\ \A s \in {1, 2} : w.node[w.link[l].n[s]].name \in w.proc
      BY <1>1, <1>2, <2>1 DEF Movable
    <2>4. ASSUME made.result = "made"
          PROVE  \A v \in w.veth : \A s \in {1, 2} : End(w, <<l, s>>) \notin v
      <3>1. move1 /\ move2
        BY <2>1, <2>4
      <3>2. ASSUME NEW s \in {1, 2}, NEW name, name = IntfName(w, <<l, s>>),
                   Movable(w, w.link[l].n[s], name)
            PROVE  \A v \in w.veth : End(w, <<l, s>>) \notin v
        <4>1. <<l, s>>[1] = l /\ <<l, s>>[2] = s
          OBVIOUS
        <4>2. End(w, <<l, s>>) = <<Namespace(w.node[w.link[l].n[s]]), name>>
          BY <3>2, <4>1 DEF End
        <4>3. CASE Namespace(w.node[w.link[l].n[s]]) = Root
          BY <2>2, <3>2, <4>2, <4>3
        <4>4. CASE \A v \in w.veth : <<Namespace(w.node[w.link[l].n[s]]), name>> \notin v
          BY <4>2, <4>4
        <4> QED
          BY <3>2, <4>3, <4>4 DEF Movable
      <3> QED
        BY <1>1, <3>1, <3>2
    <2> QED
      BY <1>3, <2>1, <2>2, <2>3, <2>4 DEF PairMade
  <1> QED
    BY <1>5, <1>6

\* A list with another element.
LEMMA ListAppended ==
    ASSUME NEW s, IsList(s), NEW e, e \notin Range(s), NEW r
    PROVE  r = Append(s, e) => IsList(r) /\ Range(r) = Range(s) \cup {e}
  <1>0. SUFFICES ASSUME r = Append(s, e)
                 PROVE  IsList(r) /\ Range(r) = Range(s) \cup {e}
    OBVIOUS
  <1>1. IsSeq(s)
    BY DEF IsList
  <1>2. PICK k \in Nat : /\ DOMAIN s = 1..k /\ DOMAIN r = 1..(k + 1)
                         /\ r[k + 1] = e /\ Len(r) = k + 1
                         /\ \A i \in 1..k : r[i] = s[i]
    <2>1. \E m \in Nat : /\ DOMAIN s = 1..m /\ DOMAIN Append(s, e) = 1..(m + 1)
                         /\ Append(s, e)[m + 1] = e /\ Len(Append(s, e)) = m + 1
                         /\ \A i \in 1..m : Append(s, e)[i] = s[i]
      BY <1>1, AppendedLast
    <2> QED
      BY <1>0, <2>1
  <1>3. IsSeq(r)
    <2>1. IsSeq(Append(s, e))
      BY <1>1, AppendedSeq
    <2> QED
      BY <1>0, <2>1
  <1>4. \A i \in 1..k : s[i] # e
    BY <1>2 DEF Range
  <1>5. Once(r)
    <2>1. \A i, j \in 1..k : s[i] = s[j] => i = j
      BY <1>2 DEF IsList, Once
    <2>2. \A i \in DOMAIN r : i \in 1..k \/ i = k + 1
      BY <1>2
    <2> QED
      BY <1>2, <1>4, <2>1, <2>2 DEF Once
  <1>6. Range(r) = Range(s) \cup {e}
    <2>1. \A i \in DOMAIN r : i \in 1..k \/ i = k + 1
      BY <1>2
    <2>2. \A i \in 1..k : i \in DOMAIN r
      BY <1>2
    <2>3. k + 1 \in DOMAIN r
      BY <1>2
    <2> QED
      BY <1>2, <2>1, <2>2, <2>3 DEF Range
  <1> QED
    BY <1>3, <1>5, <1>6 DEF IsList

\* The empty list.
LEMMA NothingIsList ==
    ASSUME NEW s, s = <<>>
    PROVE  IsList(s) /\ Range(s) = {}
  <1>1. IsSeq(s)
    BY NothingIsSeq
  <1>2. DOMAIN s = {}
    OBVIOUS
  <1> QED
    BY <1>1, <1>2 DEF IsList, Once, Range

\* Two sequences, one after the other.
LEMMA Concatenated ==
    ASSUME NEW s, NEW m \in Nat, s = [i \in 1..m |-> s[i]], NEW t, NEW n \in Nat, t = [i \in 1..n |-> t[i]],
           NEW r
    PROVE  r = s \o t =>
              /\ r = [i \in 1..(m + n) |-> r[i]]
              /\ \A i \in 1..(m + n) : r[i] = IF i <= m THEN s[i] ELSE t[i - m]
  <1>0. SUFFICES ASSUME r = s \o t
                 PROVE  /\ r = [i \in 1..(m + n) |-> r[i]]
                        /\ \A i \in 1..(m + n) : r[i] = IF i <= m THEN s[i] ELSE t[i - m]
    OBVIOUS
  <1>1. PICK Elements : Elements = {s[i] : i \in 1..m} \cup {t[i] : i \in 1..n}
    OBVIOUS
  <1>2. s \in Seq(Elements) /\ Len(s) = m
    <2>1. s \in [1..m -> Elements]
      BY <1>1
    <2>2. s \in Seq(Elements)
      BY <2>1, SeqDef
    <2>3. DOMAIN s = 1..m
      BY <2>1
    <2>4. Len(s) = m
      BY <2>2, <2>3, LenProperties
    <2> QED
      BY <2>2, <2>4
  <1>3. t \in Seq(Elements) /\ Len(t) = n
    <2>1. t \in [1..n -> Elements]
      BY <1>1
    <2>2. t \in Seq(Elements)
      BY <2>1, SeqDef
    <2>3. DOMAIN t = 1..n
      BY <2>1
    <2>4. Len(t) = n
      BY <2>2, <2>3, LenProperties
    <2> QED
      BY <2>2, <2>4
  <1>4. /\ s \o t \in Seq(Elements) /\ Len(s \o t) = Len(s) + Len(t)
        /\ \A i \in 1..Len(s) + Len(t) : (s \o t)[i] = IF i <= Len(s) THEN s[i] ELSE t[i - Len(s)]
    BY <1>2, <1>3, ConcatProperties
  <1>5. /\ r \in Seq(Elements) /\ Len(r) = m + n
        /\ \A i \in 1..(m + n) : r[i] = IF i <= m THEN s[i] ELSE t[i - m]
    BY <1>0, <1>2, <1>3, <1>4
  <1>6. r \in [1..(m + n) -> Elements]
    BY <1>5, LenProperties
  <1> QED
    BY <1>5, <1>6

-----------------------------------------------------------------------------
(***************************************************************************)
(* The jobs of building a network.                                         *)
(***************************************************************************)

(* A name that a link job gives is that of a node that is, or will be when its turn
   has come, and it does not ask for the loopback interface of a switch. *)
Known(x, p, j, jobs, names, nodes) ==
    \/ x \in DOMAIN names /\ (nodes[names[x]].kind = "switch" => p # 0)
    \/ \E k \in DOMAIN jobs : /\ k < j /\ jobs[k].call = "node" /\ jobs[k].of.name = x
                              /\ jobs[k].of.kind = "switch" => p # 0
LinkJob(l, j, jobs, names, nodes) ==
    /\ l.a # l.b /\ l.p1 \in Nat /\ l.p2 \in Nat
    /\ Known(l.a, l.p1, j, jobs, names, nodes) /\ Known(l.b, l.p2, j, jobs, names, nodes)
NodeJob(nd, names) ==
    nd.name \in NodeNames /\ nd.kind \in Kinds /\ nd.name \notin DOMAIN names
Building(jobs, names, nodes) ==
    /\ IsSeq(jobs) /\ \A j \in DOMAIN jobs : j \in Nat /\ j > 0
    /\ \A j \in DOMAIN jobs : jobs[j].call = "node" => NodeJob(jobs[j].of, names)
    /\ \A j, k \in DOMAIN jobs :
          jobs[j].call = "node" /\ jobs[k].call = "node" /\ jobs[j].of.name = jobs[k].of.name => j = k
    /\ \A j \in DOMAIN jobs :
          jobs[j].call = "link" => LinkJob(jobs[j].of, j, jobs, names, nodes)

(* The jobs of a topology, in their order: h hosts, s switches, m links.  *)
JobsIn(t, jobs, h, s, m) ==
    /\ h \in Nat /\ s \in Nat /\ m \in Nat
    /\ DOMAIN HostsOf(t) = 1..h /\ DOMAIN SwitchesOf(t) = 1..s /\ DOMAIN LinksOf(t) = 1..m
    /\ jobs = [i \in 1..(h + s + m + 1) |-> jobs[i]]
    /\ \A i \in 1..h : jobs[i] = Job("node", HostsOf(t)[i])
    /\ \A i \in 1..s : jobs[h + i] = Job("node", SwitchesOf(t)[i])
    /\ \A i \in 1..m : jobs[h + s + i] = Job("link", LinksOf(t)[i])
    /\ jobs[h + s + m + 1] = Job("config", 0)

\* Mininet.buildFromTopo(): nodes before links.
LEMMA JobsAre ==
    ASSUME NEW t \in Topologies, NEW jobs
    PROVE  jobs = BuildJobs(t) => \E h, s, m : JobsIn(t, jobs, h, s, m)
  <1>0. SUFFICES ASSUME jobs = BuildJobs(t) PROVE \E h, s, m : JobsIn(t, jobs, h, s, m)
    OBVIOUS
  <1>1. PICK H1, S1, L1 : H1 = HostsOf(t) /\ S1 = SwitchesOf(t) /\ L1 = LinksOf(t)
    OBVIOUS
  <1>2. PICK Hosts, Switches, Links : H1 \in Seq(Hosts) /\ S1 \in Seq(Switches) /\ L1 \in Seq(Links)
    <2>1. WellFormed(t)
      BY TopologiesAssumption
    <2> QED
      BY <1>1, <2>1 DEF WellFormed
  <1>3. PICK h \in Nat, s \in Nat, m \in Nat : DOMAIN H1 = 1..h /\ DOMAIN S1 = 1..s /\ DOMAIN L1 = 1..m
    BY <1>2, LenProperties
  <1>4. PICK A, B, C, E :
           /\ A = Jobs("node", H1) /\ B = Jobs("node", S1) /\ C = Jobs("link", L1)
           /\ E = <<Job("config", 0)>>
    OBVIOUS
  <1>5. jobs = A \o B \o C \o E
    BY <1>0, <1>1, <1>4 DEF BuildJobs
  <1>6. /\ A = [k \in 1..h |-> A[k]] /\ B = [k \in 1..s |-> B[k]] /\ C = [k \in 1..m |-> C[k]]
        /\ \A k \in 1..h : A[k] = Job("node", H1[k])
        /\ \A k \in 1..s : B[k] = Job("node", S1[k])
        /\ \A k \in 1..m : C[k] = Job("link", L1[k])
    BY <1>3, <1>4 DEF Jobs
  <1>7. E = [k \in 1..1 |-> E[k]] /\ E[1] = Job("config", 0)
    BY <1>4
  <1>8. PICK AB, ABC : AB = A \o B /\ ABC = AB \o C
    OBVIOUS
  <1>9. /\ AB = [i \in 1..(h + s) |-> AB[i]]
        /\ \A i \in 1..(h + s) : AB[i] = IF i <= h THEN A[i] ELSE B[i - h]
    BY <1>6, <1>8, Concatenated
  <1>10. PICK hs \in Nat : hs = h + s
    OBVIOUS
  <1>16. /\ ABC = [i \in 1..(hs + m) |-> ABC[i]]
         /\ \A i \in 1..(hs + m) : ABC[i] = IF i <= hs THEN AB[i] ELSE C[i - hs]
    <2>1. AB = [i \in 1..hs |-> AB[i]]
      BY <1>9, <1>10
    <2> QED
      BY <1>3, <1>6, <1>8, <1>10, <2>1, Concatenated
  <1>17. PICK hsm \in Nat : hsm = hs + m
    OBVIOUS
  <1>18. /\ jobs = [i \in 1..(hsm + 1) |-> jobs[i]]
         /\ \A i \in 1..(hsm + 1) : jobs[i] = IF i <= hsm THEN ABC[i] ELSE E[i - hsm]
    <2>1. ABC = [i \in 1..hsm |-> ABC[i]]
      BY <1>16, <1>17
    <2>2. jobs = ABC \o E /\ 1 \in Nat
      BY <1>5, <1>8
    <2> QED
      BY <1>7, <1>17, <2>1, <2>2, Concatenated
  <1>19. \A i \in 1..hsm : jobs[i] = IF i <= hs THEN AB[i] ELSE C[i - hs]
    <2> SUFFICES ASSUME NEW i \in 1..hsm PROVE jobs[i] = IF i <= hs THEN AB[i] ELSE C[i - hs]
      OBVIOUS
    <2>1. i \in 1..(hsm + 1) /\ i <= hsm /\ i \in 1..(hs + m)
      BY <1>17
    <2>2. jobs[i] = ABC[i]
      BY <1>18, <2>1
    <2> QED
      BY <1>16, <2>1, <2>2
  <1>12. ASSUME NEW i \in 1..h PROVE jobs[i] = Job("node", H1[i])
    <2>1. i \in 1..hsm /\ i <= hs /\ i \in 1..(h + s) /\ i <= h
      BY <1>10, <1>17
    <2>2. jobs[i] = AB[i]
      BY <1>19, <2>1
    <2>3. AB[i] = A[i]
      BY <1>9, <2>1
    <2> QED
      BY <1>6, <2>2, <2>3
  <1>13. ASSUME NEW i \in 1..s PROVE jobs[h + i] = Job("node", S1[i])
    <2>1. PICK j \in 1..hsm : j = h + i
      BY <1>10, <1>17
    <2>2. j <= hs /\ j \in 1..(h + s) /\ ~(j <= h) /\ j - h = i
      BY <1>10, <2>1
    <2>3. jobs[j] = AB[j]
      BY <1>19, <2>2
    <2>4. AB[j] = B[i]
      BY <1>9, <2>2
    <2> QED
      BY <1>6, <2>1, <2>3, <2>4
  <1>14. ASSUME NEW i \in 1..m PROVE jobs[h + s + i] = Job("link", L1[i])
    <2>1. PICK j \in 1..hsm : j = h + s + i
      BY <1>10, <1>17
    <2>2. ~(j <= hs) /\ j - hs = i
      BY <1>10, <2>1
    <2>3. jobs[j] = C[i]
      BY <1>19, <2>2
    <2> QED
      BY <1>6, <2>1, <2>3
  <1>15. jobs[h + s + m + 1] = Job("config", 0)
    <2>1. hsm + 1 \in 1..(hsm + 1) /\ ~(hsm + 1 <= hsm) /\ (hsm + 1) - hsm = 1
      OBVIOUS
    <2>2. jobs[hsm + 1] = Job("config", 0)
      BY <1>7, <1>18, <2>1
    <2> QED
      BY <1>10, <1>17, <2>2
  <1>11. jobs = [i \in 1..(h + s + m + 1) |-> jobs[i]]
    <2>1. hsm + 1 = h + s + m + 1
      BY <1>10, <1>17
    <2> QED
      BY <1>18, <2>1
  <1>20. JobsIn(t, jobs, h, s, m)
    BY <1>1, <1>3, <1>11, <1>12, <1>13, <1>14, <1>15 DEF JobsIn
  <1> QED
    BY <1>20

\* A job is what it was made of.
LEMMA JobIs ==
    ASSUME NEW call, NEW of
    PROVE  Job(call, of).call = call /\ Job(call, of).of = of
  BY DEF Job

\* The jobs of a topology can be done one after the other.
LEMMA BuildingFirst ==
    ASSUME NEW t \in Topologies, NEW jobs, NEW names, DOMAIN names = {}, NEW nodes
    PROVE  jobs = BuildJobs(t) => Building(jobs, names, nodes)
  <1>0. SUFFICES ASSUME jobs = BuildJobs(t) PROVE Building(jobs, names, nodes)
    OBVIOUS
  <1>1. PICK H1, S1, L1 : H1 = HostsOf(t) /\ S1 = SwitchesOf(t) /\ L1 = LinksOf(t)
    OBVIOUS
  <1>2. PICK N : N = H1 \o S1
    OBVIOUS
  <1>3. PICK all, switchNames : all = NamesOf(N) /\ switchNames = NamesOf(S1)
    OBVIOUS
  <1>21. PICK Hosts, Switches, Links :
            /\ Hosts = [name : NodeNames, kind : {"host", "docker"}]
            /\ Switches = [name : NodeNames, kind : {"switch"}]
            /\ Links = [a : all, b : all, p1 : Nat, p2 : Nat]
    OBVIOUS
  <1>4. /\ H1 \in Seq(Hosts) /\ S1 \in Seq(Switches) /\ L1 \in Seq(Links)
        /\ \A j, k \in DOMAIN N : N[j].name = N[k].name => j = k
        /\ \A k \in DOMAIN L1 : /\ L1[k].a # L1[k].b
                                /\ L1[k].a \in switchNames => L1[k].p1 # 0
                                /\ L1[k].b \in switchNames => L1[k].p2 # 0
    <2>1. WellFormed(t)
      BY TopologiesAssumption
    <2> QED
      BY <1>1, <1>2, <1>3, <1>21, <2>1 DEF WellFormed
  <1>23. PICK h, s, m : JobsIn(t, jobs, h, s, m)
    BY <1>0, JobsAre
  <1>5. /\ h \in Nat /\ s \in Nat /\ m \in Nat
        /\ DOMAIN H1 = 1..h /\ DOMAIN S1 = 1..s /\ DOMAIN L1 = 1..m
        /\ jobs = [i \in 1..(h + s + m + 1) |-> jobs[i]]
        /\ \A i \in 1..h : jobs[i] = Job("node", H1[i])
        /\ \A i \in 1..s : jobs[h + i] = Job("node", S1[i])
        /\ \A i \in 1..m : jobs[h + s + i] = Job("link", L1[i])
        /\ jobs[h + s + m + 1] = Job("config", 0)
    BY <1>1, <1>23 DEF JobsIn
  <1>22. /\ H1 \in [1..h -> Hosts] /\ S1 \in [1..s -> Switches] /\ L1 \in [1..m -> Links]
    <2>1. \E k \in Nat : H1 \in [1..k -> Hosts]
      BY <1>4, SeqDef
    <2>2. \E k \in Nat : S1 \in [1..k -> Switches]
      BY <1>4, SeqDef
    <2>3. \E k \in Nat : L1 \in [1..k -> Links]
      BY <1>4, SeqDef
    <2> QED
      BY <1>5, <2>1, <2>2, <2>3
  <1>6. /\ N = [i \in 1..(h + s) |-> N[i]]
        /\ \A i \in 1..(h + s) : N[i] = IF i <= h THEN H1[i] ELSE S1[i - h]
    <2>1. H1 = [i \in 1..h |-> H1[i]] /\ S1 = [i \in 1..s |-> S1[i]]
      BY <1>22
    <2> QED
      BY <1>2, <1>5, <2>1, Concatenated
  <1>7. \A i \in 1..h : H1[i].name \in NodeNames /\ H1[i].kind \in {"host", "docker"}
    BY <1>21, <1>22
  <1>8. \A i \in 1..s : S1[i].name \in NodeNames /\ S1[i].kind = "switch"
    BY <1>21, <1>22
  <1>9. \A i \in 1..m : L1[i].a \in all /\ L1[i].b \in all /\ L1[i].p1 \in Nat /\ L1[i].p2 \in Nat
    BY <1>21, <1>22
  <1>10. ASSUME NEW i \in 1..(h + s)
         PROVE  /\ jobs[i].call = "node" /\ jobs[i].of = N[i]
                /\ N[i].name \in NodeNames /\ N[i].kind \in Kinds
                /\ N[i].kind = "switch" => N[i].name \in switchNames
    <2>1. CASE i <= h
      <3>1. i \in 1..h /\ N[i] = H1[i]
        BY <1>5, <1>6, <2>1
      <3>2. jobs[i] = Job("node", N[i])
        BY <1>5, <3>1
      <3>3. Job("node", N[i]).call = "node" /\ Job("node", N[i]).of = N[i]
        BY JobIs
      <3>4. N[i].name \in NodeNames /\ N[i].kind \in Kinds /\ N[i].kind # "switch"
        BY <1>7, <3>1 DEF Kinds
      <3> QED
        BY <3>2, <3>3, <3>4
    <2>2. CASE ~(i <= h)
      <3>1. PICK k \in 1..s : k = i - h /\ i = h + k
        BY <1>5, <2>2
      <3>2. N[i] = S1[k]
        BY <1>6, <2>2, <3>1
      <3>3. jobs[i] = Job("node", N[i])
        BY <1>5, <3>1, <3>2
      <3>4. S1[k].name \in switchNames
        BY <1>3, <1>5, <3>1 DEF NamesOf
      <3>5. Job("node", N[i]).call = "node" /\ Job("node", N[i]).of = N[i]
        BY JobIs
      <3>6. N[i].name \in NodeNames /\ N[i].kind \in Kinds
        BY <1>8, <3>1, <3>2 DEF Kinds
      <3>7. N[i].name \in switchNames
        BY <3>2, <3>4
      <3> QED
        BY <3>3, <3>5, <3>6, <3>7
    <2> QED
      BY <2>1, <2>2
  <1>11. ASSUME NEW i \in 1..m
         PROVE  jobs[h + s + i].call = "link" /\ jobs[h + s + i].of = L1[i]
    <2>1. jobs[h + s + i] = Job("link", L1[i])
      BY <1>5
    <2>2. Job("link", L1[i]).call = "link" /\ Job("link", L1[i]).of = L1[i]
      BY JobIs
    <2> QED
      BY <2>1, <2>2
  <1>12. jobs[h + s + m + 1].call = "config"
    BY <1>5, JobIs
  <1>13. DOMAIN jobs = 1..(h + s + m + 1) /\ DOMAIN N = 1..(h + s)
    BY <1>5, <1>6
  <1>14. ASSUME NEW j \in DOMAIN jobs, jobs[j].call = "node" PROVE j \in 1..(h + s)
    <2>1. CASE j \in 1..(h + s)
      BY <2>1
    <2>2. CASE j > h + s /\ j <= h + s + m
      <3>1. PICK i \in 1..m : j = h + s + i
        <4>1. j - (h + s) \in 1..m /\ j = h + s + (j - (h + s))
          BY <1>5, <1>13, <2>2
        <4> QED
          BY <4>1
      <3>2. jobs[j].call = "link"
        BY <1>11, <3>1
      <3> QED
        BY <1>14, <3>2
    <2>3. CASE j = h + s + m + 1
      BY <1>12, <1>14, <2>3
    <2> QED
      BY <1>5, <1>13, <2>1, <2>2, <2>3
  <1>15. ASSUME NEW j \in DOMAIN jobs, jobs[j].call = "link" PROVE \E i \in 1..m : j = h + s + i
    <2>1. ~(j \in 1..(h + s))
      BY <1>10, <1>15
    <2>2. j # h + s + m + 1
      BY <1>12, <1>15
    <2>3. j - (h + s) \in 1..m /\ j = h + s + (j - (h + s))
      BY <1>5, <1>13, <2>1, <2>2
    <2> QED
      BY <2>3
  <1>16. ASSUME NEW x \in all, NEW p \in Nat, x \in switchNames => p # 0, NEW i \in 1..m
         PROVE  Known(x, p, h + s + i, jobs, names, nodes)
    <2>1. PICK k \in 1..(h + s) : x = N[k].name
      BY <1>3, <1>13 DEF NamesOf
    <2>2. /\ k \in DOMAIN jobs /\ k < h + s + i /\ jobs[k].call = "node" /\ jobs[k].of.name = x
          /\ jobs[k].of.kind = "switch" => p # 0
      <3>1. k \in DOMAIN jobs /\ k < h + s + i
        BY <1>5, <1>13, <2>1
      <3>2. /\ jobs[k].call = "node" /\ jobs[k].of = N[k]
            /\ N[k].kind = "switch" => N[k].name \in switchNames
        BY <1>10, <2>1
      <3> QED
        BY <1>16, <2>1, <3>1, <3>2
    <2> QED
      BY <2>2 DEF Known
  <1>17. IsSeq(jobs) /\ \A j \in DOMAIN jobs : j \in Nat /\ j > 0
    <2>1. h + s + m + 1 \in Nat
      BY <1>5
    <2> QED
      BY <1>5, <1>13, <2>1 DEF IsSeq
  <1>18. \A j \in DOMAIN jobs : jobs[j].call = "node" => NodeJob(jobs[j].of, names)
    BY <1>10, <1>14 DEF NodeJob
  <1>19. \A j, k \in DOMAIN jobs :
            jobs[j].call = "node" /\ jobs[k].call = "node" /\ jobs[j].of.name = jobs[k].of.name => j = k
    BY <1>4, <1>10, <1>13, <1>14
  <1>20. ASSUME NEW j \in DOMAIN jobs, jobs[j].call = "link"
         PROVE  LinkJob(jobs[j].of, j, jobs, names, nodes)
    <2>1. PICK i \in 1..m : j = h + s + i
      BY <1>15, <1>20
    <2>2. PICK l : l = L1[i]
      OBVIOUS
    <2>3. /\ jobs[j].of = l /\ l.a \in all /\ l.b \in all /\ l.p1 \in Nat /\ l.p2 \in Nat /\ l.a # l.b
          /\ l.a \in switchNames => l.p1 # 0
          /\ l.b \in switchNames => l.p2 # 0
      BY <1>4, <1>5, <1>9, <1>11, <2>1, <2>2
    <2>4. Known(l.a, l.p1, j, jobs, names, nodes) /\ Known(l.b, l.p2, j, jobs, names, nodes)
      BY <1>16, <2>1, <2>3
    <2> QED
      BY <2>3, <2>4 DEF LinkJob
  <1> QED
    BY <1>17, <1>18, <1>19, <1>20 DEF Building

(* The nodes that have a name keep their kind.  *)
SameKinds(names, nodes, more, others) ==
    \A x \in DOMAIN names : others[more[x]].kind = nodes[names[x]].kind

(* Job number j of the rest was number j + 1: what was known still is.  *)
\* A job that is no node is done.
LEMMA BuildingNext ==
    ASSUME NEW jobs, NEW names, NEW nodes, Building(jobs, names, nodes), jobs # <<>>,
           jobs[1].call # "node", NEW rest, NEW others,
           SameKinds(names, nodes, names, others)
    PROVE  rest = Tail(jobs) => Building(rest, names, others)
  <1>0. SUFFICES ASSUME rest = Tail(jobs) PROVE Building(rest, names, others)
    OBVIOUS
  <1>1. /\ IsSeq(rest) /\ 1 \in DOMAIN jobs
        /\ \A i \in DOMAIN rest : i \in Nat /\ i + 1 \in DOMAIN jobs /\ rest[i] = jobs[i + 1]
        /\ \A i \in DOMAIN jobs : i = 1 \/ (i - 1 \in DOMAIN rest /\ (i - 1) + 1 = i)
        /\ \A i \in DOMAIN rest : i > 0
    <2>1. IsSeq(jobs)
      BY DEF Building
    <2>2. RestOf(jobs, rest)
      BY <1>0, <2>1, TailIs
    <2> QED
      BY <2>2 DEF RestOf
  <1>2. \A j \in DOMAIN rest : j \in Nat /\ j > 0
    BY <1>1
  <1>3. \A j \in DOMAIN rest : rest[j].call = "node" => NodeJob(rest[j].of, names)
    BY <1>1 DEF Building
  <1>4. ASSUME NEW j \in DOMAIN rest, NEW k \in DOMAIN rest,
               rest[j].call = "node", rest[k].call = "node", rest[j].of.name = rest[k].of.name
        PROVE  j = k
    <2>1. j + 1 = k + 1
      BY <1>1, <1>4 DEF Building
    <2> QED
      BY <1>1, <2>1
  <1>5. ASSUME NEW j \in DOMAIN rest, NEW x, NEW p, Known(x, p, j + 1, jobs, names, nodes)
        PROVE  Known(x, p, j, rest, names, others)
    <2>1. CASE x \in DOMAIN names /\ (nodes[names[x]].kind = "switch" => p # 0)
      BY <2>1 DEF Known, SameKinds
    <2>2. CASE \E k \in DOMAIN jobs : /\ k < j + 1 /\ jobs[k].call = "node" /\ jobs[k].of.name = x
                                      /\ jobs[k].of.kind = "switch" => p # 0
      <3>1. PICK k \in DOMAIN jobs : /\ k < j + 1 /\ jobs[k].call = "node" /\ jobs[k].of.name = x
                                     /\ jobs[k].of.kind = "switch" => p # 0
        BY <2>2
      <3>2. k # 1
        BY <3>1
      <3>3. k - 1 \in DOMAIN rest /\ (k - 1) + 1 = k /\ k \in Nat /\ j \in Nat
        BY <1>1, <1>2, <3>2 DEF Building
      <3>4. rest[k - 1] = jobs[k] /\ k - 1 < j
        BY <1>1, <3>1, <3>3
      <3> QED
        BY <3>1, <3>3, <3>4 DEF Known
    <2> QED
      BY <1>5, <2>1, <2>2 DEF Known
  <1>6. ASSUME NEW j \in DOMAIN rest, rest[j].call = "link"
        PROVE  LinkJob(rest[j].of, j, rest, names, others)
    <2>1. LinkJob(jobs[j + 1].of, j + 1, jobs, names, nodes) /\ rest[j].of = jobs[j + 1].of
      BY <1>1, <1>6 DEF Building
    <2> QED
      BY <1>5, <2>1 DEF LinkJob
  <1> QED
    BY <1>1, <1>2, <1>3, <1>4, <1>6 DEF Building

\* The first job was a node, which now has a name.
LEMMA BuildingNode ==
    ASSUME NEW jobs, NEW names, NEW nodes, Building(jobs, names, nodes), jobs # <<>>,
           jobs[1].call = "node", NEW rest, NEW more, NEW others, NEW name, name = jobs[1].of.name,
           DOMAIN more = DOMAIN names \cup {name},
           SameKinds(names, nodes, more, others), others[more[name]].kind = jobs[1].of.kind
    PROVE  rest = Tail(jobs) => Building(rest, more, others)
  <1>0. SUFFICES ASSUME rest = Tail(jobs) PROVE Building(rest, more, others)
    OBVIOUS
  <1>1. /\ IsSeq(rest) /\ 1 \in DOMAIN jobs
        /\ \A i \in DOMAIN rest : i \in Nat /\ i + 1 \in DOMAIN jobs /\ rest[i] = jobs[i + 1]
        /\ \A i \in DOMAIN jobs : i = 1 \/ (i - 1 \in DOMAIN rest /\ (i - 1) + 1 = i)
        /\ \A i \in DOMAIN rest : i > 0
    <2>1. IsSeq(jobs)
      BY DEF Building
    <2>2. RestOf(jobs, rest)
      BY <1>0, <2>1, TailIs
    <2> QED
      BY <2>2 DEF RestOf
  <1>2. \A j \in DOMAIN rest : j \in Nat /\ j > 0
    BY <1>1
  <1>3. ASSUME NEW j \in DOMAIN rest, rest[j].call = "node" PROVE NodeJob(rest[j].of, more)
    <2>1. j + 1 \in DOMAIN jobs /\ rest[j] = jobs[j + 1] /\ j + 1 # 1
      BY <1>1, <1>2
    <2>2. NodeJob(jobs[j + 1].of, names)
      BY <1>3, <2>1 DEF Building
    <2>3. jobs[j + 1].of.name # name
      BY <1>1, <1>3, <2>1 DEF Building
    <2> QED
      BY <2>1, <2>2, <2>3 DEF NodeJob
  <1>4. ASSUME NEW j \in DOMAIN rest, NEW k \in DOMAIN rest,
               rest[j].call = "node", rest[k].call = "node", rest[j].of.name = rest[k].of.name
        PROVE  j = k
    <2>1. j + 1 = k + 1
      BY <1>1, <1>4 DEF Building
    <2> QED
      BY <1>1, <2>1
  <1>5. ASSUME NEW j \in DOMAIN rest, NEW x, NEW p, Known(x, p, j + 1, jobs, names, nodes)
        PROVE  Known(x, p, j, rest, more, others)
    <2>1. CASE x \in DOMAIN names /\ (nodes[names[x]].kind = "switch" => p # 0)
      BY <2>1 DEF Known, SameKinds
    <2>2. CASE \E k \in DOMAIN jobs : /\ k < j + 1 /\ jobs[k].call = "node" /\ jobs[k].of.name = x
                                      /\ jobs[k].of.kind = "switch" => p # 0
      <3>1. PICK k \in DOMAIN jobs : /\ k < j + 1 /\ jobs[k].call = "node" /\ jobs[k].of.name = x
                                     /\ jobs[k].of.kind = "switch" => p # 0
        BY <2>2
      <3>2. CASE k = 1
        BY <3>1, <3>2 DEF Known
      <3>3. CASE k # 1
        <4>1. k - 1 \in DOMAIN rest /\ (k - 1) + 1 = k /\ k \in Nat /\ j \in Nat
          BY <1>1, <1>2, <3>3 DEF Building
        <4>2. rest[k - 1] = jobs[k] /\ k - 1 < j
          BY <1>1, <3>1, <4>1
        <4> QED
          BY <3>1, <4>1, <4>2 DEF Known
      <3> QED
        BY <3>2, <3>3
    <2> QED
      BY <1>5, <2>1, <2>2 DEF Known
  <1>6. ASSUME NEW j \in DOMAIN rest, rest[j].call = "link"
        PROVE  LinkJob(rest[j].of, j, rest, more, others)
    <2>1. LinkJob(jobs[j + 1].of, j + 1, jobs, names, nodes) /\ rest[j].of = jobs[j + 1].of
      BY <1>1, <1>6 DEF Building
    <2> QED
      BY <1>5, <2>1 DEF LinkJob
  <1> QED
    BY <1>1, <1>2, <1>3, <1>4, <1>6 DEF Building

(* Two nodes have been joined by a link.  *)
IsSwitchIn(w, n) == w.node[n].kind = "switch" /\ Runs(w, n)
NewPair(w, l, r) ==
    /\ r.veth = w.veth \cup {{End(r, <<l, 1>>), End(r, <<l, 2>>)}}
    /\ \A v \in w.veth : \A s \in {1, 2} : End(r, <<l, s>>) \notin v
NewWakes(w, a, b, r) ==
    \A x : x \in r.proc <=> \/ x \in w.proc
                            \/ IsSwitchIn(w, a) /\ x = w.node[a].name
                            \/ IsSwitchIn(w, b) /\ x = w.node[b].name
NewPorts(w, a, b, p1, p2, r) ==
    /\ DOMAIN r.bridge = DOMAIN w.bridge
    /\ \A c \in DOMAIN w.bridge : \A x :
          x \in r.bridge[c] <=>
             \/ x \in w.bridge[c]
             \/ IsSwitchIn(w, a) /\ c = w.node[a].name /\ x = <<w.node[a].name, p1>>
             \/ IsSwitchIn(w, b) /\ c = w.node[b].name /\ x = <<w.node[b].name, p2>>
Joins(w, a, b, p1, p2, l, r) ==
    /\ l \in Nat /\ DOMAIN w.link = 1..(l - 1) /\ DOMAIN r.link = 1..l /\ l > 0 /\ Len(r.link) = l
    /\ \A k \in DOMAIN w.link : r.link[k] = w.link[k]
    /\ r.link[l].n[1] = a /\ r.link[l].n[2] = b /\ r.link[l].p[1] = p1 /\ r.link[l].p[2] = p2
    /\ r.link[l].known[1] = TRUE /\ r.link[l].known[2] = TRUE
    /\ DOMAIN r.node = DOMAIN w.node
    /\ \A m \in DOMAIN w.node : m \notin {a, b} => r.node[m] = w.node[m]
    /\ \A m \in DOMAIN w.node : r.node[m].name = w.node[m].name /\ r.node[m].kind = w.node[m].kind
    /\ Gains(w.node[a], <<l, 1>>, p1, r.node[a]) /\ Gains(w.node[b], <<l, 2>>, p2, r.node[b])
    /\ w.node[a].name \in w.proc /\ w.node[b].name \in w.proc /\ r.raised = w.raised
    /\ NewPair(w, l, r) /\ NewWakes(w, a, b, r) /\ NewPorts(w, a, b, p1, p2, r)

(* There are some pairs more.  *)
PairsAdded(w, pair, r) ==
    /\ r.veth = w.veth \cup pair
    /\ r.node = w.node /\ r.link = w.link /\ r.proc = w.proc /\ r.bridge = w.bridge
    /\ r.raised = w.raised

\* More pairs are pairs.
LEMMA MorePairs ==
    ASSUME NEW w, Shape(w), NEW pair, \E x, y : x # y /\ pair = {{x, y}}, NEW r
    PROVE  r = [w EXCEPT !.veth = @ \cup pair] => Shape(r) /\ Same(w, r) /\ PairsAdded(w, pair, r)
  <1>0. SUFFICES ASSUME r = [w EXCEPT !.veth = @ \cup pair]
                 PROVE  Shape(r) /\ Same(w, r) /\ PairsAdded(w, pair, r)
    OBVIOUS
  <1>1. Worldly(w) /\ IsWorld(w)
    BY DEF Shape, Worldly
  <1>2. PICK more : more = w.veth \cup pair
    OBVIOUS
  <1>3. /\ IsWorld(r) /\ r.veth = more /\ r.raised = w.raised
        /\ r.node = w.node /\ r.link = w.link /\ r.proc = w.proc /\ r.bridge = w.bridge
    BY <1>0, <1>1, <1>2 DEF IsWorld, WorldFields
  <1>4. \A v \in more : \E x, y \in v : x # y /\ v = {x, y}
    <2>1. PICK x, y : x # y /\ pair = {{x, y}}
      OBVIOUS
    <2> SUFFICES ASSUME NEW v \in more PROVE \E x1, y1 \in v : x1 # y1 /\ v = {x1, y1}
      OBVIOUS
    <2>2. CASE v \in w.veth
      BY <1>1, <2>2 DEF Worldly
    <2>3. CASE v \in pair
      <3>1. v = {x, y}
        BY <2>1, <2>3
      <3>2. x \in v /\ y \in v
        BY <3>1
      <3> QED
        BY <2>1, <3>1, <3>2
    <2> QED
      BY <1>2, <2>2, <2>3
  <1>5. Worldly(r)
    BY <1>1, <1>3, <1>4 DEF Worldly
  <1>6. Shape(r) /\ Same(w, r)
    BY <1>3, <1>5, ShapeOfMaps
  <1> QED
    BY <1>2, <1>3, <1>6 DEF PairsAdded

\* addLink(), when the pair can be made.
LEMMA JoinsThem ==
    ASSUME NEW w, Shape(w), NEW a \in DOMAIN w.node, NEW b \in DOMAIN w.node,
           w.node[a].name # w.node[b].name,
           NEW p1, NEW p2, NEW l, NEW w1, Shape(w1), NewLink(w, a, b, p1, p2, l, w1),
           NEW made, PairMade(w1, l, made), made.result = "made", NEW r
    PROVE  r = Joined([w1 EXCEPT !.veth = @ \cup made.pair], l) =>
              Shape(r) /\ Joins(w, a, b, p1, p2, l, r)
  <1>0. SUFFICES ASSUME r = Joined([w1 EXCEPT !.veth = @ \cup made.pair], l)
                 PROVE  Shape(r) /\ Joins(w, a, b, p1, p2, l, r)
    OBVIOUS
  <1>1. /\ w1.node = w.node /\ w1.veth = w.veth /\ w1.proc = w.proc /\ w1.bridge = w.bridge
        /\ l \in Nat /\ DOMAIN w.link = 1..(l - 1) /\ DOMAIN w1.link = 1..l /\ l > 0
        /\ Len(w1.link) = l
        /\ \A k \in DOMAIN w.link : w1.link[k] = w.link[k]
        /\ w1.link[l].n[1] = a /\ w1.link[l].n[2] = b
        /\ w1.link[l].p[1] = p1 /\ w1.link[l].p[2] = p2
        /\ w1.link[l].known[1] = TRUE /\ w1.link[l].known[2] = TRUE
    BY DEF NewLink
  <1>2. l \in DOMAIN w1.link /\ l \notin DOMAIN w.link
    BY <1>1
  <1>3. /\ made.pair = {{End(w1, <<l, 1>>), End(w1, <<l, 2>>)}}
        /\ \A v \in w1.veth : \A s \in {1, 2} : End(w1, <<l, s>>) \notin v
        /\ \A s \in {1, 2} : w1.node[w1.link[l].n[s]].name \in w1.proc
        /\ \E x, y : x # y /\ made.pair = {{x, y}}
    BY DEF PairMade
  <1>4. PICK w2 : w2 = [w1 EXCEPT !.veth = @ \cup made.pair]
    OBVIOUS
  <1>5. /\ Shape(w2) /\ Same(w1, w2) /\ w2.veth = w1.veth \cup made.pair
        /\ w2.node = w1.node /\ w2.link = w1.link /\ w2.proc = w1.proc /\ w2.bridge = w1.bridge
        /\ w2.raised = w1.raised
    <2>1. PICK pair : pair = made.pair
      OBVIOUS
    <2>2. w2 = [w1 EXCEPT !.veth = @ \cup pair]
      BY <1>4, <2>1
    <2>3. Shape(w2) /\ Same(w1, w2) /\ PairsAdded(w1, pair, w2)
      BY <1>3, <2>1, <2>2, MorePairs
    <2> QED
      BY <2>1, <2>3 DEF PairsAdded
  <1>6. r = Joined(w2, l)
    BY <1>0, <1>4
  <1>7. \A s \in {1, 2} : <<l, s>> \notin DOMAIN w2.node[w2.link[l].n[s]].ports
    <2> SUFFICES ASSUME NEW s \in {1, 2}, <<l, s>> \in DOMAIN w2.node[w2.link[l].n[s]].ports
                 PROVE  FALSE
      OBVIOUS
    <2>1. PICK n \in DOMAIN w.node : n = w2.link[l].n[s] /\ <<l, s>> \in DOMAIN w.node[n].ports
      BY <1>1, <1>5
    <2>2. NodeShape(w.node[n], n, w.link)
      BY <2>1 DEF Shape
    <2>3. <<l, s>> # Lo /\ <<l, s>>[1] = l
      BY <1>2, NotLo
    <2>4. l \in DOMAIN w.link
      BY <2>1, <2>2, <2>3, ZenonT(60) DEF NodeShape, Maps
    <2> QED
      BY <1>2, <2>4
  <1>8. Shape(r) /\ Same(w2, r) /\ LinkMade(w2, l, r)
    <2>1. l \in DOMAIN w2.link
      BY <1>2, <1>5
    <2> QED
      BY <1>5, <1>6, <1>7, <2>1, JoinedIs
  <1>9. /\ r.link = w1.link /\ r.veth = w.veth \cup made.pair
        /\ \A m \in DOMAIN w.node : m \notin {a, b} => r.node[m] = w.node[m]
        /\ Gains(w.node[a], <<l, 1>>, p1, r.node[a]) /\ Gains(w.node[b], <<l, 2>>, p2, r.node[b])
    <2>1. w2.link[l].n[1] = a /\ w2.link[l].n[2] = b /\ w2.link[l].p[1] = p1 /\ w2.link[l].p[2] = p2
      BY <1>1, <1>5, ZenonT(60)
    <2>2. /\ r.link = w2.link /\ r.veth = w2.veth
          /\ \A m \in DOMAIN w2.node : m \notin {w2.link[l].n[1], w2.link[l].n[2]} => r.node[m] = w2.node[m]
      BY <1>8, ZenonT(60) DEF LinkMade
    <2>3. /\ Gains(w2.node[w2.link[l].n[1]], <<l, 1>>, w2.link[l].p[1], r.node[w2.link[l].n[1]])
          /\ Gains(w2.node[w2.link[l].n[2]], <<l, 2>>, w2.link[l].p[2], r.node[w2.link[l].n[2]])
      BY <1>8, ZenonT(60) DEF LinkMade
    <2>4. Gains(w.node[a], <<l, 1>>, p1, r.node[a]) /\ Gains(w.node[b], <<l, 2>>, p2, r.node[b])
      BY <1>1, <1>5, <2>1, <2>3, ZenonT(60)
    <2> QED
      BY <1>1, <1>5, <2>1, <2>2, <2>4
  <1>10. /\ DOMAIN r.node = DOMAIN w.node
         /\ \A m \in DOMAIN w.node : r.node[m].name = w.node[m].name /\ r.node[m].kind = w.node[m].kind
    BY <1>1, <1>5, <1>8 DEF Same
  <1>11. w.node[a].name \in w.proc /\ w.node[b].name \in w.proc
    BY <1>1, <1>3
  <1>12. Same(w1, r)
    BY <1>5, <1>8, SameSame
  <1>13. \A s \in {1, 2} : /\ IntfName(r, <<l, s>>) = IntfName(w1, <<l, s>>)
                           /\ End(r, <<l, s>>) = End(w1, <<l, s>>)
    BY <1>2, <1>12, SameNames
  <1>14. NewPair(w, l, r)
    BY <1>1, <1>3, <1>9, <1>13 DEF NewPair
  <1>15. /\ SwitchOf(w2, l, 1) <=> IsSwitchIn(w, a)
         /\ SwitchOf(w2, l, 2) <=> IsSwitchIn(w, b)
         /\ NameOf(w2, l, 1) = w.node[a].name /\ NameOf(w2, l, 2) = w.node[b].name
    <2>1. /\ w2.link[l].n[1] = a /\ w2.link[l].n[2] = b
          /\ w2.node[a] = w.node[a] /\ w2.node[b] = w.node[b] /\ w2.proc = w.proc
      BY <1>1, <1>5, ZenonT(60)
    <2>2. SwitchOf(w2, l, 1) <=> IsSwitchIn(w, a)
      BY <2>1 DEF SwitchOf, IsSwitchIn, Runs
    <2>3. SwitchOf(w2, l, 2) <=> IsSwitchIn(w, b)
      BY <2>1 DEF SwitchOf, IsSwitchIn, Runs
    <2> QED
      BY <2>1, <2>2, <2>3 DEF NameOf
  <1>16. NewWakes(w, a, b, r)
    <2>1. JoinWakes(w2, l, r)
      BY <1>8 DEF LinkMade
    <2> QED
      BY <1>1, <1>5, <1>15, <2>1 DEF JoinWakes, NewWakes
  <1>17. /\ IntfName(w2, <<l, 1>>) = <<w.node[a].name, p1>>
         /\ IntfName(w2, <<l, 2>>) = <<w.node[b].name, p2>>
    <2>1. <<l, 1>>[1] = l /\ <<l, 1>>[2] = 1 /\ <<l, 2>>[1] = l /\ <<l, 2>>[2] = 2
      OBVIOUS
    <2> QED
      BY <1>1, <1>5, <2>1 DEF IntfName
  <1>18. NewPorts(w, a, b, p1, p2, r)
    <2>1. PortsMade(w2, l, r)
      BY <1>8 DEF LinkMade
    <2>2. PICK x1, x2 : x1 = <<w.node[a].name, p1>> /\ x2 = <<w.node[b].name, p2>>
      OBVIOUS
    <2>3. IntfName(w2, <<l, 1>>) = x1 /\ IntfName(w2, <<l, 2>>) = x2
      BY <1>17, <2>2
    <2>4. DOMAIN r.bridge = DOMAIN w.bridge
      BY <1>1, <1>5, <2>1 DEF PortsMade
    <2>5. ASSUME NEW c \in DOMAIN w.bridge, NEW x
          PROVE  x \in r.bridge[c] <=>
                    \/ x \in w.bridge[c]
                    \/ IsSwitchIn(w, a) /\ c = w.node[a].name /\ x = x1
                    \/ IsSwitchIn(w, b) /\ c = w.node[b].name /\ x = x2
      <3>1. x \in r.bridge[c] <=>
               \/ x \in w.bridge[c]
               \/ \E s \in {1, 2} : /\ SwitchOf(w2, l, s) /\ c = NameOf(w2, l, s)
                                    /\ x = IntfName(w2, <<l, s>>)
        BY <1>1, <1>5, <2>1 DEF PortsMade
      <3> QED
        BY <1>15, <2>3, <3>1
    <2> QED
      BY <2>2, <2>4, <2>5 DEF NewPorts
  <1>19. Joins(w, a, b, p1, p2, l, r)
    <2>1. r.raised = w.raised
      BY <1>5, <1>8 DEF LinkMade, NewLink
    <2> QED
      BY <1>1, <1>9, <1>10, <1>11, <1>14, <1>16, <1>18, <2>1 DEF Joins
  <1> QED
    BY <1>8, <1>19

(***************************************************************************)
(* The state.                                                              *)
(***************************************************************************)
ShapeNow == Shape(World)

(* The nodes by their kind and by their name; the links.  *)
NodesListed(nodes, hs, ss, names) ==
    /\ IsList(hs) /\ IsList(ss)
    /\ \A n \in Range(hs) : n \in DOMAIN nodes /\ nodes[n].kind # "switch"
    /\ \A n \in Range(ss) : n \in DOMAIN nodes /\ nodes[n].kind = "switch"
    /\ \A x \in DOMAIN names : names[x] \in DOMAIN nodes /\ nodes[names[x]].name = x
    /\ Range(hs) \cup Range(ss) = Range(names)
LinksListed(lk, ls) == IsList(ls) /\ Range(ls) \subseteq DOMAIN lk
Lists ==
    NodesListed(node, hosts, switches, named) /\ LinksListed(link, links) /\ nextIP \in 1..(MaxIP + 1)

(* What is left of a call: jobs to build, or elements of a list.  *)
Phases == {"build", "idle", "start", "wait", "stop links", "stop hosts", "stopped",
           "exiting", "exited", "cleaned"}
Part(rest, list) == IsList(rest) /\ Range(rest) \subseteq Range(list)
Todo ==
    /\ phase \in Phases
    /\ phase = "build" => Building(todo, named, node)
    /\ phase = "start" => Part(todo, switches)
    /\ phase = "stop links" => Part(todo, links)
    /\ phase = "stop hosts" => Part(todo, hosts)

WaitFields == {"remaining", "at", "timed", "last", "seen", "result"}
Waits ==
    /\ wait = [f \in WaitFields |-> wait[f]]
    /\ wait.result \in {"none", "yes", "no"}

Sound == topo \in Topologies /\ ShapeNow /\ Lists /\ Todo /\ Waits

\* The world is made of the variables.
LEMMA WorldIs ==
    /\ IsWorld(World) /\ World.raised = FALSE
    /\ World.node = node /\ World.link = link /\ World.veth = veth /\ World.bridge = bridge
    /\ World.proc = proc
  BY DEF World, IsWorld, WorldFields

\* And so it is after a step.
LEMMA WorldThen ==
    /\ IsWorld(World') /\ World'.raised = FALSE
    /\ World'.node = node' /\ World'.link = link' /\ World'.veth = veth' /\ World'.bridge = bridge'
    /\ World'.proc = proc'
  BY DEF World, IsWorld, WorldFields

\* What has its shape may become the world.
LEMMA Became ==
    ASSUME NEW w, Shape(w), Becomes(w)
    PROVE  ShapeNow' /\ (w.raised = FALSE => World' = w)
  <1>1. Worldly(w) /\ IsWorld(w)
    BY DEF Shape, Worldly
  <1>2. /\ World'.node = w.node /\ World'.link = w.link /\ World'.veth = w.veth
        /\ World'.bridge = w.bridge /\ World'.proc = w.proc
    BY WorldThen DEF Becomes
  <1>3. Worldly(World')
    BY <1>1, <1>2, WorldThen DEF Worldly
  <1>4. Shape(World')
    BY <1>2, <1>3, ShapeOfMaps
  <1>5. ASSUME w.raised = FALSE PROVE World' = w
    BY <1>1, <1>2, <1>5, WorldThen DEF IsWorld, WorldFields
  <1> QED
    BY <1>4, <1>5 DEF ShapeNow

\* A world that stays.
LEMMA Stayed ==
    ASSUME ShapeNow, UNCHANGED <<node, link, veth, bridge, proc>>
    PROVE  ShapeNow' /\ World' = World
  BY DEF World, ShapeNow

(* A node has been created, as number k + 1.  *)
NameMore(names, x, n, more) ==
    /\ DOMAIN more = DOMAIN names \cup {x} /\ more[x] = n
    /\ \A y \in DOMAIN names : more[y] = names[y]
    /\ Range(more) = Range(names) \cup {n}
NodeCreated(nd, k) ==
    /\ ShapeNow' /\ Lists' /\ \E ip : NodeMade(World, nd.name, nd.kind, ip, k, World')
    /\ NameMore(named, nd.name, k + 1, named')
    /\ IF nd.kind = "switch"
       THEN Range(switches') = Range(switches) \cup {k + 1} /\ hosts' = hosts
       ELSE Range(hosts') = Range(hosts) \cup {k + 1} /\ switches' = switches

\* The names of the nodes, with one more.
LEMMA NamedOneMore ==
    ASSUME NEW names, NEW x, x \notin DOMAIN names, NEW n, NEW more
    PROVE  more = With(names, x, n) => NameMore(names, x, n, more)
  <1>0. SUFFICES ASSUME more = With(names, x, n)
                 PROVE  NameMore(names, x, n, more)
    OBVIOUS
  <1>1. /\ DOMAIN more = DOMAIN names \cup {x} /\ more[x] = n
        /\ \A y \in DOMAIN names : more[y] = names[y]
    BY <1>0 DEF With
  <1>2. Range(more) = Range(names) \cup {n}
    BY <1>1 DEF Range
  <1> QED
    BY <1>1, <1>2 DEF NameMore

\* CreateNode().
LEMMA CreateNodeDoes ==
    ASSUME ShapeNow, Lists, NEW nd, nd.name \in NodeNames, nd.kind \in Kinds,
           nd.name \notin DOMAIN named, NEW next, CreateNode(nd, next)
    PROVE  \E k \in Nat : NodeCreated(nd, k)
  <1>1. PICK ip : ip = IF nd.kind = "switch" THEN 0 ELSE nextIP
    OBVIOUS
  <1>2. /\ ~CannotCreate(nd) /\ node' = Append(node, NewNode(nd.name, nd.kind, ip))
        /\ named' = With(named, nd.name, Len(node'))
        /\ link' = link /\ links' = links /\ veth' = veth /\ bridge' = bridge
        /\ nd.kind = "switch" => /\ switches' = Append(switches, Len(node')) /\ hosts' = hosts
                                 /\ nextIP' = nextIP
        /\ nd.kind # "switch" => /\ hosts' = Append(hosts, Len(node')) /\ switches' = switches
                                 /\ nextIP' = nextIP + 1
    BY <1>1 DEF CreateNode, IPUsedUp
  <1>3. MaxIP \in Nat /\ nextIP \in 1..(MaxIP + 1)
    BY BoundsAssumption DEF Lists
  <1>4. ip \in 0..MaxIP /\ nextIP' \in 1..(MaxIP + 1)
    BY <1>1, <1>2, <1>3 DEF CannotCreate
  <1>5. PICK w, r : w = World /\ r = World'
    OBVIOUS
  <1>6. /\ Shape(w) /\ IsWorld(r) /\ r.node = Append(w.node, NewNode(nd.name, nd.kind, ip))
        /\ r.link = w.link /\ r.veth = w.veth /\ r.bridge = w.bridge
    BY <1>2, <1>5, WorldIs, WorldThen DEF ShapeNow
  <1>7. PICK k \in Nat : Shape(r) /\ NodeMade(w, nd.name, nd.kind, ip, k, r)
    BY <1>4, <1>6, NodeMadeIs
  <1>8. PICK m : m = k + 1
    OBVIOUS
  <1>9. /\ m \in Nat /\ DOMAIN node = 1..k /\ DOMAIN node' = 1..m /\ Len(node') = m
        /\ m \notin DOMAIN node /\ m \in DOMAIN node'
        /\ \A j \in DOMAIN node : node'[j] = node[j]
        /\ node'[m].name = nd.name /\ node'[m].kind = nd.kind
    BY <1>5, <1>7, <1>8, WorldIs, WorldThen DEF NodeMade
  <1>10. \A j \in DOMAIN node : j \in DOMAIN node'
    BY <1>8, <1>9
  <1>11. NodesListed(node, hosts, switches, named)
    BY DEF Lists
  <1>12. NameMore(named, nd.name, m, named')
    BY <1>2, <1>9, NamedOneMore
  <1>13. m \notin Range(hosts) /\ m \notin Range(switches)
    BY <1>9, <1>11 DEF NodesListed
  <1>14. /\ IsList(hosts') /\ Range(hosts') = IF nd.kind = "switch" THEN Range(hosts) ELSE Range(hosts) \cup {m}
         /\ IsList(switches')
         /\ Range(switches') = IF nd.kind = "switch" THEN Range(switches) \cup {m} ELSE Range(switches)
    <2>1. IsList(hosts) /\ IsList(switches)
      BY <1>11 DEF NodesListed
    <2>2. CASE nd.kind = "switch"
      <3>1. switches' = Append(switches, m) /\ hosts' = hosts
        BY <1>2, <1>9, <2>2
      <3>2. IsList(switches') /\ Range(switches') = Range(switches) \cup {m}
        BY <1>13, <2>1, <3>1, ListAppended
      <3> QED
        BY <2>1, <2>2, <3>1, <3>2
    <2>3. CASE nd.kind # "switch"
      <3>1. hosts' = Append(hosts, m) /\ switches' = switches
        BY <1>2, <1>9, <2>3
      <3>2. IsList(hosts') /\ Range(hosts') = Range(hosts) \cup {m}
        BY <1>13, <2>1, <3>1, ListAppended
      <3> QED
        BY <2>1, <2>3, <3>1, <3>2
    <2> QED
      BY <2>2, <2>3
  <1>15. NodesListed(node', hosts', switches', named')
    <2>1. \A n \in Range(hosts') : n \in DOMAIN node' /\ node'[n].kind # "switch"
      BY <1>9, <1>10, <1>11, <1>14 DEF NodesListed
    <2>2. \A n \in Range(switches') : n \in DOMAIN node' /\ node'[n].kind = "switch"
      BY <1>9, <1>10, <1>11, <1>14 DEF NodesListed
    <2>3. \A x \in DOMAIN named' : named'[x] \in DOMAIN node' /\ node'[named'[x]].name = x
      BY <1>8, <1>9, <1>10, <1>11, <1>12 DEF NodesListed, NameMore
    <2>4. Range(hosts') \cup Range(switches') = Range(named')
      BY <1>8, <1>11, <1>12, <1>14 DEF NodesListed, NameMore
    <2> QED
      BY <1>14, <2>1, <2>2, <2>3, <2>4 DEF NodesListed
  <1>16. Lists'
    BY <1>2, <1>4, <1>15 DEF Lists
  <1>17. ShapeNow'
    BY <1>5, <1>7 DEF ShapeNow
  <1>18. \E i : NodeMade(World, nd.name, nd.kind, i, k, World')
    BY <1>5, <1>7
  <1>19. NodeCreated(nd, k)
    BY <1>2, <1>8, <1>12, <1>14, <1>16, <1>17, <1>18 DEF NodeCreated
  <1> QED
    BY <1>19

(* A link has been added to the network, or the program has ended with half a pair
   moved; "next" is what is left of the call.  *)
PortGiven(nd, asked, p) == p = IF asked = None THEN NewPort(nd) ELSE asked
Connected(a, b, port1, port2, p1, p2, l, next) ==
    /\ ShapeNow' /\ Joins(World, a, b, p1, p2, l, World')
    /\ PortGiven(node[a], port1, p1) /\ PortGiven(node[b], port2, p2)
    /\ links' = Append(links, l) /\ phase' = phase
    /\ history' = [history EXCEPT !.calls = IF phase = "build" THEN @ ELSE @ + 1]
    /\ todo' = next
    /\ UNCHANGED <<around, hosts, switches, named, nextIP, stale, up, wait>>
CutShort(next) ==
    /\ ShapeNow' /\ phase' = "exiting" /\ history' = [history EXCEPT !.failed = phase]
    /\ todo' = next
    /\ UNCHANGED <<around, hosts, switches, named, nextIP, stale, up, wait>>
    /\ UNCHANGED <<node, link, links, bridge, proc>>

\* Connect().
LEMMA ConnectDoes ==
    ASSUME ShapeNow, NEW a \in DOMAIN node, NEW b \in DOMAIN node, node[a].name # node[b].name,
           NEW port1, NEW port2, Asked(node[a], port1), Asked(node[b], port2), NEW next,
           Connect(a, b, port1, port2, next)
    PROVE  \/ Fails(phase)
           \/ CutShort(next)
           \/ \E p1, p2, l \in Nat : Connected(a, b, port1, port2, p1, p2, l, next)
  <1>1. PICK w : w = World
    OBVIOUS
  <1>2. /\ Shape(w) /\ w.node = node /\ w.link = link /\ w.veth = veth /\ w.bridge = bridge
        /\ w.proc = proc /\ w.raised = FALSE
    BY <1>1, WorldIs DEF ShapeNow
  <1>3. PICK w1 : w1 = WithLink(w, a, b, port1, port2)
    OBVIOUS
  <1>4. PICK p1 \in Nat, p2 \in Nat, l \in Nat :
           /\ Shape(w1) /\ NewLink(w, a, b, p1, p2, l, w1)
           /\ p1 = IF port1 = None THEN NewPort(w.node[a]) ELSE port1
           /\ p2 = IF port2 = None THEN NewPort(w.node[b]) ELSE port2
    BY <1>2, <1>3, WithLinkIs
  <1>5. /\ l \in DOMAIN w1.link /\ l = Len(w1.link)
        /\ w1.node = w.node /\ w1.veth = w.veth
    BY <1>4 DEF NewLink
  <1>6. PICK made : made = PairResult(w1, l)
    OBVIOUS
  <1>7. PairMade(w1, l, made)
    BY <1>4, <1>5, <1>6, PairMadeIs
  <1>8. CASE made.result = "raises"
    <2>1. Fails(phase)
      BY <1>1, <1>3, <1>5, <1>6, <1>8 DEF Connect
    <2> QED
      BY <2>1
  <1>9. CASE made.result = "exits"
    <2>1. /\ veth' = veth \cup made.pair /\ phase' = "exiting"
          /\ history' = [history EXCEPT !.failed = phase] /\ todo' = next
          /\ UNCHANGED <<around, hosts, switches, named, nextIP, stale, up, wait>>
          /\ UNCHANGED <<node, link, links, bridge, proc>>
      BY <1>1, <1>3, <1>5, <1>6, <1>9 DEF Connect
    <2>2. PICK pair : pair = made.pair
      OBVIOUS
    <2>3. \E x, y : x # y /\ pair = {{x, y}}
      BY <1>7, <1>9, <2>2 DEF PairMade
    <2>4. PICK r : r = [w EXCEPT !.veth = @ \cup pair]
      OBVIOUS
    <2>5. Shape(r) /\ PairsAdded(w, pair, r)
      BY <1>2, <2>3, <2>4, MorePairs
    <2>6. Becomes(r)
      BY <1>2, <2>1, <2>2, <2>5 DEF Becomes, PairsAdded
    <2>7. ShapeNow'
      BY <2>5, <2>6, Became
    <2> QED
      BY <2>1, <2>7 DEF CutShort
  <1>10. CASE made.result = "made"
    <2>1. PICK r : r = Joined([w1 EXCEPT !.veth = @ \cup made.pair], l)
      OBVIOUS
    <2>2. /\ Becomes(r) /\ links' = Append(links, l) /\ phase' = phase
          /\ history' = [history EXCEPT !.calls = IF phase = "build" THEN @ ELSE @ + 1]
          /\ todo' = next
          /\ UNCHANGED <<around, hosts, switches, named, nextIP, stale, up, wait>>
      BY <1>1, <1>3, <1>5, <1>6, <1>10, <2>1 DEF Connect
    <2>3. Shape(r) /\ Joins(w, a, b, p1, p2, l, r)
      BY <1>2, <1>4, <1>7, <1>10, <2>1, JoinsThem
    <2>4. r.raised = FALSE
      BY <1>2, <2>3 DEF Joins
    <2>5. ShapeNow' /\ World' = r
      BY <2>2, <2>3, <2>4, Became
    <2>6. PortGiven(node[a], port1, p1) /\ PortGiven(node[b], port2, p2)
      BY <1>2, <1>4 DEF PortGiven
    <2>7. Connected(a, b, port1, port2, p1, p2, l, next)
      BY <1>1, <2>2, <2>3, <2>5, <2>6 DEF Connected
    <2> QED
      BY <2>7
  <1> QED
    BY <1>7, <1>8, <1>9, <1>10 DEF PairMade

Idling == {"idle", "wait", "stopped", "exiting", "exited", "cleaned"}

\* The lists hold as long as the nodes and links are the same.
LEMMA ListsStay ==
    ASSUME Lists, Same(World, World'), UNCHANGED <<hosts, switches, named, nextIP>>,
           IsList(links'), Range(links') \subseteq Range(links)
    PROVE  Lists'
  <1>1. /\ DOMAIN node' = DOMAIN node /\ DOMAIN link' = DOMAIN link
        /\ \A n \in DOMAIN node : node'[n].name = node[n].name /\ node'[n].kind = node[n].kind
    BY WorldIs, WorldThen DEF Same
  <1>2. NodesListed(node', hosts, switches, named)
    BY <1>1 DEF Lists, NodesListed
  <1>3. LinksListed(link', links')
    BY <1>1 DEF Lists, LinksListed
  <1> QED
    BY <1>2, <1>3 DEF Lists

\* The world is the same as itself.
LEMMA SameItself == Same(World, World)
  BY DEF Same

\* Nothing is left to do once a call has ended.
LEMMA SoundIdle ==
    ASSUME Sound, topo' = topo, ShapeNow', Lists', phase' \in Idling, wait' = wait
    PROVE  Sound'
  <1>1. Todo'
    BY DEF Todo, Phases, Idling
  <1>2. Waits'
    BY DEF Sound, Waits
  <1> QED
    BY <1>1, <1>2 DEF Sound

\* A step that leaves the network alone, and ends a call.
LEMMA SoundAlone ==
    ASSUME Sound, topo' = topo, UNCHANGED <<node, link, lists, veth, bridge, proc>>,
           phase' \in Idling, wait' = wait
    PROVE  Sound'
  <1>1. ShapeNow' /\ World' = World
    BY Stayed DEF Sound
  <1>2. Lists'
    BY DEF Sound, Lists, lists
  <1> QED
    BY <1>1, <1>2, SoundIdle

\* An exception while building or at rest.
LEMMA FailsKeeps ==
    ASSUME Sound, NEW what, Fails(what), phase \in {"build", "idle"}
    PROVE  Sound'
  BY SoundAlone DEF Fails, Idling, around, system

\* A node of the topology.
LEMMA BuildNodeDoes ==
    ASSUME Sound, BuildNode
    PROVE  \/ Fails("build") /\ Sound'
           \/ /\ \E k \in Nat : NodeCreated(todo[1].of, k)
              /\ CreateNode(todo[1].of, Tail(todo)) /\ NodeJob(todo[1].of, named)
              /\ phase = "build" /\ phase' = "build" /\ history' = history /\ Sound'
  <1>1. phase = "build" /\ todo # <<>> /\ Head(todo).call = "node" /\ Building(todo, named, node)
    BY DEF Sound, Todo, BuildNode
  <1>2. PICK rest : rest = Tail(todo)
    OBVIOUS
  <1>3. Head(todo) = todo[1] /\ 1 \in DOMAIN todo
    BY <1>1, <1>2, TailIs DEF Building, RestOf
  <1>4. PICK nd : nd = todo[1].of
    OBVIOUS
  <1>5. NodeJob(nd, named)
    BY <1>1, <1>3, <1>4 DEF Building
  <1>6. CASE CannotCreate(nd)
    <2>1. Fails("build")
      BY <1>3, <1>4, <1>6 DEF BuildNode
    <2> QED
      BY <1>1, <2>1, FailsKeeps
  <1>7. CASE ~CannotCreate(nd)
    <2>1. CreateNode(nd, rest) /\ history' = history
      BY <1>2, <1>3, <1>4, <1>7 DEF BuildNode
    <2>2. topo' = topo /\ phase' = "build" /\ todo' = rest /\ wait' = wait
      BY <1>1, <2>1 DEF CreateNode, around
    <2>3. PICK k \in Nat : NodeCreated(nd, k)
      BY <1>5, <2>1, CreateNodeDoes DEF Sound, NodeJob
    <2>4. ShapeNow' /\ Lists' /\ NameMore(named, nd.name, k + 1, named')
      BY <2>3 DEF NodeCreated
    <2>5. PICK ip : NodeMade(World, nd.name, nd.kind, ip, k, World')
      BY <2>3 DEF NodeCreated
    <2>6. node'[k + 1].kind = nd.kind /\ \A j \in DOMAIN node : node'[j] = node[j]
      BY <2>5, WorldIs, WorldThen DEF NodeMade
    <2>7. NodesListed(node, hosts, switches, named)
      BY DEF Sound, Lists
    <2>8. PICK name : name = nd.name
      OBVIOUS
    <2>9. /\ DOMAIN named' = DOMAIN named \cup {name}
          /\ \A x \in DOMAIN named : node'[named'[x]].kind = node[named[x]].kind
          /\ node'[named'[name]].kind = nd.kind
      BY <2>4, <2>6, <2>7, <2>8 DEF NameMore, NodesListed
    <2>10. Building(rest, named', node')
      <3>1. PICK jobs, names, nodes, more, others :
               /\ jobs = todo /\ names = named /\ nodes = node /\ more = named' /\ others = node'
        OBVIOUS
      <3>2. /\ Building(jobs, names, nodes) /\ jobs # <<>> /\ jobs[1].call = "node"
            /\ name = jobs[1].of.name /\ rest = Tail(jobs)
            /\ DOMAIN more = DOMAIN names \cup {name}
            /\ SameKinds(names, nodes, more, others)
            /\ others[more[name]].kind = jobs[1].of.kind
        BY <1>1, <1>2, <1>3, <1>4, <2>8, <2>9, <3>1 DEF SameKinds
      <3>3. Building(rest, more, others)
        BY <3>2, BuildingNode
      <3> QED
        BY <3>1, <3>3
    <2>11. Todo'
      BY <2>2, <2>10 DEF Todo, Phases
    <2>12. Waits'
      BY <2>2 DEF Sound, Waits
    <2>13. Sound'
      BY <2>2, <2>4, <2>11, <2>12 DEF Sound
    <2> QED
      BY <1>1, <1>2, <1>4, <1>5, <2>1, <2>2, <2>3, <2>13
  <1> QED
    BY <1>6, <1>7

\* The lists, with one link more.
LEMMA ListsJoined ==
    ASSUME Lists, NEW a, NEW b, NEW p1, NEW p2, NEW l, Joins(World, a, b, p1, p2, l, World'),
           links' = Append(links, l), UNCHANGED <<hosts, switches, named, nextIP>>
    PROVE  /\ Lists' /\ Range(links') = Range(links) \cup {l} /\ l \notin Range(links)
           /\ SameKinds(named, node, named, node')
  <1>1. /\ DOMAIN node' = DOMAIN node
        /\ \A n \in DOMAIN node : node'[n].name = node[n].name /\ node'[n].kind = node[n].kind
        /\ l \in Nat /\ l > 0 /\ DOMAIN link = 1..(l - 1) /\ DOMAIN link' = 1..l
    BY WorldIs, WorldThen DEF Joins
  <1>2. NodesListed(node', hosts, switches, named)
    BY <1>1 DEF Lists, NodesListed
  <1>3. IsList(links) /\ Range(links) \subseteq DOMAIN link
    BY DEF Lists, LinksListed
  <1>4. l \notin DOMAIN link /\ DOMAIN link \subseteq DOMAIN link' /\ l \in DOMAIN link'
    BY <1>1
  <1>5. IsList(links') /\ Range(links') = Range(links) \cup {l}
    BY <1>3, <1>4, ListAppended
  <1>6. LinksListed(link', links')
    BY <1>3, <1>4, <1>5 DEF LinksListed
  <1>7. SameKinds(named, node, named, node')
    BY <1>1 DEF Lists, NodesListed, SameKinds
  <1> QED
    BY <1>2, <1>3, <1>4, <1>5, <1>6, <1>7 DEF Lists

\* A link that was added.
LEMMA ConnectedKeeps ==
    ASSUME Sound, NEW a, NEW b, NEW port1, NEW port2, NEW p1, NEW p2, NEW l, NEW next,
           Connected(a, b, port1, port2, p1, p2, l, next), phase \in {"build", "idle"},
           phase = "build" => todo # <<>> /\ todo[1].call # "node" /\ next = Tail(todo)
    PROVE  Sound'
  <1>1. /\ ShapeNow' /\ Joins(World, a, b, p1, p2, l, World') /\ links' = Append(links, l)
        /\ phase' = phase /\ todo' = next
        /\ topo' = topo /\ wait' = wait
        /\ UNCHANGED <<hosts, switches, named, nextIP>>
    BY DEF Connected, around
  <1>2. Lists' /\ SameKinds(named, node, named, node')
    BY <1>1, ListsJoined DEF Sound
  <1>3. CASE phase = "idle"
    BY <1>1, <1>2, <1>3, SoundIdle DEF Idling
  <1>4. CASE phase = "build"
    <2>1. Building(todo, named, node) /\ todo # <<>> /\ todo[1].call # "node" /\ next = Tail(todo)
      BY <1>4 DEF Sound, Todo
    <2>2. Building(next, named, node')
      BY <1>2, <2>1, BuildingNext
    <2>3. Todo'
      BY <1>1, <1>4, <2>2 DEF Todo, Phases
    <2>4. Waits'
      BY <1>1 DEF Sound, Waits
    <2> QED
      BY <1>1, <1>2, <2>3, <2>4 DEF Sound
  <1> QED
    BY <1>3, <1>4

\* A link between two named nodes: either an exception, or the end of the program, or
\* a new link.
LinkCall(next) ==
    \/ Fails(phase) \/ CutShort(next)
    \/ \E a, b \in Range(named) : \E port1, port2, p1, p2, l :
          Connected(a, b, port1, port2, p1, p2, l, next) /\ node[a].name # node[b].name

\* addLink() keeps the lists sound, whether it returns or raises half way.
LEMMA LinkCallKeeps ==
    ASSUME Sound, NEW next, LinkCall(next), phase \in {"build", "idle"},
           phase = "build" => todo # <<>> /\ todo[1].call # "node" /\ next = Tail(todo)
    PROVE  Sound'
  <1>1. CASE Fails(phase)
    BY <1>1, FailsKeeps
  <1>2. CASE CutShort(next)
    BY <1>2, SoundIdle DEF CutShort, Idling, around, lists, Sound, Lists
  <1>3. CASE \E a, b \in Range(named) : \E port1, port2, p1, p2, l :
                Connected(a, b, port1, port2, p1, p2, l, next) /\ node[a].name # node[b].name
    BY <1>3, ConnectedKeeps
  <1> QED
    BY <1>1, <1>2, <1>3 DEF LinkCall

\* A link of the topology.
LEMMA BuildLinkDoes ==
    ASSUME Sound, BuildLink
    PROVE  LinkCall(Tail(todo)) /\ Sound' /\ phase = "build" /\ todo # <<>>
  <1>1. phase = "build" /\ todo # <<>> /\ Head(todo).call = "link" /\ Building(todo, named, node)
    BY DEF Sound, Todo, BuildLink
  <1>2. PICK rest : rest = Tail(todo)
    OBVIOUS
  <1>3. Head(todo) = todo[1] /\ 1 \in DOMAIN todo /\ \A j \in DOMAIN todo : j \in Nat /\ j > 0
    BY <1>1, <1>2, TailIs DEF Building, RestOf
  <1>4. PICK l : l = todo[1].of
    OBVIOUS
  <1>5. LinkJob(l, 1, todo, named, node)
    BY <1>1, <1>3, <1>4 DEF Building
  <1>6. /\ l.a # l.b /\ l.p1 \in Nat /\ l.p2 \in Nat
        /\ l.a \in DOMAIN named /\ (node[named[l.a]].kind = "switch" => l.p1 # 0)
        /\ l.b \in DOMAIN named /\ (node[named[l.b]].kind = "switch" => l.p2 # 0)
    BY <1>3, <1>5 DEF LinkJob, Known
  <1>7. PICK a, b, port1, port2 : /\ a = named[l.a] /\ b = named[l.b]
                                  /\ port1 = l.p1 /\ port2 = l.p2
    OBVIOUS
  <1>8. /\ a \in DOMAIN node /\ b \in DOMAIN node /\ node[a].name # node[b].name
        /\ a \in Range(named) /\ b \in Range(named)
    BY <1>6, <1>7 DEF Sound, Lists, NodesListed, Range
  <1>9. Asked(node[a], port1) /\ Asked(node[b], port2)
    BY <1>6, <1>7 DEF Asked
  <1>10. Connect(a, b, port1, port2, rest)
    BY <1>2, <1>3, <1>4, <1>7 DEF BuildLink
  <1>11. LinkCall(rest)
    BY <1>8, <1>9, <1>10, ConnectDoes DEF LinkCall, Sound
  <1>12. todo[1].call # "node"
    BY <1>1, <1>3
  <1> QED
    BY <1>1, <1>2, <1>11, <1>12, LinkCallKeeps

\* addLink() at run time.
LEMMA AddLinkCallDoes ==
    ASSUME Sound, NEW a \in DOMAIN node, NEW b \in DOMAIN node, NEW p \in PortPairs,
           AddLinkCall(a, b, p[1], p[2])
    PROVE  LinkCall(<<>>) /\ Sound' /\ MayChange
  <1>1. MayChange /\ phase = "idle" /\ {a, b} \subseteq Range(named) /\ a # b
    BY DEF AddLinkCall, MayChange
  <1>2. PICK port1, port2, none : port1 = p[1] /\ port2 = p[2] /\ none = <<>>
    OBVIOUS
  <1>3. node[a].name # node[b].name
    <2>1. PICK x \in DOMAIN named, y \in DOMAIN named : a = named[x] /\ b = named[y]
      BY <1>1 DEF Range
    <2> QED
      BY <1>1, <2>1 DEF Sound, Lists, NodesListed
  <1>4. Asked(node[a], port1) /\ Asked(node[b], port2)
    BY <1>2, ProgramAssumption DEF Asked
  <1>5. Connect(a, b, port1, port2, none)
    BY <1>2 DEF AddLinkCall
  <1>6. LinkCall(none)
    BY <1>1, <1>3, <1>4, <1>5, ConnectDoes DEF LinkCall, Sound
  <1> QED
    BY <1>1, <1>2, <1>6, LinkCallKeeps

\* addHost(), addDocker(), addSwitch() at run time.
LEMMA AddNodeCallDoes ==
    ASSUME Sound, NEW nd \in Names, AddNodeCall(nd)
    PROVE  /\ MayChange /\ \E k \in Nat : NodeCreated(nd, k)
           /\ CreateNode(nd, <<>>) /\ nd.name \notin DOMAIN named /\ nd.name \in NodeNames
           /\ nd.kind \in Kinds
           /\ Sound'
  <1>1. /\ MayChange /\ phase = "idle" /\ nd.name \notin DOMAIN named /\ CreateNode(nd, <<>>)
    BY DEF AddNodeCall, MayChange
  <1>2. nd.name \in NodeNames /\ nd.kind \in Kinds
    BY ProgramAssumption
  <1>3. PICK k \in Nat : NodeCreated(nd, k)
    BY <1>1, <1>2, CreateNodeDoes DEF Sound
  <1>4. ShapeNow' /\ Lists' /\ topo' = topo /\ phase' = "idle" /\ wait' = wait
    BY <1>1, <1>3 DEF NodeCreated, CreateNode, around
  <1>5. Sound'
    BY <1>4, SoundIdle DEF Idling
  <1> QED
    BY <1>1, <1>2, <1>3, <1>5

\* configHosts().
LEMMA BuildConfigDoes ==
    ASSUME Sound, BuildConfig
    PROVE  /\ Addressed(World, World') /\ Same(World, World') /\ Sound'
           /\ UNCHANGED <<link, veth, bridge, proc, lists, history>> /\ phase = "build" /\ phase' = "idle"
  <1>1. /\ phase = "build" /\ phase' = "idle" /\ topo' = topo /\ wait' = wait
        /\ UNCHANGED <<link, veth, bridge, proc, lists, history>>
        /\ node' = [n \in DOMAIN node |-> Configured(node[n])]
    BY DEF BuildConfig, around, system
  <1>2. PICK w, r : w = World /\ r = World'
    OBVIOUS
  <1>3. /\ Shape(w) /\ IsWorld(r) /\ r.node = [n \in DOMAIN w.node |-> Configured(w.node[n])]
        /\ r.link = w.link /\ r.veth = w.veth /\ r.bridge = w.bridge
    BY <1>1, <1>2, WorldIs, WorldThen DEF Sound, ShapeNow
  <1>4. Shape(r) /\ Same(w, r) /\ Addressed(w, r)
    BY <1>3, AddressedIs
  <1>5. IsList(links') /\ Range(links') \subseteq Range(links)
    BY <1>1 DEF Sound, Lists, LinksListed, lists
  <1>6. Lists'
    BY <1>1, <1>2, <1>4, <1>5, ListsStay DEF Sound, lists
  <1>7. Sound'
    BY <1>1, <1>2, <1>4, <1>6, SoundIdle DEF Idling, ShapeNow
  <1> QED
    BY <1>1, <1>2, <1>4, <1>7

\* The nodes and links of what becomes the world.
LEMMA BecameSame ==
    ASSUME NEW w, Same(World, w), Becomes(w)
    PROVE  Same(World, World')
  <1>1. World'.node = w.node /\ World'.link = w.link
    BY WorldThen DEF Becomes
  <1> QED
    BY <1>1 DEF Same

(* A link is out of the network, unless an exception was raised.  *)
LinkOut(l, raised) ==
    /\ ShapeNow' /\ Same(World, World') /\ raised \in BOOLEAN
    /\ (\A s \in {1, 2} : link[l].known[s] /\ ~DelIntfRaises(node[link[l].n[s]], <<l, s>>))
          => ~raised
    /\ ~raised => LinkGone(World, l, World')

\* Link.delete() of a link, as the variables say it.
LEMMA LinkOutIs ==
    ASSUME ShapeNow, NEW l \in DOMAIN link, NEW w
    PROVE  w = DeletedLink(World, l) /\ Becomes(w) => LinkOut(l, w.raised)
  <1>0. SUFFICES ASSUME w = DeletedLink(World, l), Becomes(w) PROVE LinkOut(l, w.raised)
    OBVIOUS
  <1>1. PICK v : v = World
    OBVIOUS
  <1>2. Shape(v) /\ v.raised = FALSE /\ l \in DOMAIN v.link /\ v.link = link /\ v.node = node
    BY <1>1, WorldIs DEF ShapeNow
  <1>3. w = DeletedLink(v, l)
    BY <1>0, <1>1
  <1>4. /\ Shape(w) /\ Same(v, w) /\ w.raised \in BOOLEAN
        /\ (\A s \in {1, 2} : v.link[l].known[s] /\ ~DelIntfRaises(v.node[v.link[l].n[s]], <<l, s>>))
              => ~w.raised
        /\ ~w.raised => LinkGone(v, l, w)
    BY <1>2, <1>3, DeletedLinkIs
  <1>5. ShapeNow' /\ (w.raised = FALSE => World' = w) /\ Same(World, World')
    BY <1>0, <1>1, <1>4, Became, BecameSame
  <1>6. ~w.raised => LinkGone(World, l, World')
    BY <1>1, <1>4, <1>5
  <1> QED
    BY <1>2, <1>4, <1>5, <1>6 DEF LinkOut

\* removeLink().
LEMMA RemoveLinkCallDoes ==
    ASSUME Sound, NEW l \in Range(links), RemoveLinkCall(l)
    PROVE  /\ MayChange /\ phase' = "idle" /\ Sound'
           /\ UNCHANGED <<hosts, switches, named, nextIP>>
           /\ \E raised \in BOOLEAN :
                 /\ LinkOut(l, raised)
                 /\ Range(links') = IF raised THEN Range(links) ELSE Range(links) \ {l}
                 /\ history' = [history EXCEPT !.calls = @ + 1, !.removals = @ + 1,
                                               !.tidy = @ /\ ~raised,
                                               !.failed = IF raised THEN "remove" ELSE @]
  <1>1. PICK w : w = DeletedLink(World, l)
    OBVIOUS
  <1>2. PICK raised : raised = w.raised
    OBVIOUS
  <1>3. /\ MayChange /\ phase = "idle" /\ phase' = "idle" /\ topo' = topo /\ wait' = wait
        /\ UNCHANGED <<hosts, switches, named, nextIP>>
        /\ Becomes(w)
        /\ links' = IF raised THEN links ELSE RemoveFirst(links, l)
        /\ history' = [history EXCEPT !.calls = @ + 1, !.removals = @ + 1,
                                      !.tidy = @ /\ ~raised,
                                      !.failed = IF raised THEN "remove" ELSE @]
    BY <1>1, <1>2 DEF RemoveLinkCall, MayChange, around, Unlisted
  <1>4. IsList(links) /\ l \in DOMAIN link
    BY DEF Sound, Lists, LinksListed
  <1>5. LinkOut(l, raised)
    BY <1>1, <1>2, <1>3, <1>4, LinkOutIs DEF Sound
  <1>6. raised \in BOOLEAN /\ ShapeNow' /\ Same(World, World')
    BY <1>5 DEF LinkOut
  <1>7. IsList(links') /\ Range(links') = IF raised THEN Range(links) ELSE Range(links) \ {l}
    <2>1. CASE raised
      BY <1>3, <1>4, <2>1
    <2>2. CASE ~raised
      BY <1>3, <1>4, <2>2, FirstRemoved
    <2> QED
      BY <2>1, <2>2
  <1>8. Lists'
    BY <1>3, <1>6, <1>7, ListsStay DEF Sound
  <1>9. Sound'
    BY <1>3, <1>6, <1>8, SoundIdle DEF Idling
  <1> QED
    BY <1>3, <1>5, <1>6, <1>7, <1>9

\* One node is in no list any more.
LEMMA ListsForgotten ==
    ASSUME Lists, NEW n \in Range(named), Forgotten(n), Same(World, World'),
           UNCHANGED <<links, nextIP>>
    PROVE  /\ Lists' /\ Range(named') = Range(named) \ {n}
           /\ DOMAIN named' \subseteq DOMAIN named
           /\ Range(hosts') = Range(hosts) \ {n} /\ Range(switches') = Range(switches) \ {n}
  <1>1. /\ DOMAIN node' = DOMAIN node /\ DOMAIN link' = DOMAIN link
        /\ \A m \in DOMAIN node : node'[m].name = node[m].name /\ node'[m].kind = node[m].kind
    BY WorldIs, WorldThen DEF Same
  <1>2. NodesListed(node, hosts, switches, named) /\ LinksListed(link, links)
    BY DEF Lists
  <1>3. /\ IsList(hosts') /\ Range(hosts') = Range(hosts) \ {n}
        /\ IsList(switches') /\ Range(switches') = Range(switches) \ {n}
    BY <1>2, FirstRemoved DEF NodesListed, Forgotten
  <1>4. PICK x \in DOMAIN named : named[x] = n
    BY DEF Range
  <1>5. node[n].name = x
    BY <1>2, <1>4 DEF NodesListed
  <1>6. /\ DOMAIN named' = DOMAIN named \ {x}
        /\ \A y \in DOMAIN named' : named'[y] = named[y]
    BY <1>5 DEF Forgotten, Without
  <1>7. \A y \in DOMAIN named : named[y] = n => y = x
    BY <1>2, <1>5 DEF NodesListed
  <1>8. Range(named') = Range(named) \ {n}
    BY <1>4, <1>6, <1>7 DEF Range
  <1>9. \A y \in DOMAIN named' : named'[y] \in DOMAIN node' /\ node'[named'[y]].name = y
    BY <1>1, <1>2, <1>6 DEF NodesListed
  <1>10. NodesListed(node', hosts', switches', named')
    BY <1>1, <1>2, <1>3, <1>8, <1>9 DEF NodesListed
  <1>11. LinksListed(link', links')
    BY <1>1, <1>2 DEF LinksListed
  <1> QED
    BY <1>3, <1>6, <1>8, <1>10, <1>11 DEF Lists

(* A node has been taken out of the network.  *)
NodeOut(n) ==
    /\ ShapeNow' /\ Same(World, World') /\ NodeGone(World, n, World')
    /\ Range(named') = Range(named) \ {n} /\ DOMAIN named' \subseteq DOMAIN named
    /\ Range(hosts') = Range(hosts) \ {n} /\ Range(switches') = Range(switches) \ {n}
    /\ UNCHANGED <<links, nextIP>>
    /\ history' = [history EXCEPT !.calls = @ + 1, !.removals = @ + 1,
                      !.tidy = @ /\ \A l \in Range(links) : n \notin Range(link[l].n)]

\* The end of a node.
LEMMA StoppedBecomes ==
    ASSUME ShapeNow, NEW n \in DOMAIN node, NEW w
    PROVE  w = StoppedNode(World, n) /\ Becomes(w) =>
              ShapeNow' /\ Same(World, World') /\ NodeGone(World, n, World') /\ w.raised = FALSE
  <1>0. SUFFICES ASSUME w = StoppedNode(World, n), Becomes(w)
                 PROVE  /\ ShapeNow' /\ Same(World, World') /\ NodeGone(World, n, World')
                        /\ w.raised = FALSE
    OBVIOUS
  <1>1. PICK v : v = World
    OBVIOUS
  <1>2. Shape(v) /\ v.raised = FALSE /\ n \in DOMAIN v.node
    BY <1>1, WorldIs DEF ShapeNow
  <1>3. w = StoppedNode(v, n)
    BY <1>0, <1>1
  <1>4. Shape(w) /\ Same(v, w) /\ NodeGone(v, n, w)
    BY <1>2, <1>3, StoppedNodeIs
  <1>5. w.raised = FALSE
    BY <1>4 DEF NodeGone
  <1>6. ShapeNow' /\ World' = w
    BY <1>0, <1>4, <1>5, Became
  <1> QED
    BY <1>1, <1>4, <1>5, <1>6

\* removeHost().
LEMMA RemoveHostCallDoes ==
    ASSUME Sound, NEW n \in DOMAIN node, RemoveHostCall(n)
    PROVE  MayChange /\ n \in Range(named) /\ phase' = "idle" /\ NodeOut(n) /\ Sound'
  <1>1. PICK w : w = StoppedNode(World, n)
    OBVIOUS
  <1>2. /\ MayChange /\ phase = "idle" /\ phase' = "idle" /\ topo' = topo /\ wait' = wait
        /\ n \in Range(named) /\ Becomes(w) /\ RemovalNoted(n, w) /\ Forgotten(n)
        /\ UNCHANGED <<links, nextIP>>
    BY <1>1 DEF RemoveHostCall, MayChange, around
  <1>3. ShapeNow' /\ Same(World, World') /\ NodeGone(World, n, World') /\ w.raised = FALSE
    BY <1>1, <1>2, StoppedBecomes DEF Sound
  <1>4. /\ Lists' /\ Range(named') = Range(named) \ {n} /\ DOMAIN named' \subseteq DOMAIN named
        /\ Range(hosts') = Range(hosts) \ {n} /\ Range(switches') = Range(switches) \ {n}
    BY <1>2, <1>3, ListsForgotten DEF Sound
  <1>5. history' = [history EXCEPT !.calls = @ + 1, !.removals = @ + 1,
                       !.tidy = @ /\ \A l \in Range(links) : n \notin Range(link[l].n)]
    BY <1>2, <1>3 DEF RemovalNoted
  <1>6. Sound'
    BY <1>2, <1>3, <1>4, SoundIdle DEF Idling
  <1> QED
    BY <1>2, <1>3, <1>4, <1>5, <1>6 DEF NodeOut

\* delNode().
LEMMA DelNodeCallDoes ==
    ASSUME Sound, NEW n \in DOMAIN node, DelNodeCall(n)
    PROVE  MayChange /\ n \in Range(named) /\ phase' = "idle" /\ NodeOut(n) /\ Sound'
  <1>1. PICK w : w = StoppedNode(World, n)
    OBVIOUS
  <1>2. /\ MayChange /\ phase = "idle" /\ phase' = "idle" /\ topo' = topo /\ wait' = wait
        /\ n \in Range(named) /\ Becomes(w) /\ RemovalNoted(n, w)
        /\ w.raised = FALSE => Forgotten(n)
        /\ UNCHANGED <<links, nextIP>>
    BY <1>1 DEF DelNodeCall, MayChange, around
  <1>3. ShapeNow' /\ Same(World, World') /\ NodeGone(World, n, World') /\ w.raised = FALSE
    BY <1>1, <1>2, StoppedBecomes DEF Sound
  <1>4. /\ Lists' /\ Range(named') = Range(named) \ {n} /\ DOMAIN named' \subseteq DOMAIN named
        /\ Range(hosts') = Range(hosts) \ {n} /\ Range(switches') = Range(switches) \ {n}
    BY <1>2, <1>3, ListsForgotten DEF Sound
  <1>5. history' = [history EXCEPT !.calls = @ + 1, !.removals = @ + 1,
                       !.tidy = @ /\ \A l \in Range(links) : n \notin Range(link[l].n)]
    BY <1>2, <1>3 DEF RemovalNoted
  <1>6. Sound'
    BY <1>2, <1>3, <1>4, SoundIdle DEF Idling
  <1> QED
    BY <1>2, <1>3, <1>4, <1>5, <1>6 DEF NodeOut

\* The rest of what is left.
LEMMA PartLeft ==
    ASSUME NEW list, NEW rest, Part(rest, list), rest # <<>>, NEW tail, NEW head
    PROVE  tail = Tail(rest) /\ head = Head(rest) =>
              /\ Part(tail, list) /\ head \in Range(list) /\ head \in Range(rest)
              /\ head \notin Range(tail) /\ Range(rest) = Range(tail) \cup {head}
  <1>0. SUFFICES ASSUME tail = Tail(rest), head = Head(rest)
                 PROVE  /\ Part(tail, list) /\ head \in Range(list) /\ head \in Range(rest)
                        /\ head \notin Range(tail) /\ Range(rest) = Range(tail) \cup {head}
    OBVIOUS
  <1>1. IsSeq(rest) /\ Once(rest) /\ Range(rest) \subseteq Range(list)
    BY DEF Part, IsList
  <1>2. RestOf(rest, tail)
    BY <1>0, <1>1, TailIs
  <1>3. IsSeq(tail) /\ Once(tail) /\ head \notin Range(tail) /\ Range(rest) = Range(tail) \cup {head}
    BY <1>0, <1>1, <1>2 DEF RestOf
  <1> QED
    BY <1>1, <1>3 DEF Part, IsList

(* A call that has something left of a list.  *)
GoesOn(list) ==
    /\ Part(todo', list)
    /\ \/ phase' = "start" /\ list = switches'
       \/ phase' = "stop links" /\ list = links'
       \/ phase' = "stop hosts" /\ list = hosts'
\* Another phase of a call, with something left of a list.
LEMMA SoundDoing ==
    ASSUME Sound, topo' = topo, ShapeNow', Lists', wait' = wait, NEW list, GoesOn(list)
    PROVE  Sound'
  <1>1. Todo'
    BY DEF Todo, Phases, GoesOn
  <1>2. Waits'
    BY DEF Sound, Waits
  <1> QED
    BY <1>1, <1>2 DEF Sound

\* A list is a part of itself.
LEMMA PartOfItself ==
    ASSUME NEW list, IsList(list)
    PROVE  Part(list, list)
  BY DEF Part

\* start().
LEMMA StartCallDoes ==
    ASSUME Sound, StartCall
    PROVE  Sound'
  <1>1. /\ phase' = "start" /\ todo' = switches /\ topo' = topo /\ wait' = wait
        /\ UNCHANGED <<node, link, lists, veth, bridge, proc>>
    BY DEF StartCall, around, system
  <1>2. ShapeNow' /\ Lists'
    <2>1. ShapeNow'
      BY <1>1, Stayed DEF Sound
    <2> QED
      BY <1>1, <2>1 DEF Sound, Lists, lists
  <1>3. Part(todo', switches')
    <2>1. IsList(switches) /\ switches' = switches
      BY <1>1 DEF Sound, Lists, NodesListed, lists
    <2> QED
      BY <1>1, <2>1, PartOfItself
  <1> QED
    BY <1>1, <1>2, <1>3, SoundDoing DEF GoesOn

(* A switch has its bridge made.  *)
SwitchUp(n) ==
    /\ ShapeNow' /\ Same(World, World') /\ BridgeMade(World, n, World')
    /\ UNCHANGED <<lists, history>>

\* A switch that starts touches no list.
LEMMA StartedBecomes ==
    ASSUME Sound, NEW n, Becomes(StartedSwitch(n)), UNCHANGED <<lists, history>>
    PROVE  SwitchUp(n) /\ Lists'
  <1>1. PICK w, r : w = World /\ r = StartedSwitch(n)
    OBVIOUS
  <1>2. Shape(w) /\ w.raised = FALSE
    BY <1>1, WorldIs DEF Sound, ShapeNow
  <1>3. Shape(r) /\ Same(w, r) /\ BridgeMade(w, n, r)
    BY <1>1, <1>2, BridgeMadeIs
  <1>4. r.raised = FALSE /\ Becomes(r)
    BY <1>1, <1>2, <1>3 DEF BridgeMade
  <1>5. ShapeNow' /\ World' = r
    BY <1>3, <1>4, Became
  <1>6. IsList(links') /\ Range(links') \subseteq Range(links)
    BY DEF Sound, Lists, LinksListed, lists
  <1>7. Lists'
    BY <1>1, <1>3, <1>5, <1>6, ListsStay DEF Sound, lists
  <1> QED
    BY <1>1, <1>3, <1>5, <1>7 DEF SwitchUp

\* start(): one switch.
LEMMA StartSwitchDoes ==
    ASSUME Sound, StartSwitch
    PROVE  /\ \E n : /\ SwitchUp(n) /\ n \in Range(switches) /\ n \in Range(todo)
                     /\ Range(todo) = Range(todo') \cup {n}
           /\ phase = "start" /\ phase' = "start" /\ Sound'
  <1>1. /\ phase = "start" /\ todo # <<>> /\ phase' = "start" /\ topo' = topo /\ wait' = wait
        /\ UNCHANGED <<lists, history>> /\ Part(todo, switches)
    BY DEF StartSwitch, around, Sound, Todo
  <1>2. PICK n, rest : n = Head(todo) /\ rest = Tail(todo)
    OBVIOUS
  <1>3. Becomes(StartedSwitch(n)) /\ todo' = rest
    BY <1>2 DEF StartSwitch
  <1>4. SwitchUp(n) /\ Lists'
    BY <1>1, <1>3, StartedBecomes
  <1>5. /\ Part(rest, switches) /\ n \in Range(switches) /\ n \in Range(todo)
        /\ Range(todo) = Range(rest) \cup {n}
    BY <1>1, <1>2, PartLeft, ZenonT(60)
  <1>6. Part(todo', switches')
    BY <1>1, <1>3, <1>5 DEF lists
  <1>7. Sound'
    BY <1>1, <1>4, <1>6, SoundDoing DEF SwitchUp, GoesOn
  <1> QED
    BY <1>1, <1>3, <1>4, <1>5, <1>7

\* A switch added after start(), started by the program.
LEMMA StartLaterSwitchDoes ==
    ASSUME Sound, NEW n \in Range(switches), StartLaterSwitch(n)
    PROVE  /\ SwitchUp(n) /\ phase = "idle" /\ phase' = "idle" /\ history.started
           /\ node[n].name \notin DOMAIN bridge /\ Sound'
  <1>1. /\ phase = "idle" /\ phase' = "idle" /\ topo' = topo /\ wait' = wait
        /\ UNCHANGED <<lists, history>> /\ Becomes(StartedSwitch(n)) /\ history.started
        /\ node[n].name \notin DOMAIN bridge
    BY DEF StartLaterSwitch, around
  <1>2. SwitchUp(n) /\ Lists'
    BY <1>1, StartedBecomes
  <1>3. Sound'
    BY <1>1, <1>2, SoundIdle DEF SwitchUp, Idling
  <1> QED
    BY <1>1, <1>2, <1>3

\* stop().
LEMMA StopCallDoes ==
    ASSUME Sound, StopCall
    PROVE  Sound'
  <1>1. /\ phase' = "stop links" /\ todo' = links /\ topo' = topo /\ wait' = wait
        /\ UNCHANGED <<node, link, lists, veth, bridge, proc>>
    BY DEF StopCall, around, system
  <1>2. ShapeNow' /\ Lists'
    <2>1. ShapeNow'
      BY <1>1, Stayed DEF Sound
    <2> QED
      BY <1>1, <2>1 DEF Sound, Lists, lists
  <1>3. Part(todo', links')
    <2>1. IsList(links) /\ links' = links
      BY <1>1 DEF Sound, Lists, LinksListed, lists
    <2> QED
      BY <1>1, <2>1, PartOfItself
  <1> QED
    BY <1>1, <1>2, <1>3, SoundDoing DEF GoesOn
LinkStopped(l, raised) ==
    /\ LinkOut(l, raised) /\ l \in Range(todo) /\ l \in Range(links)
    /\ IF raised
       THEN phase' = "idle" /\ history' = [history EXCEPT !.failed = "stop"]
       ELSE /\ phase' = "stop links" /\ history' = history
            /\ Range(todo) = Range(todo') \cup {l} /\ l \notin Range(todo')

\* stop(): one link, or the exception that ends it.
LEMMA StopLinkDoes ==
    ASSUME Sound, StopLink
    PROVE  /\ phase = "stop links" /\ Sound' /\ UNCHANGED lists
           /\ \E l, raised : LinkStopped(l, raised)
  <1>1. PICK l, rest : l = Head(todo) /\ rest = Tail(todo)
    OBVIOUS
  <1>2. PICK w, raised : w = DeletedLink(World, l) /\ raised = w.raised
    OBVIOUS
  <1>3. /\ phase = "stop links" /\ todo # <<>> /\ Part(todo, links) /\ Becomes(w)
        /\ topo' = topo /\ wait' = wait /\ UNCHANGED lists
        /\ raised => /\ phase' = "idle" /\ history' = [history EXCEPT !.failed = "stop"]
        /\ ~raised => todo' = rest /\ phase' = phase /\ history' = history
    BY <1>1, <1>2 DEF StopLink, around, Sound, Todo
  <1>4. /\ Part(rest, links) /\ l \in Range(links) /\ l \in Range(todo)
        /\ l \notin Range(rest) /\ Range(todo) = Range(rest) \cup {l}
    BY <1>1, <1>3, PartLeft, ZenonT(60)
  <1>5. l \in DOMAIN link /\ IsList(links)
    BY <1>4 DEF Sound, Lists, LinksListed
  <1>6. LinkOut(l, raised)
    BY <1>2, <1>3, <1>5, LinkOutIs DEF Sound
  <1>7. raised \in BOOLEAN /\ ShapeNow' /\ Same(World, World')
    BY <1>6 DEF LinkOut
  <1>8. links' = links
    BY <1>3 DEF lists
  <1>9. Lists'
    BY <1>3, <1>5, <1>7, <1>8, ListsStay DEF Sound, lists
  <1>10. CASE raised
    <2>1. Sound'
      BY <1>3, <1>7, <1>9, <1>10, SoundIdle DEF Idling
    <2> QED
      BY <1>3, <1>4, <1>6, <1>10, <2>1 DEF LinkStopped
  <1>11. CASE ~raised
    <2>1. Part(todo', links')
      BY <1>3, <1>4, <1>8, <1>11
    <2>2. Sound'
      BY <1>3, <1>7, <1>9, <1>11, <2>1, SoundDoing DEF GoesOn
    <2> QED
      <3>1. phase' = "stop links" /\ history' = history /\ todo' = rest
        BY <1>3, <1>11
      <3>2. Range(todo) = Range(todo') \cup {l} /\ l \notin Range(todo')
        BY <1>4, <3>1
      <3>3. LinkStopped(l, raised)
        BY <1>4, <1>6, <1>11, <3>1, <3>2 DEF LinkStopped
      <3> QED
        BY <1>3, <2>2, <3>3
  <1> QED
    BY <1>7, <1>10, <1>11

\* The length of a sequence.
LEMMA LengthIs ==
    ASSUME NEW s, IsSeq(s)
    PROVE  \E N \in Nat : Len(s) = N /\ DOMAIN s = 1..N
  <1>1. PICK N \in Nat : s = [i \in 1..N |-> s[i]]
    BY DEF IsSeq
  <1>2. PICK T : T = {s[i] : i \in 1..N}
    OBVIOUS
  <1>3. [i \in 1..N |-> s[i]] \in Seq(T)
    BY <1>2
  <1>4. s \in Seq(T) /\ DOMAIN s = 1..N
    BY <1>1, <1>3
  <1>5. Len(s) = N
    BY <1>4
  <1> QED
    BY <1>4, <1>5

(* All switches have been terminated, their bridges deleted.  *)
SwitchNames == {node[n].name : n \in Range(switches)}
SwitchesDown ==
    /\ ShapeNow' /\ Same(World, World') /\ link' = link
    /\ \A m \in DOMAIN node \ Range(switches) : node'[m] = node[m]
    /\ \A m \in Range(switches) : node'[m].shell = FALSE /\ node'[m].intfs = node[m].intfs
    /\ veth' \subseteq veth
    /\ \A p : p \in proc' <=> /\ p \in proc
                              /\ \A m \in Range(switches) : ~(node[m].shell /\ p = node[m].name)
    /\ DOMAIN bridge' = DOMAIN bridge \ SwitchNames

\* terminate() of all switches, as the variables say it.
LEMMA SwitchesEnd ==
    ASSUME Sound, NEW r
    PROVE  r = [AllTerminated(World, switches) EXCEPT
                  !.bridge = [b \in DOMAIN @ \ SwitchNames |-> @[b]]] /\ Becomes(r)
           => SwitchesDown
  <1>0. SUFFICES ASSUME r = [AllTerminated(World, switches) EXCEPT
                               !.bridge = [b \in DOMAIN @ \ SwitchNames |-> @[b]]], Becomes(r)
                 PROVE  SwitchesDown
    OBVIOUS
  <1>1. PICK w, order, x : w = World /\ order = switches /\ x = AllTerminated(w, order)
    OBVIOUS
  <1>2. /\ Shape(w) /\ w.node = node /\ w.link = link /\ w.veth = veth /\ w.bridge = bridge
        /\ w.proc = proc /\ w.raised = FALSE
    BY <1>1, WorldIs DEF Sound, ShapeNow
  <1>3. IsList(order) /\ \A n \in Range(order) : n \in DOMAIN w.node /\ w.node[n].kind = "switch"
    BY <1>1, <1>2 DEF Sound, Lists, NodesListed
  <1>4. PICK N \in Nat : Len(order) = N /\ DOMAIN order = 1..N
    BY <1>3, LengthIs DEF IsList
  <1>5. /\ \A k \in 1..N : order[k] \in DOMAIN w.node /\ w.node[order[k]].kind = "switch"
        /\ \A j, k \in 1..N : order[j] = order[k] => j = k
    BY <1>3, <1>4 DEF IsList, Once, Range
  <1>6. Ended(w, First(order, N), x)
    BY <1>1, <1>2, <1>4, <1>5, EndedAll
  <1>7. First(order, N) = Range(switches)
    BY <1>1, <1>4 DEF First, Range
  <1>8. /\ Shape(x) /\ Same(w, x) /\ x.link = w.link /\ x.bridge = w.bridge /\ x.raised = FALSE
        /\ \A m \in DOMAIN w.node \ Range(switches) : x.node[m] = w.node[m]
        /\ \A m \in Range(switches) : x.node[m].shell = FALSE /\ x.node[m].intfs = w.node[m].intfs
        /\ x.veth \subseteq w.veth
        /\ \A p : p \in x.proc <=> /\ p \in w.proc
                                   /\ \A m \in Range(switches) : ~(w.node[m].shell /\ p = w.node[m].name)
    BY <1>2, <1>6, <1>7 DEF Ended
  <1>9. PICK names : names = SwitchNames
    OBVIOUS
  <1>10. r = [x EXCEPT !.bridge = [b \in DOMAIN @ \ names |-> @[b]]]
    BY <1>0, <1>1, <1>9
  <1>11. /\ IsWorld(r) /\ r.node = x.node /\ r.link = x.link /\ r.veth = x.veth /\ r.proc = x.proc
         /\ r.raised = FALSE /\ DOMAIN r.bridge = DOMAIN x.bridge \ names /\ Plain(r.bridge)
    <2>1. IsWorld(x)
      BY <1>8 DEF Shape, Worldly
    <2> QED
      BY <1>8, <1>10, <2>1 DEF IsWorld, WorldFields, Plain
  <1>12. Worldly(r)
    BY <1>8, <1>11, FewerPairs DEF Shape, Worldly
  <1>13. Shape(r) /\ Same(x, r)
    BY <1>8, <1>11, <1>12, ShapeOfMaps
  <1>14. ShapeNow' /\ World' = r /\ Same(w, r)
    BY <1>0, <1>8, <1>11, <1>13, Became, SameSame
  <1>15. /\ node' = x.node /\ link' = x.link /\ veth' = x.veth /\ proc' = x.proc
         /\ bridge' = r.bridge
    BY <1>0, <1>11 DEF Becomes
  <1> QED
    BY <1>1, <1>2, <1>8, <1>9, <1>11, <1>14, <1>15 DEF SwitchesDown

\* stop(): all switches at once.
LEMMA StopSwitchesDoes ==
    ASSUME Sound, StopSwitches
    PROVE  /\ SwitchesDown /\ Sound' /\ phase = "stop links" /\ todo = <<>>
           /\ phase' = "stop hosts" /\ todo' = hosts /\ UNCHANGED <<lists, history>>
  <1>1. /\ phase = "stop links" /\ todo = <<>> /\ phase' = "stop hosts" /\ todo' = hosts
        /\ topo' = topo /\ wait' = wait /\ UNCHANGED <<lists, history>>
    BY DEF StopSwitches, around
  <1>2. PICK r : r = [AllTerminated(World, switches) EXCEPT
                        !.bridge = [b \in DOMAIN @ \ SwitchNames |-> @[b]]]
    OBVIOUS
  <1>3. Becomes(r)
    BY <1>2 DEF StopSwitches, SwitchNames
  <1>4. SwitchesDown
    BY <1>2, <1>3, SwitchesEnd
  <1>5. IsList(links') /\ Range(links') \subseteq Range(links)
    BY <1>1 DEF Sound, Lists, LinksListed, lists
  <1>6. Lists'
    BY <1>1, <1>4, <1>5, ListsStay DEF Sound, SwitchesDown, lists
  <1>7. Part(todo', hosts')
    BY <1>1, PartOfItself DEF Sound, Lists, NodesListed, lists
  <1>8. Sound'
    BY <1>1, <1>4, <1>6, <1>7, SoundDoing DEF SwitchesDown, GoesOn
  <1> QED
    BY <1>1, <1>4, <1>8

(* The shell of one host has ended.  *)
HostDown(n) ==
    /\ ShapeNow' /\ Same(World, World') /\ ShellEnded(World, n, World')
    /\ n \in Range(hosts) /\ n \in Range(todo) /\ n \notin Range(todo')
    /\ Range(todo) = Range(todo') \cup {n}

\* stop(): one host.
LEMMA StopHostDoes ==
    ASSUME Sound, StopHost
    PROVE  /\ \E n : HostDown(n)
           /\ Sound' /\ phase = "stop hosts" /\ phase' = "stop hosts" /\ UNCHANGED <<lists, history>>
  <1>1. PICK n, rest : n = Head(todo) /\ rest = Tail(todo)
    OBVIOUS
  <1>2. PICK w, r : w = World /\ r = Terminated(w, n)
    OBVIOUS
  <1>3. /\ phase = "stop hosts" /\ todo # <<>> /\ phase' = "stop hosts" /\ todo' = rest
        /\ topo' = topo /\ wait' = wait /\ UNCHANGED <<lists, history>>
        /\ Becomes(r) /\ Part(todo, hosts)
    BY <1>1, <1>2 DEF StopHost, around, Sound, Todo
  <1>4. /\ Part(rest, hosts) /\ n \in Range(hosts) /\ n \in Range(todo)
        /\ n \notin Range(rest) /\ Range(todo) = Range(rest) \cup {n}
    BY <1>1, <1>3, PartLeft, ZenonT(60)
  <1>5. n \in DOMAIN node
    BY <1>4 DEF Sound, Lists, NodesListed
  <1>6. Shape(w) /\ w.raised = FALSE /\ n \in DOMAIN w.node
    BY <1>2, <1>5, WorldIs DEF Sound, ShapeNow
  <1>7. Shape(r) /\ Same(w, r) /\ ShellEnded(w, n, r)
    BY <1>2, <1>6, TerminatedIs
  <1>8. r.raised = FALSE
    BY <1>6, <1>7 DEF ShellEnded
  <1>9. ShapeNow' /\ World' = r
    BY <1>3, <1>7, <1>8, Became
  <1>10. HostDown(n)
    BY <1>2, <1>3, <1>4, <1>7, <1>9 DEF HostDown
  <1>11. IsList(links') /\ Range(links') \subseteq Range(links)
    BY <1>3 DEF Sound, Lists, LinksListed, lists
  <1>12. Lists'
    BY <1>2, <1>3, <1>7, <1>9, <1>11, ListsStay DEF Sound, lists
  <1>13. Part(todo', hosts')
    BY <1>3, <1>4 DEF lists
  <1>14. Sound'
    BY <1>3, <1>9, <1>12, <1>13, SoundDoing DEF GoesOn
  <1> QED
    BY <1>3, <1>10, <1>14

\* Fewer pairs and bridges, and the same objects.
LEMMA ShapeShrinks ==
    ASSUME ShapeNow, node' = node, link' = link, veth' \subseteq veth, Plain(bridge')
    PROVE  ShapeNow' /\ Same(World, World')
  <1>1. PICK w, r : w = World /\ r = World'
    OBVIOUS
  <1>2. /\ Shape(w) /\ IsWorld(r) /\ r.node = w.node /\ r.link = w.link /\ r.veth \subseteq w.veth
        /\ Plain(r.bridge)
    BY <1>1, WorldIs, WorldThen DEF ShapeNow
  <1>3. Worldly(w) /\ IsSeq(r.node)
    BY <1>2 DEF Shape, Worldly
  <1>4. Worldly(r)
    BY <1>2, <1>3, FewerPairs
  <1>5. Shape(r) /\ Same(w, r)
    BY <1>2, <1>4, ShapeOfMaps
  <1> QED
    BY <1>1, <1>5 DEF ShapeNow

\* A step of the system that leaves the objects alone, and ends a call.
LEMMA SystemKeeps ==
    ASSUME Sound, topo' = topo, UNCHANGED <<node, link, lists>>, veth' \subseteq veth, Plain(bridge'),
           phase' \in Idling, wait' = wait
    PROVE  Sound'
  <1>1. ShapeNow' /\ Same(World, World')
    BY ShapeShrinks DEF Sound
  <1>2. Lists'
    BY DEF Sound, Lists, lists
  <1> QED
    BY <1>1, <1>2, SoundIdle

\* The bridges are a map.
LEMMA BridgePlain ==
    ASSUME ShapeNow
    PROVE  Plain(bridge)
  BY WorldIs DEF ShapeNow, Shape, Worldly

\* What is looked at while waiting is a record.
LEMMA WaitStep ==
    ASSUME Sound, topo' = topo, UNCHANGED <<node, link, lists, veth, bridge, proc>>,
           phase' \in Idling, Waits'
    PROVE  Sound'
  <1>1. ShapeNow' /\ World' = World
    BY Stayed DEF Sound
  <1>2. Lists'
    BY DEF Sound, Lists, lists
  <1>3. Todo'
    BY DEF Todo, Phases, Idling
  <1> QED
    BY <1>1, <1>2, <1>3 DEF Sound

\* waitConnected() begins.
LEMMA WaitCallKeeps ==
    ASSUME Sound, NEW timed \in BOOLEAN, WaitCall(timed)
    PROVE  Sound'
  <1>1. /\ topo' = topo /\ UNCHANGED <<node, link, lists, veth, bridge, proc>> /\ phase' = "wait"
        /\ wait' = [NoWait EXCEPT !.remaining = switches, !.at = 1, !.timed = timed]
    BY DEF WaitCall, around, system
  <1>2. Waits'
    BY <1>1 DEF Waits, WaitFields, NoWait
  <1> QED
    BY <1>1, <1>2, WaitStep DEF Idling

\* waitConnected() asks one switch.
LEMMA WaitLookKeeps ==
    ASSUME Sound, WaitLook
    PROVE  Sound'
  <1>1. /\ topo' = topo /\ UNCHANGED <<node, link, lists, veth, bridge, proc>> /\ phase' = "wait"
        /\ wait' = Looks(wait)
    BY DEF WaitLook, around, system
  <1>2. Waits'
    <2>1. wait = [f \in WaitFields |-> wait[f]] /\ wait.result \in {"none", "yes", "no"}
      BY DEF Sound, Waits
    <2>2. CASE Sees(wait.remaining[wait.at])
      <3>1. PICK rest, seen, at :
               wait' = [wait EXCEPT !.remaining = rest, !.seen = seen, !.at = at]
        BY <1>1, <2>2 DEF Looks
      <3> QED
        BY <2>1, <3>1 DEF Waits, WaitFields
    <2>3. CASE ~Sees(wait.remaining[wait.at])
      <3>1. wait' = [wait EXCEPT !.at = @ + 1]
        BY <1>1, <2>3 DEF Looks
      <3> QED
        BY <2>1, <3>1 DEF Waits, WaitFields
    <2> QED
      BY <2>2, <2>3
  <1> QED
    BY <1>1, <1>2, WaitStep DEF Idling

\* waitConnected() ends a round.
LEMMA WaitRoundEndsKeeps ==
    ASSUME Sound, WaitRoundEnds
    PROVE  Sound'
  <1>1. /\ topo' = topo /\ UNCHANGED <<node, link, lists, veth, bridge, proc>>
        /\ phase' \in {"idle", "wait"}
    BY DEF WaitRoundEnds, around, system
  <1>2. Waits'
    <2>1. wait = [f \in WaitFields |-> wait[f]] /\ wait.result \in {"none", "yes", "no"}
      BY DEF Sound, Waits
    <2>2. CASE wait' = [NoWait EXCEPT !.result = IF wait.remaining = <<>> THEN "yes" ELSE "no"]
      BY <2>2 DEF Waits, WaitFields, NoWait
    <2>3. CASE \E last : wait' = [wait EXCEPT !.at = 1, !.last = last]
      BY <2>1, <2>3 DEF Waits, WaitFields
    <2> QED
      BY <2>2, <2>3 DEF WaitRoundEnds
  <1> QED
    BY <1>1, <1>2, WaitStep DEF Idling

\* Steps that leave the network alone.
LEMMA QuietStepsKeep ==
    ASSUME Sound,
           \/ StartEnds \/ StopEnds \/ InterruptStop
           \/ \E n \in DOMAIN node : Connects(n) \/ Disconnects(n)
    PROVE  Sound'
  <1>1. /\ topo' = topo /\ UNCHANGED <<node, link, lists, veth, bridge, proc>>
        /\ phase' \in Idling /\ wait' = wait
    BY DEF StartEnds, StopEnds, InterruptStop, Connects, Disconnects, Idling, around, system
  <1> QED
    BY <1>1, SoundAlone

\* The program ends.
LEMMA ExitKeeps ==
    ASSUME Sound, Exit
    PROVE  Sound'
  BY BridgePlain, SystemKeeps DEF Sound, Exit, WithoutNamespaces, Idling, around

\* mn -c.
LEMMA CleanupKeeps ==
    ASSUME Sound, Cleanup
    PROVE  Sound'
  <1>1. Plain(<<>>)
    BY DEF Plain
  <1> QED
    BY <1>1, SystemKeeps DEF Cleanup, RemoveJunk, Idling, around

\* A node's process is killed from outside.
LEMMA ProcessDiesKeeps ==
    ASSUME Sound, NEW name, ProcessDies(name)
    PROVE  Sound'
  BY BridgePlain, SystemKeeps DEF Sound, ProcessDies, WithoutNamespaces, Idling, around

\* A network without nodes has its shape.
LEMMA EmptyWorld ==
    ASSUME ShapeNow \/ (veth = {} /\ bridge = <<>>),
           NEW r, IsWorld(r), r.node = <<>>, r.link = <<>>,
           r.veth = veth, r.bridge = bridge
    PROVE  Shape(r)
  <1>1. IsSeq(<<>>)
    BY NothingIsSeq
  <1>2. Plain(bridge) /\ \A v \in veth : \E x, y \in v : x # y /\ v = {x, y}
    <2>1. CASE ShapeNow
      BY <2>1, WorldIs DEF ShapeNow, Shape, Worldly
    <2>2. CASE veth = {} /\ bridge = <<>>
      BY <2>2 DEF Plain
    <2> QED
      BY <2>1, <2>2
  <1>3. Worldly(r)
    BY <1>1, <1>2 DEF Worldly
  <1> QED
    BY <1>3 DEF Shape

\* Empty lists are sound.
LEMMA EmptyLists ==
    ASSUME NEW nothing, nothing = <<>>
    PROVE  NodesListed(nothing, nothing, nothing, nothing) /\ LinksListed(nothing, nothing)
  <1>1. IsList(nothing) /\ Range(nothing) = {}
    BY NothingIsList
  <1>2. DOMAIN nothing = {}
    OBVIOUS
  <1> QED
    BY <1>1, <1>2 DEF NodesListed, LinksListed

\* Another run begins with empty lists.
LEMMA RestartKeeps ==
    ASSUME Sound, Restart
    PROVE  Sound'
  <1>1. /\ node' = <<>> /\ link' = <<>> /\ hosts' = <<>> /\ switches' = <<>> /\ links' = <<>>
        /\ named' = <<>> /\ nextIP' = 1 /\ phase' = "build" /\ todo' = BuildJobs(topo)
        /\ topo' = topo /\ wait' = NoWait /\ veth' = veth /\ bridge' = bridge
    BY DEF Restart, system
  <1>2. ShapeNow'
    <2>1. Shape(World')
      BY <1>1, WorldThen, EmptyWorld DEF Sound
    <2> QED
      BY <2>1 DEF ShapeNow
  <1>3. Lists'
    BY <1>1, EmptyLists, BoundsAssumption DEF Lists
  <1>4. Todo'
    <2>1. PICK jobs, names, nodes : jobs = todo' /\ names = named' /\ nodes = node'
      OBVIOUS
    <2>2. topo \in Topologies /\ DOMAIN names = {} /\ jobs = BuildJobs(topo)
      BY <1>1, <2>1 DEF Sound
    <2>3. Building(jobs, names, nodes)
      BY <2>2, BuildingFirst
    <2> QED
      BY <1>1, <2>1, <2>3 DEF Todo, Phases
  <1>5. Waits'
    BY <1>1 DEF Waits, WaitFields, NoWait
  <1> QED
    BY <1>1, <1>2, <1>3, <1>4, <1>5 DEF Sound

\* So does the first.
LEMMA InitIsSound ==
    ASSUME Init
    PROVE  Sound
  <1>1. /\ node = <<>> /\ link = <<>> /\ hosts = <<>> /\ switches = <<>> /\ links = <<>>
        /\ named = <<>> /\ nextIP = 1 /\ phase = "build" /\ todo = BuildJobs(topo)
        /\ topo \in Topologies /\ wait = NoWait /\ veth = {} /\ bridge = <<>>
    BY DEF Init
  <1>2. ShapeNow
    <2>1. Shape(World)
      BY <1>1, WorldIs, EmptyWorld
    <2> QED
      BY <2>1 DEF ShapeNow
  <1>3. Lists
    BY <1>1, EmptyLists, BoundsAssumption DEF Lists
  <1>4. Todo
    <2>1. PICK jobs, names, nodes : jobs = todo /\ names = named /\ nodes = node
      OBVIOUS
    <2>2. topo \in Topologies /\ DOMAIN names = {} /\ jobs = BuildJobs(topo)
      BY <1>1, <2>1
    <2>3. Building(jobs, names, nodes)
      BY <2>2, BuildingFirst
    <2> QED
      BY <1>1, <2>1, <2>3 DEF Todo, Phases
  <1>5. Waits
    BY <1>1 DEF Waits, WaitFields, NoWait
  <1> QED
    BY <1>1, <1>2, <1>3, <1>4, <1>5 DEF Sound

\* Every step keeps it.
LEMMA SoundNext ==
    ASSUME Sound, [Next]_vars
    PROVE  Sound'
  <1>1. CASE UNCHANGED vars
    <2>1. UNCHANGED <<topo, node, link, lists, veth, bridge, proc, phase, todo, wait>>
      BY <1>1 DEF vars, lists
    <2>2. ShapeNow'
      BY <2>1, Stayed DEF Sound
    <2> QED
      BY <2>1, <2>2 DEF Sound, Lists, Todo, Waits, lists
  <1>2. CASE Program
    <2>1. CASE BuildNode
      BY <2>1, BuildNodeDoes
    <2>2. CASE BuildLink
      BY <2>2, BuildLinkDoes
    <2>3. CASE BuildConfig
      BY <2>3, BuildConfigDoes
    <2>4. CASE \E nd \in Names : AddNodeCall(nd)
      BY <2>4, AddNodeCallDoes
    <2>5. CASE \E a, b \in DOMAIN node, p \in PortPairs : AddLinkCall(a, b, p[1], p[2])
      BY <2>5, AddLinkCallDoes
    <2>6. CASE \E l \in Range(links) : RemoveLinkCall(l)
      BY <2>6, RemoveLinkCallDoes
    <2>7. CASE \E n \in DOMAIN node : RemoveHostCall(n) \/ DelNodeCall(n)
      BY <2>7, RemoveHostCallDoes, DelNodeCallDoes
    <2>8. CASE StartCall
      BY <2>8, StartCallDoes
    <2>9. CASE StartSwitch
      BY <2>9, StartSwitchDoes
    <2>10. CASE \E n \in Range(switches) : StartLaterSwitch(n)
      BY <2>10, StartLaterSwitchDoes
    <2>11. CASE \E timed \in BOOLEAN : WaitCall(timed)
      BY <2>11, WaitCallKeeps
    <2>12. CASE WaitLook \/ WaitRoundEnds
      BY <2>12, WaitLookKeeps, WaitRoundEndsKeeps
    <2>13. CASE StopCall
      BY <2>13, StopCallDoes
    <2>14. CASE StopLink
      BY <2>14, StopLinkDoes
    <2>15. CASE StopSwitches
      BY <2>15, StopSwitchesDoes
    <2>16. CASE StopHost
      BY <2>16, StopHostDoes
    <2>17. CASE StartEnds \/ StopEnds
      BY <2>17, QuietStepsKeep
    <2> QED
      BY <1>2, <2>1, <2>2, <2>3, <2>4, <2>5, <2>6, <2>7, <2>8, <2>9, <2>10, <2>11, <2>12,
         <2>13, <2>14, <2>15, <2>16, <2>17 DEF Program
  <1>3. CASE Outside
    BY <1>3, QuietStepsKeep, ExitKeeps, CleanupKeeps, RestartKeeps, ProcessDiesKeeps DEF Outside
  <1> QED
    BY <1>1, <1>2, <1>3 DEF Next

\* The types, from the shape of the network.
LEMMA SoundTypes ==
    ASSUME Sound
    PROVE  TypeOK
  <1>1. /\ \A n \in DOMAIN node : NodeShape(node[n], n, link)
        /\ \A l \in DOMAIN link : LinkShape(World, l)
        /\ \A v \in veth : \E x, y \in v : x # y /\ v = {x, y}
    BY WorldIs DEF Sound, ShapeNow, Shape, Worldly
  <1>2. \A n \in DOMAIN node : node[n].kind \in Kinds /\ node[n].ip \in 0..MaxIP /\ node[n].shell \in BOOLEAN
    BY <1>1 DEF NodeShape
  <1>3. \A l \in DOMAIN link : Range(link[l].n) \subseteq DOMAIN node
    <2> SUFFICES ASSUME NEW l \in DOMAIN link PROVE Range(link[l].n) \subseteq DOMAIN node
      OBVIOUS
    <2>1. /\ link[l].n = [s \in {1, 2} |-> link[l].n[s]]
          /\ \A s \in {1, 2} : link[l].n[s] \in DOMAIN node
      BY <1>1, WorldIs DEF LinkShape, IsLink
    <2>2. DOMAIN link[l].n = {1, 2}
      BY <2>1
    <2> QED
      BY <2>1, <2>2 DEF Range
  <1>4. /\ Range(hosts) \cup Range(switches) \cup Range(named) \subseteq DOMAIN node
        /\ Range(links) \subseteq DOMAIN link /\ nextIP \in 1..(MaxIP + 1)
    BY DEF Sound, Lists, NodesListed, LinksListed
  <1>5. \A v \in veth : Cardinality(v) = 2
    <2> SUFFICES ASSUME NEW v \in veth PROVE Cardinality(v) = 2
      OBVIOUS
    <2>1. PICK x, y \in v : x # y /\ v = {x, y}
      BY <1>1
    <2>2. IsFiniteSet({x}) /\ Cardinality({x}) = 1
      BY FS_Singleton
    <2>3. Cardinality({x} \cup {y}) = 2
      BY <2>1, <2>2, FS_AddElement
    <2>4. v = {x} \cup {y}
      BY <2>1
    <2> QED
      BY <2>3, <2>4
  <1>6. phase \in Phases /\ wait.result \in {"none", "yes", "no"}
    BY DEF Sound, Todo, Waits
  <1> QED
    BY <1>2, <1>3, <1>4, <1>5, <1>6 DEF TypeOK, Phases

\* The lists and the world are sound in every state: what the lists of
\* Mininet, the port maps of the nodes and the two ends of the links say of
\* each other is consistent after any sequence of calls, also of calls that
\* raised half way.
THEOREM NetSound == Spec => []Sound
  <1>1. Init => Sound
    BY InitIsSound
  <1>2. Sound /\ [Next]_vars => Sound'
    BY SoundNext
  <1> QED
    BY <1>1, <1>2, PTL DEF Spec

\* Every variable of the net keeps its type.
THEOREM NetTyped == Spec => []TypeOK
  <1>1. Sound => TypeOK
    BY SoundTypes
  <1> QED
    BY <1>1, NetSound, PTL

(***************************************************************************)
(* Waiting.                                                                *)
(***************************************************************************)
(* Every switch has been seen or remains to be looked at.  *)
Waiting ==
    phase = "wait" =>
        /\ IsSeq(wait.remaining) /\ wait.at \in Nat /\ wait.at > 0
        /\ wait.seen \cup Range(wait.remaining) = Range(switches)

\* A sequence without the element of some place has all others.
LEMMA WithoutAtIs ==
    ASSUME NEW s, IsSeq(s), NEW k \in DOMAIN s, NEW r
    PROVE  r = WithoutAt(s, k) => IsSeq(r) /\ Range(r) \cup {s[k]} = Range(s)
  <1>0. SUFFICES ASSUME r = WithoutAt(s, k)
                 PROVE  IsSeq(r) /\ Range(r) \cup {s[k]} = Range(s)
    OBVIOUS
  <1>1. PICK N \in Nat : s = [i \in 1..N |-> s[i]]
    BY DEF IsSeq
  <1>2. PICK T : T = {s[i] : i \in 1..N}
    OBVIOUS
  <1>3. [i \in 1..N |-> s[i]] \in Seq(T)
    BY <1>2
  <1>4. s \in Seq(T)
    BY <1>1, <1>3
  <1>5. r = RemoveAt(s, k)
    BY <1>0 DEF WithoutAt, RemoveAt
  <1>6. PICK n \in Nat :
           /\ DOMAIN s = 1..n /\ k \in 1..n
           /\ r \in Seq(T) /\ DOMAIN r = 1..(n - 1)
           /\ \A i \in 1..(n - 1) : r[i] = IF i < k THEN s[i] ELSE s[i + 1]
    BY <1>4, <1>5, PlaceRemoved
  <1>7. IsSeq(r)
    <2>1. PICK m \in Nat : m = n - 1
      BY <1>6
    <2>2. r = [i \in 1..m |-> r[i]]
      BY <1>6, <2>1
    <2> QED
      BY <2>2 DEF IsSeq
  <1>8. \A i \in DOMAIN r : r[i] \in Range(s)
    BY <1>6 DEF Range
  <1>9. ASSUME NEW j \in DOMAIN s, j # k PROVE s[j] \in Range(r)
    <2>1. CASE j < k
      <3>1. j \in 1..(n - 1) /\ r[j] = s[j]
        BY <1>6, <1>9, <2>1
      <3> QED
        BY <1>6, <3>1 DEF Range
    <2>2. CASE j > k
      <3>1. j - 1 \in 1..(n - 1) /\ (j - 1) + 1 = j /\ ~(j - 1 < k)
        BY <1>6, <1>9, <2>2
      <3>2. r[j - 1] = s[j]
        BY <1>6, <3>1
      <3> QED
        BY <1>6, <3>1, <3>2 DEF Range
    <2> QED
      BY <1>6, <1>9, <2>1, <2>2
  <1> QED
    BY <1>7, <1>8, <1>9 DEF Range

\* A look at one switch.
LEMMA LooksAround ==
    ASSUME Sound, Waiting, WaitLook
    PROVE  Waiting' /\ wait'.result = wait.result
  <1>1. /\ phase = "wait" /\ wait.at <= Len(wait.remaining) /\ wait' = Looks(wait)
        /\ switches' = switches
    BY DEF WaitLook, lists
  <1>2. /\ wait = [f \in WaitFields |-> wait[f]] /\ IsSeq(wait.remaining)
        /\ wait.at \in Nat /\ wait.at > 0
        /\ wait.seen \cup Range(wait.remaining) = Range(switches)
    BY <1>1 DEF Waiting, Sound, Waits
  <1>3. PICK N \in Nat : Len(wait.remaining) = N /\ DOMAIN wait.remaining = 1..N
    BY <1>2, LengthIs
  <1>4. PICK rest, at : rest = wait.remaining /\ at = wait.at
    OBVIOUS
  <1>5. at \in DOMAIN rest
    BY <1>1, <1>2, <1>3, <1>4
  <1>6. CASE Sees(rest[at])
    <2>1. PICK left, seen : left = WithoutAt(rest, at) /\ seen = wait.seen \cup {rest[at]}
      OBVIOUS
    <2>2. IsSeq(left) /\ Range(left) \cup {rest[at]} = Range(rest)
      BY <1>2, <1>4, <1>5, <2>1, WithoutAtIs
    <2>3. wait' = [wait EXCEPT !.remaining = left, !.seen = seen,
                               !.at = IF wait.last THEN @ + 1 ELSE @]
      BY <1>1, <1>4, <1>6, <2>1 DEF Looks
    <2>4. /\ wait'.remaining = left /\ wait'.seen = seen /\ wait'.result = wait.result
          /\ wait'.at = IF wait.last THEN wait.at + 1 ELSE wait.at
      BY <1>2, <2>3 DEF WaitFields
    <2>5. seen \cup Range(left) = Range(switches)
      BY <1>2, <1>4, <2>1, <2>2
    <2> QED
      BY <1>1, <1>2, <2>2, <2>4, <2>5 DEF Waiting
  <1>7. CASE ~Sees(rest[at])
    <2>1. wait' = [wait EXCEPT !.at = @ + 1]
      BY <1>1, <1>4, <1>7 DEF Looks
    <2>2. /\ wait'.remaining = wait.remaining /\ wait'.seen = wait.seen
          /\ wait'.result = wait.result /\ wait'.at = wait.at + 1
      BY <1>2, <2>1 DEF WaitFields
    <2> QED
      BY <1>1, <1>2, <2>2 DEF Waiting
  <1> QED
    BY <1>6, <1>7

\* A round that ends: nothing remains, or another round begins.
LEMMA RoundEndsWell ==
    ASSUME Sound, Waiting, WaitRoundEnds
    PROVE  Waiting' /\ (wait'.result = "yes" => wait.result = "yes" \/ wait.seen = Range(switches))
  <1>1. phase = "wait" /\ switches' = switches
    BY DEF WaitRoundEnds, lists
  <1>2. /\ wait = [f \in WaitFields |-> wait[f]] /\ IsSeq(wait.remaining)
        /\ wait.at \in Nat /\ wait.at > 0
        /\ wait.seen \cup Range(wait.remaining) = Range(switches)
    BY <1>1 DEF Waiting, Sound, Waits
  <1>3. CASE /\ wait' = [NoWait EXCEPT !.result = IF wait.remaining = <<>> THEN "yes" ELSE "no"]
             /\ phase' = "idle"
    <2>1. wait'.result = "yes" => wait.remaining = <<>>
      BY <1>3 DEF NoWait
    <2>2. wait.remaining = <<>> => Range(wait.remaining) = {}
      BY NothingIsList
    <2> QED
      BY <1>2, <1>3, <2>1, <2>2 DEF Waiting
  <1>4. CASE (\E last : wait' = [wait EXCEPT !.at = 1, !.last = last]) /\ phase' = phase
    <2>1. /\ wait'.remaining = wait.remaining /\ wait'.seen = wait.seen
          /\ wait'.result = wait.result /\ wait'.at = 1
      BY <1>2, <1>4 DEF WaitFields
    <2> QED
      BY <1>1, <1>2, <2>1 DEF Waiting
  <1> QED
    BY <1>3, <1>4 DEF WaitRoundEnds

\* A call of waitConnected().
LEMMA WaitBegins ==
    ASSUME Sound, NEW timed, WaitCall(timed)
    PROVE  Waiting' /\ wait'.result = "none"
  <1>1. /\ phase' = "wait" /\ switches' = switches
        /\ wait' = [NoWait EXCEPT !.remaining = switches, !.at = 1, !.timed = timed]
    BY DEF WaitCall, lists
  <1>2. wait'.remaining = switches /\ wait'.at = 1 /\ wait'.seen = {} /\ wait'.result = "none"
    BY <1>1 DEF NoWait
  <1>3. IsSeq(switches)
    BY DEF Sound, Lists, NodesListed, IsList
  <1> QED
    BY <1>1, <1>2, <1>3 DEF Waiting

\* Nothing else changes what is waited for.
LEMMA WaitingNext ==
    ASSUME Sound, Waiting, [Next]_vars
    PROVE  Waiting' /\ (wait'.result = "yes" => wait.result = "yes" \/ wait.seen = Range(switches))
  <1>1. CASE \E timed \in BOOLEAN : WaitCall(timed)
    BY <1>1, WaitBegins
  <1>2. CASE WaitLook
    BY <1>2, LooksAround
  <1>3. CASE WaitRoundEnds
    BY <1>3, RoundEndsWell
  <1>4. CASE phase' # "wait" /\ (wait' = wait \/ wait' = NoWait)
    <2>1. NoWait.result = "none"
      BY DEF NoWait
    <2> QED
      BY <1>4, <2>1 DEF Waiting
  <1>5. CASE UNCHANGED <<wait, phase, switches>>
    BY <1>5 DEF Waiting
  <1>6. \/ \E timed \in BOOLEAN : WaitCall(timed)
        \/ WaitLook \/ WaitRoundEnds
        \/ phase' # "wait" /\ (wait' = wait \/ wait' = NoWait)
        \/ UNCHANGED <<wait, phase, switches>>
    <2>1. CASE UNCHANGED vars
      BY <2>1 DEF vars
    <2>2. CASE BuildNode \/ BuildLink
      BY <2>2, BuildNodeDoes, BuildLinkDoes DEF LinkCall, Fails, CutShort, Connected, CreateNode, lists
    <2>3. CASE BuildConfig \/ (\E nd \in Names : AddNodeCall(nd))
      BY <2>3 DEF BuildConfig, AddNodeCall, MayChange, CreateNode
    <2>4. CASE \E a, b \in DOMAIN node, p \in PortPairs : AddLinkCall(a, b, p[1], p[2])
      BY <2>4, AddLinkCallDoes DEF LinkCall, Fails, CutShort, Connected, MayChange
    <2>5. CASE \/ \E l \in Range(links) : RemoveLinkCall(l)
               \/ \E n \in DOMAIN node : RemoveHostCall(n) \/ DelNodeCall(n)
      BY <2>5 DEF RemoveLinkCall, RemoveHostCall, DelNodeCall, MayChange
    <2>6. CASE \/ StartCall \/ StartSwitch \/ StartEnds
               \/ \E n \in Range(switches) : StartLaterSwitch(n)
      BY <2>6 DEF StartCall, StartSwitch, StartEnds, StartLaterSwitch
    <2>7. CASE StopCall \/ StopLink \/ StopSwitches \/ StopHost \/ StopEnds
      BY <2>7 DEF StopCall, StopLink, StopSwitches, StopHost, StopEnds
    <2>8. CASE InterruptStop \/ Exit \/ Cleanup \/ Restart \/ \E name \in proc : ProcessDies(name)
      BY <2>8 DEF InterruptStop, Exit, Cleanup, Restart, ProcessDies
    <2>9. CASE \E n \in DOMAIN node : Connects(n) \/ Disconnects(n)
      BY <2>9 DEF Connects, Disconnects, lists
    <2> QED
      BY <2>1, <2>2, <2>3, <2>4, <2>5, <2>6, <2>7, <2>8, <2>9 DEF Next, Program, Outside
  <1> QED
    BY <1>1, <1>2, <1>3, <1>4, <1>5, <1>6

\* waitConnected() tells the truth.
THEOREM NetWaits == Spec => WaitTells
  <1>1. Init => Waiting
    BY DEF Init, Waiting
  <1>2. Sound /\ Waiting /\ [Next]_vars => Waiting'
    BY WaitingNext
  <1>3. Sound /\ Waiting /\ [Next]_vars
           => [wait.result = "none" /\ wait'.result = "yes" => wait.seen = Range(switches)]_vars
    BY WaitingNext
  <1> QED
    BY <1>1, <1>2, <1>3, NetSound, PTL DEF Spec, WaitTells
=============================================================================
