--------------------------- MODULE MiniEditProofs ---------------------------
(***************************************************************************)
(* Theorems of MiniEdit, for all tools, names, topologies and files that   *)
(* its assumptions allow: what the drawing is made of, and its addresses.  *)
(***************************************************************************)
EXTENDS MiniEdit, SequenceTheorems, FiniteSetTheorems, WellFoundedInduction, TLAPS

(***************************************************************************)
(* Sequences.                                                              *)
(***************************************************************************)
IsSeq(s) == \E k \in Nat : s = [i \in 1..k |-> s[i]]
NoTwice(s) == \A j, k \in DOMAIN s : s[j] = s[k] => j = k

\* The empty sequence.
LEMMA NothingIsSeq ==
    ASSUME NEW s, s = <<>>
    PROVE  IsSeq(s)
  <1> SUFFICES \E k \in Nat : s = [i \in 1..k |-> s[i]]
    BY DEF IsSeq
  <1>1. s = [i \in 1..0 |-> s[i]]
    OBVIOUS
  <1> WITNESS 0 \in Nat
  <1> QED
    BY <1>1

\* A sequence with another element.
LEMMA AppendedSeq ==
    ASSUME NEW s, IsSeq(s), NEW e
    PROVE  /\ IsSeq(Append(s, e))
           /\ \A i \in DOMAIN Append(s, e) :
                 \/ i \in DOMAIN s /\ Append(s, e)[i] = s[i]
                 \/ Append(s, e)[i] = e
  <1>1. PICK k \in Nat : s = [i \in 1..k |-> s[i]]
    BY DEF IsSeq
  <1> DEFINE T == {s[i] : i \in 1..k} \cup {e}
  <1>2. s \in [1..k -> T]
    BY <1>1
  <1>3. s \in Seq(T)
    BY <1>2, SeqDef
  <1>4. /\ Append(s, e) \in Seq(T) /\ DOMAIN s = 1..Len(s) /\ Len(s) \in Nat
        /\ Len(Append(s, e)) = Len(s) + 1
        /\ \A i \in 1..Len(s) : Append(s, e)[i] = s[i]
        /\ Append(s, e)[Len(s) + 1] = e
    <2> HIDE DEF T
    <2> QED
      BY <1>3, e \in T, AppendProperties DEF T
  <1>5. PICK n \in Nat : Append(s, e) \in [1..n -> T]
    <2> HIDE DEF T
    <2> QED
      BY <1>4, LenProperties
  <1>6. IsSeq(Append(s, e))
    <2> HIDE DEF T
    <2> QED
      BY <1>5 DEF IsSeq
  <1>7. n = Len(s) + 1
    <2> HIDE DEF T
    <2> QED
      BY <1>4, <1>5
  <1>8. \A i \in DOMAIN Append(s, e) : i \in 1..Len(s) \/ i = Len(s) + 1
    <2> HIDE DEF T
    <2> QED
      BY <1>4, <1>5, <1>7
  <1> QED
    BY <1>4, <1>6, <1>8

\* A sequence in which one element is another.
LEMMA ExceptedSeq ==
    ASSUME NEW s, IsSeq(s), NEW n, NEW e
    PROVE  IsSeq([s EXCEPT ![n] = e])
  <1>1. PICK k \in Nat : s = [i \in 1..k |-> s[i]]
    BY DEF IsSeq
  <1> DEFINE t == [s EXCEPT ![n] = e]
  <1>2. t = [i \in 1..k |-> t[i]]
    BY <1>1
  <1> QED
    BY <1>2 DEF IsSeq

\* The last element is the one appended.
LEMMA AppendedLast ==
    ASSUME NEW s, IsSeq(s), NEW e
    PROVE  \E k \in Nat : /\ DOMAIN s = 1..k /\ DOMAIN Append(s, e) = 1..(k + 1)
                          /\ Append(s, e)[k + 1] = e /\ Len(Append(s, e)) = k + 1
                          /\ \A i \in 1..k : Append(s, e)[i] = s[i]
  <1>1. PICK k \in Nat : s = [i \in 1..k |-> s[i]]
    BY DEF IsSeq
  <1>2. PICK T : T = {s[i] : i \in 1..k} \cup {e}
    OBVIOUS
  <1>3. s \in Seq(T) /\ e \in T
    BY <1>1, <1>2, SeqDef
  <1>4. /\ Append(s, e) \in Seq(T) /\ Len(Append(s, e)) = Len(s) + 1
        /\ \A i \in 1..Len(s) : Append(s, e)[i] = s[i]
        /\ Append(s, e)[Len(s) + 1] = e
    BY <1>3, AppendProperties
  <1>5. /\ Len(s) \in Nat /\ DOMAIN s = 1..Len(s)
        /\ DOMAIN Append(s, e) = 1..Len(Append(s, e))
    BY <1>3, <1>4, LenProperties
  <1> QED
    BY <1>4, <1>5

\* The least of some numbers is one of them.
LEMMA LeastIsOne ==
    ASSUME NEW I \in SUBSET Nat, NEW k \in I
    PROVE  Min(I) \in I
  <1>1. Min(I) = CHOOSE x \in I : \A y \in I : x <= y
    BY DEF Min
  <1>2. \E x \in I : \A y \in I : x <= y
    <2>1. \E R : IsWellFoundedOn(R, Nat) /\ R = {q \in Nat \X Nat : q[1] < q[2]}
      BY NatLessThanWellFounded, Zenon DEF OpToRel
    <2>2. PICK x \in I : \A y \in I : ~(<<y, x>> \in {q \in Nat \X Nat : q[1] < q[2]})
      <3>1. I \subseteq Nat /\ k \in I
        OBVIOUS
      <3> QED
        BY <2>1, <3>1, WFMin, ZenonT(60)
    <2>3. ASSUME NEW y \in I, y < x PROVE FALSE
      <3> DEFINE pair == <<y, x>>
      <3>1. pair \in Nat \X Nat /\ pair[1] < pair[2]
        BY <2>3
      <3>2. pair \in {q \in Nat \X Nat : q[1] < q[2]}
        BY <3>1
      <3> QED
        BY <2>2, <3>2
    <2> QED
      BY <2>3
  <1> QED
    BY <1>1, <1>2

\* The part of a sequence from some place on.
LEMMA FromPlace ==
    ASSUME NEW Elements, NEW s, NEW n \in Nat, NEW p \in 1..n, \A i \in 1..n : s[i] \in Elements,
           NEW b, b = SubSeq(s, p + 1, n)
    PROVE  /\ b \in Seq(Elements) /\ Len(b) = n - p
           /\ \A i \in 1..(n - p) : b[i] = s[i + p]
  <1>1. PICK q \in Int : q = p + 1
    OBVIOUS
  <1>2. /\ SubSeq(s, q, n) \in Seq(Elements)
        /\ Len(SubSeq(s, q, n)) = IF q <= n THEN n - q + 1 ELSE 0
        /\ \A i \in 1..(n - q + 1) : SubSeq(s, q, n)[i] = s[q + i - 1]
    <2>1. \A i \in q..n : s[i] \in Elements
      BY <1>1
    <2> QED
      BY <2>1, SubSeqProperties
  <1>3. b = SubSeq(s, q, n)
    BY <1>1
  <1>4. n - q + 1 = n - p /\ \A i \in 1..(n - p) : q + i - 1 = i + p
    BY <1>1
  <1>5. Len(b) = n - p
    BY <1>1, <1>2, <1>3
  <1>6. ASSUME NEW i \in 1..(n - p) PROVE b[i] = s[i + p]
    <2>1. i \in 1..(n - q + 1) /\ q + i - 1 = i + p
      BY <1>4
    <2>2. b[i] = s[q + i - 1]
      BY <1>2, <1>3, <2>1
    <2> QED
      BY <2>1, <2>2
  <1>7. b \in Seq(Elements)
    BY <1>2, <1>3
  <1> QED
    BY <1>5, <1>6, <1>7

\* A sequence without the element of some place.
LEMMA PlaceRemoved ==
    ASSUME NEW Elements, NEW s \in Seq(Elements), NEW p \in DOMAIN s
    PROVE  \E n \in Nat :
              /\ DOMAIN s = 1..n /\ p \in 1..n
              /\ RemoveAt(s, p) \in Seq(Elements) /\ DOMAIN RemoveAt(s, p) = 1..(n - 1)
              /\ \A i \in 1..(n - 1) : RemoveAt(s, p)[i] = IF i < p THEN s[i] ELSE s[i + 1]
  <1>0. PICK n, r : n = Len(s) /\ n \in Nat /\ p \in 1..n /\ r = RemoveAt(s, p)
    BY LenProperties
  <1>1. PICK a, b : a = SubSeq(s, 1, p - 1) /\ b = SubSeq(s, p + 1, n)
    OBVIOUS
  <1>2. r = a \o b
    BY <1>0, <1>1 DEF RemoveAt
  <1>3. n \in Nat /\ p \in 1..n /\ \A i \in 1..n : s[i] \in Elements
    BY <1>0, LenProperties
  <1>4. /\ a \in Seq(Elements) /\ Len(a) = p - 1
        /\ \A i \in 1..(p - 1) : a[i] = s[i]
    BY <1>1, <1>3, SubSeqProperties
  <1>5. /\ b \in Seq(Elements) /\ Len(b) = n - p
        /\ \A i \in 1..(n - p) : b[i] = s[i + p]
    <2>1. b = SubSeq(s, p + 1, n)
      BY <1>1
    <2> QED
      BY <2>1, <1>3, FromPlace
  <1>6. /\ r \in Seq(Elements) /\ Len(r) = n - 1
        /\ \A i \in 1..(n - 1) : r[i] = IF i <= p - 1 THEN a[i] ELSE b[i - (p - 1)]
    <2>1. /\ r \in Seq(Elements) /\ Len(r) = Len(a) + Len(b)
          /\ \A i \in 1..Len(a) + Len(b) : r[i] = IF i <= Len(a) THEN a[i] ELSE b[i - Len(a)]
      <3>1. a \in Seq(Elements) /\ b \in Seq(Elements)
        BY <1>4, <1>5
      <3> QED
        BY <1>2, <3>1, ConcatProperties
    <2>2. Len(a) + Len(b) = n - 1 /\ Len(a) = p - 1
      BY <1>3, <1>4, <1>5
    <2> QED
      BY <2>1, <2>2
  <1>7. ASSUME NEW i \in 1..(n - 1)
        PROVE  r[i] = IF i < p THEN s[i] ELSE s[i + 1]
    <2>1. CASE i < p
      BY <1>3, <1>4, <1>6, <2>1
    <2>2. CASE ~(i < p)
      <3>1. i - (p - 1) \in 1..(n - p) /\ (i - (p - 1)) + p = i + 1
        BY <1>3, <2>2
      <3> QED
        <4>1. r[i] = b[i - (p - 1)]
          BY <1>3, <1>6, <2>2
        <4>2. b[i - (p - 1)] = s[i + 1]
          BY <1>5, <3>1
        <4> QED
          BY <2>2, <4>1, <4>2
    <2> QED
      BY <1>3, <2>1, <2>2
  <1> QED
    BY <1>0, <1>6, <1>7, LenProperties

\* What a sequence is for the library.
LEMMA SeqIs ==
    ASSUME NEW s, IsSeq(s)
    PROVE  /\ Len(s) \in Nat /\ DOMAIN s = 1..Len(s) /\ s \in Seq(ToSet(s))
           /\ (s = <<>> <=> Len(s) = 0)
  <1>1. PICK k \in Nat : s = [i \in 1..k |-> s[i]]
    BY DEF IsSeq
  <1>2. s \in [1..k -> ToSet(s)] /\ DOMAIN s = 1..k
    BY <1>1 DEF ToSet
  <1>3. s \in Seq(ToSet(s))
    BY <1>2, SeqDef
  <1>4. Len(s) = k
    BY <1>2, <1>3, LenProperties
  <1> QED
    BY <1>2, <1>3, <1>4, EmptySeq

\* What is a sequence for the library.
LEMMA ListingIs ==
    ASSUME NEW s, Listing(s)
    PROVE  IsSeq(s)
  <1>1. s \in Seq(ToSet(s))
    BY DEF Listing
  <1>2. PICK k \in Nat : s \in [1..k -> ToSet(s)]
    BY <1>1, SeqDef
  <1>3. s = [i \in 1..k |-> s[i]]
    BY <1>2
  <1> QED
    BY <1>3 DEF IsSeq

\* Once says that a sequence has no element twice.
LEMMA OnceIs ==
    ASSUME NEW s
    PROVE  Once(s) <=> IsSeq(s) /\ NoTwice(s)
  <1>1. IsSeq(s) => Listing(s)
    BY SeqIs DEF Listing
  <1>2. Once(s) <=> Listing(s) /\ NoTwice(s)
    BY DEF Once, NoTwice
  <1> QED
    BY <1>1, <1>2, ListingIs

\* A list without one of its elements.
LEMMA FirstRemoved ==
    ASSUME NEW s, IsSeq(s), NEW e, NEW r, r = RemoveFirst(s, e)
    PROVE  IsSeq(r) /\ (NoTwice(s) => NoTwice(r) /\ ToSet(r) = ToSet(s) \ {e})
  <1>0. r = RemoveFirst(s, e)
    OBVIOUS
  <1>1. PICK n \in Nat : s = [i \in 1..n |-> s[i]]
    BY DEF IsSeq
  <1>2. PICK Elements : Elements = {s[i] : i \in 1..n}
    OBVIOUS
  <1>3. s \in Seq(Elements) /\ Len(s) = n /\ DOMAIN s = 1..n
    <2>1. s \in [1..n -> Elements]
      BY <1>1, <1>2
    <2>2. s \in Seq(Elements)
      BY <2>1, SeqDef
    <2>4. DOMAIN s = 1..n
      BY <2>1
    <2>3. Len(s) = n
      BY <2>2, <2>4, LenProperties
    <2> QED
      BY <2>2, <2>3, <2>4
  <1>5. CASE \A i \in DOMAIN s : s[i] # e
    <2>1. r = s
      BY <1>0, <1>3, <1>5 DEF RemoveFirst
    <2> QED
      BY <1>5, <2>1 DEF ToSet
  <1>6. CASE \E k \in DOMAIN s : s[k] = e
    <2>1. PICK k \in 1..n : s[k] = e
      BY <1>3, <1>6
    <2>2. PICK I : I = {i \in 1..n : s[i] = e}
      OBVIOUS
    <2>3. PICK p \in 1..n : p = Min(I) /\ s[p] = e
      <3>1. I \in SUBSET Nat /\ k \in I
        BY <2>1, <2>2
      <3>2. Min(I) \in I
        BY <3>1, LeastIsOne
      <3> QED
        BY <2>2, <3>2
    <2>4. r = RemoveAt(s, p)
      BY <1>0, <1>3, <2>1, <2>2, <2>3 DEF RemoveFirst, SelectInSeq
    <2>5. p \in DOMAIN s
      BY <1>3, <2>3
    <2>6. PICK q \in Nat :
              /\ DOMAIN s = 1..q /\ p \in 1..q
              /\ RemoveAt(s, p) \in Seq(Elements) /\ DOMAIN RemoveAt(s, p) = 1..(q - 1)
              /\ \A i \in 1..(q - 1) : RemoveAt(s, p)[i] = IF i < p THEN s[i] ELSE s[i + 1]
      BY <1>3, <2>5, PlaceRemoved
    <2>7. q = n /\ r \in Seq(Elements) /\ DOMAIN r = 1..(n - 1)
          /\ \A i \in 1..(n - 1) : r[i] = IF i < p THEN s[i] ELSE s[i + 1]
      BY <1>3, <2>4, <2>6
    <2>8. IsSeq(r)
      <3>0. r \in Seq(Elements)
        BY <2>7
      <3>1. PICK j \in Nat : r \in [1..j -> Elements]
        BY <3>0, SeqDef
      <3>2. r = [i \in 1..j |-> r[i]]
        BY <3>1
      <3> QED
        BY <3>2 DEF IsSeq
    <2>9. ASSUME NEW j \in DOMAIN r
          PROVE  \E i \in 1..n : r[j] = s[i] /\ i # p /\ (i < p => i = j) /\ (i > p => i = j + 1)
      <3>1. CASE j < p
        <4>1. j \in 1..n /\ j # p /\ r[j] = s[j] /\ ~(j > p)
          BY <2>7, <2>9, <3>1
        <4> QED
          BY <4>1
      <3>2. CASE ~(j < p)
        <4>1. j + 1 \in 1..n /\ j + 1 # p /\ r[j] = s[j + 1] /\ ~(j + 1 < p)
          BY <2>7, <2>9, <3>2
        <4> QED
          BY <4>1
      <3> QED
        BY <3>1, <3>2
    <2> SUFFICES ASSUME NoTwice(s) PROVE NoTwice(r) /\ ToSet(r) = ToSet(s) \ {e}
      BY <2>8
    <2>14. \A x, y \in 1..n : s[x] = s[y] => x = y
      BY <1>3 DEF NoTwice
    <2>10. NoTwice(r)
      <3> SUFFICES ASSUME NEW j \in DOMAIN r, NEW i \in DOMAIN r, r[j] = r[i]
                   PROVE  j = i
        BY DEF NoTwice
      <3>1. PICK a \in 1..n : r[j] = s[a] /\ a # p /\ (a < p => a = j) /\ (a > p => a = j + 1)
        BY <2>9
      <3>2. PICK b \in 1..n : r[i] = s[b] /\ b # p /\ (b < p => b = i) /\ (b > p => b = i + 1)
        BY <2>9
      <3>3. a = b
        BY <2>14, <3>1, <3>2
      <3> QED
        BY <2>3, <2>7, <3>1, <3>2, <3>3
    <2>11. ASSUME NEW j \in DOMAIN r PROVE r[j] \in ToSet(s) \ {e}
      <3>1. PICK a \in 1..n : r[j] = s[a] /\ a # p
        BY <2>9
      <3>2. s[a] # e
        BY <2>14, <2>3, <3>1
      <3> QED
        BY <1>3, <3>1, <3>2 DEF ToSet
    <2>12. ASSUME NEW i \in DOMAIN s, s[i] # e
           PROVE  \E j \in DOMAIN r : r[j] = s[i]
      <3>0. i \in 1..n /\ i # p
        BY <1>3, <2>3, <2>12
      <3>1. CASE i < p
        <4>1. i \in DOMAIN r /\ r[i] = s[i]
          BY <2>7, <3>0, <3>1
        <4> QED
          BY <4>1
      <3>2. CASE i > p
        <4>1. i - 1 \in 1..(n - 1) /\ ~(i - 1 < p) /\ (i - 1) + 1 = i
          BY <3>0, <3>2
        <4>2. (i - 1) \in DOMAIN r /\ r[i - 1] = s[i]
          BY <2>7, <4>1
        <4> QED
          BY <4>2
      <3> QED
        BY <3>0, <3>1, <3>2
    <2>13. ToSet(r) = ToSet(s) \ {e}
      <3>1. ToSet(r) \subseteq ToSet(s) \ {e}
        BY <2>11 DEF ToSet
      <3>2. ToSet(s) \ {e} \subseteq ToSet(r)
        BY <2>12 DEF ToSet
      <3> QED
        BY <3>1, <3>2
    <2> QED
      BY <2>10, <2>13
  <1> QED
    BY <1>5, <1>6

\* Induction over the numbers up to a bound, for a set of numbers.
LEMMA UpTo ==
    ASSUME NEW N \in Nat, NEW T, 0 \in T,
           \A n \in Nat : n < N /\ n \in T => n + 1 \in T
    PROVE  \A n \in 0..N : n \in T
  <1> DEFINE Rest == (0..N) \ T
  <1> SUFFICES ASSUME Rest # {} PROVE FALSE
    OBVIOUS
  <1>1. \E R : IsWellFoundedOn(R, Nat) /\ R = {p \in Nat \X Nat : p[1] < p[2]}
    BY NatLessThanWellFounded, Zenon DEF OpToRel
  <1>2. PICK x \in Rest : \A y \in Rest : ~(<<y, x>> \in {p \in Nat \X Nat : p[1] < p[2]})
    <2>1. Rest \subseteq Nat
      OBVIOUS
    <2> QED
      BY <1>1, <2>1, WFMin, ZenonT(60)
  <1>3. ASSUME NEW y \in Rest, y < x PROVE FALSE
    <2> DEFINE pair == <<y, x>>
    <2>1. pair \in Nat \X Nat /\ pair[1] < pair[2]
      BY <1>3
    <2>2. pair \in {p \in Nat \X Nat : p[1] < p[2]}
      BY <2>1
    <2> QED
      BY <1>2, <2>2
  <1>4. x # 0 /\ x - 1 \in Nat /\ x - 1 < N
    OBVIOUS
  <1>5. x - 1 \in T
    BY <1>3, <1>4
  <1> QED
    BY <1>4, <1>5

(* after[k] holds the chosen ones of the first k elements.  *)
IsChoice(after, s, S, n) ==
    after = [k \in 0..n |-> IF k = 0 THEN <<>>
                            ELSE IF s[k] \in S THEN Append(after[k - 1], s[k]) ELSE after[k - 1]]

\* Every sequence can be chosen from.
LEMMA ChoiceExists ==
    ASSUME NEW s, NEW S, NEW N \in Nat
    PROVE  \E after : IsChoice(after, s, S, N)
  <1> DEFINE T == {n \in 0..N : \E after : IsChoice(after, s, S, n)}
  <1>1. 0 \in T
    <2> DEFINE r == [k \in 0..0 |-> <<>>]
    <2>1. IsChoice(r, s, S, 0)
      BY DEF IsChoice
    <2> QED
      BY <2>1
  <1>2. ASSUME NEW n \in Nat, n < N, n \in T
        PROVE  n + 1 \in T
    <2>1. PICK after : IsChoice(after, s, S, n)
      BY <1>2
    <2> DEFINE Next1 == IF s[n + 1] \in S THEN Append(after[n], s[n + 1]) ELSE after[n]
               r == [k \in 0..(n + 1) |-> IF k = n + 1 THEN Next1 ELSE after[k]]
    <2>2. \A k \in 0..(n + 1) :
             r[k] = IF k = 0 THEN <<>>
                    ELSE IF s[k] \in S THEN Append(r[k - 1], s[k]) ELSE r[k - 1]
      <3> SUFFICES ASSUME NEW k \in 0..(n + 1)
                   PROVE  r[k] = IF k = 0 THEN <<>>
                                 ELSE IF s[k] \in S THEN Append(r[k - 1], s[k]) ELSE r[k - 1]
        OBVIOUS
      <3>1. CASE k = n + 1
        <4>1. r[k] = Next1 /\ k # 0 /\ k - 1 = n /\ r[n] = after[n]
          BY <3>1
        <4> QED
          BY <3>1, <4>1
      <3>2. CASE k \in 0..n
        <4>1. r[k] = after[k] /\ (k # 0 => k - 1 \in 0..n /\ r[k - 1] = after[k - 1])
          BY <3>2
        <4>2. after[k] = IF k = 0 THEN <<>>
                         ELSE IF s[k] \in S THEN Append(after[k - 1], s[k]) ELSE after[k - 1]
          BY <2>1, <3>2 DEF IsChoice
        <4> QED
          BY <4>1, <4>2
      <3> QED
        BY <3>1, <3>2
    <2>3. IsChoice(r, s, S, n + 1)
      BY <2>2 DEF IsChoice
    <2> QED
      BY <1>2, <2>3
  <1>3. \A n \in 0..N : n \in T
    <2> HIDE DEF T
    <2> QED
      BY <1>1, <1>2, UpTo
  <1> QED
    BY <1>3

(* r has the elements of s at the places h, which are those of the first n that
   hold an element of S.  *)
Picks(s, S, n, r, h) ==
    /\ IsSeq(r)
    /\ \A i \in DOMAIN r : h[i] \in 1..n /\ s[h[i]] \in S /\ r[i] = s[h[i]]
    /\ \A i, j \in DOMAIN r : i < j => h[i] < h[j]
    /\ \A k \in 1..n : s[k] \in S => \E i \in DOMAIN r : h[i] = k

\* One place more.
Further(h, k, n) == [i \in 1..(k + 1) |-> IF i = k + 1 THEN n ELSE h[i]]

\* One more of the sequence is looked at.
LEMMA PickedOne ==
    ASSUME NEW s, NEW S, NEW n \in Nat, NEW r, NEW h, Picks(s, S, n, r, h), NEW x,
           x = IF s[n + 1] \in S THEN Append(r, s[n + 1]) ELSE r
    PROVE  Picks(s, S, n + 1, x, IF s[n + 1] \in S THEN Further(h, Len(r), n + 1) ELSE h)
  <1>1. CASE s[n + 1] \notin S
    <2>1. x = r
      BY <1>1
    <2>2. Picks(s, S, n + 1, r, h)
      BY <1>1 DEF Picks
    <2> QED
      BY <1>1, <2>1, <2>2
  <1>2. CASE s[n + 1] \in S
    <2>1. IsSeq(r) /\ x = Append(r, s[n + 1])
      BY <1>2 DEF Picks
    <2>2. PICK e : e = s[n + 1]
      OBVIOUS
    <2>3. IsSeq(x)
      BY <2>1, AppendedSeq
    <2>4. PICK k \in Nat : /\ DOMAIN r = 1..k /\ DOMAIN x = 1..(k + 1)
                           /\ x[k + 1] = e /\ \A i \in 1..k : x[i] = r[i]
      BY <2>1, <2>2, AppendedLast
    <2>9. Len(r) = k
      BY <2>1, <2>4, SeqIs
    <2> DEFINE g == [i \in 1..(k + 1) |-> IF i = k + 1 THEN n + 1 ELSE h[i]]
    <2>10. g = Further(h, Len(r), n + 1)
      BY <2>9 DEF Further
    <2>5. ASSUME NEW i \in DOMAIN x
          PROVE  g[i] \in 1..(n + 1) /\ s[g[i]] \in S /\ x[i] = s[g[i]]
      <3>1. CASE i = k + 1
        BY <1>2, <2>2, <2>4, <3>1
      <3>2. CASE i \in 1..k
        <4>1. g[i] = h[i] /\ x[i] = r[i] /\ i \in DOMAIN r
          BY <2>4, <3>2
        <4>2. h[i] \in 1..n /\ s[h[i]] \in S /\ r[i] = s[h[i]]
          BY <4>1 DEF Picks
        <4> QED
          BY <4>1, <4>2
      <3> QED
        BY <2>4, <2>5, <3>1, <3>2
    <2>6. ASSUME NEW i \in DOMAIN x, NEW j \in DOMAIN x, i < j
          PROVE  g[i] < g[j]
      <3>1. i \in 1..k /\ g[i] = h[i] /\ i \in DOMAIN r
        BY <2>4, <2>6
      <3>2. h[i] \in 1..n
        BY <3>1 DEF Picks
      <3>3. CASE j = k + 1
        BY <3>1, <3>2, <3>3
      <3>4. CASE j \in 1..k
        <4>1. g[j] = h[j] /\ j \in DOMAIN r
          BY <2>4, <3>4
        <4>2. h[i] < h[j]
          BY <2>6, <3>1, <4>1 DEF Picks
        <4> QED
          BY <3>1, <4>1, <4>2
      <3> QED
        BY <2>4, <2>6, <3>3, <3>4
    <2>7. ASSUME NEW p \in 1..(n + 1), s[p] \in S
          PROVE  \E i \in DOMAIN x : g[i] = p
      <3>1. CASE p = n + 1
        <4>1. k + 1 \in DOMAIN x /\ g[k + 1] = p
          BY <2>4, <3>1
        <4> QED
          BY <4>1
      <3>2. CASE p \in 1..n
        <4>1. PICK i \in DOMAIN r : h[i] = p
          BY <2>7, <3>2 DEF Picks
        <4>2. i \in DOMAIN x /\ g[i] = h[i]
          BY <2>4, <4>1
        <4> QED
          BY <4>1, <4>2
      <3>3. p = n + 1 \/ p \in 1..n
        BY <2>7
      <3> QED
        BY <3>1, <3>2, <3>3
    <2>8. Picks(s, S, n + 1, x, g)
      <3> HIDE DEF g
      <3> QED
        BY <2>3, <2>5, <2>6, <2>7 DEF Picks
    <2> QED
      BY <1>2, <2>8, <2>10
  <1> QED
    BY <1>1, <1>2

\* Chosen() takes every element of the set, in its order.
LEMMA ChosenPicks ==
    ASSUME NEW s, IsSeq(s), NEW S
    PROVE  \E h : Picks(s, S, Len(s), Chosen(s, S), h)
  <1>1. PICK N \in Nat : N = Len(s)
    BY SeqIs
  <1> DEFINE that == CHOOSE that : IsChoice(that, s, S, Len(s))
  <1>2. IsChoice(that, s, S, Len(s))
    BY <1>1, ChoiceExists
  <1>3. Chosen(s, S) = that[Len(s)]
    BY DEF Chosen, IsChoice
  <1> HIDE DEF that
  <1> DEFINE T == {n \in 0..N : \E h : Picks(s, S, n, that[n], h)}
  <1>4. 0 \in T
    <2>1. that[0] = <<>>
      BY <1>1, <1>2 DEF IsChoice
    <2>2. PICK h : h = <<>>
      OBVIOUS
    <2>3. IsSeq(<<>>) /\ DOMAIN <<>> = {}
      BY NothingIsSeq
    <2>4. Picks(s, S, 0, that[0], h)
      BY <2>1, <2>3 DEF Picks
    <2> QED
      BY <2>4
  <1>5. ASSUME NEW n \in Nat, n < N, n \in T
        PROVE  n + 1 \in T
    <2>1. PICK h : Picks(s, S, n, that[n], h)
      BY <1>5
    <2>2. n + 1 \in 0..N /\ n + 1 # 0 /\ (n + 1) - 1 = n
      BY <1>5
    <2>3. that[n + 1] = IF s[n + 1] \in S THEN Append(that[n], s[n + 1]) ELSE that[n]
      BY <1>1, <1>2, <2>2 DEF IsChoice
    <2>4. \E g : Picks(s, S, n + 1, that[n + 1], g)
      BY <2>1, <2>3, PickedOne
    <2> QED
      BY <2>2, <2>4
  <1>6. \A n \in 0..N : n \in T
    <2> HIDE DEF T
    <2> QED
      BY <1>4, <1>5, UpTo
  <1> QED
    BY <1>1, <1>3, <1>6

\* What of it most proofs need.
LEMMA ChosenIs ==
    ASSUME NEW s, IsSeq(s), NEW S, NEW r, r = Chosen(s, S)
    PROVE  /\ IsSeq(r) /\ ToSet(r) = ToSet(s) \cap S
           /\ \E h : /\ \A i \in DOMAIN r : h[i] \in DOMAIN s /\ r[i] = s[h[i]]
                     /\ \A i, j \in DOMAIN r : h[i] = h[j] => i = j
  <1>1. PICK n \in Nat : n = Len(s) /\ DOMAIN s = 1..n
    BY SeqIs
  <1>2. PICK h : Picks(s, S, n, r, h)
    BY <1>1, ChosenPicks
  <1>3. IsSeq(r) /\ \A i \in DOMAIN r : h[i] \in DOMAIN s /\ s[h[i]] \in S /\ r[i] = s[h[i]]
    BY <1>1, <1>2 DEF Picks
  <1>4. \A i, j \in DOMAIN r : h[i] = h[j] => i = j
    <2>1. PICK k \in Nat : DOMAIN r = 1..k
      BY <1>3, SeqIs
    <2>2. SUFFICES ASSUME NEW i \in 1..k, NEW j \in 1..k, h[i] = h[j], i # j PROVE FALSE
      BY <2>1
    <2>3. h[i] \in 1..n /\ h[j] \in 1..n
      BY <2>1, <1>2 DEF Picks
    <2>4. (i < j => h[i] < h[j]) /\ (j < i => h[j] < h[i])
      BY <2>1, <1>2 DEF Picks
    <2> QED
      BY <2>2, <2>3, <2>4
  <1>5. ToSet(r) \subseteq ToSet(s) \cap S
    BY <1>3 DEF ToSet
  <1>6. ASSUME NEW x \in ToSet(s) \cap S PROVE x \in ToSet(r)
    <2>1. PICK p \in 1..n : s[p] = x
      BY <1>1 DEF ToSet
    <2>2. PICK i \in DOMAIN r : h[i] = p
      BY <1>2, <2>1 DEF Picks
    <2> QED
      BY <1>3, <2>1, <2>2 DEF ToSet
  <1> QED
    BY <1>3, <1>4, <1>5, <1>6

(***************************************************************************)
(* Loops.  The loops of the model are ForEach() with one operation each;   *)
(* all of them are runs of Step(), whose first argument names the          *)
(* operation and whose second is what it has besides the element.          *)
(***************************************************************************)
Step(op, x, d, e) ==
    CASE op = "unlist" -> Unlist(d, e.name, x)
      [] op = "deleteLink" -> DeleteLink(d, e)
      [] op = "deleteItem" -> DeleteItem(d, x, e.item)
      [] op = "linkController" -> LinkByName(d, x, e, "control", {})
      [] op = "loadController" -> LoadController(d, e)
      [] op = "loadHost" -> LoadHost(d, e)
      [] op = "loadSwitch" -> LoadSwitch(d, e, x)
      [] op = "loadLink" -> LoadLink(d, e)
      [] op = "importControl" -> ImportControl(d, x, e)
      [] op = "importController" -> ImportController(d, e)
      [] op = "importSwitch" -> ImportSwitch(d, e, x)
      [] op = "importHost" -> ImportHost(d, e)
      [] op = "importLink" -> ImportLink(d, e)
      [] op = "relist" -> Relist(d, e.name, x[1], x[2])

IsLoop(after, op, x, r, s, n) ==
    after = [k \in 0..n |-> IF k = 0 THEN r
                            ELSE IF after[k - 1].ok THEN Step(op, x, after[k - 1].m, s[k])
                            ELSE after[k - 1]]

\* Every loop can be run.
LEMMA LoopExists ==
    ASSUME NEW op, NEW x, NEW r, NEW s, NEW N \in Nat
    PROVE  \E after : IsLoop(after, op, x, r, s, N)
  <1> DEFINE T == {n \in 0..N : \E after : IsLoop(after, op, x, r, s, n)}
  <1>1. 0 \in T
    <2> DEFINE z == [k \in 0..0 |-> r]
    <2>1. IsLoop(z, op, x, r, s, 0)
      BY DEF IsLoop
    <2> QED
      BY <2>1
  <1>2. ASSUME NEW n \in Nat, n < N, n \in T
        PROVE  n + 1 \in T
    <2>1. PICK after : IsLoop(after, op, x, r, s, n)
      BY <1>2
    <2>2. PICK y : y = IF after[n].ok THEN Step(op, x, after[n].m, s[n + 1]) ELSE after[n]
      OBVIOUS
    <2> DEFINE z == [k \in 0..(n + 1) |-> IF k = n + 1 THEN y ELSE after[k]]
    <2>3. \A k \in 0..(n + 1) :
             z[k] = IF k = 0 THEN r
                    ELSE IF z[k - 1].ok THEN Step(op, x, z[k - 1].m, s[k]) ELSE z[k - 1]
      <3> SUFFICES ASSUME NEW k \in 0..(n + 1)
                   PROVE  z[k] = IF k = 0 THEN r
                                 ELSE IF z[k - 1].ok THEN Step(op, x, z[k - 1].m, s[k]) ELSE z[k - 1]
        OBVIOUS
      <3>1. CASE k = n + 1
        <4>1. z[k] = y /\ k # 0 /\ k - 1 = n /\ z[n] = after[n]
          BY <3>1
        <4> QED
          BY <2>2, <3>1, <4>1
      <3>2. CASE k \in 0..n
        <4>1. z[k] = after[k] /\ (k # 0 => k - 1 \in 0..n /\ z[k - 1] = after[k - 1])
          BY <3>2
        <4>2. after[k] = IF k = 0 THEN r
                         ELSE IF after[k - 1].ok THEN Step(op, x, after[k - 1].m, s[k])
                         ELSE after[k - 1]
          BY <2>1, <3>2 DEF IsLoop
        <4> QED
          BY <4>1, <4>2
      <3>3. k = n + 1 \/ k \in 0..n
        OBVIOUS
      <3> QED
        BY <3>1, <3>2, <3>3
    <2>4. IsLoop(z, op, x, r, s, n + 1)
      BY <2>3 DEF IsLoop
    <2> QED
      BY <1>2, <2>4
  <1>3. \A n \in 0..N : n \in T
    <2> HIDE DEF T
    <2> QED
      BY <1>1, <1>2, UpTo
  <1> QED
    BY <1>3

(* after[k] is the result after the first k of the n elements, and end the last.  *)
Runs(after, op, x, r, s, n, end) ==
    /\ after[0] = r /\ after[n] = end
    /\ \A k \in 1..n :
          after[k] = IF after[k - 1].ok THEN Step(op, x, after[k - 1].m, s[k]) ELSE after[k - 1]

\* A recursive function that does a step for each element is a loop.
LEMMA LoopRuns ==
    ASSUME NEW after, NEW op, NEW x, NEW r, NEW s, NEW N \in Nat, IsLoop(after, op, x, r, s, N)
    PROVE  Runs(after, op, x, r, s, N, after[N])
  <1>1. after[0] = r
    BY DEF IsLoop
  <1>2. ASSUME NEW k \in 1..N
        PROVE  after[k] = IF after[k - 1].ok THEN Step(op, x, after[k - 1].m, s[k]) ELSE after[k - 1]
    <2>1. k \in 0..N /\ k # 0
      OBVIOUS
    <2> QED
      BY <2>1 DEF IsLoop
  <1> QED
    BY <1>1, <1>2 DEF Runs

\* The loops of the model are loops.
LEMMA UnlistEverywhereRuns ==
    ASSUME NEW d, NEW controller, NEW s, s = NodesLike(d, {"Switch"}), NEW N \in Nat, Len(s) = N
    PROVE  \E after : Runs(after, "unlist", controller, Ok(d), s, N, UnlistEverywhere(d, controller))
  <1> DEFINE Is(f) == f = [k \in 0..Len(s) |-> IF k = 0 THEN Ok(d)
                                              ELSE IF f[k - 1].ok THEN Unlist(f[k - 1].m, s[k].name, controller)
                                              ELSE f[k - 1]]
             that == CHOOSE f : Is(f)
  <1>1. PICK g : IsLoop(g, "unlist", controller, Ok(d), s, N)
    BY LoopExists
  <1>2. Is(g)
    BY <1>1 DEF IsLoop, Step
  <1>3. Is(that)
    BY <1>2
  <1>4. UnlistEverywhere(d, controller) = that[Len(s)]
    BY DEF UnlistEverywhere, ForEach
  <1> HIDE DEF that
  <1>5. IsLoop(that, "unlist", controller, Ok(d), s, N)
    BY <1>3 DEF IsLoop, Step
  <1> QED
    BY <1>4, <1>5, LoopRuns

\* deleteNode() deletes links in a loop,
LEMMA DeleteLinksRuns ==
    ASSUME NEW r, NEW items, NEW s, s = items, NEW N \in Nat, Len(s) = N
    PROVE  \E after : Runs(after, "deleteLink", NoName, r, s, N, DeleteLinks(r, items))
  <1> DEFINE Is(f) == f = [k \in 0..Len(s) |-> IF k = 0 THEN r
                                              ELSE IF f[k - 1].ok THEN DeleteLink(f[k - 1].m, s[k])
                                              ELSE f[k - 1]]
             that == CHOOSE f : Is(f)
  <1>1. PICK g : IsLoop(g, "deleteLink", NoName, r, s, N)
    BY LoopExists
  <1>2. Is(g)
    BY <1>1 DEF IsLoop, Step
  <1>3. Is(that)
    BY <1>2
  <1>4. DeleteLinks(r, items) = that[Len(s)]
    BY DEF DeleteLinks, ForEach
  <1> HIDE DEF that
  <1>5. IsLoop(that, "deleteLink", NoName, r, s, N)
    BY <1>3 DEF IsLoop, Step
  <1> QED
    BY <1>4, <1>5, LoopRuns

\* newTopology() the nodes,
LEMMA DeleteItemsRuns ==
    ASSUME NEW d, NEW t, NEW s, s = d.canvas, NEW N \in Nat, Len(s) = N
    PROVE  \E after : Runs(after, "deleteItem", t, Ok(d), s, N, DeleteItems(d, t))
  <1> DEFINE Is(f) == f = [k \in 0..Len(s) |-> IF k = 0 THEN Ok(d)
                                              ELSE IF f[k - 1].ok THEN DeleteItem(f[k - 1].m, t, s[k].item)
                                              ELSE f[k - 1]]
             that == CHOOSE f : Is(f)
  <1>1. PICK g : IsLoop(g, "deleteItem", t, Ok(d), s, N)
    BY LoopExists
  <1>2. Is(g)
    BY <1>1 DEF IsLoop, Step
  <1>3. Is(that)
    BY <1>2
  <1>4. DeleteItems(d, t) = that[Len(s)]
    BY DEF DeleteItems, ForEach
  <1> HIDE DEF that
  <1>5. IsLoop(that, "deleteItem", t, Ok(d), s, N)
    BY <1>3 DEF IsLoop, Step
  <1> QED
    BY <1>4, <1>5, LoopRuns

\* loadTopology() links a switch to controllers,
LEMMA LinkControllersRuns ==
    ASSUME NEW r, NEW name, NEW names, NEW s, s = names, NEW N \in Nat, Len(s) = N
    PROVE  \E after : Runs(after, "linkController", name, r, s, N, LinkControllers(r, name, names))
  <1> DEFINE Is(f) == f = [k \in 0..Len(s) |-> IF k = 0 THEN r
                                              ELSE IF f[k - 1].ok THEN LinkByName(f[k - 1].m, name, s[k], "control", {})
                                              ELSE f[k - 1]]
             that == CHOOSE f : Is(f)
  <1>1. PICK g : IsLoop(g, "linkController", name, r, s, N)
    BY LoopExists
  <1>2. Is(g)
    BY <1>1 DEF IsLoop, Step
  <1>3. Is(that)
    BY <1>2
  <1>4. LinkControllers(r, name, names) = that[Len(s)]
    BY DEF LinkControllers, ForEach
  <1> HIDE DEF that
  <1>5. IsLoop(that, "linkController", name, r, s, N)
    BY <1>3 DEF IsLoop, Step
  <1> QED
    BY <1>4, <1>5, LoopRuns

\* reads controllers,
LEMMA LoadControllersRuns ==
    ASSUME NEW r, NEW entries, NEW s, s = entries, NEW N \in Nat, Len(s) = N
    PROVE  \E after : Runs(after, "loadController", NoName, r, s, N, LoadControllers(r, entries))
  <1> DEFINE Is(f) == f = [k \in 0..Len(s) |-> IF k = 0 THEN r
                                              ELSE IF f[k - 1].ok THEN LoadController(f[k - 1].m, s[k])
                                              ELSE f[k - 1]]
             that == CHOOSE f : Is(f)
  <1>1. PICK g : IsLoop(g, "loadController", NoName, r, s, N)
    BY LoopExists
  <1>2. Is(g)
    BY <1>1 DEF IsLoop, Step
  <1>3. Is(that)
    BY <1>2
  <1>4. LoadControllers(r, entries) = that[Len(s)]
    BY DEF LoadControllers, ForEach
  <1> HIDE DEF that
  <1>5. IsLoop(that, "loadController", NoName, r, s, N)
    BY <1>3 DEF IsLoop, Step
  <1> QED
    BY <1>4, <1>5, LoopRuns

\* hosts,
LEMMA LoadHostsRuns ==
    ASSUME NEW r, NEW entries, NEW s, s = entries, NEW N \in Nat, Len(s) = N
    PROVE  \E after : Runs(after, "loadHost", NoName, r, s, N, LoadHosts(r, entries))
  <1> DEFINE Is(f) == f = [k \in 0..Len(s) |-> IF k = 0 THEN r
                                              ELSE IF f[k - 1].ok THEN LoadHost(f[k - 1].m, s[k])
                                              ELSE f[k - 1]]
             that == CHOOSE f : Is(f)
  <1>1. PICK g : IsLoop(g, "loadHost", NoName, r, s, N)
    BY LoopExists
  <1>2. Is(g)
    BY <1>1 DEF IsLoop, Step
  <1>3. Is(that)
    BY <1>2
  <1>4. LoadHosts(r, entries) = that[Len(s)]
    BY DEF LoadHosts, ForEach
  <1> HIDE DEF that
  <1>5. IsLoop(that, "loadHost", NoName, r, s, N)
    BY <1>3 DEF IsLoop, Step
  <1> QED
    BY <1>4, <1>5, LoopRuns

\* switches,
LEMMA LoadSwitchesRuns ==
    ASSUME NEW r, NEW entries, NEW version, NEW s, s = entries, NEW N \in Nat, Len(s) = N
    PROVE  \E after : Runs(after, "loadSwitch", version, r, s, N, LoadSwitches(r, entries, version))
  <1> DEFINE Is(f) == f = [k \in 0..Len(s) |-> IF k = 0 THEN r
                                              ELSE IF f[k - 1].ok THEN LoadSwitch(f[k - 1].m, s[k], version)
                                              ELSE f[k - 1]]
             that == CHOOSE f : Is(f)
  <1>1. PICK g : IsLoop(g, "loadSwitch", version, r, s, N)
    BY LoopExists
  <1>2. Is(g)
    BY <1>1 DEF IsLoop, Step
  <1>3. Is(that)
    BY <1>2
  <1>4. LoadSwitches(r, entries, version) = that[Len(s)]
    BY DEF LoadSwitches, ForEach
  <1> HIDE DEF that
  <1>5. IsLoop(that, "loadSwitch", version, r, s, N)
    BY <1>3 DEF IsLoop, Step
  <1> QED
    BY <1>4, <1>5, LoopRuns

\* and links;
LEMMA LoadLinksRuns ==
    ASSUME NEW r, NEW entries, NEW s, s = entries, NEW N \in Nat, Len(s) = N
    PROVE  \E after : Runs(after, "loadLink", NoName, r, s, N, LoadLinks(r, entries))
  <1> DEFINE Is(f) == f = [k \in 0..Len(s) |-> IF k = 0 THEN r
                                              ELSE IF f[k - 1].ok THEN LoadLink(f[k - 1].m, s[k])
                                              ELSE f[k - 1]]
             that == CHOOSE f : Is(f)
  <1>1. PICK g : IsLoop(g, "loadLink", NoName, r, s, N)
    BY LoopExists
  <1>2. Is(g)
    BY <1>1 DEF IsLoop, Step
  <1>3. Is(that)
    BY <1>2
  <1>4. LoadLinks(r, entries) = that[Len(s)]
    BY DEF LoadLinks, ForEach
  <1> HIDE DEF that
  <1>5. IsLoop(that, "loadLink", NoName, r, s, N)
    BY <1>3 DEF IsLoop, Step
  <1> QED
    BY <1>4, <1>5, LoopRuns

\* importTopo() links a switch to controllers,
LEMMA ImportControlsRuns ==
    ASSUME NEW r, NEW name, NEW names, NEW s, s = names, NEW N \in Nat, Len(s) = N
    PROVE  \E after : Runs(after, "importControl", name, r, s, N, ImportControls(r, name, names))
  <1> DEFINE Is(f) == f = [k \in 0..Len(s) |-> IF k = 0 THEN r
                                              ELSE IF f[k - 1].ok THEN ImportControl(f[k - 1].m, name, s[k])
                                              ELSE f[k - 1]]
             that == CHOOSE f : Is(f)
  <1>1. PICK g : IsLoop(g, "importControl", name, r, s, N)
    BY LoopExists
  <1>2. Is(g)
    BY <1>1 DEF IsLoop, Step
  <1>3. Is(that)
    BY <1>2
  <1>4. ImportControls(r, name, names) = that[Len(s)]
    BY DEF ImportControls, ForEach
  <1> HIDE DEF that
  <1>5. IsLoop(that, "importControl", name, r, s, N)
    BY <1>3 DEF IsLoop, Step
  <1> QED
    BY <1>4, <1>5, LoopRuns

\* makes controllers,
LEMMA ImportControllersRuns ==
    ASSUME NEW r, NEW names, NEW s, s = names, NEW N \in Nat, Len(s) = N
    PROVE  \E after : Runs(after, "importController", NoName, r, s, N, ImportControllers(r, names))
  <1> DEFINE Is(f) == f = [k \in 0..Len(s) |-> IF k = 0 THEN r
                                              ELSE IF f[k - 1].ok THEN ImportController(f[k - 1].m, s[k])
                                              ELSE f[k - 1]]
             that == CHOOSE f : Is(f)
  <1>1. PICK g : IsLoop(g, "importController", NoName, r, s, N)
    BY LoopExists
  <1>2. Is(g)
    BY <1>1 DEF IsLoop, Step
  <1>3. Is(that)
    BY <1>2
  <1>4. ImportControllers(r, names) = that[Len(s)]
    BY DEF ImportControllers, ForEach
  <1> HIDE DEF that
  <1>5. IsLoop(that, "importController", NoName, r, s, N)
    BY <1>3 DEF IsLoop, Step
  <1> QED
    BY <1>4, <1>5, LoopRuns

\* switches,
LEMMA ImportSwitchesRuns ==
    ASSUME NEW r, NEW names, NEW controllers, NEW s, s = names, NEW N \in Nat, Len(s) = N
    PROVE  \E after : Runs(after, "importSwitch", controllers, r, s, N, ImportSwitches(r, names, controllers))
  <1> DEFINE Is(f) == f = [k \in 0..Len(s) |-> IF k = 0 THEN r
                                              ELSE IF f[k - 1].ok THEN ImportSwitch(f[k - 1].m, s[k], controllers)
                                              ELSE f[k - 1]]
             that == CHOOSE f : Is(f)
  <1>1. PICK g : IsLoop(g, "importSwitch", controllers, r, s, N)
    BY LoopExists
  <1>2. Is(g)
    BY <1>1 DEF IsLoop, Step
  <1>3. Is(that)
    BY <1>2
  <1>4. ImportSwitches(r, names, controllers) = that[Len(s)]
    BY DEF ImportSwitches, ForEach
  <1> HIDE DEF that
  <1>5. IsLoop(that, "importSwitch", controllers, r, s, N)
    BY <1>3 DEF IsLoop, Step
  <1> QED
    BY <1>4, <1>5, LoopRuns

\* hosts,
LEMMA ImportHostsRuns ==
    ASSUME NEW r, NEW names, NEW s, s = names, NEW N \in Nat, Len(s) = N
    PROVE  \E after : Runs(after, "importHost", NoName, r, s, N, ImportHosts(r, names))
  <1> DEFINE Is(f) == f = [k \in 0..Len(s) |-> IF k = 0 THEN r
                                              ELSE IF f[k - 1].ok THEN ImportHost(f[k - 1].m, s[k])
                                              ELSE f[k - 1]]
             that == CHOOSE f : Is(f)
  <1>1. PICK g : IsLoop(g, "importHost", NoName, r, s, N)
    BY LoopExists
  <1>2. Is(g)
    BY <1>1 DEF IsLoop, Step
  <1>3. Is(that)
    BY <1>2
  <1>4. ImportHosts(r, names) = that[Len(s)]
    BY DEF ImportHosts, ForEach
  <1> HIDE DEF that
  <1>5. IsLoop(that, "importHost", NoName, r, s, N)
    BY <1>3 DEF IsLoop, Step
  <1> QED
    BY <1>4, <1>5, LoopRuns

\* and links;
LEMMA ImportLinksRuns ==
    ASSUME NEW r, NEW entries, NEW s, s = entries, NEW N \in Nat, Len(s) = N
    PROVE  \E after : Runs(after, "importLink", NoName, r, s, N, ImportLinks(r, entries))
  <1> DEFINE Is(f) == f = [k \in 0..Len(s) |-> IF k = 0 THEN r
                                              ELSE IF f[k - 1].ok THEN ImportLink(f[k - 1].m, s[k])
                                              ELSE f[k - 1]]
             that == CHOOSE f : Is(f)
  <1>1. PICK g : IsLoop(g, "importLink", NoName, r, s, N)
    BY LoopExists
  <1>2. Is(g)
    BY <1>1 DEF IsLoop, Step
  <1>3. Is(that)
    BY <1>2
  <1>4. ImportLinks(r, entries) = that[Len(s)]
    BY DEF ImportLinks, ForEach
  <1> HIDE DEF that
  <1>5. IsLoop(that, "importLink", NoName, r, s, N)
    BY <1>3 DEF IsLoop, Step
  <1> QED
    BY <1>4, <1>5, LoopRuns

\* controllerDetails() changes lists.
LEMMA RelistEverywhereRuns ==
    ASSUME NEW d, NEW old, NEW name, NEW s, s = NodesLike(d, {"Switch"}), NEW N \in Nat, Len(s) = N
    PROVE  \E after : Runs(after, "relist", <<old, name>>, Ok(d), s, N, RelistEverywhere(d, old, name))
  <1> DEFINE Is(f) == f = [k \in 0..Len(s) |-> IF k = 0 THEN Ok(d)
                                              ELSE IF f[k - 1].ok THEN Relist(f[k - 1].m, s[k].name, old, name)
                                              ELSE f[k - 1]]
             that == CHOOSE f : Is(f)
  <1>1. PICK g : IsLoop(g, "relist", <<old, name>>, Ok(d), s, N)
    BY LoopExists
  <1>2. Is(g)
    BY <1>1 DEF IsLoop, Step
  <1>3. Is(that)
    BY <1>2
  <1>4. RelistEverywhere(d, old, name) = that[Len(s)]
    BY DEF RelistEverywhere, ForEach
  <1> HIDE DEF that
  <1>5. IsLoop(that, "relist", <<old, name>>, Ok(d), s, N)
    BY <1>3 DEF IsLoop, Step
  <1> QED
    BY <1>4, <1>5, LoopRuns

(***************************************************************************)
(* The shape of a drawing and its model, whatever was done to it.          *)
(***************************************************************************)
IsModel(d) ==
    d = [canvas |-> d.canvas, links |-> d.links, ends |-> d.ends,
         hostOpts |-> d.hostOpts, switchOpts |-> d.switchOpts, controllers |-> d.controllers,
         counts |-> d.counts, next |-> d.next, gone |-> d.gone]

IsCounts(c) ==
    /\ c = [host |-> c.host, docker |-> c.docker, switch |-> c.switch, controller |-> c.controller]
    /\ c.host \in Nat /\ c.docker \in Nat /\ c.switch \in Nat /\ c.controller \in Nat

IsNode(w, next) ==
    /\ w = [item |-> w.item, kind |-> w.kind, name |-> w.name]
    /\ w.item \in 1..(next - 1) /\ w.kind \in AllKinds
IsLink(l, next) ==
    /\ l = [item |-> l.item, type |-> l.type, src |-> l.src, dest |-> l.dest,
            opts |-> l.opts, down |-> l.down]
    /\ l.item \in 1..(next - 1) /\ l.type \in {"data", "control"}
ItemsDiffer(s) == \A i, j \in DOMAIN s : s[i].item = s[j].item => i = j

(* The icons and lines of the canvas, of which next is the next item.  *)
Drawn(canvas, links, next) ==
    /\ next \in Nat /\ next > 0
    /\ IsSeq(canvas) /\ (\A w \in ToSet(canvas) : IsNode(w, next)) /\ ItemsDiffer(canvas)
    /\ IsSeq(links) /\ (\A l \in ToSet(links) : IsLink(l, next)) /\ ItemsDiffer(links)
    /\ \A w \in ToSet(canvas), l \in ToSet(links) : w.item # l.item

IsHostEntry(o) ==
    /\ o = [num |-> o.num, hostname |-> o.hostname, docker |-> o.docker, extra |-> o.extra]
    /\ o.docker \in BOOLEAN
IsSwitchEntry(o) ==
    /\ o = [num |-> o.num, hostname |-> o.hostname, type |-> o.type,
            controllers |-> o.controllers, extra |-> o.extra]
    /\ o.controllers = NoList \/ IsSeq(o.controllers)
Entries(hostOpts, switchOpts) ==
    /\ \A n \in DOMAIN hostOpts : IsHostEntry(hostOpts[n])
    /\ \A n \in DOMAIN switchOpts : IsSwitchEntry(switchOpts[n])

Shape(d) ==
    /\ IsModel(d) /\ IsCounts(d.counts)
    /\ Drawn(d.canvas, d.links, d.next)
    /\ Entries(d.hostOpts, d.switchOpts)

(* What is the same of two models.  *)
SameNodes(d, e) == e.canvas = d.canvas /\ e.gone = d.gone
SameLinks(d, e) == e.links = d.links /\ e.ends = d.ends
SameOpts(d, e) ==
    e.hostOpts = d.hostOpts /\ e.switchOpts = d.switchOpts /\ e.controllers = d.controllers
SameItems(d, e) == e.counts = d.counts /\ e.next = d.next

\* A sequence is a list.
LEMMA NoListIsNoSeq ==
    ASSUME NEW s, IsSeq(s)
    PROVE  s # NoList
  <1>1. 0 \in DOMAIN NoList
    BY DEF NoList, NoItem
  <1>2. 0 \notin DOMAIN s
    BY DEF IsSeq
  <1> QED
    BY <1>1, <1>2

(* The element of an item is found by its item.  *)
LEMMA WidgetIs ==
    ASSUME NEW d, Shape(d), NEW w \in Nodes(d)
    PROVE  Widget(d, w.item) = w
  <1>1. \A v \in Nodes(d) : v.item = w.item => v = w
    BY DEF Shape, Drawn, ItemsDiffer, Nodes, ToSet
  <1> QED
    BY <1>1 DEF Widget

\* A link is found by its item.
LEMMA LinkIs ==
    ASSUME NEW d, Shape(d), NEW l \in ToSet(d.links)
    PROVE  Link(d, l.item) = l
  <1>1. \A v \in ToSet(d.links) : v.item = l.item => v = l
    BY DEF Shape, Drawn, ItemsDiffer, ToSet
  <1> QED
    BY <1>1 DEF Link

(* Elements of a sequence with another one at its end.  *)
LEMMA AppendedSet ==
    ASSUME NEW s, IsSeq(s), NEW e
    PROVE  /\ IsSeq(Append(s, e)) /\ ToSet(Append(s, e)) = ToSet(s) \cup {e}
           /\ \E k \in Nat : /\ DOMAIN s = 1..k /\ DOMAIN Append(s, e) = 1..(k + 1)
                             /\ Append(s, e)[k + 1] = e
                             /\ \A i \in 1..k : Append(s, e)[i] = s[i]
  <1>1. PICK k \in Nat : /\ DOMAIN s = 1..k /\ DOMAIN Append(s, e) = 1..(k + 1)
                         /\ Append(s, e)[k + 1] = e
                         /\ \A i \in 1..k : Append(s, e)[i] = s[i]
    BY AppendedLast
  <1>2. PICK z : z = Append(s, e)
    OBVIOUS
  <1>3. ToSet(z) \subseteq ToSet(s) \cup {e}
    <2> SUFFICES ASSUME NEW i \in DOMAIN z PROVE z[i] \in ToSet(s) \cup {e}
      BY DEF ToSet
    <2>1. i = k + 1 \/ i \in 1..k
      BY <1>1, <1>2
    <2>2. CASE i = k + 1
      BY <1>1, <1>2, <2>2
    <2>3. CASE i \in 1..k
      BY <1>1, <1>2, <2>3 DEF ToSet
    <2> QED
      BY <2>1, <2>2, <2>3
  <1>4. ToSet(s) \subseteq ToSet(z)
    <2> SUFFICES ASSUME NEW i \in DOMAIN s PROVE s[i] \in ToSet(z)
      BY DEF ToSet
    <2>1. i \in DOMAIN z /\ z[i] = s[i]
      BY <1>1, <1>2
    <2> QED
      BY <2>1 DEF ToSet
  <1>5. e \in ToSet(z)
    <2>1. k + 1 \in DOMAIN z /\ z[k + 1] = e
      BY <1>1, <1>2
    <2> QED
      BY <2>1 DEF ToSet
  <1>6. IsSeq(z)
    BY <1>2, AppendedSeq
  <1> QED
    BY <1>1, <1>2, <1>3, <1>4, <1>5, <1>6

\* A new element with an item of its own.
LEMMA ItemAppended ==
    ASSUME NEW s, IsSeq(s), ItemsDiffer(s), NEW e, \A x \in ToSet(s) : x.item # e.item
    PROVE  ItemsDiffer(Append(s, e))
  <1>1. PICK k \in Nat : /\ DOMAIN s = 1..k /\ DOMAIN Append(s, e) = 1..(k + 1)
                         /\ Append(s, e)[k + 1] = e
                         /\ \A i \in 1..k : Append(s, e)[i] = s[i]
    BY AppendedLast
  <1>2. PICK z : z = Append(s, e)
    OBVIOUS
  <1>3. ASSUME NEW i \in 1..(k + 1), NEW j \in 1..(k + 1), z[i].item = z[j].item PROVE i = j
    <2>1. CASE i \in 1..k /\ j \in 1..k
      BY <1>1, <1>2, <1>3, <2>1 DEF ItemsDiffer
    <2>2. CASE i = k + 1 /\ j \in 1..k
      <3>1. s[j] \in ToSet(s) /\ s[j].item = e.item
        BY <1>1, <1>2, <1>3, <2>2 DEF ToSet
      <3> QED
        BY <3>1
    <2>3. CASE j = k + 1 /\ i \in 1..k
      <3>1. s[i] \in ToSet(s) /\ s[i].item = e.item
        BY <1>1, <1>2, <1>3, <2>3 DEF ToSet
      <3> QED
        BY <3>1
    <2> QED
      BY <1>3, <2>1, <2>2, <2>3
  <1> QED
    BY <1>1, <1>2, <1>3 DEF ItemsDiffer

\* What is drawn with the next item is told apart by its item: a node,
LEMMA NodeDrawn ==
    ASSUME NEW canvas, NEW links, NEW next, Drawn(canvas, links, next), NEW w,
           NEW kind \in AllKinds, NEW name, w = [item |-> next, kind |-> kind, name |-> name]
    PROVE  Drawn(Append(canvas, w), links, next + 1)
  <1>1. next \in Nat /\ next > 0
    BY DEF Drawn
  <1>2. PICK z : z = Append(canvas, w)
    OBVIOUS
  <1>3. IsSeq(z) /\ ToSet(z) = ToSet(canvas) \cup {w}
    BY <1>2, AppendedSet DEF Drawn
  <1>4. IsNode(w, next + 1)
    BY <1>1 DEF IsNode
  <1>5. \A v \in ToSet(canvas) : IsNode(v, next + 1) /\ v.item # w.item
    BY <1>1 DEF Drawn, IsNode
  <1>6. \A l \in ToSet(links) : IsLink(l, next + 1) /\ l.item # w.item
    BY <1>1 DEF Drawn, IsLink
  <1>7. ItemsDiffer(z)
    BY <1>2, <1>5, ItemAppended DEF Drawn
  <1>8. \A v \in ToSet(z) : IsNode(v, next + 1) /\ \A l \in ToSet(links) : v.item # l.item
    BY <1>3, <1>4, <1>5, <1>6 DEF Drawn
  <1> QED
    BY <1>1, <1>2, <1>3, <1>6, <1>7, <1>8 DEF Drawn

\* a link.
LEMMA LinkDrawn ==
    ASSUME NEW canvas, NEW links, NEW next, Drawn(canvas, links, next), NEW l,
           NEW type \in {"data", "control"}, NEW src, NEW dest, NEW opts, NEW down,
           l = [item |-> next, type |-> type, src |-> src, dest |-> dest, opts |-> opts,
                down |-> down]
    PROVE  Drawn(canvas, Append(links, l), next + 1)
  <1>1. next \in Nat /\ next > 0
    BY DEF Drawn
  <1>2. PICK z : z = Append(links, l)
    OBVIOUS
  <1>3. IsSeq(z) /\ ToSet(z) = ToSet(links) \cup {l}
    BY <1>2, AppendedSet DEF Drawn
  <1>4. IsLink(l, next + 1)
    BY <1>1 DEF IsLink
  <1>5. \A k \in ToSet(links) : IsLink(k, next + 1) /\ k.item # l.item
    BY <1>1 DEF Drawn, IsLink
  <1>6. \A w \in ToSet(canvas) : IsNode(w, next + 1) /\ w.item # l.item
    BY <1>1 DEF Drawn, IsNode
  <1>7. ItemsDiffer(z)
    BY <1>2, <1>5, ItemAppended DEF Drawn
  <1>8. \A k \in ToSet(z) : IsLink(k, next + 1) /\ \A w \in ToSet(canvas) : w.item # k.item
    BY <1>3, <1>4, <1>5, <1>6 DEF Drawn
  <1> QED
    BY <1>1, <1>2, <1>3, <1>6, <1>7, <1>8 DEF Drawn

\* A part of a sequence has the items of its elements.
LEMMA ChosenDiffer ==
    ASSUME NEW s, IsSeq(s), ItemsDiffer(s), NEW S, NEW r, r = Chosen(s, S)
    PROVE  ItemsDiffer(r)
  <1>1. PICK h : /\ \A i \in DOMAIN r : h[i] \in DOMAIN s /\ r[i] = s[h[i]]
                 /\ \A i, j \in DOMAIN r : h[i] = h[j] => i = j
    BY ChosenIs
  <1> QED
    BY <1>1 DEF ItemsDiffer

\* A drawing of fewer things tells them apart.
LEMMA FewerDrawn ==
    ASSUME NEW canvas, NEW links, NEW next, Drawn(canvas, links, next), NEW S
    PROVE  Drawn(Chosen(canvas, S), links, next) /\ Drawn(canvas, Chosen(links, S), next)
  <1>1. PICK c, l : c = Chosen(canvas, S) /\ l = Chosen(links, S)
    OBVIOUS
  <1>2. IsSeq(canvas) /\ IsSeq(links) /\ ItemsDiffer(canvas) /\ ItemsDiffer(links)
    BY DEF Drawn
  <1>3. /\ IsSeq(c) /\ ToSet(c) \subseteq ToSet(canvas) /\ ItemsDiffer(c)
        /\ IsSeq(l) /\ ToSet(l) \subseteq ToSet(links) /\ ItemsDiffer(l)
    <2>1. IsSeq(c) /\ ToSet(c) = ToSet(canvas) \cap S
      BY <1>1, <1>2, ChosenIs
    <2>2. IsSeq(l) /\ ToSet(l) = ToSet(links) \cap S
      BY <1>1, <1>2, ChosenIs
    <2>3. ItemsDiffer(c) /\ ItemsDiffer(l)
      BY <1>1, <1>2, ChosenDiffer
    <2> QED
      BY <2>1, <2>2, <2>3
  <1> QED
    BY <1>1, <1>3 DEF Drawn

(* Other names, options and states of the icons and lines, one by one.  *)
LEMMA Redrawn ==
    ASSUME NEW canvas, NEW links, NEW next, Drawn(canvas, links, next), NEW c, NEW l,
           c = [k \in DOMAIN canvas |-> c[k]], l = [k \in DOMAIN links |-> l[k]],
           \A k \in DOMAIN canvas : IsNode(c[k], next) /\ c[k].item = canvas[k].item,
           \A k \in DOMAIN links : IsLink(l[k], next) /\ l[k].item = links[k].item
    PROVE  Drawn(c, l, next)
  <1>1. IsSeq(canvas) /\ IsSeq(links)
    BY DEF Drawn
  <1>2. DOMAIN c = DOMAIN canvas /\ DOMAIN l = DOMAIN links
    OBVIOUS
  <1>3. IsSeq(c) /\ IsSeq(l)
    <2>1. PICK i \in Nat, j \in Nat : DOMAIN canvas = 1..i /\ DOMAIN links = 1..j
      BY <1>1, SeqIs
    <2> QED
      BY <2>1 DEF IsSeq
  <1>4. ItemsDiffer(c) /\ ItemsDiffer(l)
    BY <1>2 DEF Drawn, ItemsDiffer
  <1>5. (\A w \in ToSet(c) : IsNode(w, next)) /\ (\A k \in ToSet(l) : IsLink(k, next))
    BY <1>2 DEF ToSet
  <1>6. ASSUME NEW w \in ToSet(c), NEW k \in ToSet(l) PROVE w.item # k.item
    <2>1. PICK i \in DOMAIN canvas, j \in DOMAIN links : w.item = canvas[i].item /\ k.item = links[j].item
      BY <1>2 DEF ToSet
    <2> QED
      BY <2>1 DEF Drawn, ToSet
  <1> QED
    BY <1>3, <1>4, <1>5, <1>6 DEF Drawn

(***************************************************************************)
(* What the small operations change.                                       *)
(***************************************************************************)
LEMMA CountedIs ==
    ASSUME NEW d, IsModel(d), IsCounts(d.counts), NEW kind, NEW e, e = Counted(d, kind)
    PROVE  /\ IsModel(e) /\ SameNodes(d, e) /\ SameLinks(d, e) /\ SameOpts(d, e) /\ e.next = d.next
           /\ IsCounts(e.counts)
           /\ e.counts.host = d.counts.host + (IF kind = "Host" THEN 1 ELSE 0)
  <1>1. PICK f : f = Counter(kind)
    OBVIOUS
  <1>2. f \in {"host", "docker", "controller", "switch"} /\ (f = "host" <=> kind = "Host")
    BY <1>1 DEF Counter
  <1>3. e = [d EXCEPT !.counts[f] = @ + 1]
    BY <1>1 DEF Counted
  <1>4. /\ IsModel(e) /\ SameNodes(d, e) /\ SameLinks(d, e) /\ SameOpts(d, e) /\ e.next = d.next
        /\ e.counts = [d.counts EXCEPT ![f] = @ + 1]
    BY <1>3 DEF IsModel, SameNodes, SameLinks, SameOpts
  <1>5. /\ IsCounts(e.counts) /\ e.counts.host = d.counts.host + (IF f = "host" THEN 1 ELSE 0)
    BY <1>2, <1>4 DEF IsCounts
  <1> QED
    BY <1>2, <1>4, <1>5

\* What the setters do, in terms of sets: a node more,
LEMMA AddNamedNodeIs ==
    ASSUME NEW d, IsModel(d), NEW kind, NEW name, NEW e, e = AddNamedNode(d, kind, name)
    PROVE  /\ IsModel(e) /\ SameLinks(d, e) /\ SameOpts(d, e)
           /\ e.canvas = Append(d.canvas, [item |-> d.next, kind |-> kind, name |-> name])
           /\ e.gone = d.gone /\ e.next = d.next + 1 /\ e.counts = d.counts
  BY DEF AddNamedNode, IsModel, SameLinks, SameOpts

\* options of a host,
LEMMA SetHostOptsIs ==
    ASSUME NEW d, IsModel(d), NEW name, NEW o, NEW e, e = SetHostOpts(d, name, o)
    PROVE  /\ IsModel(e) /\ SameNodes(d, e) /\ SameLinks(d, e) /\ SameItems(d, e)
           /\ e.switchOpts = d.switchOpts /\ e.controllers = d.controllers
           /\ DOMAIN e.hostOpts = DOMAIN d.hostOpts \cup {name} /\ e.hostOpts[name] = o
           /\ \A n \in DOMAIN d.hostOpts : n # name => e.hostOpts[n] = d.hostOpts[n]
  <1>1. /\ IsModel(e) /\ SameNodes(d, e) /\ SameLinks(d, e) /\ SameItems(d, e)
        /\ e.switchOpts = d.switchOpts /\ e.controllers = d.controllers
        /\ e.hostOpts = With(d.hostOpts, name, o)
    BY DEF SetHostOpts, IsModel, SameNodes, SameLinks, SameItems
  <1> QED
    BY <1>1 DEF With

\* of a switch,
LEMMA SetSwitchOptsIs ==
    ASSUME NEW d, IsModel(d), NEW name, NEW o, NEW e, e = SetSwitchOpts(d, name, o)
    PROVE  /\ IsModel(e) /\ SameNodes(d, e) /\ SameLinks(d, e) /\ SameItems(d, e)
           /\ e.hostOpts = d.hostOpts /\ e.controllers = d.controllers
           /\ DOMAIN e.switchOpts = DOMAIN d.switchOpts \cup {name} /\ e.switchOpts[name] = o
           /\ \A n \in DOMAIN d.switchOpts : n # name => e.switchOpts[n] = d.switchOpts[n]
  <1>1. /\ IsModel(e) /\ SameNodes(d, e) /\ SameLinks(d, e) /\ SameItems(d, e)
        /\ e.hostOpts = d.hostOpts /\ e.controllers = d.controllers
        /\ e.switchOpts = With(d.switchOpts, name, o)
    BY DEF SetSwitchOpts, IsModel, SameNodes, SameLinks, SameItems
  <1> QED
    BY <1>1 DEF With

\* of a controller,
LEMMA SetControllerIs ==
    ASSUME NEW d, IsModel(d), NEW name, NEW type, NEW e, e = SetController(d, name, type)
    PROVE  /\ IsModel(e) /\ SameNodes(d, e) /\ SameLinks(d, e) /\ SameItems(d, e)
           /\ e.hostOpts = d.hostOpts /\ e.switchOpts = d.switchOpts
           /\ DOMAIN e.controllers = DOMAIN d.controllers \cup {name} /\ e.controllers[name] = type
           /\ \A n \in DOMAIN d.controllers : n # name => e.controllers[n] = d.controllers[n]
  <1>1. /\ IsModel(e) /\ SameNodes(d, e) /\ SameLinks(d, e) /\ SameItems(d, e)
        /\ e.hostOpts = d.hostOpts /\ e.switchOpts = d.switchOpts
        /\ e.controllers = With(d.controllers, name, type)
    BY DEF SetController, IsModel, SameNodes, SameLinks, SameItems
  <1> QED
    BY <1>1 DEF With

\* a link more,
LEMMA AddLinkIs ==
    ASSUME NEW d, IsModel(d), NEW src, NEW dest, NEW type, NEW opts, NEW e,
           e = AddLink(d, src, dest, type, opts)
    PROVE  /\ IsModel(e) /\ SameNodes(d, e) /\ SameOpts(d, e)
           /\ e.links = Append(d.links, [item |-> d.next, type |-> type, src |-> src,
                                         dest |-> dest, opts |-> opts, down |-> FALSE])
           /\ e.next = d.next + 1 /\ e.counts = d.counts
           /\ DOMAIN e.ends = DOMAIN d.ends \cup {<<src, dest>>, <<dest, src>>}
           /\ e.ends[<<src, dest>>] = d.next /\ e.ends[<<dest, src>>] = d.next
           /\ \A x \in DOMAIN d.ends :
                 x \notin {<<src, dest>>, <<dest, src>>} => e.ends[x] = d.ends[x]
  <1>1. /\ IsModel(e) /\ SameNodes(d, e) /\ SameOpts(d, e)
        /\ e.links = Append(d.links, [item |-> d.next, type |-> type, src |-> src,
                                      dest |-> dest, opts |-> opts, down |-> FALSE])
        /\ e.next = d.next + 1 /\ e.counts = d.counts
        /\ e.ends = With(With(d.ends, <<dest, src>>, d.next), <<src, dest>>, d.next)
    BY DEF AddLink, IsModel, SameNodes, SameOpts
  <1>2. PICK x, y, n : x = <<src, dest>> /\ y = <<dest, src>> /\ n = d.next
    OBVIOUS
  <1>3. PICK f : f = With(d.ends, y, n)
    OBVIOUS
  <1>4. /\ DOMAIN f = DOMAIN d.ends \cup {y} /\ f[y] = n
        /\ \A z \in DOMAIN d.ends : z # y => f[z] = d.ends[z]
    BY <1>3 DEF With
  <1>5. e.ends = With(f, x, n)
    BY <1>1, <1>2, <1>3
  <1>6. /\ DOMAIN e.ends = DOMAIN f \cup {x} /\ e.ends[x] = n
        /\ \A z \in DOMAIN f : z # x => e.ends[z] = f[z]
    BY <1>5 DEF With
  <1>7. e.ends[y] = n
    BY <1>4, <1>6
  <1> QED
    BY <1>1, <1>2, <1>4, <1>6, <1>7

\* Only the list of one switch changes.
Relisted(d, name, list, e) ==
    /\ IsModel(e) /\ SameNodes(d, e) /\ SameLinks(d, e) /\ SameItems(d, e)
    /\ e.hostOpts = d.hostOpts /\ e.controllers = d.controllers
    /\ DOMAIN e.switchOpts = DOMAIN d.switchOpts
    /\ \A n \in DOMAIN d.switchOpts :
          e.switchOpts[n] = IF n # name THEN d.switchOpts[n]
                            ELSE [d.switchOpts[n] EXCEPT !.controllers = list]

\* another list of a switch,
LEMMA WithListIs ==
    ASSUME NEW d, IsModel(d), NEW name, NEW list, NEW e, e = WithList(d, name, list)
    PROVE  Relisted(d, name, list, e)
  <1>1. /\ IsModel(e) /\ SameNodes(d, e) /\ SameLinks(d, e) /\ SameItems(d, e)
        /\ e.hostOpts = d.hostOpts /\ e.controllers = d.controllers
        /\ e.switchOpts = [d.switchOpts EXCEPT ![name] = [@ EXCEPT !.controllers = list]]
    BY DEF WithList, IsModel, SameNodes, SameLinks, SameItems
  <1> QED
    BY <1>1 DEF Relisted

\* an entry of a table less,
LEMMA UnendedIs ==
    ASSUME NEW d, IsModel(d), NEW a, NEW b, NEW e, e = Unended(d, a, b)
    PROVE  /\ IsModel(e) /\ SameNodes(d, e) /\ SameOpts(d, e) /\ SameItems(d, e)
           /\ e.links = d.links
           /\ DOMAIN e.ends = DOMAIN d.ends \ {<<a, b>>}
           /\ \A x \in DOMAIN e.ends : e.ends[x] = d.ends[x]
  <1>1. /\ IsModel(e) /\ SameNodes(d, e) /\ SameOpts(d, e) /\ SameItems(d, e)
        /\ e.links = d.links
        /\ e.ends = Restrict(d.ends, DOMAIN d.ends \ {<<a, b>>})
    BY DEF Unended, IsModel, SameNodes, SameOpts, SameItems
  <1> QED
    BY <1>1 DEF Restrict

\* a link less.
LEMMA UnlinkedIs ==
    ASSUME NEW d, IsModel(d), NEW item, NEW e, e = Unlinked(d, item)
    PROVE  /\ IsModel(e) /\ SameNodes(d, e) /\ SameOpts(d, e) /\ SameItems(d, e)
           /\ e.ends = d.ends
           /\ e.links = Chosen(d.links, {l \in ToSet(d.links) : l.item # item})
  BY DEF Unlinked, IsModel, SameNodes, SameOpts, SameItems

\* Entries stay entries.
LEMMA HostEntered ==
    ASSUME NEW h, NEW s, Entries(h, s), NEW g, NEW name, IsHostEntry(g[name]),
           DOMAIN g = DOMAIN h \cup {name}, \A n \in DOMAIN h : n # name => g[n] = h[n]
    PROVE  Entries(g, s)
  BY DEF Entries

\* An entry of a switch keeps the entries well-formed.
LEMMA SwitchEntered ==
    ASSUME NEW h, NEW s, Entries(h, s), NEW g, NEW name, IsSwitchEntry(g[name]),
           DOMAIN g = DOMAIN s \cup {name}, \A n \in DOMAIN s : n # name => g[n] = s[n]
    PROVE  Entries(h, g)
  BY DEF Entries

\* A change of a list keeps the shape of the drawing.
LEMMA RelistedShape ==
    ASSUME NEW d, Shape(d), NEW name, NEW list, list = NoList \/ IsSeq(list), NEW e,
           Relisted(d, name, list, e)
    PROVE  /\ Shape(e)
           /\ \A n \in DOMAIN d.switchOpts :
                 /\ e.switchOpts[n].type = d.switchOpts[n].type
                 /\ e.switchOpts[n].num = d.switchOpts[n].num
                 /\ e.switchOpts[n].hostname = d.switchOpts[n].hostname
                 /\ e.switchOpts[n].extra = d.switchOpts[n].extra
                 /\ e.switchOpts[n].controllers = IF n = name THEN list
                                                  ELSE d.switchOpts[n].controllers
  <1>1. /\ Drawn(e.canvas, e.links, e.next) /\ IsCounts(e.counts) /\ IsModel(e)
    BY DEF Shape, Relisted, SameNodes, SameLinks, SameItems
  <1>2. ASSUME NEW n \in DOMAIN d.switchOpts
        PROVE  /\ IsSwitchEntry(e.switchOpts[n])
               /\ e.switchOpts[n].type = d.switchOpts[n].type
               /\ e.switchOpts[n].num = d.switchOpts[n].num
               /\ e.switchOpts[n].hostname = d.switchOpts[n].hostname
               /\ e.switchOpts[n].extra = d.switchOpts[n].extra
               /\ e.switchOpts[n].controllers = IF n = name THEN list
                                                ELSE d.switchOpts[n].controllers
    <2>1. PICK o, p : o = d.switchOpts[n] /\ p = e.switchOpts[n]
      OBVIOUS
    <2>2. IsSwitchEntry(o)
      BY <2>1 DEF Shape, Entries
    <2>3. p = IF n # name THEN o ELSE [o EXCEPT !.controllers = list]
      BY <2>1 DEF Relisted
    <2>4. /\ IsSwitchEntry(p) /\ p.type = o.type /\ p.num = o.num /\ p.hostname = o.hostname
          /\ p.extra = o.extra /\ p.controllers = IF n = name THEN list ELSE o.controllers
      BY <2>2, <2>3 DEF IsSwitchEntry
    <2> QED
      BY <2>1, <2>4
  <1>3. Entries(e.hostOpts, e.switchOpts)
    BY <1>2 DEF Shape, Entries, Relisted
  <1> QED
    BY <1>1, <1>2, <1>3 DEF Shape

\* The lists are the same but for one.
ListsAs(d, name, list, e) ==
    \A n \in DOMAIN d.switchOpts :
       /\ e.switchOpts[n].type = d.switchOpts[n].type
       /\ e.switchOpts[n].num = d.switchOpts[n].num
       /\ e.switchOpts[n].hostname = d.switchOpts[n].hostname
       /\ e.switchOpts[n].extra = d.switchOpts[n].extra
       /\ e.switchOpts[n].controllers = IF n = name THEN list ELSE d.switchOpts[n].controllers

\* What a change of a list changes.
LEMMA RelistedLists ==
    ASSUME NEW d, Shape(d), NEW name, NEW list, IsSeq(list), NEW e, Relisted(d, name, list, e)
    PROVE  Shape(e) /\ ListsAs(d, name, list, e)
  <1>1. list = NoList \/ IsSeq(list)
    OBVIOUS
  <1>2. /\ Shape(e)
        /\ \A n \in DOMAIN d.switchOpts :
              /\ e.switchOpts[n].type = d.switchOpts[n].type
              /\ e.switchOpts[n].num = d.switchOpts[n].num
              /\ e.switchOpts[n].hostname = d.switchOpts[n].hostname
              /\ e.switchOpts[n].extra = d.switchOpts[n].extra
              /\ e.switchOpts[n].controllers = IF n = name THEN list
                                                ELSE d.switchOpts[n].controllers
    BY <1>1, RelistedShape
  <1> QED
    BY <1>2 DEF ListsAs

(***************************************************************************)
(* Deleting.                                                               *)
(***************************************************************************)

(* Nothing is new, and the options stay but for the lists of the switches.  *)
Pruned(d, e) ==
    /\ Nodes(e) \subseteq Nodes(d) /\ ToSet(e.links) \subseteq ToSet(d.links)
    /\ e.hostOpts = d.hostOpts /\ e.controllers = d.controllers /\ SameItems(d, e)
    /\ DOMAIN e.switchOpts = DOMAIN d.switchOpts
    /\ \A n \in DOMAIN d.switchOpts :
          /\ e.switchOpts[n].type = d.switchOpts[n].type
          /\ e.switchOpts[n].num = d.switchOpts[n].num
          /\ e.switchOpts[n].hostname = d.switchOpts[n].hostname
          /\ e.switchOpts[n].extra = d.switchOpts[n].extra

\* What takes away twice takes away.
LEMMA PrunedTwice ==
    ASSUME NEW d, NEW e, NEW f, Pruned(d, e), Pruned(e, f)
    PROVE  Pruned(d, f)
  BY DEF Pruned, SameItems

\* Nothing may be taken away.
LEMMA PrunedNothing ==
    ASSUME NEW d
    PROVE  Pruned(d, d)
  BY DEF Pruned, SameItems

\* A controller is taken from a list, if there is one.
LEMMA UnlistIs ==
    ASSUME NEW d, Shape(d), NEW switch, NEW controller, NEW r, r = Unlist(d, switch, controller)
    PROVE  /\ Shape(r.m) /\ Pruned(d, r.m) /\ SameNodes(d, r.m) /\ SameLinks(d, r.m)
           /\ r.ok <=> HasList(d, switch)
           /\ ~HasList(d, switch) => r.m = d
           /\ HasList(d, switch) =>
                 Relisted(d, switch, RemoveFirst(d.switchOpts[switch].controllers, controller), r.m)
  <1>1. CASE ~HasList(d, switch)
    <2>1. r.m = d /\ r.ok = FALSE
      BY <1>1 DEF Unlist, Raise
    <2> QED
      BY <1>1, <2>1, PrunedNothing DEF SameNodes, SameLinks
  <1>2. CASE HasList(d, switch)
    <2>1. PICK old, list : /\ old = d.switchOpts[switch].controllers
                           /\ list = RemoveFirst(old, controller)
      OBVIOUS
    <2>2. r.m = WithList(d, switch, list) /\ r.ok = TRUE
      BY <1>2, <2>1 DEF Unlist, Ok
    <2>3. Relisted(d, switch, list, r.m)
      BY <2>2, WithListIs DEF Shape
    <2>4. IsSeq(list)
      <3>1. IsSeq(old)
        BY <1>2, <2>1 DEF HasList, Shape, Entries, IsSwitchEntry
      <3> QED
        BY <2>1, <3>1, FirstRemoved
    <2>5. /\ Shape(r.m)
          /\ \A n \in DOMAIN d.switchOpts :
                 /\ r.m.switchOpts[n].type = d.switchOpts[n].type
                 /\ r.m.switchOpts[n].num = d.switchOpts[n].num
                 /\ r.m.switchOpts[n].hostname = d.switchOpts[n].hostname
                 /\ r.m.switchOpts[n].extra = d.switchOpts[n].extra
      <3>1. list = NoList \/ IsSeq(list)
        BY <2>4
      <3>2. PICK e : e = r.m
        OBVIOUS
      <3>3. Relisted(d, switch, list, e)
        BY <2>3, <3>2
      <3> QED
        BY <3>1, <3>2, <3>3, RelistedShape
    <2>6. Pruned(d, r.m) /\ SameNodes(d, r.m) /\ SameLinks(d, r.m)
      BY <2>3, <2>5 DEF Pruned, Relisted, Nodes, SameNodes, SameLinks
    <2> QED
      BY <1>2, <2>1, <2>2, <2>3, <2>5, <2>6
  <1> QED
    BY <1>1, <1>2

\* The shape of a model stays when only the tables of its icons change.
LEMMA UnendedShape ==
    ASSUME NEW d, Shape(d), NEW a, NEW b, NEW e, e = Unended(d, a, b)
    PROVE  Shape(e) /\ Pruned(d, e) /\ SameNodes(d, e) /\ SameOpts(d, e) /\ e.links = d.links
  <1>1. /\ IsModel(e) /\ SameNodes(d, e) /\ SameOpts(d, e) /\ SameItems(d, e)
        /\ e.links = d.links
    BY UnendedIs DEF Shape
  <1> QED
    BY <1>1 DEF Shape, Pruned, Nodes, SameNodes, SameOpts, SameItems

\* A link less keeps the shape.
LEMMA UnlinkedShape ==
    ASSUME NEW d, Shape(d), NEW item, NEW e, e = Unlinked(d, item)
    PROVE  /\ Shape(e) /\ Pruned(d, e) /\ SameNodes(d, e) /\ SameOpts(d, e) /\ e.ends = d.ends
           /\ ToSet(e.links) = {l \in ToSet(d.links) : l.item # item}
  <1>1. /\ IsModel(e) /\ SameNodes(d, e) /\ SameOpts(d, e) /\ SameItems(d, e)
        /\ e.ends = d.ends
        /\ e.links = Chosen(d.links, {l \in ToSet(d.links) : l.item # item})
    BY UnlinkedIs DEF Shape
  <1>2. ToSet(e.links) = {l \in ToSet(d.links) : l.item # item}
    <2>1. IsSeq(d.links)
      BY DEF Shape, Drawn
    <2>2. ToSet(e.links) = ToSet(d.links) \cap {l \in ToSet(d.links) : l.item # item}
      BY <1>1, <2>1, ChosenIs
    <2> QED
      BY <2>2
  <1>3. Drawn(d.canvas, e.links, d.next)
    BY <1>1, FewerDrawn DEF Shape
  <1> QED
    BY <1>1, <1>2, <1>3 DEF Shape, Pruned, Nodes, SameNodes, SameOpts, SameItems

(* The steps of deleteLink().  *)
Apart(d, l) == Unended(Unended(d, l.src, l.dest), l.dest, l.src)
Unlisted(d, l) ==
    IF l.type # "control" THEN Ok(Apart(d, l))
    ELSE IF Widget(d, l.src).kind = "Controller"
         THEN Unlist(Apart(d, l), Widget(d, l.dest).name, Widget(d, l.src).name)
         ELSE Unlist(Apart(d, l), Widget(d, l.src).name, Widget(d, l.dest).name)

\* deleteLink() in its steps.
LEMMA DeleteLinkSteps ==
    ASSUME NEW d, NEW item, NEW l, l = Link(d, item), NEW r, r = DeleteLink(d, item)
    PROVE  r = IF <<l.src, l.dest>> \notin DOMAIN d.ends THEN Raise(d)
               ELSE IF <<l.dest, l.src>> \notin DOMAIN d.ends THEN Raise(Unended(d, l.src, l.dest))
               ELSE IF l.src \notin Items(d) THEN Raise(Apart(d, l))
               ELSE IF ~Unlisted(d, l).ok THEN Unlisted(d, l)
               ELSE Ok(Unlinked(Unlisted(d, l).m, item))
  BY DEF DeleteLink, Apart, Unlisted

\* The tables are changed first.
LEMMA ApartShape ==
    ASSUME NEW d, Shape(d), NEW l, NEW e, e = Apart(d, l)
    PROVE  Shape(e) /\ Pruned(d, e) /\ SameNodes(d, e) /\ SameOpts(d, e) /\ e.links = d.links
  <1>1. PICK h : h = Unended(d, l.src, l.dest)
    OBVIOUS
  <1>2. Shape(h) /\ Pruned(d, h) /\ SameNodes(d, h) /\ SameOpts(d, h) /\ h.links = d.links
    BY <1>1, UnendedShape
  <1>3. e = Unended(h, l.dest, l.src)
    BY <1>1 DEF Apart
  <1>4. Shape(e) /\ Pruned(h, e) /\ SameNodes(h, e) /\ SameOpts(h, e) /\ e.links = h.links
    BY <1>2, <1>3, UnendedShape
  <1> QED
    BY <1>2, <1>4, PrunedTwice DEF SameNodes, SameOpts

\* The list of the switch follows.
LEMMA UnlistedShape ==
    ASSUME NEW d, Shape(d), NEW l, NEW r, r = Unlisted(d, l)
    PROVE  Shape(r.m) /\ Pruned(d, r.m) /\ SameNodes(d, r.m) /\ r.m.links = d.links
  <1>1. PICK e : e = Apart(d, l)
    OBVIOUS
  <1>2. Shape(e) /\ Pruned(d, e) /\ SameNodes(d, e) /\ e.links = d.links
    BY <1>1, ApartShape
  <1>3. CASE l.type # "control"
    <2>1. r.m = e
      BY <1>1, <1>3 DEF Unlisted, Ok
    <2> QED
      BY <1>2, <2>1
  <1>4. CASE l.type = "control"
    <2>1. PICK s, c : r = Unlist(e, s, c)
      BY <1>1, <1>4 DEF Unlisted
    <2>2. Shape(r.m) /\ Pruned(e, r.m) /\ SameNodes(e, r.m) /\ SameLinks(e, r.m)
      BY <1>2, <2>1, UnlistIs
    <2> QED
      BY <1>2, <2>2, PrunedTwice DEF SameNodes, SameLinks
  <1> QED
    BY <1>3, <1>4

\* deleteLink() takes away links and entries of lists only.
LEMMA DeleteLinkShape ==
    ASSUME NEW d, Shape(d), NEW item, NEW r, r = DeleteLink(d, item)
    PROVE  Shape(r.m) /\ Pruned(d, r.m) /\ SameNodes(d, r.m)
  <1>1. PICK l : l = Link(d, item)
    OBVIOUS
  <1>2. CASE r = Raise(d)
    <2>1. r.m = d
      BY <1>2 DEF Raise
    <2> QED
      BY <2>1, PrunedNothing DEF SameNodes
  <1>3. CASE r = Raise(Unended(d, l.src, l.dest))
    <2>1. r.m = Unended(d, l.src, l.dest)
      BY <1>3 DEF Raise
    <2> QED
      BY <2>1, UnendedShape
  <1>4. CASE r = Raise(Apart(d, l))
    <2>1. r.m = Apart(d, l)
      BY <1>4 DEF Raise
    <2> QED
      BY <2>1, ApartShape
  <1>5. CASE r = Unlisted(d, l)
    BY <1>5, UnlistedShape
  <1>6. CASE r = Ok(Unlinked(Unlisted(d, l).m, item))
    <2>1. PICK e : e = Unlisted(d, l).m
      OBVIOUS
    <2>2. Shape(e) /\ Pruned(d, e) /\ SameNodes(d, e)
      BY <2>1, UnlistedShape
    <2>3. r.m = Unlinked(e, item)
      BY <1>6, <2>1 DEF Ok
    <2>4. Shape(r.m) /\ Pruned(e, r.m) /\ SameNodes(e, r.m)
      BY <2>2, <2>3, UnlinkedShape
    <2> QED
      BY <2>2, <2>4, PrunedTwice DEF SameNodes
  <1> QED
    BY <1>1, <1>2, <1>3, <1>4, <1>5, <1>6, DeleteLinkSteps

(* The loops of deleteNode().  *)
LEMMA NodesLikeIs ==
    ASSUME NEW d, IsSeq(d.canvas), NEW kinds, NEW s, s = NodesLike(d, kinds)
    PROVE  IsSeq(s) /\ ToSet(s) = {w \in Nodes(d) : w.kind \in kinds}
  <1>1. IsSeq(s) /\ ToSet(s) = Nodes(d) \cap {w \in Nodes(d) : w.kind \in kinds}
    BY ChosenIs DEF NodesLike, Nodes
  <1> QED
    BY <1>1

\* So does the loop over the switches,
LEMMA UnlistEverywhereShape ==
    ASSUME NEW d, Shape(d), NEW controller, NEW r, r = UnlistEverywhere(d, controller)
    PROVE  Shape(r.m) /\ Pruned(d, r.m) /\ SameNodes(d, r.m) /\ SameLinks(d, r.m)
  <1>1. PICK s, N : s = NodesLike(d, {"Switch"}) /\ N \in Nat /\ Len(s) = N
    <2>1. IsSeq(NodesLike(d, {"Switch"}))
      BY NodesLikeIs DEF Shape, Drawn
    <2> QED
      BY <2>1, SeqIs
  <1>2. PICK after : Runs(after, "unlist", controller, Ok(d), s, N, r)
    BY <1>1, UnlistEverywhereRuns
  <1> DEFINE Fine(e) == Shape(e) /\ Pruned(d, e) /\ SameNodes(d, e) /\ SameLinks(d, e)
             T == {k \in 0..N : Fine(after[k].m)}
  <1>3. 0 \in T
    <2>1. after[0].m = d
      BY <1>2 DEF Runs, Ok
    <2> QED
      BY <1>1, <2>1, PrunedNothing DEF SameNodes, SameLinks
  <1>4. ASSUME NEW n \in Nat, n < N, n \in T
        PROVE  n + 1 \in T
    <2>1. n + 1 \in 1..N /\ (n + 1) - 1 = n
      BY <1>1, <1>4
    <2>2. PICK x, y, e : x = after[n] /\ y = after[n + 1] /\ e = s[n + 1]
      OBVIOUS
    <2>3. y = IF x.ok THEN Unlist(x.m, e.name, controller) ELSE x
      BY <1>2, <2>1, <2>2 DEF Runs, Step
    <2>4. Fine(x.m)
      BY <1>4, <2>2
    <2>5. Fine(y.m)
      <3>1. CASE y = x
        BY <2>4, <3>1
      <3>2. CASE y = Unlist(x.m, e.name, controller)
        <4>1. Shape(y.m) /\ Pruned(x.m, y.m) /\ SameNodes(x.m, y.m) /\ SameLinks(x.m, y.m)
          BY <2>4, <3>2, UnlistIs
        <4> QED
          BY <2>4, <4>1, PrunedTwice DEF SameNodes, SameLinks
      <3> QED
        BY <2>3, <3>1, <3>2
    <2>6. n + 1 \in 0..N /\ Fine(after[n + 1].m)
      BY <2>1, <2>2, <2>5
    <2> HIDE DEF Fine
    <2> QED
      BY <2>6
  <1>5. \A n \in 0..N : n \in T
    <2> HIDE DEF T
    <2> QED
      BY <1>1, <1>3, <1>4, UpTo
  <1>6. after[N] = r
    BY <1>2 DEF Runs
  <1> QED
    BY <1>1, <1>5, <1>6

\* and the one over the links.
LEMMA DeleteLinksShape ==
    ASSUME NEW d, NEW q, Shape(q.m), Pruned(d, q.m), NEW items, IsSeq(items),
           NEW r, r = DeleteLinks(q, items)
    PROVE  Shape(r.m) /\ Pruned(d, r.m) /\ SameNodes(q.m, r.m)
  <1>1. PICK N \in Nat : Len(items) = N
    BY SeqIs
  <1>2. PICK after : Runs(after, "deleteLink", NoName, q, items, N, r)
    BY <1>1, DeleteLinksRuns
  <1> DEFINE Fine(e) == Shape(e) /\ Pruned(d, e) /\ SameNodes(q.m, e)
             T == {k \in 0..N : Fine(after[k].m)}
  <1>3. 0 \in T
    <2>1. after[0].m = q.m
      BY <1>2 DEF Runs
    <2> QED
      BY <2>1 DEF SameNodes
  <1>4. ASSUME NEW n \in Nat, n < N, n \in T
        PROVE  n + 1 \in T
    <2>1. n + 1 \in 1..N /\ (n + 1) - 1 = n
      BY <1>4
    <2>2. PICK x, y, e : x = after[n] /\ y = after[n + 1] /\ e = items[n + 1]
      OBVIOUS
    <2>3. y = IF x.ok THEN DeleteLink(x.m, e) ELSE x
      BY <1>2, <2>1, <2>2 DEF Runs, Step
    <2>4. Fine(x.m)
      BY <1>4, <2>2
    <2>5. Fine(y.m)
      <3>1. CASE y = x
        BY <2>4, <3>1
      <3>2. CASE y = DeleteLink(x.m, e)
        <4>1. Shape(y.m) /\ Pruned(x.m, y.m) /\ SameNodes(x.m, y.m)
          BY <2>4, <3>2, DeleteLinkShape
        <4> QED
          BY <2>4, <4>1, PrunedTwice DEF SameNodes
      <3> QED
        BY <2>3, <3>1, <3>2
    <2>6. n + 1 \in 0..N /\ Fine(after[n + 1].m)
      BY <2>1, <2>2, <2>5
    <2> HIDE DEF Fine
    <2> QED
      BY <2>6
  <1>5. \A n \in 0..N : n \in T
    <2> HIDE DEF T
    <2> QED
      BY <1>3, <1>4, UpTo
  <1>6. after[N] = r
    BY <1>2 DEF Runs
  <1> QED
    BY <1>5, <1>6

\* The links of a node by their items.
LEMMA LinksToIs ==
    ASSUME NEW d, Shape(d), NEW item, NEW s, s = LinksTo(d, item)
    PROVE  /\ IsSeq(s) /\ NoTwice(s)
           /\ ToSet(s) = {l.item : l \in {k \in ToSet(d.links) :
                                             \E e \in DOMAIN d.ends : e[1] = item /\ d.ends[e] = k.item}}
  <1>1. PICK known : known = {d.ends[e] : e \in {x \in DOMAIN d.ends : x[1] = item}}
    OBVIOUS
  <1>2. PICK c : c = Chosen(d.links, {l \in ToSet(d.links) : l.item \in known})
    OBVIOUS
  <1>3. s = [k \in DOMAIN c |-> c[k].item]
    BY <1>1, <1>2 DEF LinksTo, Each
  <1>4. IsSeq(d.links) /\ ItemsDiffer(d.links)
    BY DEF Shape, Drawn
  <1>5. IsSeq(c) /\ ItemsDiffer(c) /\ ToSet(c) = {l \in ToSet(d.links) : l.item \in known}
    <2>1. IsSeq(c) /\ ToSet(c) = ToSet(d.links) \cap {l \in ToSet(d.links) : l.item \in known}
      BY <1>2, <1>4, ChosenIs
    <2> QED
      BY <1>2, <1>4, <2>1, ChosenDiffer
  <1>6. IsSeq(s)
    <2>1. PICK n \in Nat : DOMAIN c = 1..n
      BY <1>5, SeqIs
    <2> QED
      BY <1>3, <2>1 DEF IsSeq
  <1>7. NoTwice(s)
    BY <1>3, <1>5 DEF NoTwice, ItemsDiffer
  <1>8. ToSet(s) = {l.item : l \in ToSet(c)}
    BY <1>3 DEF ToSet
  <1> QED
    BY <1>1, <1>5, <1>6, <1>7, <1>8

(* The steps of deleteNode().  *)
Unlisting(d, item) ==
    IF Widget(d, item).kind = "Controller" THEN UnlistEverywhere(d, Widget(d, item).name) ELSE Ok(d)
Unlinking(d, item) == DeleteLinks(Unlisting(d, item), LinksTo(d, item))

NodeTaken(d, item, a, e) ==
    /\ e.canvas = Chosen(a.canvas, {v \in Nodes(a) : v.item # item})
    /\ e.gone = {v \in a.gone \cup {Widget(d, item)} :
                    \E l \in ToSet(a.links) : v.item \in {l.src, l.dest}}

\* deleteNode() in its steps.
LEMMA DeleteNodeSteps ==
    ASSUME NEW d, NEW item, NEW u, u = Unlinking(d, item), IsModel(u.m),
           NEW r, r = DeleteNode(d, item)
    PROVE  /\ ~u.ok => r = u
           /\ u.ok => /\ r.ok /\ IsModel(r.m) /\ SameLinks(u.m, r.m) /\ SameOpts(u.m, r.m)
                      /\ SameItems(u.m, r.m) /\ NodeTaken(d, item, u.m, r.m)
  <1>1. PICK c, g : /\ c = Chosen(u.m.canvas, {v \in Nodes(u.m) : v.item # item})
                    /\ g = {v \in u.m.gone \cup {Widget(d, item)} :
                                \E l \in ToSet(u.m.links) : v.item \in {l.src, l.dest}}
    OBVIOUS
  <1>2. r = IF ~u.ok THEN u ELSE Ok([u.m EXCEPT !.canvas = c, !.gone = g])
    BY <1>1 DEF DeleteNode, Unlinking, Unlisting, Nodes
  <1>3. CASE ~u.ok
    BY <1>2, <1>3
  <1>4. CASE u.ok
    <2>1. r.ok /\ r.m = [u.m EXCEPT !.canvas = c, !.gone = g]
      BY <1>2, <1>4 DEF Ok
    <2>2. /\ IsModel(r.m) /\ SameLinks(u.m, r.m) /\ SameOpts(u.m, r.m) /\ SameItems(u.m, r.m)
          /\ r.m.canvas = c /\ r.m.gone = g
      BY <2>1 DEF IsModel, SameLinks, SameOpts, SameItems
    <2> QED
      BY <1>1, <1>4, <2>1, <2>2 DEF NodeTaken
  <1> QED
    BY <1>3, <1>4

\* Before the node is taken away only links and entries of lists are.
LEMMA UnlinkingShape ==
    ASSUME NEW d, Shape(d), NEW item, NEW u, u = Unlinking(d, item)
    PROVE  Shape(u.m) /\ Pruned(d, u.m) /\ SameNodes(d, u.m)
  <1>1. PICK z : z = Unlisting(d, item)
    OBVIOUS
  <1>2. Shape(z.m) /\ Pruned(d, z.m) /\ SameNodes(d, z.m)
    <2>1. CASE z = Ok(d)
      <3>1. z.m = d
        BY <2>1 DEF Ok
      <3> QED
        BY <3>1, PrunedNothing DEF SameNodes
    <2>2. CASE z = UnlistEverywhere(d, Widget(d, item).name)
      BY <2>2, UnlistEverywhereShape
    <2> QED
      BY <1>1, <2>1, <2>2 DEF Unlisting
  <1>3. IsSeq(LinksTo(d, item))
    BY LinksToIs
  <1>4. u = DeleteLinks(z, LinksTo(d, item))
    BY <1>1 DEF Unlinking
  <1>5. Shape(u.m) /\ Pruned(d, u.m) /\ SameNodes(z.m, u.m)
    BY <1>2, <1>3, <1>4, DeleteLinksShape
  <1> QED
    BY <1>2, <1>5 DEF SameNodes

\* deleteNode() keeps the shape.
LEMMA DeleteNodeShape ==
    ASSUME NEW d, Shape(d), NEW item, NEW r, r = DeleteNode(d, item)
    PROVE  /\ Shape(r.m) /\ Pruned(d, r.m)
           /\ r.ok => Nodes(r.m) = {v \in Nodes(d) : v.item # item}
  <1>1. PICK u : u = Unlinking(d, item)
    OBVIOUS
  <1>2. Shape(u.m) /\ Pruned(d, u.m) /\ SameNodes(d, u.m)
    BY <1>1, UnlinkingShape
  <1>3. CASE ~u.ok
    <2>2. r = u
      BY <1>1, <1>3 DEF DeleteNode, Unlinking, Unlisting
    <2> QED
      BY <1>2, <1>3, <2>2
  <1>4. CASE u.ok
    <2>1. /\ r.ok /\ IsModel(r.m) /\ SameLinks(u.m, r.m) /\ SameOpts(u.m, r.m)
          /\ SameItems(u.m, r.m)
          /\ r.m.canvas = Chosen(u.m.canvas, {v \in Nodes(u.m) : v.item # item})
      BY <1>1, <1>2, <1>4, DeleteNodeSteps DEF Shape, NodeTaken
    <2>2. Nodes(u.m) = Nodes(d) /\ IsSeq(u.m.canvas)
      BY <1>2 DEF SameNodes, Nodes, Shape, Drawn
    <2>3. Nodes(r.m) = {v \in Nodes(d) : v.item # item}
      <3>1. ToSet(r.m.canvas) = ToSet(u.m.canvas) \cap {v \in Nodes(u.m) : v.item # item}
        BY <2>1, <2>2, ChosenIs
      <3> QED
        BY <2>2, <3>1 DEF Nodes
    <2>4. Drawn(r.m.canvas, u.m.links, u.m.next)
      BY <1>2, <2>1, FewerDrawn DEF Shape
    <2>5. Shape(r.m)
      BY <1>2, <2>1, <2>4 DEF Shape, SameLinks, SameOpts, SameItems
    <2>6. Pruned(u.m, r.m)
      BY <2>1, <2>2, <2>3 DEF Pruned, SameLinks, SameOpts
    <2> QED
      BY <1>2, <2>3, <2>5, <2>6, PrunedTwice
  <1> QED
    BY <1>3, <1>4

\* deleteItem() keeps the shape.
LEMMA DeleteItemShape ==
    ASSUME NEW d, Shape(d), NEW t, NEW item, NEW r, r = DeleteItem(d, t, item)
    PROVE  /\ Shape(r.m) /\ Pruned(d, r.m)
           /\ t = "disabled" => r = Ok(d)
           /\ t # "disabled" /\ r.ok /\ item \notin LinkItems(d) => item \notin Items(r.m)
  <1>1. CASE r = Ok(d) /\ (t = "disabled" \/ item \notin Items(d))
    <2>1. r.m = d
      BY <1>1 DEF Ok
    <2> QED
      BY <1>1, <2>1, PrunedNothing
  <1>2. CASE t # "disabled" /\ item \in LinkItems(d) /\ r = DeleteLink(d, item)
    BY <1>2, DeleteLinkShape
  <1>3. CASE t # "disabled" /\ item \notin LinkItems(d) /\ r = DeleteNode(d, item)
    BY <1>3, DeleteNodeShape DEF Items
  <1> QED
    BY <1>1, <1>2, <1>3 DEF DeleteItem

\* With the tools enabled nothing stays on the canvas, unless a callback raises.
LEMMA DeleteItemsShape ==
    ASSUME NEW d, Shape(d), NEW t, NEW r, r = DeleteItems(d, t)
    PROVE  /\ Shape(r.m) /\ Pruned(d, r.m)
           /\ t # "disabled" /\ r.ok => Nodes(r.m) = {}
           /\ t = "disabled" => r.ok /\ r.m = d
  <1>1. PICK s, N : s = d.canvas /\ N \in Nat /\ Len(s) = N /\ DOMAIN s = 1..N
    BY SeqIs DEF Shape, Drawn
  <1>2. PICK after : Runs(after, "deleteItem", t, Ok(d), s, N, r)
    BY <1>1, DeleteItemsRuns
  <1> DEFINE Fine(e, k) ==
                 /\ Shape(e.m) /\ Pruned(d, e.m)
                 /\ t = "disabled" => e = Ok(d)
                 /\ t # "disabled" /\ e.ok => \A j \in 1..k : s[j].item \notin Items(e.m)
             T == {k \in 0..N : Fine(after[k], k)}
  <1>3. 0 \in T
    <2>1. after[0] = Ok(d) /\ after[0].m = d
      BY <1>2 DEF Runs, Ok
    <2>2. Fine(after[0], 0)
      BY <2>1, PrunedNothing
    <2> QED
      BY <1>1, <2>2
  <1>4. ASSUME NEW n \in Nat, n < N, n \in T
        PROVE  n + 1 \in T
    <2>1. n + 1 \in 1..N /\ (n + 1) - 1 = n /\ n + 1 \in 0..N
      BY <1>1, <1>4
    <2>2. PICK x, y, e : x = after[n] /\ y = after[n + 1] /\ e = s[n + 1]
      OBVIOUS
    <2>3. y = IF x.ok THEN DeleteItem(x.m, t, e.item) ELSE x
      BY <1>2, <2>1, <2>2 DEF Runs, Step
    <2>4. Fine(x, n)
      BY <1>4, <2>2
    <2>5. Fine(y, n + 1)
      <3>1. CASE ~x.ok
        <4>1. y = x
          BY <2>3, <3>1
        <4> QED
          BY <2>4, <3>1, <4>1
      <3>2. CASE x.ok
        <4>1. y = DeleteItem(x.m, t, e.item)
          BY <2>3, <3>2
        <4>2. e.item \notin LinkItems(x.m)
          <5>1. e \in ToSet(d.canvas)
            BY <1>1, <2>1, <2>2 DEF ToSet
          <5>2. \A l \in ToSet(d.links) : e.item # l.item
            BY <5>1 DEF Shape, Drawn
          <5> QED
            BY <2>4, <5>2 DEF LinkItems, Pruned
        <4>3. /\ Shape(y.m) /\ Pruned(x.m, y.m)
              /\ t = "disabled" => y = Ok(x.m)
              /\ t # "disabled" /\ y.ok => e.item \notin Items(y.m)
          BY <2>4, <4>1, <4>2, DeleteItemShape
        <4>4. Pruned(d, y.m)
          BY <2>4, <4>3, PrunedTwice
        <4>5. t = "disabled" => y = Ok(d)
          BY <2>4, <4>3 DEF Ok
        <4>6. t # "disabled" /\ y.ok => \A j \in 1..(n + 1) : s[j].item \notin Items(y.m)
          <5> SUFFICES ASSUME t # "disabled", y.ok, NEW j \in 1..(n + 1)
                       PROVE  s[j].item \notin Items(y.m)
            OBVIOUS
          <5>1. CASE j = n + 1
            BY <2>2, <4>3, <5>1
          <5>2. CASE j \in 1..n
            <6>1. s[j].item \notin Items(x.m)
              BY <2>4, <3>2, <5>2
            <6> QED
              BY <4>3, <6>1 DEF Items, Pruned
          <5>3. j = n + 1 \/ j \in 1..n
            OBVIOUS
          <5> QED
            BY <5>1, <5>2, <5>3
        <4> QED
          BY <4>3, <4>4, <4>5, <4>6
      <3> QED
        BY <3>1, <3>2
    <2>6. n + 1 \in 0..N /\ Fine(after[n + 1], n + 1)
      BY <2>1, <2>2, <2>5
    <2> HIDE DEF Fine
    <2> QED
      BY <2>6
  <1>5. \A n \in 0..N : n \in T
    <2> HIDE DEF T
    <2> QED
      BY <1>1, <1>3, <1>4, UpTo
  <1>6. Fine(r, N)
    <2>1. after[N] = r /\ N \in 0..N
      BY <1>1, <1>2 DEF Runs
    <2> HIDE DEF Fine
    <2> QED
      BY <1>5, <2>1
  <1>7. t = "disabled" => r.ok /\ r.m = d
    BY <1>6 DEF Ok
  <1>8. t # "disabled" /\ r.ok => Nodes(r.m) = {}
    <2> SUFFICES ASSUME t # "disabled", r.ok, NEW w \in Nodes(r.m) PROVE FALSE
      OBVIOUS
    <2>1. w \in Nodes(d)
      BY <1>6 DEF Pruned
    <2>2. PICK j \in 1..N : w = s[j]
      BY <1>1, <2>1 DEF Nodes, ToSet
    <2>3. w.item \in Items(r.m)
      BY DEF Items
    <2> QED
      BY <1>6, <2>2, <2>3
  <1> QED
    BY <1>6, <1>7, <1>8

\* newTopology() in its steps.
LEMMA NewTopologySteps ==
    ASSUME NEW d, NEW t, NEW c, c = DeleteItems(d, t), NEW r, r = NewTopology(d, t)
    PROVE  /\ ~c.ok => r = c
           /\ c.ok => /\ r.ok
                      /\ r.m = [canvas |-> c.m.canvas, links |-> <<>>, ends |-> c.m.ends,
                                hostOpts |-> <<>>, switchOpts |-> <<>>, controllers |-> <<>>,
                                counts |-> [host |-> 0, docker |-> 0, switch |-> 0,
                                            controller |-> 0],
                                next |-> c.m.next, gone |-> {}]
  <1>1. PICK z : z = [EmptyModel EXCEPT !.canvas = c.m.canvas, !.ends = c.m.ends,
                                        !.next = c.m.next]
    OBVIOUS
  <1>2. r = IF ~c.ok THEN c ELSE Ok(z)
    BY <1>1 DEF NewTopology
  <1>3. (~c.ok => r = c) /\ (c.ok => r.ok /\ r.m = z)
    BY <1>2 DEF Ok
  <1>4. z = [canvas |-> c.m.canvas, links |-> <<>>, ends |-> c.m.ends,
             hostOpts |-> <<>>, switchOpts |-> <<>>, controllers |-> <<>>,
             counts |-> [host |-> 0, docker |-> 0, switch |-> 0, controller |-> 0],
             next |-> c.m.next, gone |-> {}]
    BY <1>1 DEF EmptyModel
  <1> QED
    BY <1>3, <1>4

\* newTopology() keeps the shape.
LEMMA NewTopologyShape ==
    ASSUME NEW d, Shape(d), NEW t, NEW r, r = NewTopology(d, t)
    PROVE  /\ Shape(r.m)
           /\ r.ok /\ t # "disabled" => /\ r.m.canvas = <<>> /\ r.m.links = <<>>
           /\ ~r.ok => Pruned(d, r.m) /\ t # "disabled"
  <1>1. PICK c : c = DeleteItems(d, t)
    OBVIOUS
  <1>2. /\ Shape(c.m) /\ Pruned(d, c.m)
        /\ t # "disabled" /\ c.ok => Nodes(c.m) = {}
        /\ t = "disabled" => c.ok /\ c.m = d
    BY <1>1, DeleteItemsShape
  <1>3. /\ ~c.ok => r = c
        /\ c.ok => /\ r.ok
                   /\ r.m = [canvas |-> c.m.canvas, links |-> <<>>, ends |-> c.m.ends,
                             hostOpts |-> <<>>, switchOpts |-> <<>>, controllers |-> <<>>,
                             counts |-> [host |-> 0, docker |-> 0, switch |-> 0,
                                         controller |-> 0],
                             next |-> c.m.next, gone |-> {}]
    BY <1>1, NewTopologySteps
  <1>5. CASE ~c.ok
    BY <1>2, <1>3, <1>5
  <1>6. CASE c.ok
    <2>1. PICK z : z = r.m
      OBVIOUS
    <2>2. /\ r.ok
          /\ z = [canvas |-> c.m.canvas, links |-> <<>>, ends |-> c.m.ends,
                  hostOpts |-> <<>>, switchOpts |-> <<>>, controllers |-> <<>>,
                  counts |-> [host |-> 0, docker |-> 0, switch |-> 0, controller |-> 0],
                  next |-> c.m.next, gone |-> {}]
      BY <1>3, <1>6, <2>1
    <2>3. IsModel(z)
      BY <2>2 DEF IsModel
    <2>4. IsCounts(z.counts)
      BY <2>2 DEF IsCounts
    <2>5. Entries(z.hostOpts, z.switchOpts)
      BY <2>2 DEF Entries
    <2>6. Drawn(z.canvas, z.links, z.next)
      <3>1. PICK none : none = <<>> /\ IsSeq(none) /\ DOMAIN none = {} /\ ToSet(none) = {}
        BY NothingIsSeq DEF ToSet
      <3>2. ItemsDiffer(none)
        BY <3>1 DEF ItemsDiffer
      <3>3. Drawn(c.m.canvas, none, c.m.next)
        BY <1>2, <3>1, <3>2 DEF Shape, Drawn
      <3> QED
        BY <2>2, <3>1, <3>3
    <2>7. Shape(z)
      BY <2>3, <2>4, <2>5, <2>6 DEF Shape
    <2>8. t # "disabled" => z.canvas = <<>>
      <3> SUFFICES ASSUME t # "disabled" PROVE c.m.canvas = <<>>
        BY <2>2
      <3>1. ToSet(c.m.canvas) = {} /\ IsSeq(c.m.canvas)
        BY <1>2, <1>6 DEF Nodes, Shape, Drawn
      <3>2. Len(c.m.canvas) \in Nat /\ DOMAIN c.m.canvas = 1..Len(c.m.canvas)
        BY <3>1, SeqIs
      <3>3. 1 \notin DOMAIN c.m.canvas
        BY <3>1 DEF ToSet
      <3>4. Len(c.m.canvas) = 0
        BY <3>2, <3>3
      <3> QED
        BY <3>1, <3>4, SeqIs
    <2> QED
      BY <2>1, <2>2, <2>7, <2>8
  <1> QED
    BY <1>5, <1>6

(***************************************************************************)
(* Adding.                                                                 *)
(***************************************************************************)
NodeAdded(d, kind, name, e) ==
    /\ IsModel(e) /\ SameLinks(d, e)
    /\ e.canvas = Append(d.canvas, [item |-> d.next, kind |-> kind, name |-> name])
    /\ e.gone = d.gone /\ e.next = d.next + 1
    /\ IsCounts(e.counts)
    /\ e.counts.host = d.counts.host + (IF kind = "Host" THEN 1 ELSE 0)
\* f is g with o under some name.
Entered(g, name, o, f) ==
    /\ DOMAIN f = DOMAIN g \cup {name} /\ f[name] = o
    /\ \A n \in DOMAIN g : n # name => f[n] = g[n]

HostAdded(d, kind, name, o, e) ==
    /\ kind \in HostLike /\ IsHostEntry(o)
    /\ NodeAdded(d, kind, name, e) /\ Entered(d.hostOpts, name, o, e.hostOpts)
    /\ e.switchOpts = d.switchOpts /\ e.controllers = d.controllers
SwitchAdded(d, kind, name, o, e) ==
    /\ kind \in SwitchLike /\ IsSwitchEntry(o)
    /\ NodeAdded(d, kind, name, e) /\ Entered(d.switchOpts, name, o, e.switchOpts)
    /\ e.hostOpts = d.hostOpts /\ e.controllers = d.controllers
ControllerAdded(d, name, type, e) ==
    /\ NodeAdded(d, "Controller", name, e) /\ Entered(d.controllers, name, type, e.controllers)
    /\ e.hostOpts = d.hostOpts /\ e.switchOpts = d.switchOpts
LinkAdded(d, src, dest, type, opts, e) ==
    /\ IsModel(e) /\ SameNodes(d, e) /\ SameOpts(d, e)
    /\ e.links = Append(d.links, [item |-> d.next, type |-> type, src |-> src,
                                  dest |-> dest, opts |-> opts, down |-> FALSE])
    /\ e.next = d.next + 1 /\ e.counts = d.counts
    /\ DOMAIN e.ends = DOMAIN d.ends \cup {<<src, dest>>, <<dest, src>>}
    /\ e.ends[<<src, dest>>] = d.next /\ e.ends[<<dest, src>>] = d.next
    /\ \A x \in DOMAIN d.ends : x \notin {<<src, dest>>, <<dest, src>>} => e.ends[x] = d.ends[x]

\* What is added keeps the shape: a node,
LEMMA NodeAddedShape ==
    ASSUME NEW d, Shape(d), NEW kind \in AllKinds, NEW name, NEW e, NodeAdded(d, kind, name, e)
    PROVE  IsModel(e) /\ IsCounts(e.counts) /\ Drawn(e.canvas, e.links, e.next)
  <1>1. PICK w : w = [item |-> d.next, kind |-> kind, name |-> name]
    OBVIOUS
  <1>2. Drawn(Append(d.canvas, w), d.links, d.next + 1)
    BY <1>1, NodeDrawn DEF Shape
  <1> QED
    BY <1>1, <1>2 DEF NodeAdded, SameLinks

\* a host,
LEMMA HostAddedShape ==
    ASSUME NEW d, Shape(d), NEW kind, NEW name, NEW o, NEW e, HostAdded(d, kind, name, o, e)
    PROVE  Shape(e)
  <1>1. kind \in AllKinds
    BY DEF HostAdded, HostLike, AllKinds
  <1>2. IsModel(e) /\ IsCounts(e.counts) /\ Drawn(e.canvas, e.links, e.next)
    BY <1>1, NodeAddedShape DEF HostAdded
  <1>3. Entries(e.hostOpts, e.switchOpts)
    BY HostEntered DEF HostAdded, Entered, Shape
  <1> QED
    BY <1>2, <1>3 DEF Shape

\* a switch,
LEMMA SwitchAddedShape ==
    ASSUME NEW d, Shape(d), NEW kind, NEW name, NEW o, NEW e, SwitchAdded(d, kind, name, o, e)
    PROVE  Shape(e)
  <1>1. kind \in AllKinds
    BY DEF SwitchAdded, SwitchLike, AllKinds
  <1>2. IsModel(e) /\ IsCounts(e.counts) /\ Drawn(e.canvas, e.links, e.next)
    BY <1>1, NodeAddedShape DEF SwitchAdded
  <1>3. Entries(e.hostOpts, e.switchOpts)
    BY SwitchEntered DEF SwitchAdded, Entered, Shape
  <1> QED
    BY <1>2, <1>3 DEF Shape

\* a controller,
LEMMA ControllerAddedShape ==
    ASSUME NEW d, Shape(d), NEW name, NEW type, NEW e, ControllerAdded(d, name, type, e)
    PROVE  Shape(e)
  <1>1. "Controller" \in AllKinds
    BY DEF AllKinds
  <1>2. IsModel(e) /\ IsCounts(e.counts) /\ Drawn(e.canvas, e.links, e.next)
    BY <1>1, NodeAddedShape DEF ControllerAdded
  <1> QED
    BY <1>2 DEF Shape, ControllerAdded

\* a link.
LEMMA LinkAddedShape ==
    ASSUME NEW d, Shape(d), NEW src, NEW dest, NEW type \in {"data", "control"}, NEW opts, NEW e,
           LinkAdded(d, src, dest, type, opts, e)
    PROVE  Shape(e)
  <1>1. PICK l : l = [item |-> d.next, type |-> type, src |-> src, dest |-> dest, opts |-> opts,
                      down |-> FALSE]
    OBVIOUS
  <1>2. Drawn(d.canvas, Append(d.links, l), d.next + 1)
    BY <1>1, LinkDrawn DEF Shape
  <1> QED
    BY <1>1, <1>2 DEF LinkAdded, Shape, SameNodes, SameOpts

\* addLink() adds a link.
LEMMA LinkIsAdded ==
    ASSUME NEW d, Shape(d), NEW src, NEW dest, NEW type, NEW opts, NEW e,
           e = AddLink(d, src, dest, type, opts)
    PROVE  LinkAdded(d, src, dest, type, opts, e)
  BY AddLinkIs DEF Shape, LinkAdded

(* A node, and what of it goes into the options before or after.  *)
LEMMA NodeIsAdded ==
    ASSUME NEW d, IsModel(d), IsCounts(d.counts), NEW kind, NEW name, NEW e,
           e = AddNode(d, kind, name)
    PROVE  NodeAdded(d, kind, name, e) /\ SameOpts(d, e)
  <1>1. PICK c : c = Counted(d, kind)
    OBVIOUS
  <1>2. /\ IsModel(c) /\ SameNodes(d, c) /\ SameLinks(d, c) /\ SameOpts(d, c) /\ c.next = d.next
        /\ IsCounts(c.counts)
        /\ c.counts.host = d.counts.host + (IF kind = "Host" THEN 1 ELSE 0)
    BY <1>1, CountedIs
  <1>3. e = AddNamedNode(c, kind, name)
    BY <1>1 DEF AddNode
  <1>4. /\ IsModel(e) /\ SameLinks(c, e) /\ SameOpts(c, e)
        /\ e.canvas = Append(c.canvas, [item |-> c.next, kind |-> kind, name |-> name])
        /\ e.gone = c.gone /\ e.next = c.next + 1 /\ e.counts = c.counts
    BY <1>2, <1>3, AddNamedNodeIs
  <1> QED
    BY <1>2, <1>4 DEF NodeAdded, SameLinks, SameOpts, SameNodes

\* Options first and node last, or node first and options last.
LEMMA HostThenOpts ==
    ASSUME NEW d, Shape(d), NEW kind \in HostLike, NEW name, NEW o, IsHostEntry(o), NEW e,
           \/ e = SetHostOpts(AddNode(d, kind, name), name, o)
           \/ e = AddNode(SetHostOpts(d, name, o), kind, name)
           \/ e = AddNamedNode(SetHostOpts(Counted(d, kind), name, o), kind, name)
    PROVE  HostAdded(d, kind, name, o, e)
  <1>0. IsModel(d) /\ IsCounts(d.counts)
    BY DEF Shape
  <1>1. CASE e = SetHostOpts(AddNode(d, kind, name), name, o)
    <2>1. PICK a : a = AddNode(d, kind, name)
      OBVIOUS
    <2>2. NodeAdded(d, kind, name, a) /\ SameOpts(d, a)
      BY <1>0, <2>1, NodeIsAdded
    <2>3. IsModel(a) /\ e = SetHostOpts(a, name, o)
      BY <1>1, <2>1, <2>2 DEF NodeAdded
    <2>4. /\ IsModel(e) /\ SameNodes(a, e) /\ SameLinks(a, e) /\ SameItems(a, e)
          /\ e.switchOpts = a.switchOpts /\ e.controllers = a.controllers
          /\ Entered(a.hostOpts, name, o, e.hostOpts)
      BY <2>3, SetHostOptsIs DEF Entered
    <2> QED
      BY <2>2, <2>4 DEF HostAdded, NodeAdded, SameNodes, SameLinks, SameItems, SameOpts
  <1>2. CASE e = AddNode(SetHostOpts(d, name, o), kind, name)
    <2>1. PICK a : a = SetHostOpts(d, name, o)
      OBVIOUS
    <2>2. /\ IsModel(a) /\ SameNodes(d, a) /\ SameLinks(d, a) /\ SameItems(d, a)
          /\ a.switchOpts = d.switchOpts /\ a.controllers = d.controllers
          /\ Entered(d.hostOpts, name, o, a.hostOpts)
      BY <1>0, <2>1, SetHostOptsIs DEF Entered
    <2>3. IsCounts(a.counts) /\ e = AddNode(a, kind, name)
      BY <1>0, <1>2, <2>1, <2>2 DEF SameItems
    <2>4. NodeAdded(a, kind, name, e) /\ SameOpts(a, e)
      BY <2>2, <2>3, NodeIsAdded
    <2> QED
      BY <2>2, <2>4 DEF HostAdded, NodeAdded, SameNodes, SameLinks, SameItems, SameOpts
  <1>3. CASE e = AddNamedNode(SetHostOpts(Counted(d, kind), name, o), kind, name)
    <2>1. PICK c, a : c = Counted(d, kind) /\ a = SetHostOpts(c, name, o)
      OBVIOUS
    <2>2. /\ IsModel(c) /\ SameNodes(d, c) /\ SameLinks(d, c) /\ SameOpts(d, c)
          /\ c.next = d.next /\ IsCounts(c.counts)
          /\ c.counts.host = d.counts.host + (IF kind = "Host" THEN 1 ELSE 0)
      BY <1>0, <2>1, CountedIs
    <2>3. /\ IsModel(a) /\ SameNodes(c, a) /\ SameLinks(c, a) /\ SameItems(c, a)
          /\ a.switchOpts = c.switchOpts /\ a.controllers = c.controllers
          /\ Entered(c.hostOpts, name, o, a.hostOpts)
      BY <2>1, <2>2, SetHostOptsIs DEF Entered
    <2>4. e = AddNamedNode(a, kind, name)
      BY <1>3, <2>1
    <2>5. /\ IsModel(e) /\ SameLinks(a, e) /\ SameOpts(a, e)
          /\ e.canvas = Append(a.canvas, [item |-> a.next, kind |-> kind, name |-> name])
          /\ e.gone = a.gone /\ e.next = a.next + 1 /\ e.counts = a.counts
      BY <2>3, <2>4, AddNamedNodeIs
    <2> QED
      BY <2>2, <2>3, <2>5 DEF HostAdded, NodeAdded, SameNodes, SameLinks, SameItems, SameOpts
  <1> QED
    BY <1>1, <1>2, <1>3

\* A node of a switch and its options, in either order.
LEMMA SwitchThenOpts ==
    ASSUME NEW d, Shape(d), NEW kind \in SwitchLike, NEW name, NEW o, IsSwitchEntry(o), NEW e,
           \/ e = SetSwitchOpts(AddNode(d, kind, name), name, o)
           \/ e = AddNode(SetSwitchOpts(d, name, o), kind, name)
           \/ e = AddNamedNode(SetSwitchOpts(Counted(d, kind), name, o), kind, name)
    PROVE  SwitchAdded(d, kind, name, o, e)
  <1>0. IsModel(d) /\ IsCounts(d.counts)
    BY DEF Shape
  <1>1. CASE e = SetSwitchOpts(AddNode(d, kind, name), name, o)
    <2>1. PICK a : a = AddNode(d, kind, name)
      OBVIOUS
    <2>2. NodeAdded(d, kind, name, a) /\ SameOpts(d, a)
      BY <1>0, <2>1, NodeIsAdded
    <2>3. IsModel(a) /\ e = SetSwitchOpts(a, name, o)
      BY <1>1, <2>1, <2>2 DEF NodeAdded
    <2>4. /\ IsModel(e) /\ SameNodes(a, e) /\ SameLinks(a, e) /\ SameItems(a, e)
          /\ e.hostOpts = a.hostOpts /\ e.controllers = a.controllers
          /\ Entered(a.switchOpts, name, o, e.switchOpts)
      BY <2>3, SetSwitchOptsIs DEF Entered
    <2> QED
      BY <2>2, <2>4 DEF SwitchAdded, NodeAdded, SameNodes, SameLinks, SameItems, SameOpts
  <1>2. CASE e = AddNode(SetSwitchOpts(d, name, o), kind, name)
    <2>1. PICK a : a = SetSwitchOpts(d, name, o)
      OBVIOUS
    <2>2. /\ IsModel(a) /\ SameNodes(d, a) /\ SameLinks(d, a) /\ SameItems(d, a)
          /\ a.hostOpts = d.hostOpts /\ a.controllers = d.controllers
          /\ Entered(d.switchOpts, name, o, a.switchOpts)
      BY <1>0, <2>1, SetSwitchOptsIs DEF Entered
    <2>3. IsCounts(a.counts) /\ e = AddNode(a, kind, name)
      BY <1>0, <1>2, <2>1, <2>2 DEF SameItems
    <2>4. NodeAdded(a, kind, name, e) /\ SameOpts(a, e)
      BY <2>2, <2>3, NodeIsAdded
    <2> QED
      BY <2>2, <2>4 DEF SwitchAdded, NodeAdded, SameNodes, SameLinks, SameItems, SameOpts
  <1>3. CASE e = AddNamedNode(SetSwitchOpts(Counted(d, kind), name, o), kind, name)
    <2>1. PICK c, a : c = Counted(d, kind) /\ a = SetSwitchOpts(c, name, o)
      OBVIOUS
    <2>2. /\ IsModel(c) /\ SameNodes(d, c) /\ SameLinks(d, c) /\ SameOpts(d, c)
          /\ c.next = d.next /\ IsCounts(c.counts)
          /\ c.counts.host = d.counts.host + (IF kind = "Host" THEN 1 ELSE 0)
      BY <1>0, <2>1, CountedIs
    <2>3. /\ IsModel(a) /\ SameNodes(c, a) /\ SameLinks(c, a) /\ SameItems(c, a)
          /\ a.hostOpts = c.hostOpts /\ a.controllers = c.controllers
          /\ Entered(c.switchOpts, name, o, a.switchOpts)
      BY <2>1, <2>2, SetSwitchOptsIs DEF Entered
    <2>4. e = AddNamedNode(a, kind, name)
      BY <1>3, <2>1
    <2>5. /\ IsModel(e) /\ SameLinks(a, e) /\ SameOpts(a, e)
          /\ e.canvas = Append(a.canvas, [item |-> a.next, kind |-> kind, name |-> name])
          /\ e.gone = a.gone /\ e.next = a.next + 1 /\ e.counts = a.counts
      BY <2>3, <2>4, AddNamedNodeIs
    <2> QED
      BY <2>2, <2>3, <2>5 DEF SwitchAdded, NodeAdded, SameNodes, SameLinks, SameItems, SameOpts
  <1> QED
    BY <1>1, <1>2, <1>3

\* The same of a controller.
LEMMA ControllerThenOpts ==
    ASSUME NEW d, Shape(d), NEW name, NEW type, NEW e,
           \/ e = SetController(AddNode(d, "Controller", name), name, type)
           \/ e = AddNamedNode(Counted(SetController(d, name, type), "Controller"),
                               "Controller", name)
    PROVE  ControllerAdded(d, name, type, e)
  <1>0. IsModel(d) /\ IsCounts(d.counts)
    BY DEF Shape
  <1>1. CASE e = SetController(AddNode(d, "Controller", name), name, type)
    <2>1. PICK a : a = AddNode(d, "Controller", name)
      OBVIOUS
    <2>2. NodeAdded(d, "Controller", name, a) /\ SameOpts(d, a)
      BY <1>0, <2>1, NodeIsAdded
    <2>3. IsModel(a) /\ e = SetController(a, name, type)
      BY <1>1, <2>1, <2>2 DEF NodeAdded
    <2>4. /\ IsModel(e) /\ SameNodes(a, e) /\ SameLinks(a, e) /\ SameItems(a, e)
          /\ e.hostOpts = a.hostOpts /\ e.switchOpts = a.switchOpts
          /\ Entered(a.controllers, name, type, e.controllers)
      BY <2>3, SetControllerIs DEF Entered
    <2> QED
      BY <2>2, <2>4 DEF ControllerAdded, NodeAdded, SameNodes, SameLinks, SameItems, SameOpts
  <1>2. CASE e = AddNamedNode(Counted(SetController(d, name, type), "Controller"), "Controller", name)
    <2>1. PICK a : a = SetController(d, name, type)
      OBVIOUS
    <2>2. /\ IsModel(a) /\ SameNodes(d, a) /\ SameLinks(d, a) /\ SameItems(d, a)
          /\ a.hostOpts = d.hostOpts /\ a.switchOpts = d.switchOpts
          /\ Entered(d.controllers, name, type, a.controllers)
      BY <1>0, <2>1, SetControllerIs DEF Entered
    <2>3. IsCounts(a.counts) /\ e = AddNode(a, "Controller", name)
      BY <1>0, <1>2, <2>1, <2>2 DEF SameItems, AddNode
    <2>4. NodeAdded(a, "Controller", name, e) /\ SameOpts(a, e)
      BY <2>2, <2>3, NodeIsAdded
    <2> QED
      BY <2>2, <2>4 DEF ControllerAdded, NodeAdded, SameNodes, SameLinks, SameItems, SameOpts
  <1> QED
    BY <1>1, <1>2

(* The options of a node fit its kind.  *)
FitsHost(kind, name, o) ==
    /\ o.docker <=> kind = "Docker"
    /\ o.hostname \in {NoName, name}
FitsSwitch(kind, name, o) ==
    /\ o.hostname \in {NoName, name}
    /\ o.type = "legacySwitch" <=> kind = "LegacySwitch"
    /\ o.type = "legacyRouter" <=> kind = "LegacyRouter"

(* What a tool adds.  *)
LEMMA NewSwitchIs ==
    ASSUME NEW d, Shape(d), NEW kind \in SwitchLike, NEW e, e = NewNode(d, kind)
    PROVE  \E name, o : /\ SwitchAdded(d, kind, name, o, e) /\ FitsSwitch(kind, name, o)
                        /\ o.controllers = IF kind = "LegacyRouter" THEN NoList ELSE <<>>
  <1>1. PICK c : c = Counted(d, kind)
    OBVIOUS
  <1>2. PICK name, type, list :
           /\ name = <<Prefix(kind), c.counts.switch>>
           /\ type = CASE kind = "Switch" -> "default" [] kind = "LegacySwitch" -> "legacySwitch"
                       [] OTHER -> "legacyRouter"
           /\ list = IF kind = "LegacyRouter" THEN NoList ELSE <<>>
    OBVIOUS
  <1>3. PICK o : o = SwitchOpts(type, c.counts.switch, name, list, {})
    OBVIOUS
  <1>4. e = AddNamedNode(SetSwitchOpts(Counted(d, kind), name, o), kind, name)
    BY <1>1, <1>2, <1>3 DEF NewNode, NewSwitch
  <1>5. /\ o = [num |-> o.num, hostname |-> o.hostname, type |-> o.type,
                controllers |-> o.controllers, extra |-> o.extra]
        /\ o.controllers = list /\ o.type = type /\ o.hostname = name
    BY <1>3 DEF SwitchOpts
  <1>6. list = NoList \/ IsSeq(list)
    BY <1>2, NothingIsSeq
  <1>7. IsSwitchEntry(o)
    BY <1>5, <1>6 DEF IsSwitchEntry
  <1>8. SwitchAdded(d, kind, name, o, e)
    BY <1>4, <1>7, SwitchThenOpts
  <1>9. FitsSwitch(kind, name, o)
    BY <1>2, <1>5 DEF FitsSwitch, SwitchLike
  <1> QED
    BY <1>2, <1>5, <1>8, <1>9

\* The tool for hosts adds a host.
LEMMA NewHostIs ==
    ASSUME NEW d, Shape(d), NEW kind \in HostLike, NEW e, e = NewNode(d, kind)
    PROVE  \E name, o : /\ HostAdded(d, kind, name, o, e) /\ FitsHost(kind, name, o)
                        /\ o.num = e.counts.host /\ o.extra = {}
  <1>0. kind \notin SwitchLike
    BY DEF SwitchLike, HostLike
  <1>1. PICK c : c = Counted(d, kind)
    OBVIOUS
  <1>2. PICK name : name = <<Prefix(kind), c.counts[Counter(kind)]>>
    OBVIOUS
  <1>3. PICK o : o = HostOpts(kind, c.counts.host, name, {})
    OBVIOUS
  <1>4. e = AddNamedNode(SetHostOpts(Counted(d, kind), name, o), kind, name)
    BY <1>0, <1>1, <1>2, <1>3 DEF NewNode, NewHost
  <1>5. /\ o = [num |-> o.num, hostname |-> o.hostname, docker |-> o.docker, extra |-> o.extra]
        /\ o.num = c.counts.host /\ o.docker = (kind = "Docker") /\ o.hostname = name
        /\ o.extra = {}
    BY <1>3 DEF HostOpts
  <1>6. IsHostEntry(o)
    BY <1>5 DEF IsHostEntry
  <1>7. HostAdded(d, kind, name, o, e)
    BY <1>4, <1>6, HostThenOpts
  <1>8. e.counts.host = c.counts.host
    <2>1. c.counts.host = d.counts.host + (IF kind = "Host" THEN 1 ELSE 0)
      BY <1>1, CountedIs DEF Shape
    <2> QED
      BY <1>7, <2>1 DEF HostAdded, NodeAdded
  <1> QED
    BY <1>5, <1>7, <1>8 DEF FitsHost

\* The tool for controllers adds a controller.
LEMMA NewControllerIs ==
    ASSUME NEW d, Shape(d), NEW e, e = NewNode(d, "Controller")
    PROVE  \E name : ControllerAdded(d, name, "ref", e)
  <1>1. PICK name : name = <<Prefix("Controller"), d.counts.controller>>
    OBVIOUS
  <1>2. e = AddNamedNode(Counted(SetController(d, name, "ref"), "Controller"), "Controller", name)
    BY <1>1 DEF NewNode, NewController, SwitchLike, HostLike
  <1>3. ControllerAdded(d, name, "ref", e)
    BY <1>2, ControllerThenOpts
  <1> QED
    BY <1>3

\* Tools keep the shape.
LEMMA NewNodeShape ==
    ASSUME NEW d, Shape(d), NEW kind \in AllKinds, NEW e, e = NewNode(d, kind)
    PROVE  Shape(e)
  <1>1. CASE kind \in SwitchLike
    BY <1>1, NewSwitchIs, SwitchAddedShape
  <1>2. CASE kind \in HostLike
    BY <1>2, NewHostIs, HostAddedShape
  <1>3. CASE kind = "Controller"
    BY <1>3, NewControllerIs, ControllerAddedShape
  <1> QED
    BY <1>1, <1>2, <1>3 DEF AllKinds, SwitchLike, HostLike

(* What a file or a topology adds.  *)
LEMMA LoadControllerIs ==
    ASSUME NEW d, Shape(d), NEW c, NEW r, r = LoadController(d, c)
    PROVE  r.ok /\ ControllerAdded(d, c.hostname, c.type, r.m)
  <1>1. r.ok /\ r.m = SetController(AddNode(d, "Controller", c.hostname), c.hostname, c.type)
    BY DEF LoadController, Ok
  <1> QED
    BY <1>1, ControllerThenOpts

\* importTopo() adds controllers.
LEMMA ImportControllerIs ==
    ASSUME NEW d, Shape(d), NEW name, NEW r, r = ImportController(d, name)
    PROVE  r.ok /\ ControllerAdded(d, name, "ref", r.m)
  <1>1. r.ok /\ r.m = SetController(AddNode(d, "Controller", name), name, "ref")
    BY DEF ImportController, Ok
  <1> QED
    BY <1>1, ControllerThenOpts

LoadedName(letter, o) == IF o.hostname = NoName THEN <<letter, o.num>> ELSE o.hostname

\* loadTopology() adds hosts.
LEMMA LoadHostIs ==
    ASSUME NEW d, Shape(d), NEW o, IsHostEntry(o), NEW r, r = LoadHost(d, o)
    PROVE  r.ok /\ \E kind, p : /\ HostAdded(d, kind, LoadedName("h", o), p, r.m)
                                /\ p = [o EXCEPT !.hostname = LoadedName("h", o)]
                                /\ kind = IF o.docker THEN "Docker" ELSE "Host"
                                /\ FitsHost(kind, LoadedName("h", o), p)
  <1>1. PICK name, kind : /\ name = LoadedName("h", o)
                          /\ kind = IF o.docker THEN "Docker" ELSE "Host"
    OBVIOUS
  <1>2. PICK p : p = [o EXCEPT !.hostname = name]
    OBVIOUS
  <1>3. r.ok /\ r.m = SetHostOpts(AddNode(d, kind, name), name, p)
    BY <1>1, <1>2 DEF LoadHost, Ok, LoadedName
  <1>4. IsHostEntry(p) /\ p.docker = o.docker /\ p.hostname = name
    BY <1>2 DEF IsHostEntry
  <1>5. kind \in HostLike
    BY <1>1 DEF HostLike
  <1>6. HostAdded(d, kind, name, p, r.m)
    BY <1>3, <1>4, <1>5, HostThenOpts
  <1>7. FitsHost(kind, LoadedName("h", o), p)
    BY <1>1, <1>4 DEF FitsHost
  <1> QED
    BY <1>1, <1>2, <1>3, <1>6, <1>7

\* importTopo() adds hosts.
LEMMA ImportHostIs ==
    ASSUME NEW d, Shape(d), NEW name, NEW r, r = ImportHost(d, name)
    PROVE  r.ok /\ \E o : /\ HostAdded(d, "Host", name, o, r.m)
                          /\ FitsHost("Host", name, o) /\ o.num = d.counts.host
                          /\ o.extra = {"imported"}
  <1>1. PICK o : o = HostOpts("Host", d.counts.host, name, {"imported"})
    OBVIOUS
  <1>2. r.ok /\ r.m = AddNode(SetHostOpts(d, name, o), "Host", name)
    BY <1>1 DEF ImportHost, Ok
  <1>3. /\ o = [num |-> o.num, hostname |-> o.hostname, docker |-> o.docker, extra |-> o.extra]
        /\ o.num = d.counts.host /\ o.docker = FALSE /\ o.hostname = name /\ o.extra = {"imported"}
    BY <1>1 DEF HostOpts
  <1>4. IsHostEntry(o) /\ "Host" \in HostLike
    BY <1>3 DEF IsHostEntry, HostLike
  <1>5. HostAdded(d, "Host", name, o, r.m)
    BY <1>2, <1>4, HostThenOpts
  <1> QED
    BY <1>2, <1>3, <1>5 DEF FitsHost

(* A link by names joins two nodes of those names.  *)
LEMMA FindWidgetByNameIs ==
    ASSUME NEW d, Shape(d), NEW name, NEW item, item = FindWidgetByName(d, name)
    PROVE  /\ item = NoItem => name \notin NodeNames(d)
           /\ item # NoItem => \E w \in Nodes(d) : w.item = item /\ w.name = name
  <1>1. PICK like : like = {k \in DOMAIN d.canvas : d.canvas[k].name = name}
    OBVIOUS
  <1>2. item = IF like = {} THEN NoItem ELSE d.canvas[Min(like)].item
    BY <1>1 DEF FindWidgetByName
  <1>3. CASE like = {}
    <2>1. name \notin NodeNames(d)
      BY <1>1, <1>3 DEF NodeNames, Nodes, ToSet
    <2> QED
      BY <1>2, <1>3, <2>1
  <1>4. CASE like # {}
    <2>1. like \in SUBSET Nat
      BY <1>1, SeqIs DEF Shape, Drawn
    <2>2. Min(like) \in like
      BY <1>4, <2>1, LeastIsOne
    <2>3. PICK k : k = Min(like) /\ k \in DOMAIN d.canvas /\ d.canvas[k].name = name
      BY <1>1, <2>2
    <2>4. d.canvas[k] \in Nodes(d) /\ item = d.canvas[k].item
      BY <1>2, <1>4, <2>3 DEF Nodes, ToSet
    <2>5. item # NoItem
      BY <2>4 DEF Shape, Drawn, IsNode, NoItem, Nodes
    <2> QED
      BY <2>3, <2>4, <2>5
  <1> QED
    BY <1>3, <1>4

\* A link by name is a link between the first nodes of these names.
LEMMA LinkByNameIs ==
    ASSUME NEW d, Shape(d), NEW a, NEW b, NEW type \in {"data", "control"}, NEW opts,
           NEW r, r = LinkByName(d, a, b, type, opts)
    PROVE  /\ Shape(r.m)
           /\ ~r.ok => r.m = d /\ {a, b} \cap NodeNames(d) # {a, b}
           /\ r.ok => \E v, w \in Nodes(d) :
                         /\ v.name = a /\ w.name = b
                         /\ LinkAdded(d, v.item, w.item, type, opts, r.m)
  <1>1. PICK src, dest : src = FindWidgetByName(d, a) /\ dest = FindWidgetByName(d, b)
    OBVIOUS
  <1>2. r = IF NoItem \in {src, dest} THEN Raise(d) ELSE Ok(AddLink(d, src, dest, type, opts))
    BY <1>1 DEF LinkByName
  <1>3. CASE NoItem \in {src, dest}
    <2>1. ~r.ok /\ r.m = d
      BY <1>2, <1>3 DEF Raise
    <2>2. a \notin NodeNames(d) \/ b \notin NodeNames(d)
      BY <1>1, <1>3, FindWidgetByNameIs
    <2> QED
      BY <2>1, <2>2
  <1>4. CASE NoItem \notin {src, dest}
    <2>1. r.ok /\ r.m = AddLink(d, src, dest, type, opts)
      BY <1>2, <1>4 DEF Ok
    <2>2. PICK v \in Nodes(d) : v.item = src /\ v.name = a
      BY <1>1, <1>4, FindWidgetByNameIs
    <2>3. PICK w \in Nodes(d) : w.item = dest /\ w.name = b
      BY <1>1, <1>4, FindWidgetByNameIs
    <2>4. LinkAdded(d, v.item, w.item, type, opts, r.m)
      BY <2>1, <2>2, <2>3, LinkIsAdded
    <2>5. Shape(r.m)
      BY <2>4, LinkAddedShape
    <2> QED
      BY <2>1, <2>2, <2>3, <2>4, <2>5
  <1> QED
    BY <1>3, <1>4

(***************************************************************************)
(* The loops keep the shape.                                               *)
(***************************************************************************)
LEMMA LoopShape ==
    ASSUME NEW after, NEW op, NEW x, NEW r, NEW s, NEW N \in Nat, NEW end,
           Runs(after, op, x, r, s, N, end), Shape(r.m),
           \A k \in 1..N : \A d : Shape(d) => Shape(Step(op, x, d, s[k]).m)
    PROVE  Shape(end.m)
  <1> DEFINE T == {k \in 0..N : Shape(after[k].m)}
  <1>1. 0 \in T
    BY DEF Runs
  <1>2. ASSUME NEW n \in Nat, n < N, n \in T PROVE n + 1 \in T
    <2>1. n + 1 \in 1..N /\ (n + 1) - 1 = n
      BY <1>2
    <2>2. PICK a, b : a = after[n] /\ b = after[n + 1]
      OBVIOUS
    <2>3. b = IF a.ok THEN Step(op, x, a.m, s[n + 1]) ELSE a
      BY <2>1, <2>2 DEF Runs
    <2>4. Shape(a.m)
      BY <1>2, <2>2
    <2>5. Shape(Step(op, x, a.m, s[n + 1]).m)
      BY <2>1, <2>4
    <2>6. Shape(b.m)
      BY <2>3, <2>4, <2>5
    <2>7. n + 1 \in 0..N
      BY <2>1
    <2> QED
      BY <2>2, <2>6, <2>7
  <1>3. \A n \in 0..N : n \in T
    <2> HIDE DEF T
    <2> QED
      BY <1>1, <1>2, UpTo
  <1>4. N \in T
    BY <1>3
  <1> QED
    BY <1>4 DEF Runs

(* A file as the program can read it.  *)
IsFile(f) ==
    /\ IsSeq(f.controllers) /\ IsSeq(f.hosts) /\ IsSeq(f.switches) /\ IsSeq(f.links)
    /\ \A k \in DOMAIN f.hosts : IsHostEntry(f.hosts[k])
    /\ \A k \in DOMAIN f.switches : IsSwitchEntry(f.switches[k])

\* The loops of loadTopology() keep the shape: controllers,
LEMMA LoadControllersShape ==
    ASSUME NEW q, Shape(q.m), NEW s, IsSeq(s), NEW r, r = LoadControllers(q, s)
    PROVE  Shape(r.m)
  <1>1. PICK N \in Nat : Len(s) = N
    BY SeqIs
  <1>2. PICK after : Runs(after, "loadController", NoName, q, s, N, r)
    BY <1>1, LoadControllersRuns
  <1>3. ASSUME NEW k \in 1..N, NEW d, Shape(d)
        PROVE  Shape(Step("loadController", NoName, d, s[k]).m)
    <2>1. PICK z : z = LoadController(d, s[k])
      OBVIOUS
    <2>2. Shape(z.m)
      BY <1>3, <2>1, LoadControllerIs, ControllerAddedShape
    <2> QED
      BY <2>1, <2>2 DEF Step
  <1> QED
    BY <1>2, <1>3, LoopShape

\* hosts,
LEMMA LoadHostsShape ==
    ASSUME NEW q, Shape(q.m), NEW s, IsSeq(s),
           \A k \in DOMAIN s : IsHostEntry(s[k]),
           NEW r, r = LoadHosts(q, s)
    PROVE  Shape(r.m)
  <1>1. PICK N \in Nat : Len(s) = N /\ DOMAIN s = 1..N
    BY SeqIs
  <1>2. PICK after : Runs(after, "loadHost", NoName, q, s, N, r)
    BY <1>1, LoadHostsRuns
  <1>3. ASSUME NEW k \in 1..N, NEW d, Shape(d)
        PROVE  Shape(Step("loadHost", NoName, d, s[k]).m)
    <2>1. PICK o, z : o = s[k] /\ z = LoadHost(d, o)
      OBVIOUS
    <2>2. IsHostEntry(o)
      BY <1>1, <2>1
    <2>3. \E kind, name, p : HostAdded(d, kind, name, p, z.m)
      BY <1>3, <2>1, <2>2, LoadHostIs
    <2>4. Shape(z.m)
      BY <1>3, <2>3, HostAddedShape
    <2> QED
      BY <2>1, <2>4 DEF Step
  <1> QED
    BY <1>2, <1>3, LoopShape

\* the links of a switch,
LEMMA LinkControllersShape ==
    ASSUME NEW q, Shape(q.m), NEW name, NEW s, IsSeq(s), NEW r, r = LinkControllers(q, name, s)
    PROVE  Shape(r.m)
  <1>1. PICK N \in Nat : Len(s) = N
    BY SeqIs
  <1>2. PICK after : Runs(after, "linkController", name, q, s, N, r)
    BY <1>1, LinkControllersRuns
  <1>3. ASSUME NEW k \in 1..N, NEW d, Shape(d)
        PROVE  Shape(Step("linkController", name, d, s[k]).m)
    <2>1. PICK z : z = LinkByName(d, name, s[k], "control", {})
      OBVIOUS
    <2>2. Shape(z.m)
      BY <1>3, <2>1, LinkByNameIs
    <2> QED
      BY <2>1, <2>2 DEF Step
  <1> QED
    BY <1>2, <1>3, LoopShape

(* A switch comes with its list, and is linked to the controllers of it; in an old
   file to the one there is.  *)
LoadedKind(o) == CASE o.type = "legacySwitch" -> "LegacySwitch"
                   [] o.type = "legacyRouter" -> "LegacyRouter"
                   [] OTHER -> "Switch"
LoadedList(o) == IF o.controllers = NoList THEN <<>> ELSE o.controllers

SwitchLoaded(d, o, version, r, p, e) ==
    /\ SwitchAdded(d, LoadedKind(o), LoadedName("s", o), p, e)
    /\ FitsSwitch(LoadedKind(o), LoadedName("s", o), p) /\ IsSeq(LoadedList(o))
    /\ p = [o EXCEPT !.hostname = LoadedName("s", o), !.controllers = LoadedList(o)]
    /\ r = LinkControllers(Ok(e), LoadedName("s", o),
                           IF version > 1 THEN LoadedList(o) ELSE <<<<"c", 0>>>>)

\* A switch that is read,
LEMMA LoadSwitchIs ==
    ASSUME NEW d, Shape(d), NEW o, IsSwitchEntry(o), NEW version, NEW r, r = LoadSwitch(d, o, version)
    PROVE  \E p, e : SwitchLoaded(d, o, version, r, p, e)
  <1>1. PICK name, kind, list : name = LoadedName("s", o) /\ kind = LoadedKind(o) /\ list = LoadedList(o)
    OBVIOUS
  <1>2. PICK p : p = [o EXCEPT !.hostname = name, !.controllers = list]
    OBVIOUS
  <1>3. PICK e : e = SetSwitchOpts(AddNode(d, kind, name), name, p)
    OBVIOUS
  <1>4. r = LinkControllers(Ok(e), name, IF version > 1 THEN list ELSE <<<<"c", 0>>>>)
    BY <1>1, <1>2, <1>3 DEF LoadSwitch, LoadedName, LoadedKind, LoadedList
  <1>5. IsSeq(list)
    BY <1>1, NothingIsSeq DEF LoadedList, IsSwitchEntry
  <1>6. IsSwitchEntry(p) /\ p.type = o.type /\ p.hostname = name
    BY <1>2, <1>5 DEF IsSwitchEntry
  <1>7. kind \in SwitchLike
    BY <1>1 DEF LoadedKind, SwitchLike
  <1>8. SwitchAdded(d, kind, name, p, e)
    BY <1>3, <1>6, <1>7, SwitchThenOpts
  <1>9. FitsSwitch(kind, name, p)
    BY <1>1, <1>6 DEF FitsSwitch, LoadedKind
  <1>10. SwitchLoaded(d, o, version, r, p, e)
    BY <1>1, <1>2, <1>4, <1>5, <1>8, <1>9 DEF SwitchLoaded
  <1> QED
    BY <1>10

\* (files of the first version know one controller)
LEMMA OldControllersSeq ==
    ASSUME NEW s, s = <<<<"c", 0>>>>
    PROVE  IsSeq(s) /\ Len(s) = 1 /\ s[1] = <<"c", 0>>
  <1>1. PICK c : c = <<"c", 0>>
    OBVIOUS
  <1>2. s = <<c>>
    BY <1>1
  <1>3. s = [i \in 1..1 |-> s[i]] /\ Len(s) = 1 /\ s[1] = c
    BY <1>2
  <1>4. IsSeq(s)
    BY <1>3 DEF IsSeq
  <1> QED
    BY <1>1, <1>3, <1>4

\* keeps the shape,
LEMMA LoadSwitchShape ==
    ASSUME NEW d, Shape(d), NEW o, IsSwitchEntry(o), NEW version, NEW r, r = LoadSwitch(d, o, version)
    PROVE  Shape(r.m)
  <1>0. PICK p, e : SwitchLoaded(d, o, version, r, p, e)
    BY LoadSwitchIs
  <1>1. /\ SwitchAdded(d, LoadedKind(o), LoadedName("s", o), p, e)
        /\ IsSeq(LoadedList(o))
        /\ r = LinkControllers(Ok(e), LoadedName("s", o),
                               IF version > 1 THEN LoadedList(o) ELSE <<<<"c", 0>>>>)
    BY <1>0 DEF SwitchLoaded
  <1>2. PICK s : s = IF version > 1 THEN LoadedList(o) ELSE <<<<"c", 0>>>>
    OBVIOUS
  <1>3. IsSeq(s)
    BY <1>1, <1>2, OldControllersSeq
  <1>4. PICK q : q = Ok(e)
    OBVIOUS
  <1>5. Shape(q.m)
    BY <1>1, <1>4, SwitchAddedShape DEF Ok
  <1>6. r = LinkControllers(q, LoadedName("s", o), s)
    BY <1>1, <1>2, <1>4
  <1> QED
    BY <1>3, <1>5, <1>6, LinkControllersShape

\* and so do all,
LEMMA LoadSwitchesShape ==
    ASSUME NEW q, Shape(q.m), NEW s, IsSeq(s), \A k \in DOMAIN s : IsSwitchEntry(s[k]),
           NEW version, NEW r, r = LoadSwitches(q, s, version)
    PROVE  Shape(r.m)
  <1>1. PICK N \in Nat : Len(s) = N /\ DOMAIN s = 1..N
    BY SeqIs
  <1>2. PICK after : Runs(after, "loadSwitch", version, q, s, N, r)
    BY <1>1, LoadSwitchesRuns
  <1>3. ASSUME NEW k \in 1..N, NEW d, Shape(d)
        PROVE  Shape(Step("loadSwitch", version, d, s[k]).m)
    <2>1. PICK o, z : o = s[k] /\ z = LoadSwitch(d, o, version)
      OBVIOUS
    <2>2. Shape(z.m)
      BY <1>1, <1>3, <2>1, LoadSwitchShape
    <2> QED
      BY <2>1, <2>2 DEF Step
  <1> QED
    BY <1>2, <1>3, LoopShape

\* and the links,
LEMMA LoadLinksShape ==
    ASSUME NEW q, Shape(q.m), NEW s, IsSeq(s), NEW r, r = LoadLinks(q, s)
    PROVE  Shape(r.m)
  <1>1. PICK N \in Nat : Len(s) = N
    BY SeqIs
  <1>2. PICK after : Runs(after, "loadLink", NoName, q, s, N, r)
    BY <1>1, LoadLinksRuns
  <1>3. ASSUME NEW k \in 1..N, NEW d, Shape(d)
        PROVE  Shape(Step("loadLink", NoName, d, s[k]).m)
    <2>1. PICK l, z : l = s[k] /\ z = LinkByName(d, l.src, l.dest, "data", l.opts)
      OBVIOUS
    <2>2. Shape(z.m)
      BY <1>3, <2>1, LinkByNameIs
    <2> QED
      BY <2>1, <2>2 DEF Step, LoadLink
  <1> QED
    BY <1>2, <1>3, LoopShape

\* and the whole file.
LEMMA LoadedShape ==
    ASSUME NEW d, Shape(d), NEW t, NEW f, IsFile(f), NEW r, r = Loaded(d, t, f)
    PROVE  Shape(r.m)
  <1>1. PICK n : n = NewTopology(d, t)
    OBVIOUS
  <1>2. PICK c : c = LoadControllers(n, f.controllers)
    OBVIOUS
  <1>3. PICK h : h = LoadHosts(c, f.hosts)
    OBVIOUS
  <1>4. PICK s : s = LoadSwitches(h, f.switches, f.version)
    OBVIOUS
  <1>5. r = LoadLinks(s, f.links)
    BY <1>1, <1>2, <1>3, <1>4 DEF Loaded
  <1>6. Shape(n.m)
    BY <1>1, NewTopologyShape
  <1>7. Shape(c.m)
    BY <1>2, <1>6, LoadControllersShape DEF IsFile
  <1>8. Shape(h.m)
    BY <1>3, <1>7, LoadHostsShape DEF IsFile
  <1>9. Shape(s.m)
    BY <1>4, <1>8, LoadSwitchesShape DEF IsFile
  <1> QED
    BY <1>5, <1>9, LoadLinksShape DEF IsFile

(* importTopo().  *)
LEMMA ImportControllersShape ==
    ASSUME NEW q, Shape(q.m), NEW s, IsSeq(s), NEW r, r = ImportControllers(q, s)
    PROVE  Shape(r.m)
  <1>1. PICK N \in Nat : Len(s) = N
    BY SeqIs
  <1>2. PICK after : Runs(after, "importController", NoName, q, s, N, r)
    BY <1>1, ImportControllersRuns
  <1>3. ASSUME NEW k \in 1..N, NEW d, Shape(d)
        PROVE  Shape(Step("importController", NoName, d, s[k]).m)
    <2>1. PICK z : z = ImportController(d, s[k])
      OBVIOUS
    <2>2. Shape(z.m)
      BY <1>3, <2>1, ImportControllerIs, ControllerAddedShape
    <2> QED
      BY <2>1, <2>2 DEF Step
  <1> QED
    BY <1>2, <1>3, LoopShape

\* The loops of importTopo() keep the shape: hosts,
LEMMA ImportHostsShape ==
    ASSUME NEW q, Shape(q.m), NEW s, IsSeq(s), NEW r, r = ImportHosts(q, s)
    PROVE  Shape(r.m)
  <1>1. PICK N \in Nat : Len(s) = N
    BY SeqIs
  <1>2. PICK after : Runs(after, "importHost", NoName, q, s, N, r)
    BY <1>1, ImportHostsRuns
  <1>3. ASSUME NEW k \in 1..N, NEW d, Shape(d)
        PROVE  Shape(Step("importHost", NoName, d, s[k]).m)
    <2>1. PICK name, z : name = s[k] /\ z = ImportHost(d, name)
      OBVIOUS
    <2>2. \E o : HostAdded(d, "Host", name, o, z.m)
      BY <1>3, <2>1, ImportHostIs
    <2>3. Shape(z.m)
      BY <1>3, <2>2, HostAddedShape
    <2> QED
      BY <2>1, <2>3 DEF Step
  <1> QED
    BY <1>2, <1>3, LoopShape

\* and links.
LEMMA ImportLinksShape ==
    ASSUME NEW q, Shape(q.m), NEW s, IsSeq(s), NEW r, r = ImportLinks(q, s)
    PROVE  Shape(r.m)
  <1>1. PICK N \in Nat : Len(s) = N
    BY SeqIs
  <1>2. PICK after : Runs(after, "importLink", NoName, q, s, N, r)
    BY <1>1, ImportLinksRuns
  <1>3. ASSUME NEW k \in 1..N, NEW d, Shape(d)
        PROVE  Shape(Step("importLink", NoName, d, s[k]).m)
    <2>1. PICK l, z : l = s[k] /\ z = LinkByName(d, l[1], l[2], "data", {"ends"})
      OBVIOUS
    <2>2. Shape(z.m)
      BY <1>3, <2>1, LinkByNameIs
    <2> QED
      BY <2>1, <2>2 DEF Step, ImportLink
  <1> QED
    BY <1>2, <1>3, LoopShape

\* A link by name changes no options.
LEMMA LinkByNameOpts ==
    ASSUME NEW d, Shape(d), NEW a, NEW b, NEW type \in {"data", "control"}, NEW opts,
           NEW r, r = LinkByName(d, a, b, type, opts)
    PROVE  SameNodes(d, r.m) /\ SameOpts(d, r.m) /\ r.m.counts = d.counts
  <1>1. CASE ~r.ok
    <2>1. r.m = d
      BY <1>1, LinkByNameIs
    <2> QED
      BY <2>1 DEF SameNodes, SameOpts
  <1>2. CASE r.ok
    <2>1. PICK v \in Nodes(d), w \in Nodes(d) : LinkAdded(d, v.item, w.item, type, opts, r.m)
      BY <1>2, LinkByNameIs
    <2> QED
      BY <2>1 DEF LinkAdded
  <1> QED
    BY <1>1, <1>2

ControlImported(d, name, c, r, e) ==
    /\ Shape(e) /\ Relisted(d, name, Append(d.switchOpts[name].controllers, c), e)
    /\ r = LinkByName(e, name, c, "control", {})
    /\ Shape(r.m) /\ SameNodes(e, r.m) /\ SameOpts(e, r.m) /\ r.m.counts = e.counts
    /\ HasList(r.m, name)

\* A controller is entered in a list and linked.
LEMMA ImportControlIs ==
    ASSUME NEW d, Shape(d), NEW name, HasList(d, name), NEW c, NEW r, r = ImportControl(d, name, c)
    PROVE  \E e : ControlImported(d, name, c, r, e)
  <1>1. PICK old, list : old = d.switchOpts[name].controllers /\ list = Append(old, c)
    OBVIOUS
  <1>2. PICK e : e = WithList(d, name, list)
    OBVIOUS
  <1>3. r = LinkByName(e, name, c, "control", {})
    BY <1>1, <1>2 DEF ImportControl
  <1>4. IsSeq(list)
    <2>1. IsSeq(old)
      BY <1>1 DEF HasList, Shape, Entries, IsSwitchEntry
    <2> QED
      BY <1>1, <2>1, AppendedSeq
  <1>5. Relisted(d, name, list, e)
    BY <1>2, WithListIs DEF Shape
  <1>6. /\ Shape(e) /\ name \in DOMAIN e.switchOpts /\ e.switchOpts[name].controllers = list
    <2>1. /\ Shape(e)
          /\ \A n \in DOMAIN d.switchOpts :
                e.switchOpts[n].controllers = IF n = name THEN list ELSE d.switchOpts[n].controllers
      BY <1>4, <1>5, RelistedShape
    <2>2. name \in DOMAIN d.switchOpts
      BY DEF HasList
    <2> QED
      BY <1>5, <2>1, <2>2 DEF Relisted
  <1>7. Shape(r.m) /\ SameNodes(e, r.m) /\ SameOpts(e, r.m) /\ r.m.counts = e.counts
    BY <1>3, <1>6, LinkByNameIs, LinkByNameOpts
  <1>8. HasList(r.m, name)
    BY <1>4, <1>6, <1>7, NoListIsNoSeq DEF HasList, SameOpts
  <1> QED
    BY <1>1, <1>3, <1>5, <1>6, <1>7, <1>8 DEF ControlImported

\* So are all.
LEMMA ImportControlsShape ==
    ASSUME NEW q, Shape(q.m), NEW name, HasList(q.m, name), NEW s, IsSeq(s),
           NEW r, r = ImportControls(q, name, s)
    PROVE  Shape(r.m)
  <1>1. PICK N \in Nat : Len(s) = N
    BY SeqIs
  <1>2. PICK after : Runs(after, "importControl", name, q, s, N, r)
    BY <1>1, ImportControlsRuns
  <1> DEFINE Fine(e) == Shape(e) /\ HasList(e, name)
             T == {k \in 0..N : Fine(after[k].m)}
  <1>3. 0 \in T
    BY <1>2 DEF Runs
  <1>4. ASSUME NEW n \in Nat, n < N, n \in T PROVE n + 1 \in T
    <2>1. n + 1 \in 1..N /\ (n + 1) - 1 = n
      BY <1>4
    <2>2. PICK x, y, c : x = after[n] /\ y = after[n + 1] /\ c = s[n + 1]
      OBVIOUS
    <2>3. y = IF x.ok THEN ImportControl(x.m, name, c) ELSE x
      BY <1>2, <2>1, <2>2 DEF Runs, Step
    <2>4. Fine(x.m)
      BY <1>4, <2>2
    <2>5. Fine(y.m)
      <3>1. CASE ~x.ok
        BY <2>3, <2>4, <3>1
      <3>2. CASE x.ok
        <4>1. PICK e : ControlImported(x.m, name, c, y, e)
          BY <2>3, <2>4, <3>2, ImportControlIs
        <4> QED
          BY <4>1 DEF ControlImported
      <3> QED
        BY <3>1, <3>2
    <2>6. n + 1 \in 0..N /\ Fine(after[n + 1].m)
      BY <2>1, <2>2, <2>5
    <2> HIDE DEF Fine
    <2> QED
      BY <2>6
  <1>5. \A n \in 0..N : n \in T
    <2> HIDE DEF T
    <2> QED
      BY <1>3, <1>4, UpTo
  <1>6. N \in T
    BY <1>5
  <1> QED
    BY <1>2, <1>6 DEF Runs

SwitchImported(d, name, controllers, r, o, e) ==
    /\ SwitchAdded(d, "Switch", name, o, e) /\ FitsSwitch("Switch", name, o)
    /\ o.controllers = <<>> /\ o.hostname = name /\ HasList(e, name)
    /\ r = ImportControls(Ok(e), name, controllers)

\* A switch that is imported.
LEMMA ImportSwitchIs ==
    ASSUME NEW d, Shape(d), NEW name, NEW controllers, NEW r, r = ImportSwitch(d, name, controllers)
    PROVE  \E o, e : SwitchImported(d, name, controllers, r, o, e)
  <1>1. PICK o : o = SwitchOpts("default", d.counts.switch, name, <<>>, {})
    OBVIOUS
  <1>2. PICK e : e = AddNode(SetSwitchOpts(d, name, o), "Switch", name)
    OBVIOUS
  <1>3. r = ImportControls(Ok(e), name, controllers)
    BY <1>1, <1>2 DEF ImportSwitch
  <1>4. /\ o = [num |-> o.num, hostname |-> o.hostname, type |-> o.type,
                controllers |-> o.controllers, extra |-> o.extra]
        /\ o.controllers = <<>> /\ o.hostname = name /\ o.type = "default"
    BY <1>1 DEF SwitchOpts
  <1>5. IsSwitchEntry(o) /\ "Switch" \in SwitchLike
    BY <1>4, NothingIsSeq DEF IsSwitchEntry, SwitchLike
  <1>6. SwitchAdded(d, "Switch", name, o, e)
    BY <1>2, <1>5, SwitchThenOpts
  <1>7. FitsSwitch("Switch", name, o)
    BY <1>4 DEF FitsSwitch
  <1>8. HasList(e, name)
    BY <1>4, <1>6, NoListIsNoSeq, NothingIsSeq DEF HasList, SwitchAdded, Entered
  <1> QED
    BY <1>3, <1>4, <1>6, <1>7, <1>8 DEF SwitchImported

\* All switches are.
LEMMA ImportSwitchesShape ==
    ASSUME NEW q, Shape(q.m), NEW s, IsSeq(s), NEW controllers, IsSeq(controllers),
           NEW r, r = ImportSwitches(q, s, controllers)
    PROVE  Shape(r.m)
  <1>1. PICK N \in Nat : Len(s) = N
    BY SeqIs
  <1>2. PICK after : Runs(after, "importSwitch", controllers, q, s, N, r)
    BY <1>1, ImportSwitchesRuns
  <1>3. ASSUME NEW k \in 1..N, NEW d, Shape(d)
        PROVE  Shape(Step("importSwitch", controllers, d, s[k]).m)
    <2>1. PICK name, z : name = s[k] /\ z = ImportSwitch(d, name, controllers)
      OBVIOUS
    <2>2. PICK o, e : SwitchImported(d, name, controllers, z, o, e)
      BY <1>3, <2>1, ImportSwitchIs
    <2>3. PICK p : p = Ok(e)
      OBVIOUS
    <2>4. p.m = e
      BY <2>3 DEF Ok
    <2>5. Shape(e) /\ HasList(e, name) /\ z = ImportControls(p, name, controllers)
      BY <1>3, <2>2, <2>3, SwitchAddedShape DEF SwitchImported
    <2>6. Shape(z.m)
      BY <2>4, <2>5, ImportControlsShape
    <2> QED
      BY <2>1, <2>6 DEF Step
  <1> QED
    BY <1>2, <1>3, LoopShape

\* The empty drawing.
LEMMA EmptyShape ==
    ASSUME NEW d, d = EmptyModel
    PROVE  /\ Shape(d) /\ Nodes(d) = {} /\ ToSet(d.links) = {} /\ DOMAIN d.ends = {} /\ d.gone = {}
           /\ d.canvas = <<>> /\ d.links = <<>>
  <1>1. /\ d = [canvas |-> <<>>, links |-> <<>>, ends |-> <<>>,
                hostOpts |-> <<>>, switchOpts |-> <<>>, controllers |-> <<>>,
                counts |-> [host |-> 0, docker |-> 0, switch |-> 0, controller |-> 0],
                next |-> 1, gone |-> {}]
    BY DEF EmptyModel
  <1>2. IsModel(d) /\ IsCounts(d.counts) /\ Entries(d.hostOpts, d.switchOpts)
    BY <1>1 DEF IsModel, IsCounts, Entries
  <1>3. PICK none : none = <<>> /\ IsSeq(none) /\ DOMAIN none = {} /\ ToSet(none) = {}
    BY NothingIsSeq DEF ToSet
  <1>4. Drawn(none, none, 1)
    BY <1>3 DEF Drawn, ItemsDiffer
  <1> QED
    BY <1>1, <1>2, <1>3, <1>4 DEF Shape, Nodes

\* A topology that was imported has the shape of a drawing.
LEMMA ImportedShape ==
    ASSUME NEW t \in Imports, NEW d, d = Imported(t)
    PROVE  Shape(d)
  <1>0. IsSeq(t.controllers) /\ IsSeq(t.switches) /\ IsSeq(t.hosts) /\ IsSeq(t.links)
    BY ImportsAssumption, ListingIs DEF Once
  <1>1. PICK z : z = Ok(EmptyModel)
    OBVIOUS
  <1>2. PICK c : c = ImportControllers(z, t.controllers)
    OBVIOUS
  <1>3. PICK s : s = ImportSwitches(c, t.switches, t.controllers)
    OBVIOUS
  <1>4. PICK h : h = ImportHosts(s, t.hosts)
    OBVIOUS
  <1>5. PICK l : l = ImportLinks(h, t.links)
    OBVIOUS
  <1>6. d = l.m
    BY <1>1, <1>2, <1>3, <1>4, <1>5 DEF Imported
  <1>7. Shape(z.m)
    BY <1>1, EmptyShape DEF Ok
  <1>8. Shape(c.m)
    BY <1>0, <1>2, <1>7, ImportControllersShape
  <1>9. Shape(s.m)
    BY <1>0, <1>3, <1>8, ImportSwitchesShape
  <1>10. Shape(h.m)
    BY <1>0, <1>4, <1>9, ImportHostsShape
  <1> QED
    BY <1>0, <1>5, <1>6, <1>10, ImportLinksShape

(***************************************************************************)
(* The dialogs.                                                            *)
(***************************************************************************)
Retitled(d, item, name, e) ==
    /\ IsModel(e) /\ SameLinks(d, e) /\ SameItems(d, e)
    /\ e.canvas = [k \in DOMAIN d.canvas |-> e.canvas[k]]
    /\ \A k \in DOMAIN d.canvas :
          e.canvas[k] = IF d.canvas[k].item = item THEN [d.canvas[k] EXCEPT !.name = name]
                        ELSE d.canvas[k]
    /\ d.gone = {} => e.gone = {}

\* Renaming changes one name on the canvas.
LEMMA RenamedIs ==
    ASSUME NEW d, IsModel(d), NEW item, NEW name, NEW e, e = Renamed(d, item, name)
    PROVE  Retitled(d, item, name, e) /\ SameOpts(d, e)
  <1> DEFINE New(w) == IF w.item = item THEN [w EXCEPT !.name = name] ELSE w
  <1>1. PICK c, g : c = [k \in DOMAIN d.canvas |-> New(d.canvas[k])] /\ g = {New(w) : w \in d.gone}
    OBVIOUS
  <1>2. e = [d EXCEPT !.canvas = c, !.gone = g]
    BY <1>1 DEF Renamed, Each
  <1>3. /\ IsModel(e) /\ SameLinks(d, e) /\ SameItems(d, e) /\ SameOpts(d, e)
        /\ e.canvas = c /\ e.gone = g
    BY <1>2 DEF IsModel, SameLinks, SameItems, SameOpts
  <1>4. d.gone = {} => g = {}
    BY <1>1
  <1>5. /\ c = [k \in DOMAIN d.canvas |-> c[k]]
        /\ \A k \in DOMAIN d.canvas :
              c[k] = IF d.canvas[k].item = item THEN [d.canvas[k] EXCEPT !.name = name]
                     ELSE d.canvas[k]
    BY <1>1
  <1> QED
    BY <1>3, <1>4, <1>5 DEF Retitled

\* The icons are those that were, under the names that they now have.
LEMMA RetitledShape ==
    ASSUME NEW d, Shape(d), NEW item, NEW name, NEW e, Retitled(d, item, name, e)
    PROVE  /\ IsModel(e) /\ IsCounts(e.counts) /\ Drawn(e.canvas, e.links, e.next)
           /\ \A v \in Nodes(e) : \E w \in Nodes(d) :
                 /\ v.item = w.item /\ v.kind = w.kind
                 /\ v.name = IF w.item = item THEN name ELSE w.name
           /\ \A w \in Nodes(d) : \E v \in Nodes(e) :
                 /\ v.item = w.item /\ v.kind = w.kind
                 /\ v.name = IF w.item = item THEN name ELSE w.name
  <1>1. ASSUME NEW k \in DOMAIN d.canvas
        PROVE  /\ IsNode(e.canvas[k], d.next)
               /\ e.canvas[k].item = d.canvas[k].item /\ e.canvas[k].kind = d.canvas[k].kind
               /\ e.canvas[k].name = IF d.canvas[k].item = item THEN name ELSE d.canvas[k].name
    <2>1. PICK w, v : w = d.canvas[k] /\ v = e.canvas[k]
      OBVIOUS
    <2>2. IsNode(w, d.next)
      BY <2>1 DEF Shape, Drawn, ToSet
    <2>3. v = IF w.item = item THEN [w EXCEPT !.name = name] ELSE w
      BY <2>1 DEF Retitled
    <2>4. IsNode(v, d.next) /\ v.item = w.item /\ v.kind = w.kind
          /\ v.name = IF w.item = item THEN name ELSE w.name
      BY <2>2, <2>3 DEF IsNode
    <2> QED
      BY <2>1, <2>4
  <1>2. PICK c, l : c = e.canvas /\ l = d.links
    OBVIOUS
  <1>3. c = [k \in DOMAIN d.canvas |-> c[k]]
    BY <1>2 DEF Retitled
  <1>4. IsSeq(d.links) /\ Drawn(d.canvas, d.links, d.next)
    BY DEF Shape, Drawn
  <1>5. l = [k \in DOMAIN d.links |-> l[k]]
    BY <1>2, <1>4 DEF IsSeq
  <1>6. \A k \in DOMAIN d.links : IsLink(l[k], d.next)
    BY <1>2, <1>4 DEF Drawn, ToSet
  <1>7. Drawn(c, l, d.next)
    <2>1. \A k \in DOMAIN d.canvas : IsNode(c[k], d.next) /\ c[k].item = d.canvas[k].item
      BY <1>1, <1>2
    <2>2. \A k \in DOMAIN d.links : IsLink(l[k], d.next) /\ l[k].item = d.links[k].item
      BY <1>2, <1>6
    <2> QED
      BY <1>3, <1>4, <1>5, <2>1, <2>2, Redrawn
  <1>8. IsModel(e) /\ IsCounts(e.counts) /\ Drawn(e.canvas, e.links, e.next)
    BY <1>2, <1>7 DEF Retitled, SameLinks, SameItems, Shape
  <1>9. DOMAIN e.canvas = DOMAIN d.canvas
    BY <1>2, <1>3
  <1>10. ASSUME NEW v \in Nodes(e)
         PROVE  \E w \in Nodes(d) : /\ v.item = w.item /\ v.kind = w.kind
                                    /\ v.name = IF w.item = item THEN name ELSE w.name
    <2>1. PICK k \in DOMAIN d.canvas : v = e.canvas[k]
      BY <1>9 DEF Nodes, ToSet
    <2>2. d.canvas[k] \in Nodes(d)
      BY DEF Nodes, ToSet
    <2> QED
      BY <1>1, <2>1, <2>2
  <1>11. ASSUME NEW w \in Nodes(d)
         PROVE  \E v \in Nodes(e) : /\ v.item = w.item /\ v.kind = w.kind
                                    /\ v.name = IF w.item = item THEN name ELSE w.name
    <2>1. PICK k \in DOMAIN d.canvas : w = d.canvas[k]
      BY DEF Nodes, ToSet
    <2>2. e.canvas[k] \in Nodes(e)
      BY <1>9 DEF Nodes, ToSet
    <2> QED
      BY <1>1, <2>1, <2>2
  <1> QED
    BY <1>8, <1>10, <1>11

HostApplied(d, w, typed, name, o, e) ==
    /\ Retitled(d, w.item, name, e) /\ IsHostEntry(o) /\ Entered(d.hostOpts, name, o, e.hostOpts)
    /\ e.switchOpts = d.switchOpts /\ e.controllers = d.controllers
    /\ FitsHost(w.kind, name, o) /\ o.num = d.hostOpts[w.name].num /\ o.hostname = typed
    /\ name = IF typed = NoName THEN w.name ELSE typed
SwitchApplied(d, w, typed, name, o, e) ==
    /\ Retitled(d, w.item, name, e) /\ IsSwitchEntry(o) /\ Entered(d.switchOpts, name, o, e.switchOpts)
    /\ e.hostOpts = d.hostOpts /\ e.controllers = d.controllers
    /\ FitsSwitch(w.kind, name, o) /\ o.num = d.switchOpts[w.name].num /\ o.hostname = typed
    /\ o.controllers = d.switchOpts[w.name].controllers
    /\ name = IF typed = NoName THEN w.name ELSE typed

\* What the dialog of a host changes.
LEMMA HostDetailsIs ==
    ASSUME NEW d, Shape(d), NEW w, w.kind \in {"Host", "Docker"}, NEW typed, NEW box,
           NEW e, e = ApplyDetails(d, w, typed, box)
    PROVE  \E name, o : /\ HostApplied(d, w, typed, name, o, e)
                        /\ w.kind = "Host" => o.extra = {"cpu", "commands"} \cup box
  <1>1. PICK r : /\ r = CASE w.kind = "Switch" -> SwitchResult(typed)
                          [] w.kind = "Host" -> HostResult(typed, box)
                          [] w.kind = "Docker" -> DockerResult(typed, box)
    OBVIOUS
  <1>2. r.hostname = typed
    <2>1. r = HostResult(typed, box) \/ r = DockerResult(typed, box)
      BY <1>1
    <2> QED
      BY <2>1 DEF HostResult, DockerResult
  <1>13. w.kind = "Host" => r.extra = {"cpu", "commands"} \cup box
    BY <1>1 DEF HostResult
  <1>3. PICK name : name = NameFrom(r, w.name)
    OBVIOUS
  <1>4. PICK f : f = Renamed(d, w.item, name)
    OBVIOUS
  <1>5. PICK o : o = HostOpts(w.kind, d.hostOpts[w.name].num, r.hostname, r.extra)
    OBVIOUS
  <1>6. e = SetHostOpts(f, name, o)
    <2>1. w.kind # "Switch"
      OBVIOUS
    <2> QED
      BY <1>1, <1>3, <1>4, <1>5, <2>1 DEF ApplyDetails
  <1>7. Retitled(d, w.item, name, f) /\ SameOpts(d, f)
    BY <1>4, RenamedIs DEF Shape
  <1>8. /\ IsModel(e) /\ SameNodes(f, e) /\ SameLinks(f, e) /\ SameItems(f, e)
        /\ e.switchOpts = f.switchOpts /\ e.controllers = f.controllers
        /\ Entered(f.hostOpts, name, o, e.hostOpts)
    BY <1>6, <1>7, SetHostOptsIs DEF Retitled, Entered
  <1>9. Retitled(d, w.item, name, e)
    BY <1>7, <1>8 DEF Retitled, SameNodes, SameLinks, SameItems
  <1>10. /\ o = [num |-> o.num, hostname |-> o.hostname, docker |-> o.docker, extra |-> o.extra]
         /\ o.num = d.hostOpts[w.name].num /\ o.hostname = r.hostname /\ o.docker = (w.kind = "Docker")
         /\ o.extra = r.extra
    BY <1>5 DEF HostOpts
  <1>11. name = IF typed = NoName THEN w.name ELSE typed
    BY <1>2, <1>3 DEF NameFrom
  <1>12. IsHostEntry(o) /\ FitsHost(w.kind, name, o)
    BY <1>2, <1>10, <1>11 DEF IsHostEntry, FitsHost
  <1> QED
    BY <1>2, <1>7, <1>8, <1>9, <1>10, <1>11, <1>12, <1>13 DEF HostApplied, SameOpts

\* What the dialog of a switch changes.
LEMMA SwitchDetailsIs ==
    ASSUME NEW d, Shape(d), NEW w, w.kind = "Switch", NEW typed, NEW box,
           w.name \in DOMAIN d.switchOpts,
           NEW e, e = ApplyDetails(d, w, typed, box)
    PROVE  \E name, o : SwitchApplied(d, w, typed, name, o, e)
  <1>1. PICK r : r = SwitchResult(typed)
    OBVIOUS
  <1>2. r.hostname = typed /\ r.type = "user"
    BY <1>1 DEF SwitchResult
  <1>3. PICK name : name = NameFrom(r, w.name)
    OBVIOUS
  <1>4. PICK f : f = Renamed(d, w.item, name)
    OBVIOUS
  <1>5. PICK old : old = d.switchOpts[w.name]
    OBVIOUS
  <1>6. PICK o : o = SwitchOpts(r.type, old.num, r.hostname, old.controllers, r.extra)
    OBVIOUS
  <1>7. e = SetSwitchOpts(f, name, o)
    BY <1>1, <1>3, <1>4, <1>5, <1>6 DEF ApplyDetails
  <1>8. Retitled(d, w.item, name, f) /\ SameOpts(d, f)
    BY <1>4, RenamedIs DEF Shape
  <1>9. /\ IsModel(e) /\ SameNodes(f, e) /\ SameLinks(f, e) /\ SameItems(f, e)
        /\ e.hostOpts = f.hostOpts /\ e.controllers = f.controllers
        /\ Entered(f.switchOpts, name, o, e.switchOpts)
    BY <1>7, <1>8, SetSwitchOptsIs DEF Retitled, Entered
  <1>10. Retitled(d, w.item, name, e)
    BY <1>8, <1>9 DEF Retitled, SameNodes, SameLinks, SameItems
  <1>11. /\ o = [num |-> o.num, hostname |-> o.hostname, type |-> o.type,
                 controllers |-> o.controllers, extra |-> o.extra]
         /\ o.num = old.num /\ o.hostname = typed /\ o.type = "user" /\ o.controllers = old.controllers
    BY <1>2, <1>6 DEF SwitchOpts
  <1>12. old.controllers = NoList \/ IsSeq(old.controllers)
    BY <1>5 DEF Shape, Entries, IsSwitchEntry
  <1>13. name = IF typed = NoName THEN w.name ELSE typed
    BY <1>2, <1>3 DEF NameFrom
  <1>14. IsSwitchEntry(o) /\ FitsSwitch(w.kind, name, o)
    BY <1>11, <1>12, <1>13 DEF IsSwitchEntry, FitsSwitch
  <1> QED
    BY <1>5, <1>8, <1>9, <1>10, <1>11, <1>13, <1>14 DEF SwitchApplied, SameOpts

\* Dialogs keep the shape: of hosts,
LEMMA HostAppliedShape ==
    ASSUME NEW d, Shape(d), NEW w, NEW typed, NEW name, NEW o, NEW e,
           HostApplied(d, w, typed, name, o, e)
    PROVE  Shape(e)
  <1>1. IsModel(e) /\ IsCounts(e.counts) /\ Drawn(e.canvas, e.links, e.next)
    BY RetitledShape DEF HostApplied
  <1>2. Entries(e.hostOpts, e.switchOpts)
    BY HostEntered DEF HostApplied, Entered, Shape
  <1> QED
    BY <1>1, <1>2 DEF Shape

\* of switches.
LEMMA SwitchAppliedShape ==
    ASSUME NEW d, Shape(d), NEW w, NEW typed, NEW name, NEW o, NEW e,
           SwitchApplied(d, w, typed, name, o, e)
    PROVE  Shape(e)
  <1>1. IsModel(e) /\ IsCounts(e.counts) /\ Drawn(e.canvas, e.links, e.next)
    BY RetitledShape DEF SwitchApplied
  <1>2. Entries(e.hostOpts, e.switchOpts)
    BY SwitchEntered DEF SwitchApplied, Entered, Shape
  <1> QED
    BY <1>1, <1>2 DEF Shape

(* A controller's new name.  *)
ControllerApplied(d, w, typed, name, e) ==
    /\ Retitled(d, w.item, name, e) /\ Entered(d.controllers, name, "remote", e.controllers)
    /\ e.hostOpts = d.hostOpts /\ e.switchOpts = d.switchOpts
    /\ name = IF typed = NoName THEN w.name ELSE typed

\* What the dialog of a controller changes.
LEMMA RenameControllerIs ==
    ASSUME NEW d, Shape(d), NEW w, NEW typed, NEW r, r = RenameController(d, w, typed)
    PROVE  \E name, e : /\ ControllerApplied(d, w, typed, name, e)
                        /\ r = IF name = w.name THEN Ok(e) ELSE RelistEverywhere(e, w.name, name)
  <1>1. PICK q : q = ControllerResult(typed)
    OBVIOUS
  <1>2. q.hostname = typed /\ q.type = "remote"
    BY <1>1 DEF ControllerResult
  <1>3. PICK name : name = NameFrom(q, w.name)
    OBVIOUS
  <1>4. PICK f : f = Renamed(d, w.item, name)
    OBVIOUS
  <1>5. PICK e : e = SetController(f, name, q.type)
    OBVIOUS
  <1>6. r = IF name = w.name THEN Ok(e) ELSE RelistEverywhere(e, w.name, name)
    BY <1>1, <1>3, <1>4, <1>5 DEF RenameController
  <1>7. Retitled(d, w.item, name, f) /\ SameOpts(d, f)
    BY <1>4, RenamedIs DEF Shape
  <1>8. /\ IsModel(e) /\ SameNodes(f, e) /\ SameLinks(f, e) /\ SameItems(f, e)
        /\ e.hostOpts = f.hostOpts /\ e.switchOpts = f.switchOpts
        /\ Entered(f.controllers, name, "remote", e.controllers)
    BY <1>2, <1>5, <1>7, SetControllerIs DEF Retitled, Entered
  <1>9. Retitled(d, w.item, name, e)
    BY <1>7, <1>8 DEF Retitled, SameNodes, SameLinks, SameItems
  <1>10. name = IF typed = NoName THEN w.name ELSE typed
    BY <1>2, <1>3 DEF NameFrom
  <1>11. ControllerApplied(d, w, typed, name, e)
    BY <1>7, <1>8, <1>9, <1>10 DEF ControllerApplied, SameOpts
  <1> QED
    BY <1>6, <1>11

\* It keeps the shape before lists follow,
LEMMA ControllerAppliedShape ==
    ASSUME NEW d, Shape(d), NEW w, NEW typed, NEW name, NEW e, ControllerApplied(d, w, typed, name, e)
    PROVE  Shape(e)
  <1>1. IsModel(e) /\ IsCounts(e.counts) /\ Drawn(e.canvas, e.links, e.next)
    BY RetitledShape DEF ControllerApplied
  <1> QED
    BY <1>1 DEF Shape, ControllerApplied

\* A list follows if it is there.
LEMMA RelistIs ==
    ASSUME NEW d, Shape(d), NEW switch, NEW old, NEW name, NEW r, r = Relist(d, switch, old, name),
           NEW list, list = d.switchOpts[switch].controllers
    PROVE  /\ Shape(r.m) /\ SameNodes(d, r.m) /\ (r.ok <=> HasList(d, switch))
           /\ \/ r.m = d /\ (~HasList(d, switch) \/ old \notin ToSet(list))
              \/ /\ HasList(d, switch) /\ old \in ToSet(list)
                 /\ Relisted(d, switch, Append(RemoveFirst(list, old), name), r.m)
  <1>1. CASE ~HasList(d, switch)
    <2>1. r.m = d /\ r.ok = FALSE
      BY <1>1 DEF Relist, Raise
    <2> QED
      BY <1>1, <2>1 DEF SameNodes
  <1>2. CASE HasList(d, switch) /\ old \notin ToSet(list)
    <2>1. r.m = d /\ r.ok = TRUE
      BY <1>2 DEF Relist, Ok
    <2> QED
      BY <1>2, <2>1 DEF SameNodes
  <1>3. CASE HasList(d, switch) /\ old \in ToSet(list)
    <2>1. PICK q : q = Append(RemoveFirst(list, old), name)
      OBVIOUS
    <2>2. r.m = WithList(d, switch, q) /\ r.ok = TRUE
      BY <1>3, <2>1 DEF Relist, Ok
    <2>3. Relisted(d, switch, q, r.m)
      BY <2>2, WithListIs DEF Shape
    <2>4. IsSeq(q)
      <3>1. IsSeq(list)
        BY <1>3 DEF HasList, Shape, Entries, IsSwitchEntry
      <3>2. IsSeq(RemoveFirst(list, old))
        BY <3>1, FirstRemoved
      <3> QED
        BY <2>1, <3>2, AppendedSeq
    <2>5. Shape(r.m)
      <3>1. PICK e : e = r.m
        OBVIOUS
      <3>2. Relisted(d, switch, q, e)
        BY <2>3, <3>1
      <3>3. q = NoList \/ IsSeq(q)
        BY <2>4
      <3>4. Shape(e)
        BY <3>2, <3>3, RelistedShape
      <3> QED
        BY <3>1, <3>4
    <2> QED
      BY <1>3, <2>1, <2>2, <2>3, <2>5 DEF Relisted
  <1> QED
    BY <1>1, <1>2, <1>3

\* when all followed,
LEMMA RelistEverywhereShape ==
    ASSUME NEW d, Shape(d), NEW old, NEW name, NEW r, r = RelistEverywhere(d, old, name)
    PROVE  Shape(r.m)
  <1>0. PICK q : q = Ok(d)
    OBVIOUS
  <1>1. PICK s, N : s = NodesLike(d, {"Switch"}) /\ N \in Nat /\ Len(s) = N
    <2>1. IsSeq(NodesLike(d, {"Switch"}))
      BY NodesLikeIs DEF Shape, Drawn
    <2> QED
      BY <2>1, SeqIs
  <1> DEFINE x == <<old, name>>
  <1>2. PICK after : Runs(after, "relist", x, q, s, N, r)
    BY <1>0, <1>1, RelistEverywhereRuns
  <1>3. ASSUME NEW k \in 1..N, NEW e, Shape(e)
        PROVE  Shape(Step("relist", x, e, s[k]).m)
    <2>1. PICK z : z = Relist(e, s[k].name, old, name)
      OBVIOUS
    <2>2. Shape(z.m)
      BY <1>3, <2>1, RelistIs
    <2> QED
      BY <2>1, <2>2 DEF Step
  <1>4. Shape(q.m)
    BY <1>0 DEF Ok
  <1>5. N \in Nat
    BY <1>1
  <1>6. \A k \in 1..N : \A e : Shape(e) => Shape(Step("relist", x, e, s[k]).m)
    BY <1>3
  <1> HIDE DEF x
  <1> QED
    BY <1>2, <1>4, <1>5, <1>6, LoopShape

\* and as a whole.
LEMMA RenameControllerShape ==
    ASSUME NEW d, Shape(d), NEW w, NEW typed, NEW r, r = RenameController(d, w, typed)
    PROVE  Shape(r.m)
  <1>1. PICK name, e : /\ ControllerApplied(d, w, typed, name, e)
                       /\ r = IF name = w.name THEN Ok(e) ELSE RelistEverywhere(e, w.name, name)
    BY RenameControllerIs
  <1>2. Shape(e)
    BY <1>1, ControllerAppliedShape
  <1>3. CASE name = w.name
    BY <1>1, <1>2, <1>3 DEF Ok
  <1>4. CASE name # w.name
    BY <1>1, <1>2, <1>4, RelistEverywhereShape
  <1> QED
    BY <1>3, <1>4

(* Links with other options or another state.  *)
Restyled(d, e) ==
    /\ IsModel(e) /\ SameNodes(d, e) /\ SameOpts(d, e) /\ SameItems(d, e) /\ e.ends = d.ends
    /\ e.links = [k \in DOMAIN d.links |-> e.links[k]]
    /\ \A k \in DOMAIN d.links :
          e.links[k] = [item |-> d.links[k].item, type |-> d.links[k].type, src |-> d.links[k].src,
                        dest |-> d.links[k].dest, opts |-> e.links[k].opts,
                        down |-> e.links[k].down]

\* Options and states of links are no matter of shape.
LEMMA RestyledShape ==
    ASSUME NEW d, Shape(d), NEW e, Restyled(d, e)
    PROVE  Shape(e)
  <1>1. PICK c, l : c = d.canvas /\ l = e.links
    OBVIOUS
  <1>2. IsSeq(d.canvas) /\ Drawn(d.canvas, d.links, d.next)
    BY DEF Shape, Drawn
  <1>3. c = [k \in DOMAIN d.canvas |-> c[k]] /\ \A k \in DOMAIN d.canvas : IsNode(c[k], d.next)
    BY <1>1, <1>2 DEF IsSeq, Drawn, ToSet
  <1>4. ASSUME NEW k \in DOMAIN d.links
        PROVE  IsLink(l[k], d.next) /\ l[k].item = d.links[k].item
    <2>1. PICK x, y : x = d.links[k] /\ y = l[k]
      OBVIOUS
    <2>2. IsLink(x, d.next)
      BY <1>2, <2>1 DEF Drawn, ToSet
    <2>3. y = [item |-> x.item, type |-> x.type, src |-> x.src, dest |-> x.dest,
               opts |-> y.opts, down |-> y.down]
      BY <1>1, <2>1 DEF Restyled
    <2> QED
      BY <2>1, <2>2, <2>3 DEF IsLink
  <1>5. l = [k \in DOMAIN d.links |-> l[k]]
    BY <1>1 DEF Restyled
  <1>6. Drawn(c, l, d.next)
    BY <1>1, <1>2, <1>3, <1>4, <1>5, Redrawn
  <1> QED
    BY <1>1, <1>6 DEF Shape, Restyled, SameNodes, SameOpts, SameItems

(***************************************************************************)
(* Files.                                                                  *)
(***************************************************************************)
LEMMA EachSeq ==
    ASSUME NEW s, IsSeq(s), NEW r, r = [k \in DOMAIN s |-> r[k]]
    PROVE  IsSeq(r) /\ DOMAIN r = DOMAIN s
  BY DEF IsSeq

\* A file of an earlier session can be read.
LEMMA FileIs ==
    ASSUME NEW f, WellFormed(f)
    PROVE  IsFile(f) /\ f.prefs \in {"ovs", "user"}
  <1>1. IsSeq(f.controllers) /\ IsSeq(f.hosts) /\ IsSeq(f.switches) /\ IsSeq(f.links)
    BY ListingIs DEF WellFormed
  <1>2. ASSUME NEW k \in DOMAIN f.hosts
        PROVE  IsHostEntry(f.hosts[k])
    <2>1. PICK o : o = f.hosts[k]
      OBVIOUS
    <2>2. o \in ToSet(f.hosts)
      BY <2>1 DEF ToSet
    <2>3. PICK kind : kind = IF o.docker THEN "Docker" ELSE "Host"
      OBVIOUS
    <2>4. o = HostOpts(kind, o.num, o.hostname, o.extra)
      BY <2>2, <2>3 DEF WellFormed
    <2>5. PICK b \in BOOLEAN : b = (kind = "Docker")
      OBVIOUS
    <2>6. o = [num |-> o.num, hostname |-> o.hostname, docker |-> b, extra |-> o.extra]
      BY <2>4, <2>5 DEF HostOpts
    <2>7. o.docker = b
      BY <2>6
    <2> QED
      BY <2>1, <2>5, <2>6, <2>7 DEF IsHostEntry
  <1>3. ASSUME NEW k \in DOMAIN f.switches
        PROVE  IsSwitchEntry(f.switches[k])
    <2>1. PICK o : o = f.switches[k]
      OBVIOUS
    <2>2. o \in ToSet(f.switches)
      BY <2>1 DEF ToSet
    <2>3. o = SwitchOpts(o.type, o.num, o.hostname, o.controllers, o.extra)
          /\ ListsControllers(f, o)
      BY <2>2 DEF WellFormed
    <2>4. o = [num |-> o.num, hostname |-> o.hostname, type |-> o.type,
               controllers |-> o.controllers, extra |-> o.extra]
      BY <2>3 DEF SwitchOpts
    <2>5. o.controllers = NoList \/ IsSeq(o.controllers)
      BY <2>3, OnceIs DEF ListsControllers
    <2>6. IsSwitchEntry(o)
      BY <2>4, <2>5 DEF IsSwitchEntry
    <2> QED
      BY <2>1, <2>6
  <1>4. f.prefs \in {"ovs", "user"}
    BY DEF WellFormed
  <1> QED
    BY <1>1, <1>2, <1>3, <1>4 DEF IsFile

(* What the editor writes: the entries of the nodes and of the data links, in the
   order drawn.  *)
SavedAs(d, p, f, hosts, switches, controllers, links) ==
    /\ f = [version |-> 2, prefs |-> p, hosts |-> f.hosts, switches |-> f.switches,
            controllers |-> f.controllers, links |-> f.links]
    /\ IsSeq(hosts) /\ NoTwice(hosts) /\ ToSet(hosts) = {w \in Nodes(d) : w.kind \in HostLike}
    /\ f.hosts = [k \in DOMAIN hosts |-> d.hostOpts[hosts[k].name]]
    /\ IsSeq(switches) /\ NoTwice(switches)
    /\ ToSet(switches) = {w \in Nodes(d) : w.kind \in SwitchLike}
    /\ f.switches = [k \in DOMAIN switches |-> d.switchOpts[switches[k].name]]
    /\ IsSeq(controllers) /\ NoTwice(controllers)
    /\ ToSet(controllers) = {w \in Nodes(d) : w.kind = "Controller"}
    /\ f.controllers = [k \in DOMAIN controllers |->
                           [hostname |-> controllers[k].name,
                            type |-> d.controllers[controllers[k].name]]]
    /\ IsSeq(links) /\ links = DataLinks(d) /\ ToSet(links) = {l \in ToSet(d.links) : l.type = "data"}
    /\ f.links = [k \in DOMAIN links |-> [src |-> Text(d, links[k].src),
                                          dest |-> Text(d, links[k].dest),
                                          opts |-> links[k].opts]]

\* No node is twice among the nodes of some kinds.
LEMMA LikeOnce ==
    ASSUME NEW d, Shape(d), NEW kinds, NEW s, s = NodesLike(d, kinds)
    PROVE  NoTwice(s)
  <1>1. IsSeq(d.canvas) /\ ItemsDiffer(d.canvas)
    BY DEF Shape, Drawn
  <1>2. PICK S : s = Chosen(d.canvas, S)
    BY DEF NodesLike
  <1>3. ItemsDiffer(s)
    BY <1>1, <1>2, ChosenDiffer
  <1> QED
    BY <1>3 DEF ItemsDiffer, NoTwice

\* What is saved, entry by entry.
LEMMA SavedIs ==
    ASSUME NEW d, Shape(d), NEW p, NEW f, f = Saved(d, p)
    PROVE  \E hosts, switches, controllers, links : SavedAs(d, p, f, hosts, switches, controllers, links)
  <1>0. IsSeq(d.canvas) /\ IsSeq(d.links)
    BY DEF Shape, Drawn
  <1>1. PICK hosts : hosts = NodesLike(d, HostLike)
    OBVIOUS
  <1>2. PICK switches : switches = NodesLike(d, SwitchLike)
    OBVIOUS
  <1>3. PICK controllers : controllers = NodesLike(d, {"Controller"})
    OBVIOUS
  <1>4. PICK links : links = DataLinks(d)
    OBVIOUS
  <1>5. IsSeq(hosts) /\ ToSet(hosts) = {w \in Nodes(d) : w.kind \in HostLike}
    BY <1>0, <1>1, NodesLikeIs
  <1>6. IsSeq(switches) /\ ToSet(switches) = {w \in Nodes(d) : w.kind \in SwitchLike}
    BY <1>0, <1>2, NodesLikeIs
  <1>7. IsSeq(controllers) /\ ToSet(controllers) = {w \in Nodes(d) : w.kind = "Controller"}
    <2>1. IsSeq(controllers) /\ ToSet(controllers) = {w \in Nodes(d) : w.kind \in {"Controller"}}
      BY <1>0, <1>3, NodesLikeIs
    <2> QED
      BY <2>1
  <1>8. IsSeq(links) /\ ToSet(links) = {l \in ToSet(d.links) : l.type = "data"}
    <2>1. IsSeq(links) /\ ToSet(links) = ToSet(d.links) \cap {l \in ToSet(d.links) : l.type = "data"}
      BY <1>0, <1>4, ChosenIs DEF DataLinks
    <2> QED
      BY <2>1
  <1>9. f = [version |-> 2, prefs |-> p,
             hosts |-> [k \in DOMAIN hosts |-> d.hostOpts[hosts[k].name]],
             switches |-> [k \in DOMAIN switches |-> d.switchOpts[switches[k].name]],
             controllers |-> [k \in DOMAIN controllers |->
                                 [hostname |-> controllers[k].name,
                                  type |-> d.controllers[controllers[k].name]]],
             links |-> [k \in DOMAIN links |-> [src |-> Text(d, links[k].src),
                                                dest |-> Text(d, links[k].dest),
                                                opts |-> links[k].opts]]]
    BY <1>1, <1>2, <1>3, <1>4 DEF Saved, Each
  <1>10. /\ f = [version |-> 2, prefs |-> p, hosts |-> f.hosts, switches |-> f.switches,
                 controllers |-> f.controllers, links |-> f.links]
         /\ f.hosts = [k \in DOMAIN hosts |-> d.hostOpts[hosts[k].name]]
         /\ f.switches = [k \in DOMAIN switches |-> d.switchOpts[switches[k].name]]
         /\ f.controllers = [k \in DOMAIN controllers |->
                                 [hostname |-> controllers[k].name,
                                  type |-> d.controllers[controllers[k].name]]]
         /\ f.links = [k \in DOMAIN links |-> [src |-> Text(d, links[k].src),
                                               dest |-> Text(d, links[k].dest),
                                               opts |-> links[k].opts]]
    BY <1>9
  <1>11. NoTwice(hosts) /\ NoTwice(switches) /\ NoTwice(controllers)
    <2>1. \A kinds, s : s = NodesLike(d, kinds) => NoTwice(s)
      BY LikeOnce
    <2> QED
      BY <1>1, <1>2, <1>3, <2>1
  <1> QED
    BY <1>4, <1>5, <1>6, <1>7, <1>8, <1>10, <1>11 DEF SavedAs

\* What is saved can be read.
LEMMA SavedIsFile ==
    ASSUME NEW d, Shape(d), AllHaveOpts(d), NEW p, NEW f, f = Saved(d, p)
    PROVE  IsFile(f) /\ f.prefs = p /\ f.version = 2
  <1>1. PICK hosts, switches, controllers, links :
           SavedAs(d, p, f, hosts, switches, controllers, links)
    BY SavedIs
  <1>2. f.prefs = p /\ f.version = 2
    BY <1>1 DEF SavedAs
  <1>3. IsSeq(f.hosts) /\ DOMAIN f.hosts = DOMAIN hosts
    BY <1>1, EachSeq DEF SavedAs
  <1>4. IsSeq(f.switches) /\ DOMAIN f.switches = DOMAIN switches
    BY <1>1, EachSeq DEF SavedAs
  <1>5. IsSeq(f.controllers) /\ IsSeq(f.links)
    BY <1>1, EachSeq DEF SavedAs
  <1>6. ASSUME NEW k \in DOMAIN f.hosts
        PROVE  IsHostEntry(f.hosts[k])
    <2>1. PICK w : w = hosts[k]
      OBVIOUS
    <2>2. w \in Nodes(d) /\ w.kind \in HostLike /\ f.hosts[k] = d.hostOpts[w.name]
      <3>1. w \in ToSet(hosts)
        BY <1>3, <2>1 DEF ToSet
      <3> QED
        BY <1>1, <1>3, <2>1, <3>1 DEF SavedAs
    <2>3. w.name \in DOMAIN d.hostOpts
      BY <2>2 DEF AllHaveOpts
    <2> QED
      BY <2>2, <2>3 DEF Shape, Entries
  <1>7. ASSUME NEW k \in DOMAIN f.switches
        PROVE  IsSwitchEntry(f.switches[k])
    <2>1. PICK w : w = switches[k]
      OBVIOUS
    <2>2. w \in Nodes(d) /\ w.kind \in SwitchLike /\ f.switches[k] = d.switchOpts[w.name]
      <3>1. w \in ToSet(switches)
        BY <1>4, <2>1 DEF ToSet
      <3> QED
        BY <1>1, <1>4, <2>1, <3>1 DEF SavedAs
    <2>3. w.name \in DOMAIN d.switchOpts
      BY <2>2 DEF AllHaveOpts
    <2> QED
      BY <2>2, <2>3 DEF Shape, Entries
  <1> QED
    BY <1>2, <1>3, <1>4, <1>5, <1>6, <1>7 DEF IsFile

(***************************************************************************)
(* As many items as icons, as many names as icons.                         *)
(***************************************************************************)
Named(d) == \A v, w \in Nodes(d) : v.name = w.name => v = w

\* There are as many items as nodes on the canvas.
LEMMA ItemsCounted ==
    ASSUME NEW d, Shape(d)
    PROVE  Cardinality(Items(d)) = Len(d.canvas)
  <1>1. PICK s : s = d.canvas
    OBVIOUS
  <1>2. PICK N \in Nat : Len(s) = N /\ DOMAIN s = 1..N
    BY <1>1, SeqIs DEF Shape, Drawn
  <1>3. PICK f : f = [k \in 1..N |-> s[k].item]
    OBVIOUS
  <1>4. Items(d) = {s[k].item : k \in 1..N}
    BY <1>1, <1>2 DEF Items, Nodes, ToSet
  <1>5. \A i, j \in 1..N : s[i].item = s[j].item => i = j
    BY <1>1, <1>2 DEF Shape, Drawn, ItemsDiffer
  <1>6. f \in Surjection(1..N, Items(d))
    BY <1>3, <1>4 DEF Surjection
  <1>7. f \in Injection(1..N, Items(d))
    BY <1>3, <1>4, <1>5 DEF Injection, IsInjective
  <1>8. IsFiniteSet(1..N) /\ Cardinality(1..N) = N
    BY FS_Interval
  <1> QED
    BY <1>1, <1>2, <1>6, <1>7, <1>8, FS_Surjection

\* Names counted as often as nodes are names told apart.
LEMMA NamesDiffer ==
    ASSUME NEW d, Shape(d), DistinctNames(d)
    PROVE  Named(d)
  <1>1. PICK s : s = d.canvas
    OBVIOUS
  <1>2. PICK N \in Nat : Len(s) = N /\ DOMAIN s = 1..N
    BY <1>1, SeqIs DEF Shape, Drawn
  <1>3. PICK f : f = [k \in 1..N |-> s[k].name]
    OBVIOUS
  <1>4. NodeNames(d) = {s[k].name : k \in 1..N}
    BY <1>1, <1>2 DEF NodeNames, Nodes, ToSet
  <1>5. f \in Surjection(1..N, NodeNames(d))
    BY <1>3, <1>4 DEF Surjection
  <1>6. IsFiniteSet(1..N) /\ Cardinality(1..N) = N
    BY FS_Interval
  <1>7. Cardinality(NodeNames(d)) = N
    BY <1>1, <1>2 DEF DistinctNames
  <1>8. f \in Injection(1..N, NodeNames(d))
    BY <1>5, <1>6, <1>7, FS_Surjection
  <1>9. \A i, j \in 1..N : s[i].name = s[j].name => i = j
    BY <1>3, <1>8 DEF Injection, IsInjective
  <1> QED
    BY <1>1, <1>2, <1>9 DEF Named, Nodes, ToSet

(***************************************************************************)
(* Types.                                                                  *)
(***************************************************************************)
NetForm(n) ==
    \/ n = NoNet
    \/ n = [running |-> TRUE, prefs |-> n.prefs, down |-> n.down, nodes |-> n.nodes,
            links |-> n.links, started |-> n.started, commands |-> n.commands, flows |-> n.flows]
DialogForm(w) == w = NoDialog \/ w.kind \in {"Host", "Docker", "Switch"}

TypeInv ==
    /\ Shape(m)
    /\ prefs \in {"ovs", "user"} /\ tools \in {"normal", "disabled", "closed"}
    /\ NetForm(net) /\ DialogForm(dialog)
    /\ gestures \in 0..MaxGestures /\ trouble \subseteq Troubles

\* The invariant implies type correctness.
LEMMA TypeInvIsType ==
    ASSUME TypeInv
    PROVE  TypeOK
  <1>1. Cardinality(Items(m)) = Len(m.canvas)
    BY ItemsCounted DEF TypeInv
  <1>2. \A w \in Nodes(m) : w.item \in 1..(m.next - 1)
    BY DEF TypeInv, Shape, Drawn, IsNode, Nodes
  <1>3. \A l \in ToSet(m.links) : l.item \in 1..(m.next - 1) /\ l.type \in {"data", "control"}
    BY DEF TypeInv, Shape, Drawn, IsLink
  <1>4. net.running \in BOOLEAN
    <2>1. net.running = FALSE \/ net.running = TRUE
      BY DEF TypeInv, NetForm, NoNet
    <2> QED
      BY <2>1
  <1> QED
    BY <1>1, <1>2, <1>3, <1>4 DEF TypeInv, TypeOK

\* A net that runs has the form of one,
LEMMA RunNetForm ==
    ASSUME NEW d, NEW p, NEW n, n = RunNet(d, p)
    PROVE  NetForm(n) /\ n.running /\ n.prefs = p /\ n.down = {}
           /\ n.nodes = {Built(d, p, w) : w \in Nodes(d)} /\ n.links = BuiltLinks(d)
  BY DEF RunNet, NetForm

\* also when links are set down.
LEMMA LinkStatusForm ==
    ASSUME NEW n, NetForm(n), n.running, NEW pair, NEW down, NEW o, o = ConfigLinkStatus(n, pair, down)
    PROVE  NetForm(o) /\ o.running
           /\ o.prefs = n.prefs /\ o.nodes = n.nodes /\ o.links = n.links /\ o.started = n.started
           /\ o.commands = n.commands /\ o.flows = n.flows
           /\ o.down = IF ~\E k \in ToSet(n.links) : {k[1], k[2]} = pair THEN n.down
                       ELSE IF down THEN n.down \cup {pair} ELSE n.down \ {pair}
  <1>1. PICK x : x = IF ~\E k \in ToSet(n.links) : {k[1], k[2]} = pair THEN n.down
                     ELSE IF down THEN n.down \cup {pair} ELSE n.down \ {pair}
    OBVIOUS
  <1>2. n = [running |-> TRUE, prefs |-> n.prefs, down |-> n.down, nodes |-> n.nodes,
             links |-> n.links, started |-> n.started, commands |-> n.commands, flows |-> n.flows]
    BY DEF NetForm, NoNet
  <1>3. o = [n EXCEPT !.down = x]
    BY <1>1 DEF ConfigLinkStatus
  <1>4. /\ o = [running |-> TRUE, prefs |-> n.prefs, down |-> x, nodes |-> n.nodes,
                links |-> n.links, started |-> n.started, commands |-> n.commands,
                flows |-> n.flows]
    BY <1>2, <1>3
  <1> QED
    BY <1>1, <1>4 DEF NetForm

\* A link that is drawn keeps the shape.
LEMMA FinishLinkShape ==
    ASSUME NEW d, Shape(d), NEW a, NEW b, NEW r, r = FinishLink(d, a, b)
    PROVE  Shape(r.m)
  <1>1. PICK type : /\ type \in {"data", "control"}
                    /\ type = IF "Controller" \in {a.kind, b.kind} THEN "control" ELSE "data"
    OBVIOUS
  <1>2. PICK e : e = AddLink(d, a.item, b.item, type, {})
    OBVIOUS
  <1>3. LinkAdded(d, a.item, b.item, type, {}, e)
    BY <1>2, LinkIsAdded
  <1>4. Shape(e) /\ e.switchOpts = d.switchOpts
    BY <1>1, <1>3, LinkAddedShape DEF LinkAdded, SameOpts
  <1>5. PICK switch, controller :
           /\ switch = IF a.kind = "Controller" THEN b.name ELSE a.name
           /\ controller = IF a.kind = "Controller" THEN a.name ELSE b.name
    OBVIOUS
  <1>6. PICK list : list = Append(d.switchOpts[switch].controllers, controller)
    OBVIOUS
  <1>7. r = IF "Controller" \notin {a.kind, b.kind} THEN Ok(e)
            ELSE IF ~HasList(d, switch) THEN Raise(e)
            ELSE Ok(WithList(e, switch, list))
    BY <1>1, <1>2, <1>5, <1>6 DEF FinishLink
  <1>8. CASE r = Ok(e) \/ r = Raise(e)
    BY <1>4, <1>8 DEF Ok, Raise
  <1>9. CASE HasList(d, switch) /\ r = Ok(WithList(e, switch, list))
    <2>1. IsSeq(d.switchOpts[switch].controllers)
      BY <1>9 DEF HasList, Shape, Entries, IsSwitchEntry
    <2>2. list = NoList \/ IsSeq(list)
      BY <1>6, <2>1, AppendedSeq
    <2>3. PICK f : f = WithList(e, switch, list)
      OBVIOUS
    <2>4. Relisted(e, switch, list, f)
      BY <1>4, <2>3, WithListIs DEF Shape
    <2>5. Shape(f)
      BY <1>4, <2>2, <2>4, RelistedShape
    <2> QED
      BY <1>9, <2>3, <2>5 DEF Ok
  <1> QED
    BY <1>7, <1>8, <1>9

\* The dialog of a link restyles it.
LEMMA OptionsSet ==
    ASSUME NEW d, Shape(d), NEW item, NEW e,
           e = WithLink(d, item, LAMBDA k : [k EXCEPT !.opts = LinkResult])
    PROVE  /\ Restyled(d, e)
           /\ \A k \in DOMAIN d.links :
                 e.links[k].down = d.links[k].down
  <1>0. \A k \in DOMAIN d.links :
           d.links[k] = [item |-> d.links[k].item, type |-> d.links[k].type, src |-> d.links[k].src,
                         dest |-> d.links[k].dest, opts |-> d.links[k].opts,
                         down |-> d.links[k].down]
    BY DEF Shape, Drawn, IsLink, ToSet
  <1>1. PICK l : l = [k \in DOMAIN d.links |->
                         IF d.links[k].item = item THEN [d.links[k] EXCEPT !.opts = LinkResult]
                         ELSE d.links[k]]
    OBVIOUS
  <1>2. e = [d EXCEPT !.links = l]
    BY <1>1 DEF WithLink, Each
  <1>3. /\ IsModel(e) /\ SameNodes(d, e) /\ SameOpts(d, e) /\ SameItems(d, e) /\ e.ends = d.ends
        /\ e.links = l
    BY <1>2 DEF Shape, IsModel, SameNodes, SameOpts, SameItems
  <1>4. ASSUME NEW k \in DOMAIN d.links
        PROVE  /\ l[k] = [item |-> d.links[k].item, type |-> d.links[k].type,
                          src |-> d.links[k].src, dest |-> d.links[k].dest,
                          opts |-> l[k].opts, down |-> l[k].down]
               /\ l[k].down = d.links[k].down
    <2>1. PICK x, y : x = d.links[k] /\ y = l[k]
      OBVIOUS
    <2>2. y = IF x.item = item THEN [x EXCEPT !.opts = LinkResult] ELSE x
      BY <1>1, <2>1
    <2>3. /\ y = [item |-> x.item, type |-> x.type, src |-> x.src, dest |-> x.dest,
                  opts |-> y.opts, down |-> y.down]
          /\ y.down = x.down
      BY <1>0, <2>1, <2>2
    <2> QED
      BY <2>1, <2>3
  <1> QED
    BY <1>1, <1>3, <1>4 DEF Restyled

FlagSet(d, item, down, e) ==
    \A k \in DOMAIN d.links :
        /\ e.links[k].opts = d.links[k].opts
        /\ e.links[k].down = IF d.links[k].item = item THEN down ELSE d.links[k].down

\* So do linkUp() and linkDown(),
LEMMA DownSet ==
    ASSUME NEW d, Shape(d), NEW item, NEW down, NEW e,
           e = WithLink(d, item, LAMBDA k : [k EXCEPT !.down = down])
    PROVE  Restyled(d, e) /\ FlagSet(d, item, down, e)
  <1>0. \A k \in DOMAIN d.links :
           d.links[k] = [item |-> d.links[k].item, type |-> d.links[k].type, src |-> d.links[k].src,
                         dest |-> d.links[k].dest, opts |-> d.links[k].opts,
                         down |-> d.links[k].down]
    BY DEF Shape, Drawn, IsLink, ToSet
  <1>1. PICK l : l = [k \in DOMAIN d.links |->
                         IF d.links[k].item = item THEN [d.links[k] EXCEPT !.down = down]
                         ELSE d.links[k]]
    OBVIOUS
  <1>2. e = [d EXCEPT !.links = l]
    BY <1>1 DEF WithLink, Each
  <1>3. /\ IsModel(e) /\ SameNodes(d, e) /\ SameOpts(d, e) /\ SameItems(d, e) /\ e.ends = d.ends
        /\ e.links = l
    BY <1>2 DEF Shape, IsModel, SameNodes, SameOpts, SameItems
  <1>4. ASSUME NEW k \in DOMAIN d.links
        PROVE  /\ l[k] = [item |-> d.links[k].item, type |-> d.links[k].type,
                          src |-> d.links[k].src, dest |-> d.links[k].dest,
                          opts |-> l[k].opts, down |-> l[k].down]
               /\ l[k].opts = d.links[k].opts
                 /\ l[k].down = IF d.links[k].item = item THEN down ELSE d.links[k].down
    <2>1. PICK x, y : x = d.links[k] /\ y = l[k]
      OBVIOUS
    <2>2. y = IF x.item = item THEN [x EXCEPT !.down = down] ELSE x
      BY <1>1, <2>1
    <2>3. /\ y = [item |-> x.item, type |-> x.type, src |-> x.src, dest |-> x.dest,
                  opts |-> y.opts, down |-> y.down]
          /\ y.opts = x.opts
                 /\ y.down = IF x.item = item THEN down ELSE x.down
      BY <1>0, <2>1, <2>2
    <2> QED
      BY <2>1, <2>3
  <1> QED
    BY <1>1, <1>3, <1>4 DEF Restyled, FlagSet

LinksMade(d, made, e) ==
    \A k \in DOMAIN d.links :
        /\ e.links[k].opts = d.links[k].opts
        /\ d.links[k] \in made => e.links[k].down = FALSE

\* and Run, of the links that it made.
LEMMA UndashedIs ==
    ASSUME NEW d, Shape(d), NEW made, NEW e, e = Undashed(d, made)
    PROVE  Restyled(d, e) /\ LinksMade(d, made, e)
  <1>0. \A k \in DOMAIN d.links :
           d.links[k] = [item |-> d.links[k].item, type |-> d.links[k].type, src |-> d.links[k].src,
                         dest |-> d.links[k].dest, opts |-> d.links[k].opts,
                         down |-> d.links[k].down]
    BY DEF Shape, Drawn, IsLink, ToSet
  <1>1. PICK l : l = [k \in DOMAIN d.links |->
                       IF d.links[k] \in made THEN [d.links[k] EXCEPT !.down = FALSE]
                       ELSE d.links[k]]
    OBVIOUS
  <1>2. e = [d EXCEPT !.links = l]
    BY <1>1 DEF Undashed, Each
  <1>3. /\ IsModel(e) /\ SameNodes(d, e) /\ SameOpts(d, e) /\ SameItems(d, e) /\ e.ends = d.ends
        /\ e.links = l
    BY <1>2 DEF Shape, IsModel, SameNodes, SameOpts, SameItems
  <1>4. ASSUME NEW k \in DOMAIN d.links
        PROVE  /\ l[k] = [item |-> d.links[k].item, type |-> d.links[k].type,
                          src |-> d.links[k].src, dest |-> d.links[k].dest,
                          opts |-> l[k].opts, down |-> l[k].down]
               /\ l[k].opts = d.links[k].opts
               /\ d.links[k] \in made => l[k].down = FALSE
    <2>1. PICK x, y : x = d.links[k] /\ y = l[k]
      OBVIOUS
    <2>2. y = IF x \in made THEN [x EXCEPT !.down = FALSE] ELSE x
      BY <1>1, <2>1
    <2>3. /\ y = [item |-> x.item, type |-> x.type, src |-> x.src, dest |-> x.dest,
                  opts |-> y.opts, down |-> y.down]
          /\ y.opts = x.opts /\ (x \in made => y.down = FALSE)
      BY <1>0, <2>1, <2>2
    <2> QED
      BY <2>1, <2>3
  <1> QED
    BY <1>1, <1>3, <1>4 DEF Restyled, LinksMade

\* The initial states have their types.
LEMMA InitTypes ==
    ASSUME Init
    PROVE  TypeInv
  <1>1. Shape(m)
    <2>1. CASE m = EmptyModel
      BY <2>1, EmptyShape
    <2>2. CASE \E t \in Imports : m = Imported(t)
      BY <2>2, ImportedShape
    <2> QED
      BY <2>1, <2>2 DEF Init
  <1> QED
    BY <1>1, KindsAssumption DEF Init, TypeInv, NetForm, DialogForm

\* What the OK of a dialog does to the model, and the troubles that it makes.
Answered(w, typed, d, t) ==
    LET stale == When(net.running \/ w \notin Nodes(m), "staleDialog")
        found == w.name \in DOMAIN IF w.kind = "Switch" THEN m.switchOpts ELSE m.hostOpts
    IN  \/ d = m /\ t = stale
        \/ /\ found
           /\ \E box \in Boxes(m, w) :
                 /\ d = ApplyDetails(m, w, typed, box)
                 /\ t = stale \cup When(/\ w.kind = "Host" /\ "imported" \notin box
                                       /\ "imported" \in m.hostOpts[w.name].extra,
                                       "addressReplaced")

\* The OK of a dialog applies it, or finds nothing to apply it to.
LEMMA OkDetailsThen ==
    ASSUME NEW typed, OkDetails(typed)
    PROVE  \E d, t : Then(d, t) /\ Answered(dialog, typed, d, t)
  <1>1. PICK w : w = dialog
    OBVIOUS
  <1>2. PICK stale : stale = When(net.running \/ w \notin Nodes(m), "staleDialog")
    OBVIOUS
  <1>3. PICK found : found <=> w.name \in DOMAIN IF w.kind = "Switch" THEN m.switchOpts ELSE m.hostOpts
    OBVIOUS
  <1>4. \/ ~found /\ Then(m, stale)
        \/ /\ found
           /\ \E box \in Boxes(m, w) :
                 Then(ApplyDetails(m, w, typed, box),
                      stale \cup When(/\ w.kind = "Host" /\ "imported" \notin box
                                     /\ "imported" \in m.hostOpts[w.name].extra,
                                     "addressReplaced"))
    BY <1>1, <1>2, <1>3 DEF OkDetails
  <1>5. CASE ~found
    <2>1. Then(m, stale)
      BY <1>4, <1>5
    <2>2. Answered(w, typed, m, stale)
      BY <1>2 DEF Answered
    <2> QED
      BY <1>1, <2>1, <2>2
  <1>6. CASE found
    <2>1. PICK box \in Boxes(m, w) :
             Then(ApplyDetails(m, w, typed, box),
                  stale \cup When(/\ w.kind = "Host" /\ "imported" \notin box
                                 /\ "imported" \in m.hostOpts[w.name].extra,
                                 "addressReplaced"))
      BY <1>4, <1>6
    <2>2. PICK d, t : /\ d = ApplyDetails(m, w, typed, box)
                      /\ t = stale \cup When(/\ w.kind = "Host" /\ "imported" \notin box
                                            /\ "imported" \in m.hostOpts[w.name].extra,
                                            "addressReplaced")
      OBVIOUS
    <2>3. Then(d, t)
      BY <2>1, <2>2
    <2>4. Answered(w, typed, d, t)
      BY <1>2, <1>3, <1>6, <2>2 DEF Answered
    <2> QED
      BY <1>1, <2>3, <2>4
  <1> QED
    BY <1>5, <1>6

\* A dialog of a node that is gone, or confirmed while a network runs, is
\* known.
LEMMA AnsweredTroubles ==
    ASSUME NEW w, NEW typed, NEW d, NEW t, Answered(w, typed, d, t)
    PROVE  /\ t \subseteq {"staleDialog", "addressReplaced"}
           /\ net.running \/ w \notin Nodes(m) => "staleDialog" \in t
  BY DEF Answered, When

\* A dialog that is confirmed keeps the shape.
LEMMA OkDetailsShape ==
    ASSUME TypeInv, NEW typed, NEW w, w.kind \in {"Host", "Docker", "Switch"},
           NEW e, NEW t, Answered(w, typed, e, t)
    PROVE  Shape(e)
  <1>1. PICK d : d = m
    OBVIOUS
  <1>3. e = d \/ \E box : /\ e = ApplyDetails(d, w, typed, box)
                          /\ w.kind = "Switch" => w.name \in DOMAIN d.switchOpts
    BY <1>1 DEF Answered
  <1>4. CASE e = d
    BY <1>1, <1>4 DEF TypeInv
  <1>5. ASSUME NEW box, e = ApplyDetails(d, w, typed, box), w.kind = "Switch",
               w.name \in DOMAIN d.switchOpts
        PROVE  Shape(e)
    <2>1. PICK name, o : SwitchApplied(d, w, typed, name, o, e)
      BY <1>1, <1>5, SwitchDetailsIs DEF TypeInv
    <2> QED
      BY <1>1, <2>1, SwitchAppliedShape DEF TypeInv
  <1>6. ASSUME NEW box, e = ApplyDetails(d, w, typed, box), w.kind \in {"Host", "Docker"}
        PROVE  Shape(e)
    <2>1. PICK name, o : HostApplied(d, w, typed, name, o, e)
      BY <1>1, <1>6, HostDetailsIs DEF TypeInv
    <2> QED
      BY <1>1, <2>1, HostAppliedShape DEF TypeInv
  <1> QED
    BY <1>3, <1>4, <1>5, <1>6

\* What a gesture does to the model keeps the types of the rest.
LEMMA GestureTypes ==
    ASSUME TypeInv, Gesture, NEW d, Shape(d), NEW troubles, troubles \subseteq Troubles,
           Then(d, troubles), prefs' \in {"ovs", "user"},
           tools' = tools, NetForm(net'), dialog' = dialog \/ dialog' = NoDialog
    PROVE  TypeInv'
  <1>1. Shape(m')
    BY DEF Then
  <1>2. trouble' \subseteq Troubles
    BY DEF Then, TypeInv, Troubles
  <1>3. gestures' \in 0..MaxGestures
    BY KindsAssumption DEF Gesture, TypeInv
  <1>4. DialogForm(dialog')
    BY DEF TypeInv, DialogForm
  <1> QED
    BY <1>1, <1>2, <1>3, <1>4 DEF TypeInv

\* A gesture that leaves the model.
LEMMA OtherTypes ==
    ASSUME TypeInv, Gesture, Shape(m'), trouble' = trouble,
           prefs' \in {"ovs", "user"}, tools' \in {"normal", "disabled", "closed"},
           NetForm(net'), DialogForm(dialog')
    PROVE  TypeInv'
  <1>1. gestures' \in 0..MaxGestures
    BY KindsAssumption DEF Gesture, TypeInv
  <1> QED
    BY <1>1 DEF TypeInv

\* Every step keeps the types.
LEMMA NextTypes ==
    ASSUME TypeInv, [Next]_vars
    PROVE  TypeInv'
  <1>0. /\ Shape(m) /\ prefs \in {"ovs", "user"} /\ NetForm(net)
        /\ tools \in {"normal", "disabled", "closed"} /\ DialogForm(dialog)
    BY DEF TypeInv
  <1>1. ASSUME NEW kind \in Kinds, ClickNode(kind) PROVE TypeInv'
    <2>1. PICK d : d = NewNode(m, kind)
      OBVIOUS
    <2>2. Shape(d)
      BY <1>0, <1>1, <2>1, NewNodeShape, KindsAssumption
    <2>3. Then(d, {}) /\ Gesture /\ UNCHANGED <<prefs, tools, net, dialog>>
      BY <1>1, <2>1 DEF ClickNode
    <2>4. {} \subseteq Troubles
      OBVIOUS
    <2> QED
      BY <1>0, <2>2, <2>3, <2>4, GestureTypes
  <1>2. ASSUME NEW a \in Nodes(m), NEW b \in Nodes(m), DragLink(a, b) PROVE TypeInv'
    <2>1. PICK d : d = FinishLink(m, a, b).m
      OBVIOUS
    <2>2. Shape(d)
      BY <1>0, <2>1, FinishLinkShape
    <2>3. PICK t : t = When({a.kind, b.kind} = {"Docker", "Controller"}, "dockerControl")
      OBVIOUS
    <2>4. Then(d, t) /\ Gesture /\ UNCHANGED <<prefs, tools, net, dialog>>
      BY <1>2, <2>1, <2>3 DEF DragLink
    <2>5. t \subseteq Troubles
      BY <2>3 DEF When, Troubles
    <2> QED
      BY <1>0, <2>2, <2>4, <2>5, GestureTypes
  <1>3. ASSUME NEW item, DeleteSelection(item) PROVE TypeInv'
    <2>1. PICK d : d = DeleteItem(m, tools, item).m
      OBVIOUS
    <2>2. Shape(d)
      BY <1>0, <2>1, DeleteItemShape
    <2>3. Then(d, {}) /\ Gesture /\ UNCHANGED <<prefs, tools, net, dialog>>
      BY <1>3, <2>1 DEF DeleteSelection
    <2>4. {} \subseteq Troubles
      OBVIOUS
    <2> QED
      BY <1>0, <2>2, <2>3, <2>4, GestureTypes
  <1>4. ASSUME NEW w \in Nodes(m), OpenDetails(w) PROVE TypeInv'
    <2>1. Gesture /\ UNCHANGED <<m, prefs, tools, net, trouble>> /\ DialogForm(dialog')
      BY <1>4 DEF OpenDetails, DialogForm
    <2> QED
      BY <1>0, <2>1, OtherTypes
  <1>5. ASSUME CancelDetails PROVE TypeInv'
    <2>1. Gesture /\ UNCHANGED <<m, prefs, tools, net, trouble>> /\ DialogForm(dialog')
      BY <1>5 DEF CancelDetails, DialogForm
    <2> QED
      BY <1>0, <2>1, OtherTypes
  <1>6. ASSUME NEW typed \in DialogNames, OkDetails(typed) PROVE TypeInv'
    <2>1. PICK d, t : Then(d, t) /\ Answered(dialog, typed, d, t)
      BY <1>6, OkDetailsThen
    <2>2. Shape(d)
      <3>1. PICK w : w = dialog
        OBVIOUS
      <3>2. w.kind \in {"Host", "Docker", "Switch"}
        BY <1>0, <1>6, <3>1 DEF OkDetails, DialogForm
      <3> QED
        BY <2>1, <3>1, <3>2, OkDetailsShape
    <2>3. t \subseteq Troubles
      BY <2>1, AnsweredTroubles DEF Troubles
    <2>4. Gesture /\ UNCHANGED <<prefs, tools, net>> /\ dialog' = NoDialog
      BY <1>6 DEF OkDetails
    <2> QED
      BY <1>0, <2>1, <2>2, <2>3, <2>4, GestureTypes
  <1>7. ASSUME NEW w \in Nodes(m), NEW typed \in DialogNames, ControllerDetails(w, typed) PROVE TypeInv'
    <2>1. PICK d : d = IF w.name \in DOMAIN m.controllers THEN RenameController(m, w, typed).m ELSE m
      OBVIOUS
    <2>2. Shape(d)
      BY <1>0, <2>1, RenameControllerShape
    <2>3. Then(d, {}) /\ Gesture /\ UNCHANGED <<prefs, tools, net, dialog>>
      BY <1>7, <2>1 DEF ControllerDetails
    <2>4. {} \subseteq Troubles
      OBVIOUS
    <2> QED
      BY <1>0, <2>2, <2>3, <2>4, GestureTypes
  <1>8. ASSUME NEW l \in ToSet(m.links), LinkDetails(l) PROVE TypeInv'
    <2>1. PICK d : d = WithLink(m, l.item, LAMBDA k : [k EXCEPT !.opts = LinkResult])
      OBVIOUS
    <2>2. Shape(d)
      <3>1. PICK e, i : e = m /\ i = l.item
        OBVIOUS
      <3>2. Restyled(e, d)
        BY <1>0, <2>1, <3>1, OptionsSet
      <3> QED
        BY <1>0, <3>1, <3>2, RestyledShape
    <2>3. Then(d, {}) /\ Gesture /\ UNCHANGED <<prefs, tools, net, dialog>>
      BY <1>8, <2>1 DEF LinkDetails
    <2>4. {} \subseteq Troubles
      OBVIOUS
    <2> QED
      BY <1>0, <2>2, <2>3, <2>4, GestureTypes
  <1>9. ASSUME NEW l \in ToSet(m.links), NEW down \in BOOLEAN, SetLinkDown(l, down) PROVE TypeInv'
    <2>1. PICK d : d = WithLink(m, l.item, LAMBDA k : [k EXCEPT !.down = down])
      OBVIOUS
    <2>2. Shape(d)
      <3>1. PICK e, i : e = m /\ i = l.item
        OBVIOUS
      <3>2. Restyled(e, d)
        BY <1>0, <2>1, <3>1, DownSet
      <3> QED
        BY <1>0, <3>1, <3>2, RestyledShape
    <2>3. Then(d, {}) /\ Gesture /\ UNCHANGED <<prefs, tools, dialog>>
      BY <1>9, <2>1 DEF SetLinkDown
    <2>4. {} \subseteq Troubles
      OBVIOUS
    <2>5. NetForm(net')
      <3>1. PICK pair : pair = {Text(m, l.src), Text(m, l.dest)}
        OBVIOUS
      <3>2. net.running /\ net' = ConfigLinkStatus(net, pair, down)
        BY <1>9, <3>1 DEF SetLinkDown
      <3> QED
        BY <1>0, <3>2, LinkStatusForm
    <2> QED
      BY <1>0, <2>2, <2>3, <2>4, <2>5, GestureTypes
  <1>10. ASSUME PrefDetails PROVE TypeInv'
    <2>1. Gesture /\ UNCHANGED <<m, tools, net, dialog, trouble>> /\ prefs' \in {"ovs", "user"}
      BY <1>10 DEF PrefDetails
    <2> QED
      BY <1>0, <2>1, OtherTypes
  <1>11. ASSUME FileNew PROVE TypeInv'
    <2>1. PICK d : d = NewTopology(m, tools).m
      OBVIOUS
    <2>2. Shape(d)
      BY <1>0, <2>1, NewTopologyShape
    <2>3. Then(d, WhileRunning) /\ Gesture /\ UNCHANGED <<prefs, tools, net, dialog>>
      BY <1>11, <2>1 DEF FileNew
    <2>4. WhileRunning \subseteq Troubles
      BY DEF WhileRunning, When, Troubles
    <2> QED
      BY <1>0, <2>2, <2>3, <2>4, GestureTypes
  <1>12. ASSUME NEW f, IsFile(f), f.prefs \in {"ovs", "user"}, FileOpen(f) PROVE TypeInv'
    <2>1. PICK d : d = Loaded(m, tools, f).m
      OBVIOUS
    <2>2. Shape(d)
      BY <1>0, <1>12, <2>1, LoadedShape
    <2>3. PICK t : t = {"fileOpened"} \cup WhileRunning \cup When(f.version = 1, "oldFile")
      OBVIOUS
    <2>4. Then(d, t) /\ Gesture /\ UNCHANGED <<tools, net, dialog>>
      BY <1>12, <2>1, <2>3 DEF FileOpen
    <2>5. t \subseteq Troubles
      BY <2>3 DEF WhileRunning, When, Troubles
    <2>6. prefs' \in {"ovs", "user"}
      BY <1>0, <1>12 DEF FileOpen
    <2> QED
      BY <1>0, <2>2, <2>4, <2>5, <2>6, GestureTypes
  <1>13. ASSUME NEW f \in OldFiles, FileOpen(f) PROVE TypeInv'
    BY <1>12, <1>13, FileIs, FilesAssumption
  <1>14. ASSUME AllHaveOpts(m), NEW f, f = Saved(m, prefs), FileOpen(f) PROVE TypeInv'
    <2>1. PICK d, p : d = m /\ p = prefs
      OBVIOUS
    <2>2. IsFile(f) /\ f.prefs = p
      BY <1>0, <1>14, <2>1, SavedIsFile
    <2> QED
      BY <1>0, <1>12, <1>14, <2>1, <2>2
  <1>20. ASSUME NEW f \in Files, FileOpen(f) PROVE TypeInv'
    BY <1>13, <1>14, <1>20 DEF Files
  <1>15. ASSUME DoRun PROVE TypeInv'
    <2>1. Shape(m') /\ NetForm(net')
      <3>1. ASSUME NEW made, m' = Undashed(m, made) PROVE Shape(m')
        <4>1. PICK d, e : d = m /\ e = m'
          OBVIOUS
        <4>2. Restyled(d, e)
          BY <1>0, <3>1, <4>1, UndashedIs
        <4> QED
          BY <1>0, <4>1, <4>2, RestyledShape
      <3>2. net' = net \/ net' = RunNet(m, prefs)
        BY <1>15 DEF DoRun
      <3>3. m' = m \/ \E made : m' = Undashed(m, made)
        BY <1>15 DEF DoRun
      <3> QED
        BY <1>0, <3>1, <3>2, <3>3, RunNetForm
    <2>2. Gesture /\ UNCHANGED <<prefs, dialog, trouble>> /\ tools' = "disabled"
      BY <1>15 DEF DoRun
    <2> QED
      BY <1>0, <2>1, <2>2, OtherTypes
  <1>16. ASSUME DoStop PROVE TypeInv'
    <2>1. Gesture /\ UNCHANGED <<m, prefs, dialog, trouble>> /\ tools' = "normal" /\ net' = NoNet
      BY <1>16 DEF DoStop
    <2> QED
      BY <1>0, <2>1, OtherTypes DEF NetForm
  <1>17. ASSUME Quit PROVE TypeInv'
    <2>1. Gesture /\ UNCHANGED <<m, prefs, dialog, trouble>> /\ tools' = "closed" /\ net' = NoNet
      BY <1>17 DEF Quit
    <2> QED
      BY <1>0, <2>1, OtherTypes DEF NetForm
  <1>18. CASE UNCHANGED vars
    BY <1>18 DEF vars, TypeInv
  <1>19. CASE Next
    BY <1>19, <1>1, <1>2, <1>3, <1>4, <1>5, <1>6, <1>7, <1>8, <1>9, <1>10, <1>11, <1>20,
       <1>15, <1>16, <1>17 DEF Next
  <1> QED
    BY <1>18, <1>19

\* The drawing keeps its shape, and every variable its type, in every
\* behaviour (every handler of miniedit.py).
THEOREM Typed == Spec => []TypeInv
  <1>1. Init => TypeInv
    BY InitTypes
  <1>2. TypeInv /\ [Next]_vars => TypeInv'
    BY NextTypes
  <1> QED
    BY <1>1, <1>2, PTL DEF Spec

(* Whatever is drawn, deleted, renamed, saved, opened and run: every icon and every
   line of the canvas has an item of its own.  *)
THEOREM EditorTyped == Spec => []TypeOK
  <1>1. TypeInv => TypeOK
    BY TypeInvIsType
  <1> QED
    BY <1>1, Typed, PTL

(***************************************************************************)
(* Names.                                                                  *)
(***************************************************************************)
\* A new node has a name of its own exactly if the names go on being distinct.
LEMMA NodeAddedNames ==
    ASSUME NEW d, Shape(d), NEW kind, NEW name, NEW e, NodeAdded(d, kind, name, e),
           NEW w, w = [item |-> d.next, kind |-> kind, name |-> name]
    PROVE  /\ Nodes(e) = Nodes(d) \cup {w} /\ w \notin Nodes(d)
           /\ NodeNames(e) = NodeNames(d) \cup {name}
           /\ Named(e) <=> Named(d) /\ name \notin NodeNames(d)
  <1>1. Nodes(e) = Nodes(d) \cup {w}
    BY AppendedSet DEF NodeAdded, Nodes, Shape, Drawn
  <1>2. w.item = d.next /\ w.name = name /\ w.kind = kind
    OBVIOUS
  <1>3. w \notin Nodes(d)
    BY <1>2 DEF Shape, Drawn, IsNode, Nodes
  <1>4. NodeNames(e) = NodeNames(d) \cup {name}
    BY <1>1, <1>2 DEF NodeNames
  <1>5. Named(e) => Named(d) /\ name \notin NodeNames(d)
    BY <1>1, <1>2, <1>3 DEF Named, NodeNames
  <1>6. Named(d) /\ name \notin NodeNames(d) => Named(e)
    BY <1>1, <1>2 DEF Named, NodeNames
  <1> QED
    BY <1>1, <1>3, <1>4, <1>5, <1>6

\* Names on the same canvas.
LEMMA SameNames ==
    ASSUME NEW d, NEW e, SameNodes(d, e)
    PROVE  /\ Nodes(e) = Nodes(d) /\ NodeNames(e) = NodeNames(d) /\ Items(e) = Items(d)
           /\ Named(e) <=> Named(d)
  BY DEF SameNodes, Nodes, NodeNames, Named, Items

(***************************************************************************)
(* Offsets.  The hosts drawn have addresses of their own, none above top.   *)
(***************************************************************************)
Numbered(d, top) ==
    \A w \in Nodes(d) : w.kind = "Host" =>
        /\ w.name \in DOMAIN d.hostOpts /\ Offset(d.hostOpts[w.name]) \in 0..top
        /\ \A v \in Nodes(d) :
              v.kind = "Host" /\ Offset(d.hostOpts[v.name]) = Offset(d.hostOpts[w.name]) => v = w

\* Fewer hosts have fewer numbers.
LEMMA FewerNumbered ==
    ASSUME NEW d, NEW top, Numbered(d, top), NEW e, e.hostOpts = d.hostOpts,
           \A w \in Nodes(e) : w.kind = "Host" => w \in Nodes(d)
    PROVE  Numbered(e, top)
  BY DEF Numbered

\* A host gets the next number.
LEMMA HostAddedNumbered ==
    ASSUME NEW d, Shape(d), NEW top \in Int, Numbered(d, top),
           NEW kind, NEW name, NEW o, NEW e, HostAdded(d, kind, name, o, e), Named(e),
           NEW next \in Int, top <= next,
           kind = "Host" => Offset(o) \in Nat /\ Offset(o) > top /\ Offset(o) <= next
    PROVE  Numbered(e, next)
  <1>1. PICK w : w = [item |-> d.next, kind |-> kind, name |-> name]
    OBVIOUS
  <1>2. /\ Nodes(e) = Nodes(d) \cup {w} /\ w.kind = kind /\ w.name = name
        /\ name \notin NodeNames(d)
    BY <1>1, NodeAddedNames DEF HostAdded
  <1>3. Entered(d.hostOpts, name, o, e.hostOpts)
    BY DEF HostAdded
  <1>4. ASSUME NEW v \in Nodes(d), v.kind = "Host"
        PROVE  /\ v.name \in DOMAIN e.hostOpts /\ e.hostOpts[v.name] = d.hostOpts[v.name]
               /\ Offset(d.hostOpts[v.name]) \in 0..top
    <2>1. v.name # name
      BY <1>2 DEF NodeNames
    <2>2. v.name \in DOMAIN d.hostOpts /\ Offset(d.hostOpts[v.name]) \in 0..top
      BY <1>4 DEF Numbered
    <2> QED
      BY <1>3, <2>1, <2>2 DEF Entered
  <1>5. name \in DOMAIN e.hostOpts /\ e.hostOpts[name] = o
    BY <1>3 DEF Entered
  <1>6. ASSUME NEW v \in Nodes(e), v.kind = "Host"
        PROVE  v.name \in DOMAIN e.hostOpts /\ Offset(e.hostOpts[v.name]) \in 0..next
    <2>1. CASE v = w
      BY <1>2, <1>5, <1>6, <2>1
    <2>2. CASE v \in Nodes(d)
      BY <1>4, <1>6, <2>2
    <2> QED
      BY <1>2, <2>1, <2>2
  <1>7. ASSUME NEW v \in Nodes(e), v.kind = "Host", NEW u \in Nodes(e), u.kind = "Host",
               Offset(e.hostOpts[u.name]) = Offset(e.hostOpts[v.name])
        PROVE  u = v
    <2>1. CASE v \in Nodes(d) /\ u \in Nodes(d)
      BY <1>4, <1>7, <2>1 DEF Numbered
    <2>2. CASE v = w /\ u \in Nodes(d)
      BY <1>2, <1>4, <1>5, <1>7, <2>2
    <2>3. CASE u = w /\ v \in Nodes(d)
      BY <1>2, <1>4, <1>5, <1>7, <2>3
    <2> QED
      BY <1>2, <2>1, <2>2, <2>3
  <1> QED
    BY <1>6, <1>7 DEF Numbered

\* Other nodes have no numbers.
LEMMA OtherAddedNumbered ==
    ASSUME NEW d, Shape(d), NEW top, Numbered(d, top),
           NEW kind, kind # "Host", NEW name, NEW e, NodeAdded(d, kind, name, e), e.hostOpts = d.hostOpts
    PROVE  Numbered(e, top)
  <1>1. PICK w : w = [item |-> d.next, kind |-> kind, name |-> name]
    OBVIOUS
  <1>2. Nodes(e) = Nodes(d) \cup {w} /\ w.kind = kind
    BY <1>1, NodeAddedNames
  <1> QED
    BY <1>2, FewerNumbered

\* A dialog changes one node.
LEMMA RetitledOthers ==
    ASSUME NEW d, Shape(d), NEW u \in Nodes(d), NEW name, NEW e, Retitled(d, u.item, name, e)
    PROVE  \A v \in Nodes(e) : \/ v \in Nodes(d) /\ v.item # u.item
                               \/ v.item = u.item /\ v.kind = u.kind /\ v.name = name
  <1>1. SUFFICES ASSUME NEW v \in Nodes(e)
                 PROVE  \/ v \in Nodes(d) /\ v.item # u.item
                        \/ v.item = u.item /\ v.kind = u.kind /\ v.name = name
    OBVIOUS
  <1>2. PICK k \in DOMAIN d.canvas : v = e.canvas[k]
    <2>1. DOMAIN e.canvas = DOMAIN d.canvas
      BY DEF Retitled
    <2> QED
      BY <2>1 DEF Nodes, ToSet
  <1>3. PICK w : w = d.canvas[k]
    OBVIOUS
  <1>4. w \in Nodes(d)
    BY <1>3 DEF Nodes, ToSet
  <1>5. v = IF w.item = u.item THEN [w EXCEPT !.name = name] ELSE w
    BY <1>2, <1>3 DEF Retitled
  <1>6. CASE w.item = u.item
    <2>1. w = u
      <3>1. Widget(d, w.item) = w /\ Widget(d, u.item) = u
        BY <1>4, WidgetIs
      <3> QED
        BY <1>6, <3>1
    <2>2. w = [item |-> w.item, kind |-> w.kind, name |-> w.name]
      BY <1>4 DEF Shape, Drawn, IsNode, Nodes
    <2>3. v = [w EXCEPT !.name = name]
      BY <1>5, <1>6
    <2>4. v.item = w.item /\ v.kind = w.kind /\ v.name = name
      BY <2>2, <2>3
    <2> QED
      BY <2>1, <2>4
  <1>7. CASE w.item # u.item
    BY <1>4, <1>5, <1>7
  <1> QED
    BY <1>6, <1>7

\* A host keeps its number when its dialog is applied.
LEMMA HostAppliedNumbered ==
    ASSUME NEW d, Shape(d), NEW top, Numbered(d, top), NEW u \in Nodes(d), u.kind \in {"Host", "Docker"},
           NEW typed, NEW name, NEW o, NEW e, HostApplied(d, u, typed, name, o, e), Named(e),
           u.kind = "Host" => Offset(o) = Offset(d.hostOpts[u.name])
    PROVE  Numbered(e, top)
  <1>1. Retitled(d, u.item, name, e) /\ Entered(d.hostOpts, name, o, e.hostOpts)
    BY DEF HostApplied
  <1>2. \A v \in Nodes(e) : \/ v \in Nodes(d) /\ v.item # u.item
                            \/ v.item = u.item /\ v.kind = u.kind /\ v.name = name
    <2>1. Shape(d) /\ u \in Nodes(d)
      OBVIOUS
    <2> QED
      BY ONLY <1>1, <2>1, RetitledOthers
  <1>3. PICK x \in Nodes(e) : x.item = u.item /\ x.kind = u.kind /\ x.name = name
    BY <1>1, RetitledShape
  <1>4. \A v \in Nodes(e) : v.item = u.item => v = x
    BY <1>2, <1>3 DEF Named
  <1>5. \A v \in Nodes(e) : v # x => v \in Nodes(d) /\ v.name # name
    BY <1>2, <1>3, <1>4 DEF Named
  <1>6. ASSUME NEW v \in Nodes(e), v.kind = "Host"
        PROVE  /\ v.name \in DOMAIN e.hostOpts
               /\ \E w \in Nodes(d) : /\ w.kind = "Host" /\ w.item = v.item
                                      /\ Offset(e.hostOpts[v.name]) = Offset(d.hostOpts[w.name])
    <2>1. CASE v = x
      <3>1. name \in DOMAIN e.hostOpts /\ e.hostOpts[name] = o
        BY <1>1 DEF Entered
      <3> QED
        BY <1>1, <1>3, <1>6, <2>1, <3>1
    <2>2. CASE v # x
      <3>1. v \in Nodes(d) /\ v.name # name
        BY <1>5, <2>2
      <3>2. v.name \in DOMAIN d.hostOpts
        BY <1>6, <3>1 DEF Numbered
      <3>3. v.name \in DOMAIN e.hostOpts /\ e.hostOpts[v.name] = d.hostOpts[v.name]
        BY <1>1, <3>1, <3>2 DEF Entered
      <3> QED
        BY <1>6, <3>1, <3>3
    <2> QED
      BY <2>1, <2>2
  <1>7. ASSUME NEW v \in Nodes(e), v.kind = "Host" PROVE Offset(e.hostOpts[v.name]) \in 0..top
    BY <1>6, <1>7 DEF Numbered
  <1>8. ASSUME NEW v \in Nodes(e), v.kind = "Host", NEW w \in Nodes(e), w.kind = "Host",
               Offset(e.hostOpts[w.name]) = Offset(e.hostOpts[v.name])
        PROVE  w = v
    <2>1. PICK y \in Nodes(d) : /\ y.kind = "Host" /\ y.item = v.item
                                /\ Offset(e.hostOpts[v.name]) = Offset(d.hostOpts[y.name])
      BY <1>6, <1>8
    <2>2. PICK z \in Nodes(d) : /\ z.kind = "Host" /\ z.item = w.item
                                /\ Offset(e.hostOpts[w.name]) = Offset(d.hostOpts[z.name])
      BY <1>6, <1>8
    <2>3. y = z
      BY <1>8, <2>1, <2>2 DEF Numbered
    <2>4. v.item = w.item
      BY <2>1, <2>2, <2>3
    <2>5. CASE v.item = u.item
      BY <1>4, <2>4, <2>5
    <2>6. CASE v.item # u.item
      <3>1. v \in Nodes(d) /\ w \in Nodes(d)
        BY <1>2, <2>4, <2>6
      <3>2. Widget(d, v.item) = v /\ Widget(d, w.item) = w
        BY <3>1, WidgetIs
      <3> QED
        BY <2>4, <3>2
    <2> QED
      BY <2>5, <2>6
  <1> QED
    BY <1>6, <1>7, <1>8 DEF Numbered

\* Dialogs of switches and controllers are of no matter to hosts.
LEMMA OtherAppliedNumbered ==
    ASSUME NEW d, Shape(d), NEW top, Numbered(d, top), NEW u \in Nodes(d), u.kind # "Host",
           NEW name, NEW e, Retitled(d, u.item, name, e), e.hostOpts = d.hostOpts
    PROVE  Numbered(e, top)
  <1>1. \A v \in Nodes(e) : \/ v \in Nodes(d) /\ v.item # u.item
                            \/ v.item = u.item /\ v.kind = u.kind /\ v.name = name
    BY RetitledOthers
  <1> QED
    BY <1>1, FewerNumbered

(* No address is given twice.  *)
LEMMA NumberedDiffer ==
    ASSUME NEW d, IsSeq(d.canvas), NEW top, Numbered(d, top),
           NEW v \in ToSet(NodesLike(d, {"Host"})), NEW w \in ToSet(NodesLike(d, {"Host"})),
           Address(d.hostOpts[v.name]) = Address(d.hostOpts[w.name])
    PROVE  v = w \/ Address(d.hostOpts[v.name]) = Given
  <1>1. PICK s : s = NodesLike(d, {"Host"})
    OBVIOUS
  <1>2. ToSet(s) = {x \in Nodes(d) : x.kind \in {"Host"}}
    BY <1>1, NodesLikeIs
  <1>3. v \in Nodes(d) /\ v.kind = "Host" /\ w \in Nodes(d) /\ w.kind = "Host"
    BY <1>1, <1>2
  <1>4. PICK o, p : o = d.hostOpts[v.name] /\ p = d.hostOpts[w.name]
    OBVIOUS
  <1>5. CASE "ip" \in o.extra
    BY <1>4, <1>5 DEF Address
  <1>6. CASE "ip" \notin o.extra
    <2>1. Address(o) = <<"offset", Offset(o)>>
      BY <1>6 DEF Address
    <2>2. Address(p) = <<"offset", Offset(o)>>
      BY <1>4, <2>1
    <2>3. Offset(p) = Offset(o)
      <3>1. CASE "ip" \in p.extra
        BY <2>2, <3>1 DEF Address, Given
      <3>2. CASE "ip" \notin p.extra
        <4>1. Address(p) = <<"offset", Offset(p)>>
          BY <3>2 DEF Address
        <4> QED
          BY <2>2, <4>1
      <3> QED
        BY <3>1, <3>2
    <2> QED
      BY <1>3, <1>4, <2>3 DEF Numbered
  <1> QED
    BY <1>5, <1>6

(***************************************************************************)
(* What links, tables and options say of each other.                       *)
(***************************************************************************)
ControllerNames(d) == {w.name : w \in {v \in Nodes(d) : v.kind = "Controller"}}
ListOf(d, w) == d.switchOpts[w.name].controllers
Joins(l, v, w) ==
    \/ l.src = v.item /\ l.dest = w.item
    \/ l.src = w.item /\ l.dest = v.item
Managing(d, w, c) == \E l \in ToSet(d.links) : l.type = "control" /\ Joins(l, w, c)

(* A link joins two nodes that both know it, and a node knows no other links.  *)
MayJoin(type, v, w) ==
    IF type = "control"
    THEN \/ v.kind = "Controller" /\ w.kind \in SwitchLike
         \/ w.kind = "Controller" /\ v.kind \in SwitchLike
    ELSE v.kind # "Controller" /\ w.kind # "Controller"
WiredLink(d, l) ==
    /\ \E v, w \in Nodes(d) : v # w /\ l.src = v.item /\ l.dest = w.item /\ MayJoin(l.type, v, w)
    /\ <<l.src, l.dest>> \in DOMAIN d.ends /\ <<l.dest, l.src>> \in DOMAIN d.ends
    /\ d.ends[<<l.src, l.dest>>] = l.item /\ d.ends[<<l.dest, l.src>>] = l.item
Wired(d) ==
    /\ d.gone = {}
    /\ \A l \in ToSet(d.links) : WiredLink(d, l)
    /\ \A x \in DOMAIN d.ends : \E l \in ToSet(d.links) :
          d.ends[x] = l.item /\ (x = <<l.src, l.dest>> \/ x = <<l.dest, l.src>>)

(* Every node has options of its kind, and the controllers a switch lists are some.  *)
FitList(kind, list, names) ==
    /\ kind = "Switch" => list # NoList
    /\ kind = "LegacySwitch" => list = <<>>
    /\ kind = "LegacyRouter" => list \in {NoList, <<>>}
    /\ list # NoList => NoTwice(list) /\ ToSet(list) \subseteq names
EquippedNode(d, w, names) ==
    /\ w.kind \in HostLike =>
          w.name \in DOMAIN d.hostOpts /\ FitsHost(w.kind, w.name, d.hostOpts[w.name])
    /\ w.kind \in SwitchLike =>
          /\ w.name \in DOMAIN d.switchOpts /\ FitsSwitch(w.kind, w.name, d.switchOpts[w.name])
          /\ FitList(w.kind, ListOf(d, w), names)
    /\ w.kind = "Controller" => w.name \in DOMAIN d.controllers
Equipped(d) == \A w \in Nodes(d) : EquippedNode(d, w, ControllerNames(d))

(* A switch that is linked to a controller has a list.  *)
Enlisted(d) ==
    \A l \in ToSet(d.links), w \in Nodes(d) :
        l.type = "control" /\ w.kind \in SwitchLike /\ w.item \in {l.src, l.dest} => HasList(d, w.name)

(* A switch lists no controller it is not linked to, but for the switches of X.  *)
ListsDrawn(d, X) ==
    \A w, c \in Nodes(d) :
        /\ w.kind = "Switch" /\ w.item \notin X /\ c.kind = "Controller"
        /\ c.name \in ToSet(ListOf(d, w))
        => Managing(d, w, c)

Good(d, X) == Named(d) /\ Wired(d) /\ Equipped(d) /\ Enlisted(d) /\ ListsDrawn(d, X)

(* Who is linked to a controller lists it and is a switch, but for the controllers of X.  *)
Managed(d, X) ==
    \A w, c \in Nodes(d) :
        c.kind = "Controller" /\ c.item \notin X /\ Managing(d, w, c)
            => w.kind = "Switch" /\ c.name \in ToSet(ListOf(d, w))

\* Nodes are told apart by their items.
LEMMA NodesDiffer ==
    ASSUME NEW d, Shape(d), NEW v \in Nodes(d), NEW w \in Nodes(d), v.item = w.item
    PROVE  v = w
  <1>1. Widget(d, v.item) = v /\ Widget(d, w.item) = w
    BY WidgetIs
  <1> QED
    BY <1>1

(* A node is added.  *)
LEMMA NodeAddedWired ==
    ASSUME NEW d, Shape(d), Wired(d), NEW kind, NEW name, NEW e, NodeAdded(d, kind, name, e)
    PROVE  Wired(e)
  <1>1. Nodes(d) \subseteq Nodes(e) /\ e.links = d.links /\ e.ends = d.ends /\ e.gone = d.gone
    BY NodeAddedNames DEF NodeAdded, SameLinks
  <1> QED
    BY <1>1 DEF Wired, WiredLink

(* The options of the nodes of d are the same in e.  *)
OptsKept(d, e) ==
    \A v \in Nodes(d) :
        /\ v.kind \in HostLike /\ v.name \in DOMAIN d.hostOpts =>
              v.name \in DOMAIN e.hostOpts /\ e.hostOpts[v.name] = d.hostOpts[v.name]
        /\ v.kind \in SwitchLike /\ v.name \in DOMAIN d.switchOpts =>
              v.name \in DOMAIN e.switchOpts /\ e.switchOpts[v.name] = d.switchOpts[v.name]
        /\ v.kind = "Controller" /\ v.name \in DOMAIN d.controllers =>
              v.name \in DOMAIN e.controllers /\ e.controllers[v.name] = d.controllers[v.name]

\* More controllers do no harm to lists.
LEMMA MoreNames ==
    ASSUME NEW d, NEW w, NEW names, EquippedNode(d, w, names), NEW more, names \subseteq more
    PROVE  EquippedNode(d, w, more)
  BY DEF EquippedNode, FitList

\* A node whose options are kept stays equipped.
LEMMA KeptNode ==
    ASSUME NEW d, NEW e, OptsKept(d, e), NEW w \in Nodes(d), NEW names, EquippedNode(d, w, names)
    PROVE  EquippedNode(e, w, names) /\ (w.kind \in SwitchLike => ListOf(e, w) = ListOf(d, w))
  BY DEF EquippedNode, OptsKept, ListOf

\* A node that has its options is no harm.
LEMMA NodeAddedGood ==
    ASSUME NEW d, Shape(d), NEW X, Good(d, X), NEW kind, NEW name, NEW e, NodeAdded(d, kind, name, e),
           Named(e), OptsKept(d, e),
           NEW w, w = [item |-> d.next, kind |-> kind, name |-> name],
           EquippedNode(e, w, ControllerNames(d)), NEW Y, X \subseteq Y,
           \/ d.next \in Y
           \/ kind # "Switch"
           \/ ListOf(e, w) = <<>>
    PROVE  /\ Good(e, Y)
           /\ \A Z : Managed(d, Z) => Managed(e, Z)
  <1>1. /\ Nodes(e) = Nodes(d) \cup {w} /\ w \notin Nodes(d)
        /\ w.item = d.next /\ w.kind = kind /\ w.name = name
    BY NodeAddedNames
  <1>2. e.links = d.links /\ Wired(e)
    BY NodeAddedWired DEF NodeAdded, SameLinks, Good
  <1>3. ControllerNames(d) \subseteq ControllerNames(e)
    BY <1>1 DEF ControllerNames
  <1>4. Equipped(e)
    <2>1. ASSUME NEW v \in Nodes(d) PROVE EquippedNode(e, v, ControllerNames(e))
      BY <1>3, KeptNode, MoreNames DEF Good, Equipped
    <2>2. EquippedNode(e, w, ControllerNames(e))
      BY <1>3, MoreNames
    <2> QED
      BY <1>1, <2>1, <2>2 DEF Equipped
  <1>5. ASSUME NEW l \in ToSet(e.links), NEW v \in Nodes(e), v.item \in {l.src, l.dest}
        PROVE  v \in Nodes(d)
    <2>0. WiredLink(d, l)
      BY <1>2 DEF Good, Wired
    <2>1. PICK a, b \in Nodes(d) : l.src = a.item /\ l.dest = b.item
      BY <2>0 DEF WiredLink
    <2>2. d.next \notin {a.item, b.item}
      BY <2>1 DEF Shape, Drawn, IsNode, Nodes
    <2> QED
      BY <1>1, <1>5, <2>1, <2>2
  <1>6. ASSUME NEW v \in Nodes(e), NEW c \in Nodes(e), Managing(e, v, c)
        PROVE  v \in Nodes(d) /\ c \in Nodes(d) /\ Managing(d, v, c)
    BY <1>2, <1>5, <1>6 DEF Managing, Joins
  <1>7. \A v \in Nodes(d) : v.kind \in SwitchLike => ListOf(e, v) = ListOf(d, v) /\ v.name \in DOMAIN e.switchOpts
    BY KeptNode DEF Good, Equipped, EquippedNode, OptsKept
  <1>8. Enlisted(e)
    <2>1. ASSUME NEW l \in ToSet(e.links), NEW v \in Nodes(e), l.type = "control", v.kind \in SwitchLike,
                 v.item \in {l.src, l.dest}
          PROVE  HasList(e, v.name)
      <3>1. v \in Nodes(d)
        BY <1>5, <2>1
      <3>2. HasList(d, v.name)
        BY <1>2, <2>1, <3>1 DEF Good, Enlisted
      <3> QED
        BY <1>7, <2>1, <3>1, <3>2 DEF HasList, ListOf
    <2> QED
      BY <2>1 DEF Enlisted
  <1>9. ListsDrawn(e, Y)
    <2>1. ASSUME NEW v \in Nodes(e), NEW c \in Nodes(e), v.kind = "Switch", v.item \notin Y,
                 c.kind = "Controller", c.name \in ToSet(ListOf(e, v))
          PROVE  Managing(e, v, c)
      <3>0. "Switch" \in SwitchLike
        BY DEF SwitchLike
      <3>1. ToSet(<<>>) = {}
        BY NothingIsSeq DEF ToSet
      <3>2. v \in Nodes(d)
        BY <1>1, <2>1, <3>1
      <3>3. c.name \in ToSet(ListOf(d, v)) /\ ToSet(ListOf(d, v)) \subseteq ControllerNames(d)
        <4>1. ListOf(e, v) = ListOf(d, v)
          BY <1>7, <2>1, <3>0, <3>2
        <4>2. EquippedNode(d, v, ControllerNames(d))
          BY <3>2 DEF Good, Equipped
        <4> QED
          BY <2>1, <3>0, <4>1, <4>2 DEF EquippedNode, FitList
      <3>4. c \in Nodes(d)
        <4>1. PICK b \in Nodes(d) : b.name = c.name
          BY <3>3 DEF ControllerNames
        <4> QED
          BY <1>1, <4>1 DEF Named
      <3>5. Managing(d, v, c)
        BY <2>1, <3>2, <3>3, <3>4 DEF Good, ListsDrawn
      <3> QED
        BY <1>2, <3>5 DEF Managing
    <2> QED
      BY <2>1 DEF ListsDrawn
  <1>10. ASSUME NEW Z, Managed(d, Z) PROVE Managed(e, Z)
    <2>1. ASSUME NEW v \in Nodes(e), NEW c \in Nodes(e), c.kind = "Controller", c.item \notin Z,
                 Managing(e, v, c)
          PROVE  v.kind = "Switch" /\ c.name \in ToSet(ListOf(e, v))
      <3>1. v \in Nodes(d) /\ c \in Nodes(d) /\ Managing(d, v, c)
        BY <1>6, <2>1
      <3>2. v.kind = "Switch" /\ c.name \in ToSet(ListOf(d, v))
        BY <1>10, <2>1, <3>1 DEF Managed
      <3> QED
        BY <1>7, <3>1, <3>2 DEF SwitchLike
    <2> QED
      BY <2>1 DEF Managed
  <1> QED
    BY <1>2, <1>4, <1>8, <1>9, <1>10 DEF Good

\* The three sorts of nodes.
LEMMA HostAddedGood ==
    ASSUME NEW d, Shape(d), NEW X, Good(d, X), NEW kind, NEW name, NEW o, NEW e,
           HostAdded(d, kind, name, o, e), FitsHost(kind, name, o), Named(e)
    PROVE  Good(e, X) /\ \A Z : Managed(d, Z) => Managed(e, Z)
  <1>1. PICK w : w = [item |-> d.next, kind |-> kind, name |-> name]
    OBVIOUS
  <1>2. NodeAdded(d, kind, name, e) /\ kind \in HostLike /\ Entered(d.hostOpts, name, o, e.hostOpts)
    BY DEF HostAdded
  <1>3. Nodes(e) = Nodes(d) \cup {w} /\ w.kind = kind /\ w.name = name /\ name \notin NodeNames(d)
    BY <1>1, <1>2, NodeAddedNames
  <1>4. \A v \in Nodes(d) : v.name # name
    BY <1>3 DEF NodeNames
  <1>5. OptsKept(d, e)
    BY <1>2, <1>4 DEF OptsKept, Entered, HostAdded
  <1>6. EquippedNode(e, w, ControllerNames(d)) /\ kind # "Switch"
    BY <1>2, <1>3 DEF EquippedNode, Entered, HostLike, SwitchLike
  <1> QED
    BY <1>1, <1>2, <1>5, <1>6, NodeAddedGood

\* A switch may list controllers that it is to be linked to.
LEMMA SwitchAddedGood ==
    ASSUME NEW d, Shape(d), NEW X, Good(d, X), NEW kind, NEW name, NEW o, NEW e,
           SwitchAdded(d, kind, name, o, e), FitsSwitch(kind, name, o),
           FitList(kind, o.controllers, ControllerNames(d)), Named(e)
    PROVE  /\ Good(e, X \cup {d.next})
           /\ kind # "Switch" \/ o.controllers = <<>> => Good(e, X)
           /\ \A Z : Managed(d, Z) => Managed(e, Z)
  <1>1. PICK w : w = [item |-> d.next, kind |-> kind, name |-> name]
    OBVIOUS
  <1>2. NodeAdded(d, kind, name, e) /\ kind \in SwitchLike /\ Entered(d.switchOpts, name, o, e.switchOpts)
    BY DEF SwitchAdded
  <1>3. Nodes(e) = Nodes(d) \cup {w} /\ w.kind = kind /\ w.name = name /\ name \notin NodeNames(d)
    BY <1>1, <1>2, NodeAddedNames
  <1>4. \A v \in Nodes(d) : v.name # name
    BY <1>3 DEF NodeNames
  <1>5. OptsKept(d, e)
    BY <1>2, <1>4 DEF OptsKept, Entered, SwitchAdded
  <1>6. ListOf(e, w) = o.controllers
    BY <1>2, <1>3 DEF ListOf, Entered
  <1>7. EquippedNode(e, w, ControllerNames(d))
    BY <1>2, <1>3, <1>6 DEF EquippedNode, Entered, HostLike, SwitchLike
  <1>8. Good(e, X \cup {d.next}) /\ \A Z : Managed(d, Z) => Managed(e, Z)
    BY <1>1, <1>2, <1>5, <1>7, NodeAddedGood
  <1>9. ASSUME kind # "Switch" \/ o.controllers = <<>> PROVE Good(e, X)
    BY <1>1, <1>2, <1>5, <1>6, <1>7, <1>9, NodeAddedGood
  <1> QED
    BY <1>8, <1>9

\* A controller is on no list yet.
LEMMA ControllerAddedGood ==
    ASSUME NEW d, Shape(d), NEW X, Good(d, X), NEW name, NEW type, NEW e,
           ControllerAdded(d, name, type, e), Named(e)
    PROVE  Good(e, X) /\ \A Z : Managed(d, Z) => Managed(e, Z)
  <1>1. PICK kind, w : kind = "Controller" /\ w = [item |-> d.next, kind |-> kind, name |-> name]
    OBVIOUS
  <1>2. NodeAdded(d, kind, name, e) /\ Entered(d.controllers, name, type, e.controllers)
    BY <1>1 DEF ControllerAdded
  <1>3. Nodes(e) = Nodes(d) \cup {w} /\ w.kind = kind /\ w.name = name /\ name \notin NodeNames(d)
    BY <1>1, <1>2, NodeAddedNames
  <1>4. \A v \in Nodes(d) : v.name # name
    BY <1>3 DEF NodeNames
  <1>5. OptsKept(d, e)
    BY <1>2, <1>4 DEF OptsKept, Entered, ControllerAdded
  <1>6. EquippedNode(e, w, ControllerNames(d)) /\ kind # "Switch"
    BY <1>1, <1>2, <1>3 DEF EquippedNode, Entered, HostLike, SwitchLike
  <1> QED
    BY <1>1, <1>2, <1>5, <1>6, NodeAddedGood

(* A tool adds a good node.  *)
LEMMA NewNodeGood ==
    ASSUME NEW d, Shape(d), NEW X, Good(d, X), NEW kind \in AllKinds, NEW e, e = NewNode(d, kind), Named(e)
    PROVE  Good(e, X) /\ \A Z : Managed(d, Z) => Managed(e, Z)
  <1>1. CASE kind \in SwitchLike
    <2>1. PICK name, o : /\ SwitchAdded(d, kind, name, o, e) /\ FitsSwitch(kind, name, o)
                         /\ o.controllers = IF kind = "LegacyRouter" THEN NoList ELSE <<>>
      BY <1>1, NewSwitchIs
    <2>2. PICK none : none = <<>> /\ none # NoList /\ NoTwice(none) /\ ToSet(none) = {}
      BY NothingIsSeq, NoListIsNoSeq DEF NoTwice, ToSet
    <2>3. FitList(kind, o.controllers, ControllerNames(d))
      BY <2>1, <2>2 DEF FitList
    <2>4. kind # "Switch" \/ o.controllers = <<>>
      BY <2>1
    <2> QED
      BY <2>1, <2>3, <2>4, SwitchAddedGood
  <1>2. CASE kind \in HostLike
    BY <1>2, NewHostIs, HostAddedGood
  <1>3. CASE kind = "Controller"
    BY <1>3, NewControllerIs, ControllerAddedGood
  <1> QED
    BY <1>1, <1>2, <1>3 DEF AllKinds, SwitchLike, HostLike

(***************************************************************************)
(* A link is added.                                                        *)
(***************************************************************************)
\* Nodes that no link joins are free in the tables.
LEMMA FreeEnds ==
    ASSUME NEW d, Wired(d), NEW v, NEW w, \A l \in ToSet(d.links) : ~Joins(l, v, w)
    PROVE  <<v.item, w.item>> \notin DOMAIN d.ends /\ <<w.item, v.item>> \notin DOMAIN d.ends
  BY DEF Wired, Joins

NewLink(d, src, dest, type, opts) ==
    [item |-> d.next, type |-> type, src |-> src, dest |-> dest, opts |-> opts, down |-> FALSE]

LinkThere(d, src, dest, type, opts, e, k) ==
    /\ k.item = d.next /\ k.type = type /\ k.src = src /\ k.dest = dest /\ k.opts = opts
    /\ k.down = FALSE
    /\ ToSet(e.links) = ToSet(d.links) \cup {k}
    /\ Nodes(e) = Nodes(d) /\ NodeNames(e) = NodeNames(d) /\ e.gone = d.gone
    /\ Named(e) <=> Named(d)
    /\ \A v, w : Managing(d, v, w) => Managing(e, v, w)

\* A link more, and everything else as it was.
LEMMA LinkAddedLinks ==
    ASSUME NEW d, Shape(d), NEW src, NEW dest, NEW type, NEW opts, NEW e,
           LinkAdded(d, src, dest, type, opts, e),
           NEW k, k = NewLink(d, src, dest, type, opts)
    PROVE  LinkThere(d, src, dest, type, opts, e, k)
  <1>0. e.links = Append(d.links, k) /\ IsSeq(d.links)
    BY DEF LinkAdded, NewLink, Shape, Drawn
  <1>1. ToSet(e.links) = ToSet(d.links) \cup {k}
    BY <1>0, AppendedSet
  <1>2. Nodes(e) = Nodes(d) /\ NodeNames(e) = NodeNames(d) /\ (Named(e) <=> Named(d)) /\ e.gone = d.gone
    BY SameNames DEF LinkAdded, SameNodes
  <1>3. \A v, w : Managing(d, v, w) => Managing(e, v, w)
    BY <1>1 DEF Managing
  <1>4. /\ k.item = d.next /\ k.type = type /\ k.src = src /\ k.dest = dest /\ k.opts = opts
        /\ k.down = FALSE
    BY DEF NewLink
  <1> QED
    BY <1>1, <1>2, <1>3, <1>4 DEF LinkThere

\* It joins two nodes that no link joined before.
LEMMA LinkAddedWired ==
    ASSUME NEW d, Shape(d), Wired(d), NEW v \in Nodes(d), NEW w \in Nodes(d), v # w,
           NEW type, MayJoin(type, v, w), NEW opts,
           <<v.item, w.item>> \notin DOMAIN d.ends, <<w.item, v.item>> \notin DOMAIN d.ends,
           NEW e, LinkAdded(d, v.item, w.item, type, opts, e)
    PROVE  Wired(e)
  <1>1. PICK src, dest : src = v.item /\ dest = w.item
    OBVIOUS
  <1>2. PICK k : k = NewLink(d, src, dest, type, opts)
    OBVIOUS
  <1>3. /\ ToSet(e.links) = ToSet(d.links) \cup {k}
        /\ k.item = d.next /\ k.type = type /\ k.src = src /\ k.dest = dest
        /\ Nodes(e) = Nodes(d) /\ e.gone = d.gone
    <2>1. LinkAdded(d, src, dest, type, opts, e)
      BY <1>1
    <2>2. LinkThere(d, src, dest, type, opts, e, k)
      BY <1>2, <2>1, LinkAddedLinks
    <2> QED
      BY <2>2 DEF LinkThere
  <1>4. src # dest
    BY <1>1, NodesDiffer
  <1>5. PICK p, q : p = <<src, dest>> /\ q = <<dest, src>>
    OBVIOUS
  <1>6. /\ DOMAIN e.ends = DOMAIN d.ends \cup {p, q} /\ e.ends[p] = d.next /\ e.ends[q] = d.next
        /\ \A x \in DOMAIN d.ends : x \notin {p, q} => e.ends[x] = d.ends[x]
        /\ p \notin DOMAIN d.ends /\ q \notin DOMAIN d.ends
    BY <1>1, <1>5 DEF LinkAdded
  <1>7. ASSUME NEW l \in ToSet(d.links) PROVE WiredLink(e, l)
    <2>1. WiredLink(d, l)
      BY DEF Wired
    <2> QED
      BY <1>3, <1>6, <2>1 DEF WiredLink
  <1>8. WiredLink(e, k)
    BY <1>1, <1>3, <1>5, <1>6 DEF WiredLink
  <1>9. ASSUME NEW x \in DOMAIN e.ends
        PROVE  \E l \in ToSet(e.links) :
                   e.ends[x] = l.item /\ (x = <<l.src, l.dest>> \/ x = <<l.dest, l.src>>)
    <2>1. CASE x \in {p, q}
      BY <1>3, <1>5, <1>6, <2>1
    <2>2. CASE x \notin {p, q}
      <3>1. x \in DOMAIN d.ends /\ e.ends[x] = d.ends[x]
        BY <1>6, <2>2
      <3> QED
        BY <1>3, <3>1 DEF Wired
    <2> QED
      BY <2>1, <2>2
  <1> QED
    BY <1>3, <1>7, <1>8, <1>9 DEF Wired

\* Options are not touched.
LEMMA LinkAddedEquipped ==
    ASSUME NEW d, Shape(d), Equipped(d), NEW src, NEW dest, NEW type, NEW opts,
           NEW e, LinkAdded(d, src, dest, type, opts, e)
    PROVE  /\ Equipped(e) /\ \A w : ListOf(e, w) = ListOf(d, w)
           /\ \A name : HasList(e, name) <=> HasList(d, name)
  <1>1. /\ Nodes(e) = Nodes(d) /\ e.hostOpts = d.hostOpts /\ e.switchOpts = d.switchOpts
        /\ e.controllers = d.controllers
    BY SameNames DEF LinkAdded, SameOpts
  <1>2. ControllerNames(e) = ControllerNames(d)
    BY <1>1 DEF ControllerNames
  <1>3. \A w : ListOf(e, w) = ListOf(d, w)
    BY <1>1 DEF ListOf
  <1>4. \A name : HasList(e, name) <=> HasList(d, name)
    BY <1>1 DEF HasList
  <1>5. ASSUME NEW w \in Nodes(d) PROVE EquippedNode(e, w, ControllerNames(d))
    <2>1. EquippedNode(d, w, ControllerNames(d))
      BY DEF Equipped
    <2> QED
      BY <1>1, <1>3, <2>1 DEF EquippedNode
  <1> QED
    BY <1>1, <1>2, <1>3, <1>4, <1>5 DEF Equipped

(* A link of data; a link of a controller and a switch that has a list.  *)
LEMMA DataLinkAddedGood ==
    ASSUME NEW d, Shape(d), NEW X, Good(d, X), NEW v \in Nodes(d), NEW w \in Nodes(d), v # w,
           v.kind # "Controller", w.kind # "Controller", NEW opts,
           <<v.item, w.item>> \notin DOMAIN d.ends, <<w.item, v.item>> \notin DOMAIN d.ends,
           NEW e, LinkAdded(d, v.item, w.item, "data", opts, e)
    PROVE  Good(e, X) /\ \A Z : Managed(d, Z) => Managed(e, Z)
  <1>1. PICK type, src, dest : type = "data" /\ src = v.item /\ dest = w.item
    OBVIOUS
  <1>2. LinkAdded(d, src, dest, type, opts, e)
    BY <1>1
  <1>3. PICK k : k = NewLink(d, src, dest, type, opts)
    OBVIOUS
  <1>4. /\ ToSet(e.links) = ToSet(d.links) \cup {k} /\ k.type = "data"
        /\ Nodes(e) = Nodes(d) /\ Named(e)
        /\ \A x, y : Managing(d, x, y) => Managing(e, x, y)
    <2>1. Named(d)
      BY DEF Good
    <2>2. LinkAdded(d, src, dest, type, opts, e) /\ k = NewLink(d, src, dest, type, opts)
      BY <1>2, <1>3
    <2>3. LinkThere(d, src, dest, type, opts, e, k)
      BY <2>2, LinkAddedLinks
    <2> QED
      BY <1>1, <2>1, <2>3 DEF LinkThere
  <1>5. Wired(e)
    <2>1. MayJoin("data", v, w)
      BY DEF MayJoin
    <2> QED
      BY <2>1, LinkAddedWired DEF Good
  <1>6. /\ Equipped(e) /\ \A x : ListOf(e, x) = ListOf(d, x)
        /\ \A name : HasList(e, name) <=> HasList(d, name)
    BY <1>2, LinkAddedEquipped DEF Good
  <1>7. Enlisted(e)
    BY <1>4, <1>6 DEF Enlisted, Good
  <1>8. ListsDrawn(e, X)
    BY <1>4, <1>6 DEF ListsDrawn, Good
  <1>9. \A x, y : Managing(e, x, y) => Managing(d, x, y)
    BY <1>4 DEF Managing
  <1>10. \A Z : Managed(d, Z) => Managed(e, Z)
    BY <1>4, <1>6, <1>9 DEF Managed
  <1> QED
    BY <1>4, <1>5, <1>6, <1>7, <1>8, <1>10 DEF Good

\* If the list has the controller already, the switch stays managed.
LEMMA ControlLinkAddedGood ==
    ASSUME NEW d, Shape(d), NEW X, Good(d, X), NEW v \in Nodes(d), NEW w \in Nodes(d), v # w,
           NEW s, NEW c, {v, w} = {s, c}, c.kind = "Controller", s.kind \in SwitchLike,
           HasList(d, s.name), NEW opts,
           <<v.item, w.item>> \notin DOMAIN d.ends, <<w.item, v.item>> \notin DOMAIN d.ends,
           NEW e, LinkAdded(d, v.item, w.item, "control", opts, e)
    PROVE  /\ Good(e, X) /\ Managing(e, s, c)
           /\ s.kind = "Switch" /\ c.name \in ToSet(ListOf(d, s)) =>
                 \A Z : Managed(d, Z) => Managed(e, Z)
  <1>0. s.kind # "Controller"
    BY DEF SwitchLike
  <1>1. PICK type, src, dest : type = "control" /\ src = v.item /\ dest = w.item
    OBVIOUS
  <1>2. LinkAdded(d, src, dest, type, opts, e)
    BY <1>1
  <1>3. PICK k : k = NewLink(d, src, dest, type, opts)
    OBVIOUS
  <1>4. /\ ToSet(e.links) = ToSet(d.links) \cup {k} /\ k.type = "control"
        /\ k.src = v.item /\ k.dest = w.item
        /\ Nodes(e) = Nodes(d) /\ Named(e)
        /\ \A x, y : Managing(d, x, y) => Managing(e, x, y)
    <2>1. Named(d)
      BY DEF Good
    <2>2. LinkAdded(d, src, dest, type, opts, e) /\ k = NewLink(d, src, dest, type, opts)
      BY <1>2, <1>3
    <2>3. LinkThere(d, src, dest, type, opts, e, k)
      BY <2>2, LinkAddedLinks
    <2> QED
      BY <1>1, <2>1, <2>3 DEF LinkThere
  <1>5. (v = s /\ w = c) \/ (v = c /\ w = s)
    OBVIOUS
  <1>6. Wired(e)
    <2>1. MayJoin("control", v, w)
      BY <1>5 DEF MayJoin
    <2> QED
      BY <2>1, LinkAddedWired DEF Good
  <1>7. /\ Equipped(e) /\ \A x : ListOf(e, x) = ListOf(d, x)
        /\ \A name : HasList(e, name) <=> HasList(d, name)
    BY <1>2, LinkAddedEquipped DEF Good
  <1>8. ASSUME NEW x \in Nodes(d), x.item \in {v.item, w.item} PROVE x \in {s, c}
    BY <1>5, <1>8, NodesDiffer
  <1>9. Enlisted(e)
    <2>1. ASSUME NEW l \in ToSet(e.links), NEW x \in Nodes(e), l.type = "control", x.kind \in SwitchLike,
                 x.item \in {l.src, l.dest}
          PROVE  HasList(d, x.name)
      <3>1. CASE l = k
        <4>1. x \in {s, c}
          BY <1>4, <1>8, <2>1, <3>1
        <4> QED
          BY <2>1, <4>1 DEF SwitchLike
      <3>2. CASE l \in ToSet(d.links)
        BY <1>4, <2>1, <3>2 DEF Enlisted, Good
      <3> QED
        BY <1>4, <3>1, <3>2
    <2> QED
      BY <1>7, <2>1 DEF Enlisted
  <1>10. ListsDrawn(e, X)
    BY <1>4, <1>7 DEF ListsDrawn, Good
  <1>11. Managing(e, s, c)
    BY <1>4, <1>5 DEF Managing, Joins
  <1>12. ASSUME NEW x \in Nodes(d), NEW y \in Nodes(d), y.kind = "Controller", Managing(e, x, y)
         PROVE  Managing(d, x, y) \/ (x = s /\ y = c)
    <2>1. PICK l \in ToSet(e.links) : l.type = "control" /\ Joins(l, x, y)
      BY <1>12 DEF Managing
    <2>2. CASE l = k
      <3>1. {x.item, y.item} = {v.item, w.item}
        BY <1>4, <2>1, <2>2 DEF Joins
      <3>2. x \in {s, c} /\ y \in {s, c}
        BY <1>8, <3>1
      <3>3. y = c
        BY <1>0, <1>12, <3>2
      <3>4. x # y
        <4>1. v.item # w.item
          BY NodesDiffer
        <4> QED
          BY <3>1, <4>1
      <3> QED
        BY <3>2, <3>3, <3>4
    <2>3. CASE l \in ToSet(d.links)
      BY <2>1, <2>3 DEF Managing
    <2> QED
      BY <1>4, <2>2, <2>3
  <1>13. ASSUME s.kind = "Switch", c.name \in ToSet(ListOf(d, s)), NEW Z, Managed(d, Z)
         PROVE  Managed(e, Z)
    <2>1. ASSUME NEW x \in Nodes(e), NEW y \in Nodes(e), y.kind = "Controller", y.item \notin Z,
                 Managing(e, x, y)
          PROVE  x.kind = "Switch" /\ y.name \in ToSet(ListOf(d, x))
      <3>1. CASE Managing(d, x, y)
        BY <1>4, <1>13, <2>1, <3>1 DEF Managed
      <3>2. CASE x = s /\ y = c
        BY <1>13, <3>2
      <3> QED
        BY <1>4, <1>12, <2>1, <3>1, <3>2
    <2> QED
      BY <1>7, <2>1 DEF Managed
  <1> QED
    BY <1>4, <1>6, <1>7, <1>9, <1>10, <1>11, <1>13 DEF Good

(* A switch whose controllers are all linked is finished.  *)
LEMMA Finished ==
    ASSUME NEW d, Shape(d), NEW X, NEW w \in Nodes(d), Good(d, X \cup {w.item}),
           \A c \in Nodes(d) : c.kind = "Controller" /\ c.name \in ToSet(ListOf(d, w)) => Managing(d, w, c)
    PROVE  Good(d, X)
  <1>1. ASSUME NEW v \in Nodes(d), NEW c \in Nodes(d), v.kind = "Switch", v.item \notin X,
               c.kind = "Controller", c.name \in ToSet(ListOf(d, v))
        PROVE  Managing(d, v, c)
    <2>1. CASE v = w
      BY <1>1, <2>1
    <2>2. CASE v # w
      <3>1. v.item \notin X \cup {w.item}
        BY <1>1, <2>2, NodesDiffer
      <3> QED
        BY <1>1, <3>1 DEF Good, ListsDrawn
    <2> QED
      BY <2>1, <2>2
  <1> QED
    BY <1>1 DEF Good, ListsDrawn

(***************************************************************************)
(* A switch gets another list.                                             *)
(***************************************************************************)
\* The list keeps the controllers of w, but for those of Z.
Keeps(d, w, list, Z) ==
    \A c \in Nodes(d) :
        c.kind = "Controller" /\ c.item \notin Z /\ c.name \in ToSet(ListOf(d, w))
            => c.name \in ToSet(list)

RelistedWell(d, X, w, list, e) ==
    /\ Good(e, X \cup {w.item})
    /\ ToSet(list) \subseteq ToSet(ListOf(d, w)) => Good(e, X)
    /\ \A Z : Managed(d, Z) /\ Keeps(d, w, list, Z) => Managed(e, Z)
    /\ ListOf(e, w) = list
    /\ \A v \in Nodes(d) : v.kind \in SwitchLike /\ v # w => ListOf(e, v) = ListOf(d, v)

\* The list names controllers, each once.
LEMMA RelistedGood ==
    ASSUME NEW d, Shape(d), NEW X, Good(d, X), NEW w \in Nodes(d), w.kind \in SwitchLike,
           NEW list, IsSeq(list), NoTwice(list), ToSet(list) \subseteq ControllerNames(d),
           w.kind = "Switch" \/ list = <<>>,
           NEW e, Relisted(d, w.name, list, e)
    PROVE  RelistedWell(d, X, w, list, e)
  <1>1. PICK name : name = w.name
    OBVIOUS
  <1>2. list # NoList
    BY NoListIsNoSeq
  <1>3. /\ Nodes(e) = Nodes(d) /\ Named(e) /\ e.links = d.links /\ e.ends = d.ends /\ e.gone = d.gone
        /\ e.hostOpts = d.hostOpts /\ e.controllers = d.controllers
        /\ DOMAIN e.switchOpts = DOMAIN d.switchOpts
    BY SameNames DEF Relisted, SameLinks, SameNodes, Good
  <1>4. ControllerNames(e) = ControllerNames(d)
    BY <1>3 DEF ControllerNames
  <1>5. \A n \in DOMAIN d.switchOpts :
           /\ e.switchOpts[n].type = d.switchOpts[n].type
           /\ e.switchOpts[n].hostname = d.switchOpts[n].hostname
           /\ e.switchOpts[n].controllers = IF n = name THEN list ELSE d.switchOpts[n].controllers
    <2>1. Relisted(d, name, list, e)
      BY <1>1
    <2>2. ListsAs(d, name, list, e)
      BY <2>1, RelistedLists
    <2> QED
      BY <2>2 DEF ListsAs
  <1>6. w.kind \in SwitchLike /\ name \in DOMAIN d.switchOpts
    BY <1>1 DEF Good, Equipped, EquippedNode
  <1>7. ListOf(e, w) = list
    BY <1>1, <1>5, <1>6 DEF ListOf
  <1>8. \A v \in Nodes(d) : v.kind \in SwitchLike /\ v # w => ListOf(e, v) = ListOf(d, v)
    <2>1. ASSUME NEW v \in Nodes(d), v.kind \in SwitchLike, v # w PROVE ListOf(e, v) = ListOf(d, v)
      <3>1. v.name # name
        BY <1>1, <2>1 DEF Good, Named
      <3>2. v.name \in DOMAIN d.switchOpts
        BY <2>1 DEF Good, Equipped, EquippedNode
      <3> QED
        BY <1>5, <3>1, <3>2 DEF ListOf
    <2> QED
      BY <2>1
  <1>9. Equipped(e)
    <2>1. ASSUME NEW v \in Nodes(d) PROVE EquippedNode(e, v, ControllerNames(d))
      <3>1. EquippedNode(d, v, ControllerNames(d))
        BY DEF Good, Equipped
      <3>2. v.kind \in SwitchLike => FitsSwitch(v.kind, v.name, e.switchOpts[v.name])
        BY <1>5, <3>1 DEF EquippedNode, FitsSwitch
      <3>3. v.kind \in SwitchLike => FitList(v.kind, ListOf(e, v), ControllerNames(d))
        <4>1. CASE v = w
          BY <1>2, <1>7, <4>1 DEF FitList
        <4>2. CASE v # w
          BY <1>8, <3>1, <4>2 DEF EquippedNode
        <4> QED
          BY <4>1, <4>2
      <3> QED
        BY <1>3, <3>1, <3>2, <3>3 DEF EquippedNode
    <2> QED
      BY <1>3, <1>4, <2>1 DEF Equipped
  <1>10. Wired(e)
    BY <1>3 DEF Good, Wired, WiredLink
  <1>11. \A n : HasList(d, n) => HasList(e, n)
    BY <1>2, <1>3, <1>5 DEF HasList
  <1>12. Enlisted(e)
    BY <1>3, <1>11 DEF Good, Enlisted
  <1>13. \A x, y : Managing(e, x, y) <=> Managing(d, x, y)
    BY <1>3 DEF Managing
  <1>14. ListsDrawn(e, X \cup {w.item})
    BY <1>3, <1>8, <1>13 DEF Good, ListsDrawn, SwitchLike
  <1>15. ASSUME ToSet(list) \subseteq ToSet(ListOf(d, w)) PROVE ListsDrawn(e, X)
    BY <1>3, <1>7, <1>8, <1>13, <1>15 DEF Good, ListsDrawn, SwitchLike
  <1>16. ASSUME NEW Z, Managed(d, Z), Keeps(d, w, list, Z) PROVE Managed(e, Z)
    BY <1>3, <1>7, <1>8, <1>13, <1>16 DEF Managed, Keeps, SwitchLike
  <1> QED
    BY <1>3, <1>7, <1>8, <1>9, <1>10, <1>12, <1>14, <1>15, <1>16 DEF Good, RelistedWell

(***************************************************************************)
(* Links by name.                                                          *)
(***************************************************************************)
\* The nodes that data links join, by name.
LinkNames(d, l) == {v.name : v \in {x \in Nodes(d) : x.item \in {l.src, l.dest}}}
DataPairs(d) == {LinkNames(d, l) : l \in {k \in ToSet(d.links) : k.type = "data"}}

\* The pairs are of nodes and links alone.
LEMMA SamePairs ==
    ASSUME NEW d, NEW e, Nodes(e) = Nodes(d), e.links = d.links
    PROVE  DataPairs(e) = DataPairs(d)
  BY DEF DataPairs, LinkNames

\* A node joins no pair.
LEMMA NodeAddedPairs ==
    ASSUME NEW d, Shape(d), Wired(d), NEW kind, NEW name, NEW e, NodeAdded(d, kind, name, e)
    PROVE  DataPairs(e) = DataPairs(d)
  <1>1. PICK w : w = [item |-> d.next, kind |-> kind, name |-> name]
    OBVIOUS
  <1>2. Nodes(e) = Nodes(d) \cup {w} /\ w.item = d.next
    BY <1>1, NodeAddedNames
  <1>3. e.links = d.links
    BY DEF NodeAdded, SameLinks
  <1>4. ASSUME NEW l \in ToSet(d.links) PROVE LinkNames(e, l) = LinkNames(d, l)
    <2>1. PICK a, b \in Nodes(d) : l.src = a.item /\ l.dest = b.item
      BY DEF Wired, WiredLink
    <2>2. d.next \notin {l.src, l.dest}
      BY <2>1 DEF Shape, Drawn, IsNode, Nodes
    <2> QED
      BY <1>2, <2>2 DEF LinkNames
  <1> QED
    BY <1>3, <1>4 DEF DataPairs

\* A link of data is one pair more.
LEMMA LinkAddedPairs ==
    ASSUME NEW d, Shape(d), NEW v \in Nodes(d), NEW w \in Nodes(d), NEW type, NEW opts, NEW e,
           LinkAdded(d, v.item, w.item, type, opts, e)
    PROVE  DataPairs(e) = DataPairs(d) \cup (IF type = "data" THEN {{v.name, w.name}} ELSE {})
  <1>1. PICK src, dest : src = v.item /\ dest = w.item
    OBVIOUS
  <1>2. PICK k : k = NewLink(d, src, dest, type, opts)
    OBVIOUS
  <1>3. LinkAdded(d, src, dest, type, opts, e)
    BY <1>1
  <1>4. LinkThere(d, src, dest, type, opts, e, k)
    BY <1>2, <1>3, LinkAddedLinks
  <1>5. /\ ToSet(e.links) = ToSet(d.links) \cup {k} /\ Nodes(e) = Nodes(d) /\ k.type = type
        /\ k.src = v.item /\ k.dest = w.item
    BY <1>1, <1>4 DEF LinkThere
  <1>6. \A l : LinkNames(e, l) = LinkNames(d, l)
    BY <1>5 DEF LinkNames
  <1>7. LinkNames(d, k) = {v.name, w.name}
    <2>1. ASSUME NEW x \in Nodes(d), x.item \in {k.src, k.dest} PROVE x.name \in {v.name, w.name}
      <3>1. x \in {v, w}
        BY <1>5, <2>1, NodesDiffer
      <3> QED
        BY <3>1
    <2> QED
      BY <1>5, <2>1 DEF LinkNames
  <1>8. CASE type = "data"
    <2>1. {l \in ToSet(e.links) : l.type = "data"} = {l \in ToSet(d.links) : l.type = "data"} \cup {k}
      BY <1>5, <1>8
    <2> QED
      BY <1>6, <1>7, <1>8, <2>1, ZenonT(60) DEF DataPairs
  <1>9. CASE type # "data"
    <2>1. {l \in ToSet(e.links) : l.type = "data"} = {l \in ToSet(d.links) : l.type = "data"}
      BY <1>5, <1>9
    <2> QED
      BY <1>6, <1>9, <2>1 DEF DataPairs
  <1> QED
    BY <1>8, <1>9

\* Two nodes that are not linked yet.
LEMMA NotManaging ==
    ASSUME NEW d, Shape(d), Wired(d), NEW w \in Nodes(d), NEW c \in Nodes(d), c.kind = "Controller",
           ~Managing(d, w, c)
    PROVE  /\ <<w.item, c.item>> \notin DOMAIN d.ends
           /\ <<c.item, w.item>> \notin DOMAIN d.ends
  <1>1. ASSUME NEW l \in ToSet(d.links), Joins(l, w, c) PROVE FALSE
    <2>1. PICK a, b \in Nodes(d) : l.src = a.item /\ l.dest = b.item /\ MayJoin(l.type, a, b)
      BY DEF Wired, WiredLink
    <2>2. c \in {a, b}
      BY <1>1, <2>1, NodesDiffer DEF Joins
    <2>3. l.type = "control"
      BY <2>1, <2>2 DEF MayJoin
    <2> QED
      BY <1>1, <2>3 DEF Managing
  <1> QED
    BY <1>1, FreeEnds

\* The same of a link of data.
LEMMA NotPaired ==
    ASSUME NEW d, Shape(d), Wired(d), NEW v \in Nodes(d), NEW w \in Nodes(d),
           v.kind # "Controller", w.kind # "Controller", {v.name, w.name} \notin DataPairs(d)
    PROVE  /\ <<v.item, w.item>> \notin DOMAIN d.ends
           /\ <<w.item, v.item>> \notin DOMAIN d.ends
  <1>1. ASSUME NEW l \in ToSet(d.links), Joins(l, v, w) PROVE FALSE
    <2>1. PICK a, b \in Nodes(d) : l.src = a.item /\ l.dest = b.item /\ MayJoin(l.type, a, b)
      BY DEF Wired, WiredLink
    <2>2. (a = v /\ b = w) \/ (a = w /\ b = v)
      BY <1>1, <2>1, NodesDiffer DEF Joins
    <2>3. l.type = "data"
      <3>1. l.type # "control"
        BY <2>1, <2>2 DEF MayJoin
      <3> QED
        BY <3>1 DEF Shape, Drawn, IsLink
    <2>4. LinkNames(d, l) = {v.name, w.name}
      <3>1. ASSUME NEW x \in Nodes(d), x.item \in {l.src, l.dest} PROVE x.name \in {v.name, w.name}
        <4>1. x \in {v, w}
          BY <2>1, <2>2, <3>1, NodesDiffer
        <4> QED
          BY <4>1
      <3> QED
        BY <2>1, <2>2, <3>1 DEF LinkNames
    <2> QED
      BY <2>3, <2>4 DEF DataPairs
  <1> QED
    BY <1>1, FreeEnds

(* What a link by name leaves as it was.  *)
LinkedOnly(d, e) ==
    /\ Shape(e) /\ SameNodes(d, e) /\ SameOpts(d, e) /\ e.counts = d.counts
    /\ \A v, w : Managing(d, v, w) => Managing(e, v, w)

\* Nodes and options are left alone.
LEMMA LinkByNameOnly ==
    ASSUME NEW d, Shape(d), NEW a, NEW b, NEW type \in {"data", "control"}, NEW opts,
           NEW r, r = LinkByName(d, a, b, type, opts)
    PROVE  LinkedOnly(d, r.m)
  <1>1. SameNodes(d, r.m) /\ SameOpts(d, r.m) /\ r.m.counts = d.counts /\ Shape(r.m)
    BY LinkByNameOpts, LinkByNameIs
  <1>2. \A v, w : Managing(d, v, w) => Managing(r.m, v, w)
    <2>1. CASE ~r.ok
      BY <2>1, LinkByNameIs
    <2>2. CASE r.ok
      <3>1. PICK v, w \in Nodes(d) : LinkAdded(d, v.item, w.item, type, opts, r.m)
        BY <2>2, LinkByNameIs
      <3>2. PICK e, src, dest : e = r.m /\ src = v.item /\ dest = w.item
        OBVIOUS
      <3>3. PICK k : k = NewLink(d, src, dest, type, opts)
        OBVIOUS
      <3>4. LinkAdded(d, src, dest, type, opts, e)
        BY <3>1, <3>2
      <3>5. LinkThere(d, src, dest, type, opts, e, k)
        BY <3>3, <3>4, LinkAddedLinks
      <3> QED
        BY <3>2, <3>5 DEF LinkThere
    <2> QED
      BY <2>1, <2>2
  <1> QED
    BY <1>1, <1>2 DEF LinkedOnly

\* A link of data by name.
(* What a data link of a and b leaves, if it could be drawn.               *)
DataLinked(d, X, a, b, r) ==
    /\ Good(r.m, X) /\ \A Z : Managed(d, Z) => Managed(r.m, Z)
    /\ r.ok <=> {a, b} \subseteq NodeNames(d)
    /\ DataPairs(r.m) \subseteq DataPairs(d) \cup {{a, b}}

\* It is drawn if both names are found.
LEMMA DataLinkByName ==
    ASSUME NEW d, Shape(d), NEW X, Good(d, X), NEW a, NEW b, a # b,
           {a, b} \cap ControllerNames(d) = {}, {a, b} \notin DataPairs(d), NEW opts,
           NEW r, r = LinkByName(d, a, b, "data", opts)
    PROVE  DataLinked(d, X, a, b, r)
  <1>1. "data" \in {"data", "control"}
    OBVIOUS
  <1>2. CASE ~r.ok
    <2>1. r.m = d /\ {a, b} \cap NodeNames(d) # {a, b}
      BY <1>1, <1>2, LinkByNameIs
    <2> QED
      BY <1>2, <2>1 DEF DataLinked
  <1>3. CASE r.ok
    <2>1. PICK v, w \in Nodes(d) : v.name = a /\ w.name = b /\ LinkAdded(d, v.item, w.item, "data", opts, r.m)
      BY <1>1, <1>3, LinkByNameIs
    <2>2. v.kind # "Controller" /\ w.kind # "Controller" /\ v # w
      BY <2>1 DEF ControllerNames
    <2>3. <<v.item, w.item>> \notin DOMAIN d.ends /\ <<w.item, v.item>> \notin DOMAIN d.ends
      BY <2>1, <2>2, NotPaired DEF Good
    <2>4. PICK e : e = r.m
      OBVIOUS
    <2>5. LinkAdded(d, v.item, w.item, "data", opts, e)
      BY <2>1, <2>4
    <2>6. Good(e, X) /\ \A Z : Managed(d, Z) => Managed(e, Z)
      BY <2>2, <2>3, <2>5, DataLinkAddedGood
    <2>7. DataPairs(e) = DataPairs(d) \cup {{a, b}}
      BY <2>1, <2>5, LinkAddedPairs
    <2> QED
      BY <1>3, <2>1, <2>4, <2>6, <2>7 DEF NodeNames, DataLinked
  <1> QED
    BY <1>2, <1>3

\* A link of a switch to a controller by name.
LEMMA ControlLinkByName ==
    ASSUME NEW d, Shape(d), NEW X, Good(d, X), NEW w \in Nodes(d), NEW c \in Nodes(d),
           w.kind \in SwitchLike, c.kind = "Controller", HasList(d, w.name), ~Managing(d, w, c),
           NEW opts, NEW r, r = LinkByName(d, w.name, c.name, "control", opts)
    PROVE  /\ r.ok /\ Good(r.m, X) /\ Managing(r.m, w, c)
           /\ w.kind = "Switch" /\ c.name \in ToSet(ListOf(d, w)) =>
                 \A Z : Managed(d, Z) => Managed(r.m, Z)
           /\ DataPairs(r.m) = DataPairs(d)
           /\ \A v \in Nodes(d) : v # c => (Managing(r.m, w, v) => Managing(d, w, v))
  <1>1. "control" \in {"data", "control"} /\ w # c
    BY DEF SwitchLike
  <1>2. r.ok
    <2>1. {w.name, c.name} \cap NodeNames(d) = {w.name, c.name}
      BY DEF NodeNames
    <2> QED
      BY <1>1, <2>1, LinkByNameIs
  <1>3. PICK x, y \in Nodes(d) : /\ x.name = w.name /\ y.name = c.name
                                 /\ LinkAdded(d, x.item, y.item, "control", opts, r.m)
    BY <1>1, <1>2, LinkByNameIs
  <1>4. x = w /\ y = c
    BY <1>3 DEF Good, Named
  <1>5. PICK e : e = r.m
    OBVIOUS
  <1>6. LinkAdded(d, w.item, c.item, "control", opts, e)
    BY <1>3, <1>4, <1>5
  <1>7. <<w.item, c.item>> \notin DOMAIN d.ends /\ <<c.item, w.item>> \notin DOMAIN d.ends
    BY NotManaging DEF Good
  <1>8. PICK s : s = w
    OBVIOUS
  <1>9. s.kind \in SwitchLike /\ HasList(d, s.name) /\ {w, c} = {s, c}
    BY <1>8
  <1>10. /\ Good(e, X) /\ Managing(e, s, c)
         /\ s.kind = "Switch" /\ c.name \in ToSet(ListOf(d, s)) =>
                 \A Z : Managed(d, Z) => Managed(e, Z)
    BY <1>1, <1>6, <1>7, <1>9, ControlLinkAddedGood
  <1>11. DataPairs(e) = DataPairs(d)
    <2>1. PICK type : type = "control"
      OBVIOUS
    <2>2. LinkAdded(d, w.item, c.item, type, opts, e)
      BY <1>6, <2>1
    <2>3. DataPairs(e) = DataPairs(d) \cup (IF type = "data" THEN {{w.name, c.name}} ELSE {})
      BY <2>2, LinkAddedPairs
    <2> QED
      BY <2>1, <2>3
  <1>12. ASSUME NEW v \in Nodes(d), v # c, Managing(e, w, v) PROVE Managing(d, w, v)
    <2>1. PICK src, dest, type : src = w.item /\ dest = c.item /\ type = "control"
      OBVIOUS
    <2>2. PICK k : k = NewLink(d, src, dest, type, opts)
      OBVIOUS
    <2>3. LinkThere(d, src, dest, type, opts, e, k)
      <3>1. LinkAdded(d, src, dest, type, opts, e)
        BY <1>6, <2>1
      <3> QED
        BY <2>2, <3>1, LinkAddedLinks
    <2>4. PICK l \in ToSet(e.links) : l.type = "control" /\ Joins(l, w, v)
      BY <1>12 DEF Managing
    <2>5. l # k
      <3>1. v.item # c.item /\ w.item # c.item
        BY <1>1, <1>12, NodesDiffer
      <3>2. k.src = w.item /\ k.dest = c.item
        BY <2>1, <2>3 DEF LinkThere
      <3> QED
        BY <2>4, <3>1, <3>2 DEF Joins
    <2>6. l \in ToSet(d.links)
      BY <2>3, <2>4, <2>5 DEF LinkThere
    <2> QED
      BY <2>4, <2>6 DEF Managing
  <1> QED
    BY <1>2, <1>5, <1>8, <1>10, <1>11, <1>12

(***************************************************************************)
(* What --topo imports.                                                    *)
(***************************************************************************)
Upto(s, k) == {s[j] : j \in 1..k}

\* The elements up to a place.
LEMMA UptoIs ==
    ASSUME NEW s, IsSeq(s)
    PROVE  /\ Upto(s, 0) = {} /\ Upto(s, Len(s)) = ToSet(s)
           /\ \A n \in Nat : n < Len(s) =>
                 /\ Upto(s, n + 1) = Upto(s, n) \cup {s[n + 1]}
                 /\ NoTwice(s) => s[n + 1] \notin Upto(s, n)
  <1>1. Len(s) \in Nat /\ DOMAIN s = 1..Len(s)
    BY SeqIs
  <1>2. Upto(s, 0) = {} /\ Upto(s, Len(s)) = ToSet(s)
    BY <1>1 DEF Upto, ToSet
  <1>3. ASSUME NEW n \in Nat, n < Len(s)
        PROVE  /\ Upto(s, n + 1) = Upto(s, n) \cup {s[n + 1]}
               /\ NoTwice(s) => s[n + 1] \notin Upto(s, n)
    <2>1. 1..(n + 1) = (1..n) \cup {n + 1} /\ n + 1 \in 1..Len(s) /\ n + 1 \notin 1..n
          /\ 1..n \subseteq 1..Len(s)
      BY <1>1, <1>3
    <2>2. Upto(s, n + 1) = Upto(s, n) \cup {s[n + 1]}
      BY <2>1 DEF Upto
    <2>3. NoTwice(s) => s[n + 1] \notin Upto(s, n)
      BY <1>1, <2>1 DEF Upto, NoTwice
    <2> QED
      BY <2>2, <2>3
  <1> QED
    BY <1>2, <1>3

\* An element that is new may be appended.
LEMMA NoTwiceAppended ==
    ASSUME NEW s, IsSeq(s), NoTwice(s), NEW e, e \notin ToSet(s)
    PROVE  NoTwice(Append(s, e))
  <1>1. PICK k \in Nat : /\ DOMAIN s = 1..k /\ DOMAIN Append(s, e) = 1..(k + 1)
                         /\ Append(s, e)[k + 1] = e
                         /\ \A i \in 1..k : Append(s, e)[i] = s[i]
    BY AppendedLast
  <1>2. PICK z : z = Append(s, e)
    OBVIOUS
  <1>3. ASSUME NEW i \in 1..(k + 1), NEW j \in 1..(k + 1), z[i] = z[j] PROVE i = j
    <2>1. CASE i \in 1..k /\ j \in 1..k
      BY <1>1, <1>2, <1>3, <2>1 DEF NoTwice
    <2>2. CASE i = k + 1 /\ j \in 1..k
      BY <1>1, <1>2, <1>3, <2>2 DEF ToSet
    <2>3. CASE j = k + 1 /\ i \in 1..k
      BY <1>1, <1>2, <1>3, <2>3 DEF ToSet
    <2> QED
      BY <2>1, <2>2, <2>3
  <1> QED
    BY <1>1, <1>2, <1>3 DEF NoTwice

(* Part of a topology, of these controllers, nodes and links.  *)
Part(d, controllers, names, pairs) ==
    /\ Shape(d) /\ Good(d, {}) /\ Managed(d, {})
    /\ Numbered(d, d.counts.host)
    /\ ControllerNames(d) = controllers /\ NodeNames(d) = names /\ DataPairs(d) \subseteq pairs

\* A node is one name more.
LEMMA NodeAddedControllers ==
    ASSUME NEW d, Shape(d), NEW kind, NEW name, NEW e, NodeAdded(d, kind, name, e)
    PROVE  ControllerNames(e) = ControllerNames(d) \cup (IF kind = "Controller" THEN {name} ELSE {})
  <1>1. PICK w : w = [item |-> d.next, kind |-> kind, name |-> name]
    OBVIOUS
  <1>2. Nodes(e) = Nodes(d) \cup {w} /\ w.kind = kind /\ w.name = name
    BY <1>1, NodeAddedNames
  <1>3. CASE kind = "Controller"
    <2>1. {v \in Nodes(e) : v.kind = "Controller"} = {v \in Nodes(d) : v.kind = "Controller"} \cup {w}
      BY <1>2, <1>3
    <2> QED
      BY <1>2, <1>3, <2>1 DEF ControllerNames
  <1>4. CASE kind # "Controller"
    <2>1. {v \in Nodes(e) : v.kind = "Controller"} = {v \in Nodes(d) : v.kind = "Controller"}
      BY <1>2, <1>4
    <2> QED
      BY <1>4, <2>1 DEF ControllerNames
  <1> QED
    BY <1>3, <1>4

\* A controller is imported.
LEMMA ControllerPart ==
    ASSUME NEW d, NEW C, NEW N, NEW P, Part(d, C, N, P), NEW name, name \notin N, NEW type, NEW e,
           ControllerAdded(d, name, type, e)
    PROVE  Part(e, C \cup {name}, N \cup {name}, P)
  <1>1. PICK kind : kind = "Controller"
    OBVIOUS
  <1>2. NodeAdded(d, kind, name, e) /\ e.hostOpts = d.hostOpts
    BY <1>1 DEF ControllerAdded
  <1>3. Shape(d) /\ Good(d, {}) /\ Managed(d, {}) /\ NodeNames(d) = N /\ Named(d) /\ Wired(d)
    BY DEF Part, Good
  <1>4. Shape(e)
    BY <1>3, ControllerAddedShape
  <1>5. Named(e) /\ NodeNames(e) = N \cup {name}
    <2>1. PICK w : w = [item |-> d.next, kind |-> kind, name |-> name]
      OBVIOUS
    <2> QED
      BY <1>2, <1>3, <2>1, NodeAddedNames
  <1>6. Good(e, {}) /\ Managed(e, {})
    BY <1>3, <1>5, ControllerAddedGood
  <1>7. ControllerNames(e) = C \cup {name}
    BY <1>1, <1>2, <1>3, NodeAddedControllers DEF Part
  <1>8. DataPairs(e) \subseteq P
    BY <1>2, <1>3, NodeAddedPairs DEF Part
  <1>9. Numbered(e, e.counts.host)
    <2>1. e.counts.host = d.counts.host
      BY <1>1, <1>2, <1>3 DEF NodeAdded, Shape, IsCounts
    <2>2. PICK top : top = d.counts.host
      OBVIOUS
    <2>3. Numbered(d, top)
      BY <2>2 DEF Part
    <2>4. Numbered(e, top)
      BY <1>1, <1>2, <1>3, <2>3, OtherAddedNumbered
    <2> QED
      BY <2>1, <2>2, <2>4
  <1> QED
    BY <1>4, <1>5, <1>6, <1>7, <1>8, <1>9 DEF Part

\* A switch is.
LEMMA SwitchPart ==
    ASSUME NEW d, NEW C, NEW N, NEW P, Part(d, C, N, P), NEW name, name \notin N, NEW o, NEW e,
           SwitchAdded(d, "Switch", name, o, e), FitsSwitch("Switch", name, o), o.controllers = <<>>
    PROVE  Part(e, C, N \cup {name}, P)
  <1>1. PICK kind : kind = "Switch"
    OBVIOUS
  <1>2. NodeAdded(d, kind, name, e) /\ e.hostOpts = d.hostOpts
    BY <1>1 DEF SwitchAdded
  <1>3. Shape(d) /\ Good(d, {}) /\ Managed(d, {}) /\ NodeNames(d) = N /\ Named(d) /\ Wired(d)
    BY DEF Part, Good
  <1>4. Shape(e)
    BY <1>3, SwitchAddedShape
  <1>5. Named(e) /\ NodeNames(e) = N \cup {name}
    <2>1. PICK w : w = [item |-> d.next, kind |-> kind, name |-> name]
      OBVIOUS
    <2> QED
      BY <1>2, <1>3, <2>1, NodeAddedNames
  <1>6. Good(e, {}) /\ Managed(e, {})
    <2>1. PICK none : none = <<>> /\ none # NoList /\ NoTwice(none) /\ ToSet(none) = {}
      BY NothingIsSeq, NoListIsNoSeq DEF NoTwice, ToSet
    <2>2. FitList("Switch", o.controllers, ControllerNames(d))
      BY <2>1 DEF FitList
    <2> QED
      BY <1>3, <1>5, <2>2, SwitchAddedGood
  <1>7. ControllerNames(e) = C
    BY <1>1, <1>2, <1>3, NodeAddedControllers DEF Part
  <1>8. DataPairs(e) \subseteq P
    BY <1>2, <1>3, NodeAddedPairs DEF Part
  <1>9. Numbered(e, e.counts.host)
    <2>1. e.counts.host = d.counts.host
      BY <1>1, <1>2, <1>3 DEF NodeAdded, Shape, IsCounts
    <2>2. PICK top : top = d.counts.host
      OBVIOUS
    <2>3. Numbered(d, top)
      BY <2>2 DEF Part
    <2>4. Numbered(e, top)
      BY <1>1, <1>2, <1>3, <2>3, OtherAddedNumbered
    <2> QED
      BY <2>1, <2>2, <2>4
  <1> QED
    BY <1>4, <1>5, <1>6, <1>7, <1>8, <1>9 DEF Part

\* A host is.
LEMMA HostPart ==
    ASSUME NEW d, NEW C, NEW N, NEW P, Part(d, C, N, P), NEW name, name \notin N, NEW o, NEW e,
           HostAdded(d, "Host", name, o, e), FitsHost("Host", name, o), o.num = d.counts.host,
           o.extra = {"imported"}
    PROVE  Part(e, C, N \cup {name}, P)
  <1>1. PICK kind : kind = "Host"
    OBVIOUS
  <1>2. NodeAdded(d, kind, name, e)
    BY <1>1 DEF HostAdded
  <1>3. Shape(d) /\ Good(d, {}) /\ Managed(d, {}) /\ NodeNames(d) = N /\ Named(d) /\ Wired(d)
    BY DEF Part, Good
  <1>4. Shape(e)
    BY <1>3, HostAddedShape
  <1>5. Named(e) /\ NodeNames(e) = N \cup {name}
    <2>1. PICK w : w = [item |-> d.next, kind |-> kind, name |-> name]
      OBVIOUS
    <2> QED
      BY <1>2, <1>3, <2>1, NodeAddedNames
  <1>6. Good(e, {}) /\ Managed(e, {})
    BY <1>3, <1>5, HostAddedGood
  <1>7. ControllerNames(e) = C
    <2>1. ControllerNames(e) = ControllerNames(d) \cup (IF kind = "Controller" THEN {name} ELSE {})
      BY <1>2, <1>3, NodeAddedControllers
    <2> QED
      BY <1>1, <2>1 DEF Part
  <1>8. DataPairs(e) \subseteq P
    BY <1>2, <1>3, NodeAddedPairs DEF Part
  <1>9. Numbered(e, e.counts.host)
    <2>1. e.counts.host = d.counts.host + 1 /\ d.counts.host \in Nat
      BY <1>1, <1>2, <1>3 DEF NodeAdded, Shape, IsCounts
    <2>2. PICK top, next : top = d.counts.host /\ next = e.counts.host
      OBVIOUS
    <2>3. Numbered(d, top)
      BY <2>2 DEF Part
    <2>6. Offset(o) = d.counts.host + 1
      BY DEF Offset
    <2>4. /\ top \in Int /\ next \in Int /\ top <= next
          /\ Offset(o) \in Nat /\ Offset(o) > top /\ Offset(o) <= next
      BY <2>1, <2>2, <2>6
    <2>5. Numbered(e, next)
      BY <1>3, <1>5, <2>3, <2>4, HostAddedNumbered
    <2> QED
      BY <2>2, <2>5
  <1> QED
    BY <1>4, <1>5, <1>6, <1>7, <1>8, <1>9 DEF Part

(* Only links and lists differ.  *)
LEMMA LinkedPart ==
    ASSUME NEW d, NEW C, NEW N, NEW P, Part(d, C, N, P), NEW e, Shape(e), Good(e, {}), Managed(e, {}),
           SameNodes(d, e), e.hostOpts = d.hostOpts, e.counts = d.counts,
           NEW Q, DataPairs(e) \subseteq Q
    PROVE  Part(e, C, N, Q)
  <1>1. Nodes(e) = Nodes(d) /\ NodeNames(e) = NodeNames(d)
    BY SameNames
  <1>2. ControllerNames(e) = ControllerNames(d)
    BY <1>1 DEF ControllerNames
  <1>3. Numbered(e, e.counts.host)
    <2>1. PICK top : top = d.counts.host
      OBVIOUS
    <2>2. Numbered(d, top)
      BY <2>1 DEF Part
    <2>3. Numbered(e, top)
      BY <1>1, <2>2, FewerNumbered
    <2> QED
      BY <2>1, <2>3
  <1> QED
    BY <1>1, <1>2, <1>3 DEF Part

\* A controller is entered in the list of a switch and linked to it.
LEMMA ImportControlPart ==
    ASSUME NEW d, NEW C, NEW N, Part(d, C, N, {}), NEW w \in Nodes(d), w.kind = "Switch",
           NEW c \in C, c \notin ToSet(ListOf(d, w)),
           NEW r, r = ImportControl(d, w.name, c)
    PROVE  /\ r.ok /\ Part(r.m, C, N, {}) /\ SameNodes(d, r.m)
           /\ ToSet(ListOf(r.m, w)) = ToSet(ListOf(d, w)) \cup {c}
  <1>1. Shape(d) /\ Good(d, {}) /\ Managed(d, {}) /\ ControllerNames(d) = C
    BY DEF Part
  <1>2. PICK v \in Nodes(d) : v.kind = "Controller" /\ v.name = c
    BY <1>1 DEF ControllerNames
  <1>3. PICK name : name = w.name
    OBVIOUS
  <1>4. EquippedNode(d, w, C) /\ w.kind \in SwitchLike
    BY <1>1 DEF Good, Equipped, SwitchLike
  <1>5. PICK old : old = ListOf(d, w)
    OBVIOUS
  <1>6. old # NoList /\ NoTwice(old) /\ ToSet(old) \subseteq C /\ name \in DOMAIN d.switchOpts
    BY <1>3, <1>4, <1>5 DEF EquippedNode, FitList
  <1>7. HasList(d, name) /\ old = d.switchOpts[name].controllers
    BY <1>3, <1>5, <1>6 DEF HasList, ListOf
  <1>8. IsSeq(old)
    BY <1>1, <1>6, <1>7 DEF Shape, Entries, IsSwitchEntry
  <1>9. PICK list : list = Append(old, c)
    OBVIOUS
  <1>10. IsSeq(list) /\ ToSet(list) = ToSet(old) \cup {c} /\ NoTwice(list)
    BY <1>5, <1>6, <1>8, <1>9, AppendedSet, NoTwiceAppended
  <1>11. PICK e : ControlImported(d, name, c, r, e)
    BY <1>1, <1>3, <1>7, ImportControlIs
  <1>12. Shape(e) /\ Relisted(d, w.name, list, e) /\ r = LinkByName(e, name, c, "control", {})
    BY <1>3, <1>7, <1>9, <1>11 DEF ControlImported
  <1>13. /\ Good(e, {w.item}) /\ ListOf(e, w) = list
         /\ \A Z : Managed(d, Z) /\ Keeps(d, w, list, Z) => Managed(e, Z)
    <2>1. ToSet(list) \subseteq ControllerNames(d)
      BY <1>1, <1>6, <1>10
    <2>2. w.kind \in SwitchLike /\ (w.kind = "Switch" \/ list = <<>>)
      BY DEF SwitchLike
    <2>3. PICK X : X = {}
      OBVIOUS
    <2>4. Good(d, X)
      BY <1>1, <2>3
    <2>5. RelistedWell(d, X, w, list, e)
      BY <1>1, <1>10, <1>12, <2>1, <2>2, <2>4, RelistedGood
    <2>6. X \cup {w.item} = {w.item}
      BY <2>3
    <2> QED
      BY <2>5, <2>6 DEF RelistedWell
  <1>14. Managed(e, {})
    <2>1. Keeps(d, w, list, {})
      BY <1>5, <1>10 DEF Keeps
    <2> QED
      BY <1>1, <1>13, <2>1
  <1>15. /\ Nodes(e) = Nodes(d) /\ SameNodes(d, e) /\ SameLinks(d, e) /\ e.hostOpts = d.hostOpts
         /\ e.counts = d.counts
    BY <1>12, SameNames DEF Relisted, SameItems
  <1>16. ~Managing(e, w, v)
    <2>1. ~Managing(d, w, v)
      BY <1>1, <1>2 DEF Managed
    <2> QED
      BY <1>15, <2>1 DEF Managing, SameLinks
  <1>17. HasList(e, w.name)
    <2>1. EquippedNode(e, w, ControllerNames(e))
      BY <1>13, <1>15 DEF Good, Equipped
    <2> QED
      BY <1>4, <2>1 DEF EquippedNode, FitList, HasList, ListOf
  <1>18. PICK X : X = {w.item}
    OBVIOUS
  <1>19. r = LinkByName(e, w.name, v.name, "control", {}) /\ Good(e, X)
    BY <1>2, <1>3, <1>12, <1>13, <1>18
  <1>20. /\ r.ok /\ Good(r.m, X) /\ Managing(r.m, w, v)
         /\ w.kind = "Switch" /\ v.name \in ToSet(ListOf(e, w)) =>
                 \A Z : Managed(e, Z) => Managed(r.m, Z)
         /\ DataPairs(r.m) = DataPairs(e)
    BY <1>2, <1>4, <1>12, <1>15, <1>16, <1>17, <1>19, ControlLinkByName
  <1>21. Managed(r.m, {})
    BY <1>2, <1>10, <1>13, <1>14, <1>20
  <1>22. LinkedOnly(e, r.m)
    <2>1. PICK type : type = "control" /\ type \in {"data", "control"}
      OBVIOUS
    <2>2. r = LinkByName(e, w.name, v.name, type, {})
      BY <1>19, <2>1
    <2> QED
      BY <1>12, <2>1, <2>2, LinkByNameOnly
  <1>23. Nodes(r.m) = Nodes(d) /\ SameNodes(d, r.m) /\ ListOf(r.m, w) = list
    <2>1. SameNodes(d, r.m)
      BY <1>15, <1>22 DEF LinkedOnly, SameNodes
    <2>2. ListOf(r.m, w) = list
      BY <1>13, <1>22 DEF LinkedOnly, SameOpts, ListOf
    <2> QED
      BY <2>1, <2>2, SameNames
  <1>24. Good(r.m, {})
    <2>1. ASSUME NEW x \in Nodes(r.m), x.kind = "Controller", x.name \in ToSet(ListOf(r.m, w))
          PROVE  Managing(r.m, w, x)
      <3>1. CASE x = v
        BY <1>20, <3>1
      <3>2. CASE x # v
        <4>1. x \in Nodes(d) /\ x.name # c
          BY <1>1, <1>2, <1>23, <2>1, <3>2 DEF Good, Named
        <4>2. x.name \in ToSet(ListOf(d, w))
          BY <1>5, <1>10, <1>23, <2>1, <4>1
        <4>3. Managing(d, w, x)
          BY <1>1, <2>1, <4>1, <4>2 DEF Good, ListsDrawn
        <4>4. Managing(e, w, x)
          BY <1>15, <4>3 DEF Managing, SameLinks
        <4> QED
          BY <1>22, <4>4 DEF LinkedOnly
      <3> QED
        BY <3>1, <3>2
    <2>2. w \in Nodes(r.m) /\ Shape(r.m)
      BY <1>22, <1>23 DEF LinkedOnly
    <2>3. Good(r.m, {} \cup {w.item})
      <3>1. {} \cup {w.item} = X
        BY <1>18
      <3> QED
        BY <1>20, <3>1
    <2> QED
      BY <2>1, <2>2, <2>3, Finished
  <1>25. DataPairs(r.m) \subseteq {}
    <2>1. DataPairs(e) = DataPairs(d)
      BY <1>15, SamePairs DEF SameLinks
    <2> QED
      BY <1>20, <2>1 DEF Part
  <1>26. Part(r.m, C, N, {})
    <2>1. Shape(r.m) /\ r.m.hostOpts = d.hostOpts /\ r.m.counts = d.counts
      BY <1>15, <1>22 DEF LinkedOnly, SameOpts
    <2> QED
      BY <1>21, <1>23, <1>24, <1>25, <2>1, LinkedPart
  <1> QED
    BY <1>5, <1>10, <1>20, <1>23, <1>26

\* One step of a loop.
LEMMA LoopStep ==
    ASSUME NEW after, NEW op, NEW x, NEW r, NEW s, NEW N \in Nat, NEW end,
           Runs(after, op, x, r, s, N, end), NEW n \in Nat, n < N
    PROVE  /\ n + 1 \in 1..N /\ n + 1 \in 0..N
           /\ after[n + 1] = IF after[n].ok THEN Step(op, x, after[n].m, s[n + 1]) ELSE after[n]
  <1>1. n + 1 \in 1..N /\ n + 1 \in 0..N /\ (n + 1) - 1 = n
    OBVIOUS
  <1> QED
    BY <1>1 DEF Runs

\* All controllers are,
LEMMA ImportControllersPart ==
    ASSUME NEW q, q.ok, Part(q.m, {}, {}, {}), NEW s, IsSeq(s), NoTwice(s),
           NEW r, r = ImportControllers(q, s)
    PROVE  r.ok /\ Part(r.m, ToSet(s), ToSet(s), {})
  <1>1. PICK N \in Nat : Len(s) = N
    BY SeqIs
  <1>2. PICK after : Runs(after, "importController", NoName, q, s, N, r)
    BY <1>1, ImportControllersRuns
  <1> DEFINE Fine(e, k) == e.ok /\ Part(e.m, Upto(s, k), Upto(s, k), {})
             T == {k \in 0..N : Fine(after[k], k)}
  <1>3. 0 \in T
    <2>1. Upto(s, 0) = {} /\ after[0] = q
      BY <1>2, UptoIs DEF Runs
    <2>2. Fine(after[0], 0)
      BY <2>1
    <2> HIDE DEF Fine
    <2> QED
      BY <2>2
  <1>4. ASSUME NEW n \in Nat, n < N, n \in T PROVE n + 1 \in T
    <2>1. PICK x, y, e : x = after[n] /\ y = after[n + 1] /\ e = s[n + 1]
      OBVIOUS
    <2>2. x.ok /\ Part(x.m, Upto(s, n), Upto(s, n), {})
      BY <1>4, <2>1
    <2>3. n + 1 \in 0..N /\ y = IF x.ok THEN Step("importController", NoName, x.m, e) ELSE x
      BY <1>2, <1>4, <2>1, LoopStep
    <2>4. y = ImportController(x.m, e)
      BY <2>2, <2>3 DEF Step
    <2>5. Shape(x.m)
      BY <2>2 DEF Part
    <2>6. y.ok /\ ControllerAdded(x.m, e, "ref", y.m)
      BY <2>4, <2>5, ImportControllerIs
    <2>7. Upto(s, n + 1) = Upto(s, n) \cup {e} /\ e \notin Upto(s, n)
      BY <1>1, <1>4, <2>1, UptoIs
    <2>8. Part(y.m, Upto(s, n + 1), Upto(s, n + 1), {})
      BY <2>2, <2>6, <2>7, ControllerPart
    <2>9. Fine(after[n + 1], n + 1)
      BY <2>1, <2>6, <2>8
    <2> HIDE DEF Fine
    <2> QED
      BY <2>3, <2>9
  <1>5. \A n \in 0..N : n \in T
    <2> HIDE DEF T
    <2> QED
      BY <1>3, <1>4, UpTo
  <1>6. Fine(after[N], N)
    BY <1>5
  <1> QED
    BY <1>1, <1>2, <1>6, UptoIs DEF Runs

\* and linked to a switch,
LEMMA ImportControlsPart ==
    ASSUME NEW q, q.ok, NEW C, NEW M, Part(q.m, C, M, {}), NEW w \in Nodes(q.m), w.kind = "Switch",
           ToSet(ListOf(q.m, w)) = {},
           NEW s, IsSeq(s), NoTwice(s), ToSet(s) \subseteq C,
           NEW r, r = ImportControls(q, w.name, s)
    PROVE  r.ok /\ Part(r.m, C, M, {})
  <1>0. PICK name : name = w.name
    OBVIOUS
  <1>1. PICK N \in Nat : Len(s) = N /\ DOMAIN s = 1..N
    BY SeqIs
  <1>2. PICK after : Runs(after, "importControl", name, q, s, N, r)
    BY <1>0, <1>1, ImportControlsRuns
  <1> DEFINE Fine(e, k) == /\ e.ok /\ Part(e.m, C, M, {}) /\ w \in Nodes(e.m)
                           /\ ToSet(ListOf(e.m, w)) = Upto(s, k)
             T == {k \in 0..N : Fine(after[k], k)}
  <1>3. 0 \in T
    <2>1. Upto(s, 0) = {} /\ after[0] = q
      BY <1>2, UptoIs DEF Runs
    <2>2. Fine(after[0], 0)
      BY <2>1
    <2> HIDE DEF Fine
    <2> QED
      BY <2>2
  <1>4. ASSUME NEW n \in Nat, n < N, n \in T PROVE n + 1 \in T
    <2>1. PICK x, y, e : x = after[n] /\ y = after[n + 1] /\ e = s[n + 1]
      OBVIOUS
    <2>2. x.ok /\ Part(x.m, C, M, {}) /\ w \in Nodes(x.m) /\ ToSet(ListOf(x.m, w)) = Upto(s, n)
      BY <1>4, <2>1
    <2>3. n + 1 \in 0..N /\ y = IF x.ok THEN Step("importControl", name, x.m, e) ELSE x
      BY <1>2, <1>4, <2>1, LoopStep
    <2>4. y = ImportControl(x.m, w.name, e)
      BY <1>0, <2>2, <2>3 DEF Step
    <2>5. Upto(s, n + 1) = Upto(s, n) \cup {e} /\ e \notin Upto(s, n)
      BY <1>1, <1>4, <2>1, UptoIs
    <2>6. e \in C
      <3>1. n + 1 \in 1..N
        BY <1>4
      <3> QED
        BY <1>1, <2>1, <3>1 DEF ToSet
    <2>7. /\ y.ok /\ Part(y.m, C, M, {}) /\ SameNodes(x.m, y.m)
          /\ ToSet(ListOf(y.m, w)) = ToSet(ListOf(x.m, w)) \cup {e}
      BY <2>2, <2>4, <2>5, <2>6, ImportControlPart
    <2>8. w \in Nodes(y.m)
      BY <2>2, <2>7, SameNames
    <2>9. Fine(after[n + 1], n + 1)
      BY <2>1, <2>2, <2>5, <2>7, <2>8
    <2> HIDE DEF Fine
    <2> QED
      BY <2>3, <2>9
  <1>5. \A n \in 0..N : n \in T
    <2> HIDE DEF T
    <2> QED
      BY <1>3, <1>4, UpTo
  <1>6. Fine(after[N], N)
    BY <1>5
  <1> QED
    BY <1>2, <1>6 DEF Runs

\* and to all of them,
LEMMA ImportSwitchesPart ==
    ASSUME NEW q, q.ok, NEW c, IsSeq(c), NoTwice(c), Part(q.m, ToSet(c), ToSet(c), {}),
           NEW s, IsSeq(s), NoTwice(s), ToSet(s) \cap ToSet(c) = {},
           NEW r, r = ImportSwitches(q, s, c)
    PROVE  r.ok /\ Part(r.m, ToSet(c), ToSet(c) \cup ToSet(s), {})
  <1>0. PICK C : C = ToSet(c)
    OBVIOUS
  <1>1. PICK N \in Nat : Len(s) = N /\ DOMAIN s = 1..N
    BY SeqIs
  <1>2. PICK after : Runs(after, "importSwitch", c, q, s, N, r)
    BY <1>1, ImportSwitchesRuns
  <1> DEFINE Fine(e, k) == e.ok /\ Part(e.m, C, C \cup Upto(s, k), {})
             T == {k \in 0..N : Fine(after[k], k)}
  <1>3. 0 \in T
    <2>1. C \cup Upto(s, 0) = C
      BY UptoIs
    <2> QED
      BY <1>0, <1>2, <2>1 DEF Runs
  <1>4. ASSUME NEW n \in Nat, n < N, n \in T PROVE n + 1 \in T
    <2>1. PICK x, y, name : x = after[n] /\ y = after[n + 1] /\ name = s[n + 1]
      OBVIOUS
    <2>2. x.ok /\ Part(x.m, C, C \cup Upto(s, n), {})
      BY <1>4, <2>1
    <2>3. n + 1 \in 0..N /\ y = IF x.ok THEN Step("importSwitch", c, x.m, name) ELSE x
      BY <1>2, <1>4, <2>1, LoopStep
    <2>4. y = ImportSwitch(x.m, name, c)
      BY <2>2, <2>3 DEF Step
    <2>5. Upto(s, n + 1) = Upto(s, n) \cup {name} /\ name \notin Upto(s, n)
      BY <1>1, <1>4, <2>1, UptoIs
    <2>6. name \notin C
      <3>1. n + 1 \in 1..N
        BY <1>4
      <3> QED
        BY <1>0, <1>1, <2>1, <3>1 DEF ToSet
    <2>7. Shape(x.m)
      BY <2>2 DEF Part
    <2>8. PICK o, e : SwitchImported(x.m, name, c, y, o, e)
      BY <2>4, <2>7, ImportSwitchIs
    <2>9. PICK kind : kind = "Switch"
      OBVIOUS
    <2>10. /\ SwitchAdded(x.m, kind, name, o, e) /\ FitsSwitch("Switch", name, o)
           /\ o.controllers = <<>> /\ y = ImportControls(Ok(e), name, c)
      BY <2>8, <2>9 DEF SwitchImported
    <2>11. Part(e, C, C \cup Upto(s, n + 1), {})
      <3>1. name \notin C \cup Upto(s, n)
        BY <2>5, <2>6
      <3>2. (C \cup Upto(s, n)) \cup {name} = C \cup Upto(s, n + 1)
        BY <2>5
      <3>3. Part(e, C, (C \cup Upto(s, n)) \cup {name}, {})
        BY <2>2, <2>9, <2>10, <3>1, SwitchPart
      <3> QED
        BY <3>2, <3>3
    <2>12. PICK w : w = [item |-> x.m.next, kind |-> kind, name |-> name]
      OBVIOUS
    <2>13. NodeAdded(x.m, kind, name, e)
      BY <2>10 DEF SwitchAdded
    <2>14. w \in Nodes(e) /\ w.kind = "Switch" /\ w.name = name
      BY <2>7, <2>9, <2>12, <2>13, NodeAddedNames
    <2>15. ToSet(ListOf(e, w)) = {}
      <3>1. ListOf(e, w) = <<>>
        BY <2>10, <2>14 DEF ListOf, SwitchAdded, Entered
      <3>2. ToSet(<<>>) = {}
        BY NothingIsSeq DEF ToSet
      <3> QED
        BY <3>1, <3>2
    <2>16. PICK z : z = Ok(e)
      OBVIOUS
    <2>17. z.ok /\ z.m = e
      BY <2>16 DEF Ok
    <2>18. y.ok /\ Part(y.m, C, C \cup Upto(s, n + 1), {})
      <3>1. y = ImportControls(z, w.name, c)
        BY <2>10, <2>14, <2>16
      <3>2. w \in Nodes(z.m) /\ ToSet(ListOf(z.m, w)) = {} /\ Part(z.m, C, C \cup Upto(s, n + 1), {})
        BY <2>11, <2>14, <2>15, <2>17
      <3> QED
        BY <1>0, <2>14, <2>17, <3>1, <3>2, ImportControlsPart
    <2>19. Fine(after[n + 1], n + 1)
      BY <2>1, <2>18
    <2> HIDE DEF Fine
    <2> QED
      BY <2>3, <2>19
  <1>5. \A n \in 0..N : n \in T
    <2> HIDE DEF T
    <2> QED
      BY <1>3, <1>4, UpTo
  <1>6. Fine(after[N], N)
    BY <1>5
  <1> QED
    BY <1>0, <1>1, <1>2, <1>6, UptoIs DEF Runs

\* and hosts are,
LEMMA ImportHostsPart ==
    ASSUME NEW q, q.ok, NEW C, NEW M, Part(q.m, C, M, {}),
           NEW s, IsSeq(s), NoTwice(s), ToSet(s) \cap M = {},
           NEW r, r = ImportHosts(q, s)
    PROVE  r.ok /\ Part(r.m, C, M \cup ToSet(s), {})
  <1>1. PICK N \in Nat : Len(s) = N /\ DOMAIN s = 1..N
    BY SeqIs
  <1>2. PICK after : Runs(after, "importHost", NoName, q, s, N, r)
    BY <1>1, ImportHostsRuns
  <1> DEFINE Fine(e, k) == e.ok /\ Part(e.m, C, M \cup Upto(s, k), {})
             T == {k \in 0..N : Fine(after[k], k)}
  <1>3. 0 \in T
    <2>1. M \cup Upto(s, 0) = M
      BY UptoIs
    <2> QED
      BY <1>2, <2>1 DEF Runs
  <1>4. ASSUME NEW n \in Nat, n < N, n \in T PROVE n + 1 \in T
    <2>1. PICK x, y, name : x = after[n] /\ y = after[n + 1] /\ name = s[n + 1]
      OBVIOUS
    <2>2. x.ok /\ Part(x.m, C, M \cup Upto(s, n), {})
      BY <1>4, <2>1
    <2>3. n + 1 \in 0..N /\ y = IF x.ok THEN Step("importHost", NoName, x.m, name) ELSE x
      BY <1>2, <1>4, <2>1, LoopStep
    <2>4. y = ImportHost(x.m, name)
      BY <2>2, <2>3 DEF Step
    <2>5. Upto(s, n + 1) = Upto(s, n) \cup {name} /\ name \notin Upto(s, n)
      BY <1>1, <1>4, <2>1, UptoIs
    <2>6. name \notin M
      <3>1. n + 1 \in 1..N
        BY <1>4
      <3> QED
        BY <1>1, <2>1, <3>1 DEF ToSet
    <2>7. Shape(x.m)
      BY <2>2 DEF Part
    <2>8. y.ok /\ \E o : /\ HostAdded(x.m, "Host", name, o, y.m)
                         /\ FitsHost("Host", name, o) /\ o.num = x.m.counts.host
                         /\ o.extra = {"imported"}
      BY <2>4, <2>7, ImportHostIs
    <2>9. PICK o : /\ HostAdded(x.m, "Host", name, o, y.m) /\ FitsHost("Host", name, o)
                   /\ o.num = x.m.counts.host /\ o.extra = {"imported"}
      BY <2>8
    <2>10. Part(y.m, C, M \cup Upto(s, n + 1), {})
      <3>1. name \notin M \cup Upto(s, n)
        BY <2>5, <2>6
      <3>2. (M \cup Upto(s, n)) \cup {name} = M \cup Upto(s, n + 1)
        BY <2>5
      <3>3. Part(y.m, C, (M \cup Upto(s, n)) \cup {name}, {})
        BY <2>2, <2>9, <3>1, HostPart
      <3> QED
        BY <3>2, <3>3
    <2>11. Fine(after[n + 1], n + 1)
      BY <2>1, <2>8, <2>10
    <2> HIDE DEF Fine
    <2> QED
      BY <2>3, <2>11
  <1>5. \A n \in 0..N : n \in T
    <2> HIDE DEF T
    <2> QED
      BY <1>3, <1>4, UpTo
  <1>6. Fine(after[N], N)
    BY <1>5
  <1> QED
    BY <1>1, <1>2, <1>6, UptoIs DEF Runs

\* and links are.
LEMMA ImportLinksPart ==
    ASSUME NEW q, q.ok, NEW C, NEW M, Part(q.m, C, M, {}), NEW s, IsSeq(s),
           \A i \in DOMAIN s :
              /\ {s[i][1], s[i][2]} \subseteq M \ C /\ s[i][1] # s[i][2]
              /\ \A j \in DOMAIN s : {s[i][1], s[i][2]} = {s[j][1], s[j][2]} => i = j,
           NEW r, r = ImportLinks(q, s)
    PROVE  \E P : Part(r.m, C, M, P)
  <1>1. PICK N \in Nat : Len(s) = N /\ DOMAIN s = 1..N
    BY SeqIs
  <1>2. PICK after : Runs(after, "importLink", NoName, q, s, N, r)
    BY <1>1, ImportLinksRuns
  <1> DEFINE Pairs(k) == {{s[j][1], s[j][2]} : j \in 1..k}
             Fine(e, k) == Part(e.m, C, M, Pairs(k))
             T == {k \in 0..N : Fine(after[k], k)}
  <1>3. 0 \in T
    <2>1. Pairs(0) = {}
      OBVIOUS
    <2>2. Part(after[0].m, C, M, {})
      BY <1>2 DEF Runs
    <2>3. Fine(after[0], 0)
      BY <2>1, <2>2
    <2> HIDE DEF Fine
    <2> QED
      BY <2>3
  <1>4. ASSUME NEW n \in Nat, n < N, n \in T PROVE n + 1 \in T
    <2>1. PICK x, y, l, a, b : /\ x = after[n] /\ y = after[n + 1] /\ l = s[n + 1]
                               /\ a = s[n + 1][1] /\ b = s[n + 1][2]
      OBVIOUS
    <2>2. Part(x.m, C, M, Pairs(n))
      BY <1>4, <2>1
    <2>3. n + 1 \in 0..N /\ n + 1 \in 1..N /\ y = IF x.ok THEN Step("importLink", NoName, x.m, l) ELSE x
      BY <1>2, <1>4, <2>1, LoopStep
    <2>4. {a, b} \subseteq M \ C /\ a # b
      BY <1>1, <2>1, <2>3
    <2>5. {a, b} \notin Pairs(n)
      <3>1. SUFFICES ASSUME NEW j \in 1..n, {a, b} = {s[j][1], s[j][2]} PROVE FALSE
        OBVIOUS
      <3>2. j \in DOMAIN s /\ n + 1 \in DOMAIN s /\ j # n + 1
        BY <1>1, <1>4, <2>3
      <3>3. \A i \in DOMAIN s : {s[n + 1][1], s[n + 1][2]} = {s[i][1], s[i][2]} => n + 1 = i
        BY <3>2
      <3> QED
        BY <2>1, <3>1, <3>2, <3>3
    <2>6. Pairs(n + 1) = Pairs(n) \cup {{a, b}}
      <3>1. 1..(n + 1) = (1..n) \cup {n + 1}
        BY <1>4
      <3> QED
        BY <2>1, <3>1
    <2> HIDE DEF Pairs
    <2>7. CASE ~x.ok
      <3>1. Part(x.m, C, M, Pairs(n + 1))
        BY <2>2, <2>6 DEF Part
      <3> QED
        BY <2>1, <2>3, <2>7, <3>1
    <2>8. CASE x.ok
      <3>1. y = LinkByName(x.m, a, b, "data", {"ends"})
        BY <2>1, <2>3, <2>8 DEF Step, ImportLink
      <3>2. /\ Shape(x.m) /\ Good(x.m, {}) /\ Managed(x.m, {}) /\ ControllerNames(x.m) = C
            /\ DataPairs(x.m) \subseteq Pairs(n)
        BY <2>2 DEF Part
      <3>3. {a, b} \cap ControllerNames(x.m) = {} /\ {a, b} \notin DataPairs(x.m)
        BY <2>4, <2>5, <3>2
      <3>4. /\ Good(y.m, {}) /\ Managed(y.m, {})
            /\ DataPairs(y.m) \subseteq DataPairs(x.m) \cup {{a, b}}
        <4>1. PICK X, opts : X = {} /\ opts = {"ends"}
          OBVIOUS
        <4>2. y = LinkByName(x.m, a, b, "data", opts) /\ Good(x.m, X)
          BY <3>1, <3>2, <4>1
        <4>3. DataLinked(x.m, X, a, b, y)
          BY <2>4, <3>2, <3>3, <4>2, DataLinkByName
        <4> QED
          BY <3>2, <4>1, <4>3 DEF DataLinked
      <3>5. PICK type : type = "data" /\ type \in {"data", "control"}
        OBVIOUS
      <3>6. LinkedOnly(x.m, y.m)
        BY <3>1, <3>2, <3>5, LinkByNameOnly
      <3>7. Part(y.m, C, M, Pairs(n + 1))
        <4>1. DataPairs(y.m) \subseteq Pairs(n + 1)
          BY <2>6, <3>2, <3>4
        <4>2. /\ Shape(y.m) /\ SameNodes(x.m, y.m) /\ y.m.hostOpts = x.m.hostOpts
              /\ y.m.counts = x.m.counts
          BY <3>6 DEF LinkedOnly, SameOpts
        <4> QED
          BY <2>2, <3>4, <4>1, <4>2, LinkedPart
      <3> QED
        BY <2>1, <2>3, <3>7
    <2> QED
      BY <2>7, <2>8
  <1>5. \A n \in 0..N : n \in T
    <2> HIDE DEF T
    <2> QED
      BY <1>3, <1>4, UpTo
  <1>6. Fine(after[N], N)
    <2>1. N \in T
      <3> HIDE DEF T
      <3> QED
        BY <1>5
    <2> HIDE DEF Fine
    <2> QED
      BY <2>1
  <1>7. Part(r.m, C, M, Pairs(N))
    BY <1>2, <1>6 DEF Runs
  <1> QED
    BY <1>7

\* Nothing is drawn.
Blank(d) == Nodes(d) = {} /\ ToSet(d.links) = {} /\ DOMAIN d.ends = {} /\ d.gone = {}

\* Where nothing is drawn all is well.
LEMMA BlankIs ==
    ASSUME NEW d, Blank(d)
    PROVE  /\ Good(d, {}) /\ Managed(d, {}) /\ (\A top : Numbered(d, top))
           /\ ControllerNames(d) = {} /\ NodeNames(d) = {} /\ DataPairs(d) = {}
  <1>1. Named(d) /\ Wired(d) /\ Equipped(d)
    BY DEF Blank, Named, Wired, Equipped
  <1>2. Enlisted(d) /\ ListsDrawn(d, {}) /\ Managed(d, {})
    BY DEF Blank, Enlisted, ListsDrawn, Managed
  <1>3. \A top : Numbered(d, top)
    BY DEF Blank, Numbered
  <1>4. ControllerNames(d) = {} /\ NodeNames(d) = {} /\ DataPairs(d) = {}
    BY DEF Blank, ControllerNames, NodeNames, DataPairs
  <1> QED
    BY <1>1, <1>2, <1>3, <1>4 DEF Good

\* The empty drawing is a part of any topology.
LEMMA EmptyPart ==
    ASSUME NEW d, d = EmptyModel
    PROVE  Part(d, {}, {}, {})
  <1>1. Shape(d) /\ Blank(d)
    BY EmptyShape DEF Blank
  <1>2. /\ Good(d, {}) /\ Managed(d, {}) /\ (\A top : Numbered(d, top))
        /\ ControllerNames(d) = {} /\ NodeNames(d) = {} /\ DataPairs(d) = {}
    BY <1>1, BlankIs
  <1> QED
    BY <1>1, <1>2 DEF Part

\* What --topo imports is a drawing as the tools would make it.
LEMMA ImportedPart ==
    ASSUME NEW t \in Imports, NEW d, d = Imported(t)
    PROVE  \E C, N, P : Part(d, C, N, P)
  <1>0. /\ IsSeq(t.controllers) /\ NoTwice(t.controllers) /\ IsSeq(t.switches) /\ NoTwice(t.switches)
        /\ IsSeq(t.hosts) /\ NoTwice(t.hosts) /\ IsSeq(t.links)
    <2>1. Once(t.controllers) /\ Once(t.switches) /\ Once(t.hosts) /\ Listing(t.links)
      BY ImportsAssumption
    <2> QED
      BY <2>1, OnceIs, ListingIs
  <1>1. PICK C, S, H : C = ToSet(t.controllers) /\ S = ToSet(t.switches) /\ H = ToSet(t.hosts)
    OBVIOUS
  <1>2. C \cap S = {} /\ C \cap H = {} /\ S \cap H = {}
    BY <1>1, ImportsAssumption
  <1>3. \A i \in DOMAIN t.links :
           /\ {t.links[i][1], t.links[i][2]} \subseteq S \cup H
           /\ t.links[i][1] # t.links[i][2]
           /\ \A j \in DOMAIN t.links :
                 {t.links[i][1], t.links[i][2]} = {t.links[j][1], t.links[j][2]} => i = j
    BY <1>1, ImportsAssumption
  <1>4. PICK z : z = Ok(EmptyModel)
    OBVIOUS
  <1>5. PICK c : c = ImportControllers(z, t.controllers)
    OBVIOUS
  <1>6. PICK s : s = ImportSwitches(c, t.switches, t.controllers)
    OBVIOUS
  <1>7. PICK h : h = ImportHosts(s, t.hosts)
    OBVIOUS
  <1>8. PICK l : l = ImportLinks(h, t.links)
    OBVIOUS
  <1>9. d = l.m
    BY <1>4, <1>5, <1>6, <1>7, <1>8 DEF Imported
  <1>10. z.ok /\ Part(z.m, {}, {}, {})
    BY <1>4, EmptyPart DEF Ok
  <1>11. c.ok /\ Part(c.m, C, C, {})
    BY <1>0, <1>1, <1>5, <1>10, ImportControllersPart
  <1>12. s.ok /\ Part(s.m, C, C \cup S, {})
    <2>1. ToSet(t.switches) \cap ToSet(t.controllers) = {}
      BY <1>1, <1>2
    <2>2. Part(c.m, ToSet(t.controllers), ToSet(t.controllers), {})
      BY <1>1, <1>11
    <2>3. s.ok /\ Part(s.m, ToSet(t.controllers), ToSet(t.controllers) \cup ToSet(t.switches), {})
      BY <1>0, <1>6, <1>11, <2>1, <2>2, ImportSwitchesPart
    <2> QED
      BY <1>1, <2>3
  <1>13. PICK M : M = (C \cup S) \cup H
    OBVIOUS
  <1>14. h.ok /\ Part(h.m, C, M, {})
    <2>1. ToSet(t.hosts) \cap (C \cup S) = {}
      BY <1>1, <1>2
    <2>2. h.ok /\ Part(h.m, C, (C \cup S) \cup ToSet(t.hosts), {})
      BY <1>0, <1>7, <1>12, <2>1, ImportHostsPart
    <2> QED
      BY <1>1, <1>13, <2>2
  <1>15. \A i \in DOMAIN t.links :
           /\ {t.links[i][1], t.links[i][2]} \subseteq M \ C
           /\ t.links[i][1] # t.links[i][2]
           /\ \A j \in DOMAIN t.links :
                 {t.links[i][1], t.links[i][2]} = {t.links[j][1], t.links[j][2]} => i = j
    <2>1. S \cup H = M \ C
      BY <1>2, <1>13
    <2> QED
      BY <1>3, <2>1
  <1>16. \E P : Part(l.m, C, M, P)
    BY <1>0, <1>8, <1>14, <1>15, ImportLinksPart
  <1> QED
    BY <1>9, <1>16

\* What a new topology leaves of a good drawing.
LEMMA NewTopologyNodes ==
    ASSUME NEW d, Shape(d), NEW t, t # "disabled", NEW r, r = NewTopology(d, t)
    PROVE  /\ Shape(r.m) /\ Nodes(r.m) \subseteq Nodes(d)
           /\ r.ok => Nodes(r.m) = {} /\ ToSet(r.m.links) = {}
           /\ ~r.ok => r.m.hostOpts = d.hostOpts /\ r.m.counts = d.counts
  <1>1. /\ Shape(r.m)
        /\ r.ok => r.m.canvas = <<>> /\ r.m.links = <<>>
        /\ ~r.ok => Pruned(d, r.m)
    BY NewTopologyShape
  <1>2. CASE r.ok
    <2>1. Nodes(r.m) = {} /\ ToSet(r.m.links) = {}
      BY <1>1, <1>2 DEF Nodes, ToSet
    <2> QED
      BY <1>1, <1>2, <2>1
  <1>3. CASE ~r.ok
    BY <1>1, <1>3 DEF Pruned, SameItems
  <1> QED
    BY <1>2, <1>3

(***************************************************************************)
(* Addresses.                                                              *)
(***************************************************************************)
NewlyDrawn == Without({"nameTaken", "staleDialog", "fileOpened", "fileWhileRunning",
                        "addressReplaced"})
AddressesInv == TypeInv /\ (NewlyDrawn => Named(m) /\ Numbered(m, m.counts.host))

\* Hosts of an initial drawing have numbers of their own.
LEMMA InitAddresses ==
    ASSUME Init
    PROVE  AddressesInv
  <1>1. TypeInv
    BY InitTypes
  <1>2. PICK d : d = m
    OBVIOUS
  <1>3. \E C, N, P : Part(d, C, N, P)
    <2>1. d = EmptyModel \/ \E t \in Imports : d = Imported(t)
      BY <1>2 DEF Init
    <2> QED
      BY <2>1, EmptyPart, ImportedPart
  <1>4. Named(d) /\ Numbered(d, d.counts.host)
    BY <1>3 DEF Part, Good
  <1> QED
    BY <1>1, <1>2, <1>4 DEF AddressesInv

\* Fewer or the same nodes.
LEMMA FewerNodes ==
    ASSUME NEW d, Named(d), Numbered(d, d.counts.host), NEW e, Nodes(e) \subseteq Nodes(d),
           e.hostOpts = d.hostOpts, e.counts = d.counts
    PROVE  Named(e) /\ Numbered(e, e.counts.host)
  <1>1. Named(e)
    BY DEF Named
  <1>2. PICK top : top = d.counts.host
    OBVIOUS
  <1>3. \A w \in Nodes(e) : w.kind = "Host" => w \in Nodes(d)
    OBVIOUS
  <1>4. Numbered(e, top)
    BY <1>2, <1>3, FewerNumbered
  <1> QED
    BY <1>1, <1>2, <1>4

\* A tool adds a host with the next number.
LEMMA NewNodeNumbered ==
    ASSUME NEW d, Shape(d), Numbered(d, d.counts.host), NEW kind \in AllKinds,
           NEW e, e = NewNode(d, kind), Named(e)
    PROVE  Numbered(e, e.counts.host)
  <1>1. d.counts.host \in Nat
    BY DEF Shape, IsCounts
  <1>2. PICK top \in Int : top = d.counts.host
    BY <1>1
  <1>3. CASE kind \in HostLike
    <2>1. PICK name, o : /\ HostAdded(d, kind, name, o, e) /\ FitsHost(kind, name, o)
                         /\ o.num = e.counts.host /\ o.extra = {}
      BY <1>3, NewHostIs
    <2>2. /\ IsCounts(e.counts)
          /\ e.counts.host = d.counts.host + (IF kind = "Host" THEN 1 ELSE 0)
      BY <2>1 DEF HostAdded, NodeAdded
    <2>3. PICK next \in Int : next = e.counts.host
      BY <2>2 DEF IsCounts
    <2>6. Offset(o) = o.num
      BY <2>1 DEF Offset
    <2>4. top <= next /\ (kind = "Host" => Offset(o) \in Nat /\ Offset(o) > top /\ Offset(o) <= next)
      BY <1>1, <1>2, <2>1, <2>2, <2>3, <2>6
    <2>5. Numbered(e, next)
      BY <1>2, <2>1, <2>4, HostAddedNumbered
    <2> QED
      BY <2>3, <2>5
  <1>4. ASSUME kind \notin HostLike, NEW name, NodeAdded(d, kind, name, e), e.hostOpts = d.hostOpts
        PROVE  Numbered(e, e.counts.host)
    <2>1. kind # "Host"
      BY <1>4 DEF HostLike
    <2>2. Numbered(e, top)
      BY <1>2, <1>4, <2>1, OtherAddedNumbered
    <2>3. e.counts.host = top
      BY <1>1, <1>2, <1>4, <2>1 DEF NodeAdded
    <2> QED
      BY <2>2, <2>3
  <1>5. CASE kind \in SwitchLike
    <2>1. PICK name, o : SwitchAdded(d, kind, name, o, e)
      BY <1>5, NewSwitchIs
    <2> QED
      BY <1>4, <1>5, <2>1 DEF SwitchAdded, SwitchLike, HostLike
  <1>6. CASE kind = "Controller"
    <2>1. PICK name : ControllerAdded(d, name, "ref", e)
      BY <1>6, NewControllerIs
    <2> QED
      BY <1>4, <1>6, <2>1 DEF ControllerAdded, HostLike
  <1> QED
    BY <1>3, <1>5, <1>6 DEF AllKinds, HostLike, SwitchLike

(***************************************************************************)
(* The lists of the switches follow a new name of a controller.            *)
(***************************************************************************)
(* Only lists of switches drawn differ.                                    *)
ListsOnly(d, e) ==
    /\ Shape(e) /\ SameNodes(d, e) /\ SameLinks(d, e) /\ SameItems(d, e)
    /\ e.hostOpts = d.hostOpts /\ e.controllers = d.controllers
    /\ DOMAIN e.switchOpts = DOMAIN d.switchOpts
    /\ \A n \in DOMAIN d.switchOpts :
          /\ e.switchOpts[n].type = d.switchOpts[n].type
          /\ e.switchOpts[n].num = d.switchOpts[n].num
          /\ e.switchOpts[n].hostname = d.switchOpts[n].hostname
          /\ e.switchOpts[n].extra = d.switchOpts[n].extra
          /\ (\A w \in Nodes(d) : w.kind = "Switch" => w.name # n) =>
                e.switchOpts[n].controllers = d.switchOpts[n].controllers

\* Lists may change twice,
LEMMA ListsOnlyTwice ==
    ASSUME NEW d, NEW e, NEW f, ListsOnly(d, e), ListsOnly(e, f)
    PROVE  ListsOnly(d, f)
  <1>1. Nodes(e) = Nodes(d)
    BY SameNames DEF ListsOnly
  <1>2. /\ SameNodes(d, f) /\ SameLinks(d, f) /\ SameItems(d, f)
        /\ f.hostOpts = d.hostOpts /\ f.controllers = d.controllers
        /\ DOMAIN f.switchOpts = DOMAIN d.switchOpts
    BY DEF ListsOnly, SameNodes, SameLinks, SameItems
  <1> QED
    BY <1>1, <1>2 DEF ListsOnly

\* or not at all.
LEMMA ListsOnlyNothing ==
    ASSUME NEW d, Shape(d)
    PROVE  ListsOnly(d, d)
  BY DEF ListsOnly, SameNodes, SameLinks, SameItems

\* The new list of a switch.
RenamedList(list, old, name, after) ==
    /\ IsSeq(after) /\ NoTwice(after)
    /\ \/ after = list
       \/ old \in ToSet(list) /\ ToSet(after) = (ToSet(list) \ {old}) \cup {name}

\* What Relist() makes of one switch.
OneRelisted(d, w, old, name, list, r) ==
    /\ ListsOnly(d, r.m) /\ r.ok
    /\ old \notin ToSet(ListOf(r.m, w)) /\ RenamedList(list, old, name, ListOf(r.m, w))
    /\ \A n \in DOMAIN d.switchOpts : n # w.name => r.m.switchOpts[n] = d.switchOpts[n]

\* One list follows a new name.
LEMMA RelistOne ==
    ASSUME NEW d, Shape(d), NEW w \in Nodes(d), w.kind = "Switch", NEW old, NEW name, old # name,
           HasList(d, w.name), NEW list, list = ListOf(d, w), NoTwice(list),
           name \notin ToSet(list) \ {old},
           NEW r, r = Relist(d, w.name, old, name)
    PROVE  OneRelisted(d, w, old, name, list, r)
  <1>1. list = d.switchOpts[w.name].controllers
    BY DEF ListOf
  <1>2. /\ Shape(r.m) /\ SameNodes(d, r.m) /\ (r.ok <=> HasList(d, w.name))
        /\ \/ r.m = d /\ (~HasList(d, w.name) \/ old \notin ToSet(list))
           \/ /\ HasList(d, w.name) /\ old \in ToSet(list)
              /\ Relisted(d, w.name, Append(RemoveFirst(list, old), name), r.m)
    BY <1>1, RelistIs
  <1>3. HasList(d, w.name) => IsSeq(list)
    BY <1>1 DEF HasList, Shape, Entries, IsSwitchEntry
  <1>4. CASE r.m = d /\ old \notin ToSet(list)
    <2>1. ListsOnly(d, r.m)
      BY <1>4, ListsOnlyNothing
    <2> QED
      BY <1>2, <1>3, <1>4, <2>1 DEF OneRelisted, RenamedList
  <1>5. ASSUME old \in ToSet(list),
               Relisted(d, w.name, Append(RemoveFirst(list, old), name), r.m)
        PROVE  OneRelisted(d, w, old, name, list, r)
    <2>1. PICK rest : rest = RemoveFirst(list, old)
      OBVIOUS
    <2>2. IsSeq(rest) /\ NoTwice(rest) /\ ToSet(rest) = ToSet(list) \ {old}
      BY <1>3, <1>5, <2>1, FirstRemoved
    <2>3. PICK after : after = Append(rest, name)
      OBVIOUS
    <2>4. IsSeq(after) /\ NoTwice(after) /\ ToSet(after) = ToSet(rest) \cup {name}
      BY <1>5, <2>2, <2>3, AppendedSet, NoTwiceAppended
    <2>5. PICK e, u : e = r.m /\ u = w.name
      OBVIOUS
    <2>51. Relisted(d, u, after, e)
      BY <1>5, <2>1, <2>3, <2>5
    <2>7. ListsAs(d, u, after, e)
      BY <2>4, <2>51, RelistedLists
    <2>8. u \in DOMAIN d.switchOpts
      BY <2>5 DEF HasList
    <2>9. ListOf(r.m, w) = after
      BY <2>5, <2>7, <2>8 DEF ListOf, ListsAs
    <2>10. ListsOnly(d, e)
      BY <1>2, <2>5, <2>51, <2>7 DEF ListsOnly, Relisted, ListsAs
    <2>11. \A n \in DOMAIN d.switchOpts : n # u => e.switchOpts[n] = d.switchOpts[n]
      BY <2>51 DEF Relisted
    <2>12. RenamedList(list, old, name, after) /\ old \notin ToSet(after)
      BY <1>5, <2>2, <2>4 DEF RenamedList
    <2> QED
      BY <1>2, <2>5, <2>9, <2>10, <2>11, <2>12 DEF OneRelisted
  <1> QED
    BY <1>2, <1>4, <1>5

\* All lists follow a new name, whatever the order of the switches.
LEMMA RelistedEverywhere ==
    ASSUME NEW d, Shape(d), Named(d), NEW old, NEW name, old # name,
           \A w \in Nodes(d) : w.kind = "Switch" =>
              HasList(d, w.name) /\ NoTwice(ListOf(d, w)) /\ name \notin ToSet(ListOf(d, w)),
           NEW r, r = RelistEverywhere(d, old, name)
    PROVE  /\ r.ok /\ ListsOnly(d, r.m)
           /\ \A w \in Nodes(d) : w.kind = "Switch" =>
                 /\ old \notin ToSet(ListOf(r.m, w))
                 /\ RenamedList(ListOf(d, w), old, name, ListOf(r.m, w))
  <1>1. PICK s : s = NodesLike(d, {"Switch"})
    OBVIOUS
  <1>2. IsSeq(s) /\ ToSet(s) = {w \in Nodes(d) : w.kind = "Switch"}
    BY <1>1, NodesLikeIs DEF Shape, Drawn
  <1>3. PICK N \in Nat : Len(s) = N /\ DOMAIN s = 1..N
    BY <1>2, SeqIs
  <1>4. PICK q : q = Ok(d)
    OBVIOUS
  <1>5. PICK x2 : x2 = <<old, name>>
    OBVIOUS
  <1>6. PICK after : Runs(after, "relist", x2, q, s, N, r)
    BY <1>1, <1>3, <1>4, <1>5, RelistEverywhereRuns
  <1> DEFINE Fine(e, k) ==
                /\ e.ok /\ ListsOnly(d, e.m)
                /\ \A w \in Nodes(d) : w.kind = "Switch" =>
                      /\ RenamedList(ListOf(d, w), old, name, ListOf(e.m, w))
                      /\ w \in Upto(s, k) => old \notin ToSet(ListOf(e.m, w))
             T == {k \in 0..N : Fine(after[k], k)}
  <1>7. 0 \in T
    <2>1. Upto(s, 0) = {} /\ after[0] = q /\ q.ok /\ q.m = d
      BY <1>2, <1>4, <1>6, UptoIs DEF Runs, Ok
    <2>2. \A w \in Nodes(d) : w.kind = "Switch" => RenamedList(ListOf(d, w), old, name, ListOf(d, w))
      <3>1. \A w \in Nodes(d) : w.kind = "Switch" => IsSeq(ListOf(d, w))
        BY DEF HasList, Shape, Entries, IsSwitchEntry, ListOf
      <3> QED
        BY <3>1 DEF RenamedList
    <2>3. Fine(after[0], 0)
      BY <2>1, <2>2, ListsOnlyNothing
    <2> HIDE DEF Fine
    <2> QED
      BY <2>3
  <1>8. ASSUME NEW n \in Nat, n < N, n \in T PROVE n + 1 \in T
    <2>1. PICK x, y, v : x = after[n] /\ y = after[n + 1] /\ v = s[n + 1]
      OBVIOUS
    <2>2. Fine(x, n)
      BY <1>8, <2>1
    <2>3. /\ n + 1 \in 1..N /\ n + 1 \in 0..N
          /\ y = IF x.ok THEN Step("relist", x2, x.m, v) ELSE x
      BY <1>6, <1>8, <2>1, LoopStep
    <2>4. y = Relist(x.m, v.name, old, name)
      BY <1>5, <2>2, <2>3 DEF Step
    <2>5. v \in Nodes(d) /\ v.kind = "Switch"
      BY <1>2, <1>3, <2>1, <2>3 DEF ToSet
    <2>6. Upto(s, n + 1) = Upto(s, n) \cup {v}
      BY <1>2, <1>3, <1>8, <2>1, UptoIs
    <2>7. Shape(x.m) /\ Nodes(x.m) = Nodes(d)
      BY <2>2, SameNames DEF ListsOnly
    <2>8. PICK list : list = ListOf(x.m, v)
      OBVIOUS
    <2>9. RenamedList(ListOf(d, v), old, name, list)
      BY <2>2, <2>5, <2>8
    <2>10. HasList(x.m, v.name)
      <3>1. v.name \in DOMAIN x.m.switchOpts
        BY <2>2, <2>5 DEF ListsOnly, HasList
      <3>2. x.m.switchOpts[v.name].controllers # NoList
        BY <2>8, <2>9, NoListIsNoSeq DEF RenamedList, ListOf
      <3> QED
        BY <3>1, <3>2 DEF HasList
    <2>11. \/ old \notin ToSet(list) /\ NoTwice(list)
           \/ NoTwice(list) /\ name \notin ToSet(list) \ {old}
      BY <2>5, <2>9 DEF RenamedList
    <2>12. CASE old \notin ToSet(list)
      <3>1. y = Ok(x.m)
        BY <2>4, <2>8, <2>10, <2>12 DEF Relist, ListOf
      <3>2. Fine(y, n + 1)
        BY <2>2, <2>6, <2>8, <2>12, <3>1 DEF Ok
      <3> HIDE DEF Fine
      <3> QED
        BY <2>1, <2>3, <3>2
    <2>13. CASE name \notin ToSet(list) \ {old} /\ NoTwice(list) /\ old \in ToSet(list)
      <3>1. v \in Nodes(x.m)
        BY <2>5, <2>7
      <3>2. /\ ListsOnly(x.m, y.m) /\ y.ok
            /\ old \notin ToSet(ListOf(y.m, v)) /\ RenamedList(list, old, name, ListOf(y.m, v))
            /\ \A u \in DOMAIN x.m.switchOpts : u # v.name => y.m.switchOpts[u] = x.m.switchOpts[u]
        <4>1. PICK d2 : d2 = x.m
          OBVIOUS
        <4>2. /\ Shape(d2) /\ v \in Nodes(d2) /\ HasList(d2, v.name) /\ list = ListOf(d2, v)
              /\ y = Relist(d2, v.name, old, name)
          BY <2>4, <2>7, <2>8, <2>10, <3>1, <4>1
        <4>3. name \notin ToSet(list) \ {old} /\ NoTwice(list) /\ v.kind = "Switch"
          BY <2>5, <2>13
        <4>4. OneRelisted(d2, v, old, name, list, y)
          BY <4>2, <4>3, RelistOne
        <4> QED
          BY <4>1, <4>4 DEF OneRelisted
      <3>3. ListsOnly(d, y.m)
        BY <2>2, <3>2, ListsOnlyTwice
      <3>4. RenamedList(ListOf(d, v), old, name, ListOf(y.m, v))
        <4>1. list = ListOf(d, v)
          BY <2>5, <2>9, <2>13 DEF RenamedList
        <4> QED
          BY <3>2, <4>1
      <3>5. ASSUME NEW w \in Nodes(d), w.kind = "Switch", w # v
            PROVE  ListOf(y.m, w) = ListOf(x.m, w)
        <4>1. w.name # v.name
          BY <2>5, <3>5 DEF Named
        <4>2. w.name \in DOMAIN x.m.switchOpts
          BY <2>2, <3>5 DEF ListsOnly, HasList
        <4> QED
          BY <3>2, <4>1, <4>2 DEF ListOf
      <3>6. ASSUME NEW w \in Nodes(d), w.kind = "Switch"
            PROVE  /\ RenamedList(ListOf(d, w), old, name, ListOf(y.m, w))
                   /\ w \in Upto(s, n + 1) => old \notin ToSet(ListOf(y.m, w))
        <4>1. CASE w = v
          BY <3>2, <3>4, <4>1
        <4>2. CASE w # v
          <5>1. /\ RenamedList(ListOf(d, w), old, name, ListOf(x.m, w))
                /\ w \in Upto(s, n) => old \notin ToSet(ListOf(x.m, w))
            BY <2>2, <3>6
          <5> QED
            BY <2>6, <3>5, <3>6, <4>2, <5>1
        <4> QED
          BY <4>1, <4>2
      <3>7. Fine(y, n + 1)
        BY <3>2, <3>3, <3>6
      <3> HIDE DEF Fine
      <3> QED
        BY <2>1, <2>3, <3>7
    <2>14. \/ old \notin ToSet(list)
           \/ name \notin ToSet(list) \ {old} /\ NoTwice(list) /\ old \in ToSet(list)
      BY <2>11
    <2> QED
      BY <2>12, <2>13, <2>14
  <1>9. \A n \in 0..N : n \in T
    <2> HIDE DEF T
    <2> QED
      BY <1>7, <1>8, UpTo
  <1>10. Fine(after[N], N)
    <2>1. N \in T
      <3> HIDE DEF T
      <3> QED
        BY <1>9
    <2> HIDE DEF Fine
    <2> QED
      BY <2>1
  <1>11. after[N] = r /\ Upto(s, N) = {w \in Nodes(d) : w.kind = "Switch"}
    BY <1>2, <1>3, <1>6, UptoIs DEF Runs
  <1> QED
    BY <1>10, <1>11

\* The lists alone are changed.
LEMMA RelistEverywhereKeeps ==
    ASSUME NEW d, Shape(d), NEW old, NEW name, NEW r, r = RelistEverywhere(d, old, name)
    PROVE  /\ Nodes(r.m) = Nodes(d) /\ r.m.hostOpts = d.hostOpts /\ r.m.counts = d.counts
  <1>1. PICK s : s = NodesLike(d, {"Switch"})
    OBVIOUS
  <1>2. IsSeq(s)
    BY <1>1, NodesLikeIs DEF Shape, Drawn
  <1>3. PICK N \in Nat : Len(s) = N
    BY <1>2, SeqIs
  <1>4. PICK q : q = Ok(d)
    OBVIOUS
  <1>5. PICK x2 : x2 = <<old, name>>
    OBVIOUS
  <1>6. PICK after : Runs(after, "relist", x2, q, s, N, r)
    BY <1>1, <1>3, <1>4, <1>5, RelistEverywhereRuns
  <1> DEFINE Fine(e, k) == /\ Shape(e.m) /\ Nodes(e.m) = Nodes(d)
                           /\ e.m.hostOpts = d.hostOpts /\ e.m.counts = d.counts
             T == {k \in 0..N : Fine(after[k], k)}
  <1>7. 0 \in T
    <2>1. after[0].m = d
      BY <1>4, <1>6 DEF Runs, Ok
    <2>2. Fine(after[0], 0)
      BY <2>1
    <2> HIDE DEF Fine
    <2> QED
      BY <2>2
  <1>8. ASSUME NEW n \in Nat, n < N, n \in T PROVE n + 1 \in T
    <2>1. PICK x, y, v : x = after[n] /\ y = after[n + 1] /\ v = s[n + 1]
      OBVIOUS
    <2>2. Fine(x, n)
      BY <1>8, <2>1
    <2>3. n + 1 \in 0..N /\ y = IF x.ok THEN Step("relist", x2, x.m, v) ELSE x
      BY <1>6, <1>8, <2>1, LoopStep
    <2>4. CASE x.ok
      <3>1. PICK d2, u, list : d2 = x.m /\ u = v.name /\ list = d2.switchOpts[u].controllers
        OBVIOUS
      <3>2. y = Relist(d2, u, old, name)
        BY <1>5, <2>3, <2>4, <3>1 DEF Step
      <3>3. Shape(d2)
        BY <2>2, <3>1
      <3>4. /\ Shape(y.m) /\ SameNodes(d2, y.m)
            /\ \/ y.m = d2
               \/ Relisted(d2, u, Append(RemoveFirst(list, old), name), y.m)
        BY <3>1, <3>2, <3>3, RelistIs
      <3>5. Nodes(y.m) = Nodes(d2)
        BY <3>4, SameNames
      <3>6. y.m.hostOpts = d2.hostOpts /\ y.m.counts = d2.counts
        BY <3>4 DEF Relisted, SameItems
      <3>7. Fine(y, n + 1)
        BY <2>2, <3>1, <3>4, <3>5, <3>6
      <3> HIDE DEF Fine
      <3> QED
        BY <2>1, <2>3, <3>7
    <2>5. CASE ~x.ok
      <3>1. Fine(y, n + 1)
        BY <2>2, <2>3, <2>5
      <3> HIDE DEF Fine
      <3> QED
        BY <2>1, <2>3, <3>1
    <2> QED
      BY <2>4, <2>5
  <1>9. \A n \in 0..N : n \in T
    <2> HIDE DEF T
    <2> QED
      BY <1>7, <1>8, UpTo
  <1>10. Fine(after[N], N)
    <2>1. N \in T
      <3> HIDE DEF T
      <3> QED
        BY <1>9
    <2> HIDE DEF Fine
    <2> QED
      BY <2>1
  <1> QED
    BY <1>6, <1>10 DEF Runs

(***************************************************************************)
(* What the gestures do to the model d when the tools are in state t and   *)
(* the troubles are x afterwards.                                          *)
(***************************************************************************)
ToolUsed(d, e) == \E kind \in AllKinds : e = NewNode(d, kind)
LinkDragged(d, x, e) ==
    \E a, b \in Nodes(d) :
        /\ a # b /\ ~Refused(a.kind, b.kind) /\ e = FinishLink(d, a, b).m
        /\ <<a.item, b.item>> \notin DOMAIN d.ends /\ <<b.item, a.item>> \notin DOMAIN d.ends
        /\ {a.kind, b.kind} = {"Docker", "Controller"} => "dockerControl" \in x
ItemDeleted(d, t, e) == \E item : e = DeleteItem(d, t, item).m
\* An imported host keeps the address that it came with, or the trouble is known.
AddressKept(d, w, box, x) ==
    w.kind = "Host" =>
        \/ "imported" \in box <=> "imported" \in d.hostOpts[w.name].extra
        \/ "addressReplaced" \in x
DetailsApplied(d, x, e) ==
    \E w, typed, box :
        /\ w.kind \in {"Host", "Docker", "Switch"} /\ e = ApplyDetails(d, w, typed, box)
        /\ w.kind = "Switch" => w.name \in DOMAIN d.switchOpts
        /\ w.kind # "Switch" => w.name \in DOMAIN d.hostOpts
        /\ w \in Nodes(d) \/ "staleDialog" \in x
        /\ AddressKept(d, w, box, x)
ControllerRenamed(d, e) ==
    \E w \in Nodes(d) : w.kind = "Controller" /\ \E typed : e = RenameController(d, w, typed).m
Renewed(d, t, x, e) ==
    e = NewTopology(d, t).m /\ (t # "disabled" \/ "fileWhileRunning" \in x)
Opened(d, t, x, e) ==
    \E f : /\ WellFormed(f) \/ (AllHaveOpts(d) /\ \E p \in {"ovs", "user"} : f = Saved(d, p))
           /\ e = Loaded(d, t, f).m
           /\ "fileOpened" \in x
           /\ t # "disabled" \/ "fileWhileRunning" \in x
           /\ f.version = 1 => "oldFile" \in x
Changed(d, t, x, e) ==
    \/ ToolUsed(d, e) \/ LinkDragged(d, x, e) \/ ItemDeleted(d, t, e) \/ DetailsApplied(d, x, e)
    \/ ControllerRenamed(d, e) \/ Renewed(d, t, x, e) \/ Opened(d, t, x, e)

\* What a gesture does to the model and to the history.
LEMMA ThenIs ==
    ASSUME NEW d, NEW new, Then(d, new)
    PROVE  /\ m' = d /\ trouble \subseteq trouble' /\ new \subseteq trouble'
           /\ DistinctNames(m') \/ "nameTaken" \in trouble'
  BY DEF Then

\* A step changes the drawing in one of these ways, or leaves it alone.
LEMMA NextChanges ==
    ASSUME TypeInv, [Next]_vars
    PROVE  /\ trouble \subseteq trouble'
           /\ \/ m' = m
              \/ Restyled(m, m')
              \/ /\ Changed(m, tools, trouble', m')
                 /\ DistinctNames(m') \/ "nameTaken" \in trouble'
  <1>0. Shape(m) /\ prefs \in {"ovs", "user"}
    BY DEF TypeInv
  <1>1. ASSUME NEW kind \in Kinds, ClickNode(kind)
        PROVE  \E d, new : Then(d, new) /\ ToolUsed(m, d)
    BY <1>1, KindsAssumption DEF ClickNode, ToolUsed
  <1>2. ASSUME NEW a \in Nodes(m), NEW b \in Nodes(m), DragLink(a, b)
        PROVE  \E d, new : Then(d, new) /\ LinkDragged(m, trouble', d)
    <2>1. PICK d, new : /\ Then(d, new) /\ d = FinishLink(m, a, b).m
                        /\ new = When({a.kind, b.kind} = {"Docker", "Controller"}, "dockerControl")
      BY <1>2 DEF DragLink
    <2>2. {a.kind, b.kind} = {"Docker", "Controller"} => "dockerControl" \in trouble'
      BY <2>1, ThenIs DEF When
    <2>3. /\ a # b /\ ~Refused(a.kind, b.kind)
          /\ <<a.item, b.item>> \notin DOMAIN m.ends /\ <<b.item, a.item>> \notin DOMAIN m.ends
      BY <1>2 DEF DragLink
    <2> QED
      BY <2>1, <2>2, <2>3 DEF LinkDragged
  <1>3. ASSUME NEW item, DeleteSelection(item)
        PROVE  \E d, new : Then(d, new) /\ ItemDeleted(m, tools, d)
    BY <1>3 DEF DeleteSelection, ItemDeleted
  <1>4. ASSUME NEW typed, OkDetails(typed)
        PROVE  \/ m' = m /\ trouble \subseteq trouble'
               \/ \E d, new : Then(d, new) /\ DetailsApplied(m, trouble', d)
    <2>1. PICK w : w = dialog
      OBVIOUS
    <2>2. w.kind \in {"Host", "Docker", "Switch"}
      BY <1>4, <2>1 DEF TypeInv, DialogForm, OkDetails
    <2>3. PICK d, new : Then(d, new) /\ Answered(w, typed, d, new)
      BY <1>4, <2>1, OkDetailsThen
    <2>6. new \subseteq trouble' /\ (w \in Nodes(m) \/ "staleDialog" \in trouble')
      BY <2>3, ThenIs, AnsweredTroubles
    <2>4. CASE d = m
      BY <2>3, <2>4, ThenIs
    <2>5. CASE d # m
      <3>1. PICK stale : stale = When(net.running \/ w \notin Nodes(m), "staleDialog")
        OBVIOUS
      <3>2. PICK box \in Boxes(m, w) :
               /\ d = ApplyDetails(m, w, typed, box)
               /\ new = stale \cup When(/\ w.kind = "Host" /\ "imported" \notin box
                                       /\ "imported" \in m.hostOpts[w.name].extra,
                                       "addressReplaced")
        BY <2>3, <2>5, <3>1 DEF Answered
      <3>3. /\ w.kind = "Switch" => w.name \in DOMAIN m.switchOpts
            /\ w.kind # "Switch" => w.name \in DOMAIN m.hostOpts
        BY <2>3, <2>5 DEF Answered
      <3>4. AddressKept(m, w, box, trouble')
        <4>1. SUFFICES ASSUME w.kind = "Host"
                       PROVE  \/ "imported" \in box <=> "imported" \in m.hostOpts[w.name].extra
                              \/ "addressReplaced" \in trouble'
          BY DEF AddressKept
        <4>2. box \in {{}, {"ip"}, m.hostOpts[w.name].extra \cap {"ip", "imported"}}
          BY <3>2, <4>1 DEF Boxes
        <4>3. "imported" \in box => "imported" \in m.hostOpts[w.name].extra
          BY <4>2
        <4>4. CASE "imported" \notin box /\ "imported" \in m.hostOpts[w.name].extra
          BY <2>6, <3>2, <4>1, <4>4 DEF When
        <4> QED
          BY <4>3, <4>4
      <3>5. DetailsApplied(m, trouble', d)
        BY <2>2, <2>6, <3>2, <3>3, <3>4 DEF DetailsApplied
      <3> QED
        BY <2>3, <3>5
    <2> QED
      BY <2>4, <2>5
  <1>5. ASSUME NEW w \in Nodes(m), NEW typed, ControllerDetails(w, typed)
        PROVE  \/ m' = m /\ trouble \subseteq trouble'
               \/ \E d, new : Then(d, new) /\ ControllerRenamed(m, d)
    <2>1. PICK d, new : /\ Then(d, new)
                        /\ d = m \/ d = RenameController(m, w, typed).m
      BY <1>5 DEF ControllerDetails
    <2>2. CASE d = m
      BY <2>1, <2>2, ThenIs
    <2>3. CASE d = RenameController(m, w, typed).m
      BY <1>5, <2>1, <2>3 DEF ControllerDetails, ControllerRenamed
    <2> QED
      BY <2>1, <2>2, <2>3
  <1>6. ASSUME NEW l \in ToSet(m.links), LinkDetails(l)
        PROVE  Restyled(m, m') /\ trouble \subseteq trouble'
    <2>1. PICK d : d = WithLink(m, l.item, LAMBDA k : [k EXCEPT !.opts = LinkResult])
      OBVIOUS
    <2>2. Restyled(m, d)
      <3>1. PICK e, i : e = m /\ i = l.item
        OBVIOUS
      <3>2. Restyled(e, d)
        BY <1>0, <2>1, <3>1, OptionsSet
      <3> QED
        BY <3>1, <3>2
    <2>3. PICK new : Then(d, new)
      BY <1>6, <2>1 DEF LinkDetails
    <2>4. m' = d /\ trouble \subseteq trouble'
      BY <2>3, ThenIs
    <2> QED
      BY <2>2, <2>4
  <1>7. ASSUME NEW l \in ToSet(m.links), NEW down, SetLinkDown(l, down)
        PROVE  Restyled(m, m') /\ trouble \subseteq trouble'
    <2>1. PICK d : d = WithLink(m, l.item, LAMBDA k : [k EXCEPT !.down = down])
      OBVIOUS
    <2>2. Restyled(m, d)
      <3>1. PICK e, i : e = m /\ i = l.item
        OBVIOUS
      <3>2. Restyled(e, d)
        BY <1>0, <2>1, <3>1, DownSet
      <3> QED
        BY <3>1, <3>2
    <2>3. PICK new : Then(d, new)
      BY <1>7, <2>1 DEF SetLinkDown
    <2>4. m' = d /\ trouble \subseteq trouble'
      BY <2>3, ThenIs
    <2> QED
      BY <2>2, <2>4
  <1>8. ASSUME FileNew
        PROVE  \E d, new : Then(d, new) /\ Renewed(m, tools, trouble', d)
    <2>1. PICK d, new : Then(d, new) /\ d = NewTopology(m, tools).m /\ new = WhileRunning
      BY <1>8 DEF FileNew
    <2>2. tools # "disabled" \/ "fileWhileRunning" \in trouble'
      BY <2>1, ThenIs DEF WhileRunning, When
    <2> QED
      BY <2>1, <2>2 DEF Renewed
  <1>9. ASSUME NEW f, WellFormed(f) \/ (AllHaveOpts(m) /\ f = Saved(m, prefs)), FileOpen(f)
        PROVE  \E d, new : Then(d, new) /\ Opened(m, tools, trouble', d)
    <2>1. PICK d, new : /\ Then(d, new) /\ d = Loaded(m, tools, f).m
                        /\ new = {"fileOpened"} \cup WhileRunning \cup When(f.version = 1, "oldFile")
      BY <1>9 DEF FileOpen
    <2>2. new \subseteq trouble'
      BY <2>1, ThenIs
    <2>3. "fileOpened" \in trouble' /\ (tools # "disabled" \/ "fileWhileRunning" \in trouble')
      BY <2>1, <2>2 DEF WhileRunning, When
    <2>4. f.version = 1 => "oldFile" \in trouble'
      BY <2>1, <2>2 DEF When
    <2>5. WellFormed(f) \/ (AllHaveOpts(m) /\ \E p \in {"ovs", "user"} : f = Saved(m, p))
      BY <1>0, <1>9
    <2>6. Opened(m, tools, trouble', d)
      BY <2>1, <2>3, <2>4, <2>5 DEF Opened
    <2> QED
      BY <2>1, <2>6
  <1>10. ASSUME DoRun
         PROVE  (m' = m \/ Restyled(m, m')) /\ trouble' = trouble
    <2>1. ASSUME NEW made, m' = Undashed(m, made) PROVE Restyled(m, m')
      <3>1. PICK d, e : d = m /\ e = m'
        OBVIOUS
      <3>2. Restyled(d, e)
        BY <1>0, <2>1, <3>1, UndashedIs
      <3> QED
        BY <3>1, <3>2
    <2>2. m' = m \/ \E made : m' = Undashed(m, made)
      BY <1>10 DEF DoRun
    <2>3. trouble' = trouble
      BY <1>10 DEF DoRun
    <2> QED
      BY <2>1, <2>2, <2>3
  <1>12. ASSUME NEW d, NEW new, Then(d, new), Changed(m, tools, trouble', d)
         PROVE  /\ trouble \subseteq trouble' /\ Changed(m, tools, trouble', m')
                /\ DistinctNames(m') \/ "nameTaken" \in trouble'
    BY <1>12, ThenIs
  <1>13. CASE Next
    <2>1. CASE \E d, new : Then(d, new) /\ Changed(m, tools, trouble', d)
      BY <1>12, <2>1
    <2>2. CASE (m' = m \/ Restyled(m, m')) /\ trouble \subseteq trouble'
      BY <2>2
    <2> DEFINE Some == \/ \E d, new : Then(d, new) /\ Changed(m, tools, trouble', d)
                       \/ (m' = m \/ Restyled(m, m')) /\ trouble \subseteq trouble'
    <2>3. ASSUME NEW kind \in Kinds, ClickNode(kind) PROVE Some
      BY <1>1, <2>3 DEF Changed
    <2>4. ASSUME NEW a \in Nodes(m), NEW b \in Nodes(m), DragLink(a, b) PROVE Some
      BY <1>2, <2>4 DEF Changed
    <2>5. ASSUME NEW item, DeleteSelection(item) PROVE Some
      BY <1>3, <2>5 DEF Changed
    <2>6. ASSUME NEW w, OpenDetails(w) \/ CancelDetails \/ PrefDetails \/ DoStop \/ Quit PROVE Some
      BY <2>6 DEF OpenDetails, CancelDetails, PrefDetails, DoStop, Quit
    <2>7. ASSUME NEW typed, OkDetails(typed) PROVE Some
      BY <1>4, <2>7 DEF Changed
    <2>8. ASSUME NEW w \in Nodes(m), NEW typed, ControllerDetails(w, typed) PROVE Some
      BY <1>5, <2>8 DEF Changed
    <2>9. ASSUME NEW l \in ToSet(m.links), LinkDetails(l) PROVE Some
      BY <1>6, <2>9
    <2>10. ASSUME NEW l \in ToSet(m.links), NEW down, SetLinkDown(l, down) PROVE Some
      BY <1>7, <2>10
    <2>11. ASSUME FileNew PROVE Some
      BY <1>8, <2>11 DEF Changed
    <2>12. ASSUME NEW f \in OldFiles, FileOpen(f) PROVE Some
      <3>1. WellFormed(f)
        BY FilesAssumption
      <3>2. \E d, new : Then(d, new) /\ Opened(m, tools, trouble', d)
        BY <1>9, <2>12, <3>1
      <3> QED
        BY <3>2 DEF Changed
    <2>13. ASSUME AllHaveOpts(m), NEW f \in {Saved(m, prefs)}, FileOpen(f) PROVE Some
      BY <1>9, <2>13 DEF Changed
    <2>16. ASSUME NEW f \in Files, FileOpen(f) PROVE Some
      <3> HIDE DEF Some
      <3> QED
        BY <2>12, <2>13, <2>16 DEF Files
    <2>14. ASSUME DoRun PROVE Some
      BY <1>10, <2>14
    <2>15. Some
      <3> HIDE DEF Some
      <3> QED
        BY <1>13, <2>3, <2>4, <2>5, <2>6, <2>7, <2>8, <2>9, <2>10, <2>11, <2>14, <2>16 DEF Next
    <2> QED
      BY <2>1, <2>2, <2>15
  <1>14. CASE UNCHANGED vars
    BY <1>14 DEF vars
  <1> QED
    BY <1>13, <1>14

\* Nodes and options are the same: when links are restyled,
LEMMA RestyledNodes ==
    ASSUME NEW d, NEW e, Restyled(d, e)
    PROVE  /\ Nodes(e) = Nodes(d) /\ SameOpts(d, e) /\ e.counts = d.counts /\ e.gone = d.gone
  BY SameNames DEF Restyled, SameNodes, SameItems

\* when one is drawn.
LEMMA LinkDraggedNodes ==
    ASSUME NEW d, Shape(d), NEW x, NEW e, LinkDragged(d, x, e)
    PROVE  Nodes(e) = Nodes(d) /\ e.hostOpts = d.hostOpts /\ e.counts = d.counts
  <1>1. PICK a, b : e = FinishLink(d, a, b).m
    BY DEF LinkDragged
  <1>2. PICK type, c : /\ type = IF "Controller" \in {a.kind, b.kind} THEN "control" ELSE "data"
                       /\ c = AddLink(d, a.item, b.item, type, {})
    OBVIOUS
  <1>3. IsModel(d)
    BY DEF Shape
  <1>4. LinkAdded(d, a.item, b.item, type, {}, c)
    BY <1>2, LinkIsAdded
  <1>5. IsModel(c) /\ SameNodes(d, c) /\ c.hostOpts = d.hostOpts /\ c.counts = d.counts
    BY <1>4 DEF LinkAdded, SameOpts
  <1>6. e = c \/ \E switch, list : e = WithList(c, switch, list)
    BY <1>1, <1>2 DEF FinishLink, Ok, Raise
  <1>7. CASE e = c
    BY <1>5, <1>7, SameNames
  <1>8. ASSUME NEW switch, NEW list, e = WithList(c, switch, list)
        PROVE  Nodes(e) = Nodes(d) /\ e.hostOpts = d.hostOpts /\ e.counts = d.counts
    <2>1. Relisted(c, switch, list, e)
      BY <1>5, <1>8, WithListIs
    <2>2. SameNodes(c, e) /\ e.hostOpts = c.hostOpts /\ e.counts = c.counts
      BY <2>1 DEF Relisted, SameItems
    <2>3. Nodes(e) = Nodes(c) /\ Nodes(c) = Nodes(d)
      BY <1>5, <2>2, SameNames
    <2> QED
      BY <1>5, <2>2, <2>3
  <1> QED
    BY <1>6, <1>7, <1>8

\* A dialog or a new name leaves the numbers of the hosts.
LEMMA DetailsNumbered ==
    ASSUME NEW d, Shape(d), NEW top, Numbered(d, top), NEW x, x \cap {"staleDialog", "addressReplaced"} = {}, NEW e,
           DetailsApplied(d, x, e), Named(e), top = d.counts.host
    PROVE  Numbered(e, e.counts.host)
  <1>1. PICK w, typed, box : /\ w.kind \in {"Host", "Docker", "Switch"}
                             /\ e = ApplyDetails(d, w, typed, box)
                             /\ w.kind = "Switch" => w.name \in DOMAIN d.switchOpts
                             /\ w \in Nodes(d) /\ AddressKept(d, w, box, x)
    BY DEF DetailsApplied
  <1>2. CASE w.kind = "Switch"
    <2>1. PICK name, o : SwitchApplied(d, w, typed, name, o, e)
      BY <1>1, <1>2, SwitchDetailsIs
    <2>2. Retitled(d, w.item, name, e) /\ e.hostOpts = d.hostOpts /\ w.kind # "Host"
      BY <1>2, <2>1 DEF SwitchApplied
    <2>3. Numbered(e, top)
      BY <1>1, <2>2, OtherAppliedNumbered
    <2> QED
      BY <2>2, <2>3 DEF Retitled, SameItems
  <1>3. CASE w.kind \in {"Host", "Docker"}
    <2>1. PICK name, o : /\ HostApplied(d, w, typed, name, o, e)
                         /\ w.kind = "Host" => o.extra = {"cpu", "commands"} \cup box
      BY <1>1, <1>3, HostDetailsIs
    <2>4. w.kind = "Host" => Offset(o) = Offset(d.hostOpts[w.name])
      <3>1. SUFFICES ASSUME w.kind = "Host" PROVE Offset(o) = Offset(d.hostOpts[w.name])
        OBVIOUS
      <3>2. "imported" \in o.extra <=> "imported" \in d.hostOpts[w.name].extra
        BY <1>1, <2>1, <3>1 DEF AddressKept
      <3>3. o.num = d.hostOpts[w.name].num
        BY <2>1 DEF HostApplied
      <3> QED
        BY <3>2, <3>3 DEF Offset
    <2>2. Numbered(e, top)
      BY <1>1, <1>3, <2>1, <2>4, HostAppliedNumbered
    <2>3. e.counts = d.counts
      BY <2>1 DEF HostApplied, Retitled, SameItems
    <2> QED
      BY <2>2, <2>3
  <1> QED
    BY <1>1, <1>2, <1>3

\* The dialog of a controller is of no matter to hosts.
LEMMA RenamedNumbered ==
    ASSUME NEW d, Shape(d), NEW top, Numbered(d, top), top = d.counts.host, NEW e, ControllerRenamed(d, e)
    PROVE  Numbered(e, e.counts.host)
  <1>1. PICK w, typed, r : /\ w \in Nodes(d) /\ w.kind = "Controller"
                           /\ r = RenameController(d, w, typed) /\ e = r.m
    BY DEF ControllerRenamed
  <1>2. PICK name, f : /\ ControllerApplied(d, w, typed, name, f)
                       /\ r = IF name = w.name THEN Ok(f) ELSE RelistEverywhere(f, w.name, name)
    BY <1>1, RenameControllerIs
  <1>3. Shape(f) /\ Retitled(d, w.item, name, f) /\ f.hostOpts = d.hostOpts /\ f.counts = d.counts
    <2>1. ControllerApplied(d, w, typed, name, f)
      BY <1>2
    <2>2. Shape(f)
      BY <2>1, ControllerAppliedShape
    <2> QED
      BY <2>1, <2>2 DEF ControllerApplied, Retitled, SameItems
  <1>4. Numbered(f, top)
    BY <1>1, <1>3, OtherAppliedNumbered
  <1>5. Nodes(e) = Nodes(f) /\ e.hostOpts = f.hostOpts /\ e.counts = f.counts
    <2>1. CASE name = w.name
      BY <1>1, <1>2, <2>1 DEF Ok
    <2>2. CASE name # w.name
      <3>1. PICK old : old = w.name
        OBVIOUS
      <3>2. r = RelistEverywhere(f, old, name)
        BY <1>2, <2>2, <3>1
      <3> QED
        BY <1>1, <1>3, <3>2, RelistEverywhereKeeps
    <2> QED
      BY <2>1, <2>2
  <1>6. Numbered(e, top)
    BY <1>4, <1>5, FewerNumbered
  <1> QED
    BY <1>3, <1>5, <1>6

\* Every step leaves hosts with numbers of their own.
LEMMA NextAddresses ==
    ASSUME AddressesInv, [Next]_vars
    PROVE  AddressesInv'
  <1>1. PICK d, e, t, x, y : d = m /\ e = m' /\ t = tools /\ x = trouble' /\ y = trouble
    OBVIOUS
  <1>2. TypeInv /\ TypeInv' /\ Shape(d) /\ Shape(e)
    BY <1>1, NextTypes DEF AddressesInv, TypeInv
  <1>3. /\ y \subseteq x
        /\ \/ e = d \/ Restyled(d, e)
           \/ Changed(d, t, x, e) /\ (DistinctNames(e) \/ "nameTaken" \in x)
    BY <1>1, <1>2, NextChanges
  <1>4. SUFFICES ASSUME x \cap {"nameTaken", "staleDialog", "fileOpened", "fileWhileRunning",
                              "addressReplaced"} = {}
                 PROVE  Named(e) /\ Numbered(e, e.counts.host)
    BY <1>1, <1>2 DEF AddressesInv, NewlyDrawn, Without
  <1>5. PICK top : top = d.counts.host
    OBVIOUS
  <1>6. Named(d) /\ Numbered(d, d.counts.host) /\ Numbered(d, top)
    BY <1>1, <1>3, <1>4, <1>5 DEF AddressesInv, NewlyDrawn, Without
  <1>7. CASE e = d
    BY <1>6, <1>7
  <1>8. CASE Restyled(d, e)
    BY <1>6, <1>8, RestyledNodes, FewerNodes DEF SameOpts
  <1>9. ASSUME Changed(d, t, x, e), Named(e)
        PROVE  Numbered(e, e.counts.host)
    <2>1. CASE ToolUsed(d, e)
      BY <1>2, <1>6, <1>9, <2>1, NewNodeNumbered DEF ToolUsed
    <2>2. CASE LinkDragged(d, x, e)
      BY <1>2, <1>6, <2>2, LinkDraggedNodes, FewerNodes
    <2>3. CASE ItemDeleted(d, t, e)
      <3>1. PICK item, r : r = DeleteItem(d, t, item) /\ e = r.m
        BY <2>3 DEF ItemDeleted
      <3>2. Pruned(d, e)
        BY <1>2, <3>1, DeleteItemShape
      <3> QED
        BY <1>6, <3>2, FewerNodes DEF Pruned, SameItems
    <2>4. CASE DetailsApplied(d, x, e)
      BY <1>2, <1>4, <1>5, <1>6, <1>9, <2>4, DetailsNumbered
    <2>5. CASE ControllerRenamed(d, e)
      BY <1>2, <1>5, <1>6, <2>5, RenamedNumbered
    <2>6. CASE Renewed(d, t, x, e)
      <3>1. PICK r : r = NewTopology(d, t) /\ e = r.m /\ t # "disabled"
        BY <1>4, <2>6 DEF Renewed
      <3>2. /\ Nodes(e) \subseteq Nodes(d)
            /\ r.ok => Nodes(e) = {}
            /\ ~r.ok => e.hostOpts = d.hostOpts /\ e.counts = d.counts
        BY <1>2, <3>1, NewTopologyNodes
      <3>3. CASE r.ok
        BY <3>2, <3>3 DEF Numbered
      <3>4. CASE ~r.ok
        BY <1>6, <3>2, <3>4, FewerNodes
      <3> QED
        BY <3>3, <3>4
    <2>7. CASE Opened(d, t, x, e)
      BY <1>4, <2>7 DEF Opened
    <2> QED
      BY <1>9, <2>1, <2>2, <2>3, <2>4, <2>5, <2>6, <2>7 DEF Changed
  <1>10. DistinctNames(e) => Named(e)
    BY <1>2, NamesDiffer
  <1> QED
    BY <1>3, <1>4, <1>7, <1>8, <1>9, <1>10

(* The hosts of a drawing that was not opened from a file have addresses of their
   own, whatever tools are used, what is deleted and given another name, and
   whatever was imported, as long as no imported host has its address cleared or
   replaced in its dialog: addHost() counts on, and importTopo() and the dialogs
   leave the count behind the numbers.                                     *)
THEOREM AddressesApart == Spec => []AddressesDistinct
  <1>1. Init => AddressesInv
    BY InitAddresses
  <1>2. AddressesInv /\ [Next]_vars => AddressesInv'
    BY NextAddresses
  <1>3. AddressesInv => AddressesDistinct
    <2>1. SUFFICES ASSUME AddressesInv, NewlyDrawn,
                          NEW v \in ToSet(NodesLike(m, {"Host"})), NEW w \in ToSet(NodesLike(m, {"Host"})),
                          Address(m.hostOpts[v.name]) = Address(m.hostOpts[w.name])
                   PROVE  v = w \/ Address(m.hostOpts[v.name]) = Given
      BY DEF AddressesDistinct, NewlyDrawn
    <2>2. PICK d, top : d = m /\ top = m.counts.host
      OBVIOUS
    <2>3. Numbered(d, top) /\ IsSeq(d.canvas)
      BY <2>1, <2>2 DEF AddressesInv, TypeInv, Shape, Drawn
    <2> QED
      BY <2>1, <2>2, <2>3, NumberedDiffer
  <1> QED
    BY <1>1, <1>2, <1>3, PTL DEF Spec
=============================================================================
