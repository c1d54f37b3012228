----------------------------- MODULE NodeProofs -----------------------------
(***************************************************************************)
(* Nodes.  A node stays in step with its shell and hears what its commands *)
(* print, for every size of a read, every length of an output and every    *)
(* number of commands, interrupts and deaths.  The share of the processors *)
(* that a host gets is the one asked for last, for every number of         *)
(* processors, every period that the kernel takes and every set of         *)
(* fractions; and packets pass the disciplines that were asked for last,   *)
(* for all parameters.                                                     *)
(***************************************************************************)
EXTENDS NodeShell, HostLimits, FiniteSetTheorems, SequenceTheorems, WellFoundedInduction, TLAPS

Tokens == [k : {"line", "sentinel", "mark", "pid"}, n : Nat, i : Nat]
Outputs == {t \in Tokens : t.k # "sentinel"}

(***************************************************************************)
(* Counting sentinels.                                                     *)
(***************************************************************************)
Places(seq) == {j \in DOMAIN seq : seq[j].k = "sentinel"}

\* There are finitely many of them, none where none is found.
LEMMA SentinelsType ==
    ASSUME NEW seq \in Seq(Tokens)
    PROVE  /\ IsFiniteSet(Places(seq)) /\ Sentinels(seq) = Cardinality(Places(seq))
           /\ Sentinels(seq) \in Nat
           /\ Has(seq, "sentinel") <=> Sentinels(seq) # 0
  <1>1. Places(seq) \in SUBSET (1..Len(seq)) /\ IsFiniteSet(1..Len(seq))
    BY FS_Interval DEF Places
  <1>2. IsFiniteSet(Places(seq))
    BY <1>1, FS_Subset
  <1>3. Sentinels(seq) = Cardinality(Places(seq)) /\ Cardinality(Places(seq)) \in Nat
    BY <1>2, FS_CardinalityType DEF Sentinels, Places
  <1>4. Has(seq, "sentinel") <=> Places(seq) # {}
    BY DEF Has, Places
  <1>5. Cardinality(Places(seq)) = 0 <=> Places(seq) = {}
    BY <1>2, FS_EmptySet
  <1> QED
    BY <1>2, <1>3, <1>4, <1>5

\* What is written one after the other is counted one after the other.
LEMMA SentinelsConcat ==
    ASSUME NEW a \in Seq(Tokens), NEW b \in Seq(Tokens)
    PROVE  Sentinels(a \o b) = Sentinels(a) + Sentinels(b)
  <1> DEFINE moved == {j + Len(a) : j \in Places(b)}
             shift == [j \in Places(b) |-> j + Len(a)]
  <1>1. /\ a \o b \in Seq(Tokens) /\ Len(a) \in Nat /\ Len(b) \in Nat
        /\ Len(a \o b) = Len(a) + Len(b)
        /\ \A j \in 1..Len(a) : (a \o b)[j] = a[j]
        /\ \A j \in 1..Len(b) : (a \o b)[j + Len(a)] = b[j]
    OBVIOUS
  <1>2. Places(a \o b) = Places(a) \cup moved
    <2>1. Places(a) \in SUBSET Places(a \o b)
      BY <1>1 DEF Places
    <2>2. moved \in SUBSET Places(a \o b)
      BY <1>1 DEF Places
    <2>3. ASSUME NEW j \in Places(a \o b), j \notin Places(a) PROVE j \in moved
      <3>1. j \in (Len(a) + 1)..(Len(a) + Len(b)) /\ (a \o b)[j].k = "sentinel"
        BY <2>3, <1>1 DEF Places
      <3>2. j - Len(a) \in 1..Len(b) /\ (j - Len(a)) + Len(a) = j
        BY <1>1, <3>1
      <3>3. j - Len(a) \in Places(b)
        BY <1>1, <3>1, <3>2 DEF Places
      <3> QED
        BY <3>2, <3>3
    <2> QED
      BY <2>1, <2>2, <2>3
  <1>3. Places(a) \cap moved = {}
    BY <1>1 DEF Places
  <1>4. /\ IsFiniteSet(Places(a)) /\ IsFiniteSet(Places(b))
        /\ Cardinality(Places(a)) = Sentinels(a) /\ Cardinality(Places(b)) = Sentinels(b)
        /\ Cardinality(Places(a \o b)) = Sentinels(a \o b)
        /\ Sentinels(a) \in Nat /\ Sentinels(b) \in Nat
    BY <1>1, SentinelsType
  <1>5. shift \in Bijection(Places(b), moved)
    <2>1. \A j \in Places(b) : j \in Int
      BY <1>1 DEF Places
    <2>2. shift \in [Places(b) -> moved]
      OBVIOUS
    <2>3. ASSUME NEW x \in Places(b), NEW y \in Places(b), shift[x] = shift[y] PROVE x = y
      BY <1>1, <2>1, <2>3
    <2>4. ASSUME NEW z \in moved PROVE \E j \in Places(b) : shift[j] = z
      OBVIOUS
    <2> HIDE DEF shift, moved
    <2> QED
      BY <2>2, <2>3, <2>4 DEF Bijection, Injection, Surjection, IsInjective
  <1>6. IsFiniteSet(moved) /\ Cardinality(moved) = Cardinality(Places(b))
    BY <1>4, <1>5, FS_Bijection DEF ExistsBijection
  <1> HIDE DEF moved
  <1>7. Cardinality(Places(a) \cup moved) = Cardinality(Places(a)) + Cardinality(moved)
    <2>1. Cardinality(Places(a) \cap moved) = 0
      BY <1>3, FS_EmptySet
    <2>2. Cardinality(Places(a) \cup moved)
              = Cardinality(Places(a)) + Cardinality(moved) - Cardinality(Places(a) \cap moved)
      BY <1>4, <1>6, FS_Union
    <2> QED
      BY <1>4, <1>6, <2>1, <2>2
  <1> QED
    BY <1>2, <1>4, <1>6, <1>7

\* Nothing has none, a token has one if it is one.
LEMMA SentinelsOfOne ==
    /\ Sentinels(<<>>) = 0
    /\ \A t \in Tokens : Sentinels(<<t>>) = IF t.k = "sentinel" THEN 1 ELSE 0
  <1>1. Sentinels(<<>>) = 0
    BY FS_EmptySet DEF Sentinels
  <1>2. ASSUME NEW t \in Tokens
        PROVE  Sentinels(<<t>>) = IF t.k = "sentinel" THEN 1 ELSE 0
    <2>1. CASE t.k = "sentinel"
      <3>1. Places(<<t>>) = {1}
        BY <2>1 DEF Places
      <3> QED
        BY <2>1, <3>1, FS_Singleton DEF Sentinels, Places
    <2>2. CASE t.k # "sentinel"
      <3>1. Places(<<t>>) = {}
        BY <2>2 DEF Places
      <3> QED
        BY <2>2, <3>1, FS_EmptySet DEF Sentinels, Places
    <2> QED
      BY <2>1, <2>2
  <1> QED
    BY <1>1, <1>2

\* What bash writes last is counted last.
LEMMA SentinelsAppend ==
    ASSUME NEW seq \in Seq(Tokens), NEW t \in Tokens
    PROVE  /\ Append(seq, t) \in Seq(Tokens)
           /\ Sentinels(Append(seq, t)) = Sentinels(seq) + (IF t.k = "sentinel" THEN 1 ELSE 0)
  <1>1. Append(seq, t) = seq \o <<t>> /\ <<t>> \in Seq(Tokens) /\ Append(seq, t) \in Seq(Tokens)
    OBVIOUS
  <1>2. Sentinels(seq \o <<t>>) = Sentinels(seq) + Sentinels(<<t>>)
    BY <1>1, SentinelsConcat
  <1> QED
    BY <1>1, <1>2, SentinelsOfOne

\* A sequence is its first part and the rest of it.
LEMMA Divided ==
    ASSUME NEW C, NEW seq \in Seq(C), NEW n \in 0..Len(seq)
    PROVE  /\ SubSeq(seq, 1, n) \in Seq(C) /\ SubSeq(seq, n + 1, Len(seq)) \in Seq(C)
           /\ seq = SubSeq(seq, 1, n) \o SubSeq(seq, n + 1, Len(seq))
  <1>0. PICK first, rest : first = SubSeq(seq, 1, n) /\ rest = SubSeq(seq, n + 1, Len(seq))
    OBVIOUS
  <1>1. first \in Seq(C) /\ rest \in Seq(C)
    BY <1>0
  <1>2. /\ Len(first) = n /\ Len(rest) = Len(seq) - n
        /\ \A j \in 1..n : first[j] = seq[j]
        /\ \A j \in 1..(Len(seq) - n) : rest[j] = seq[n + j]
    BY <1>0
  <1>3. PICK both : both = first \o rest
    OBVIOUS
  <1>4. /\ both \in Seq(C) /\ Len(both) = Len(seq)
        /\ \A j \in 1..n : both[j] = first[j]
        /\ \A j \in 1..(Len(seq) - n) : both[n + j] = rest[j]
    <2>1. /\ first \o rest \in Seq(C) /\ Len(first \o rest) = Len(first) + Len(rest)
          /\ \A j \in 1..Len(first) : (first \o rest)[j] = first[j]
          /\ \A j \in 1..Len(rest) : (first \o rest)[Len(first) + j] = rest[j]
      BY <1>1
    <2>2. Len(seq) \in Nat /\ n + (Len(seq) - n) = Len(seq)
      OBVIOUS
    <2> QED
      BY <1>2, <1>3, <2>1, <2>2
  <1>5. ASSUME NEW j \in 1..Len(seq) PROVE seq[j] = both[j]
    <2>1. CASE j <= n
      BY <1>2, <1>4, <2>1
    <2>2. CASE ~(j <= n)
      <3>1. j - n \in 1..(Len(seq) - n) /\ n + (j - n) = j
        BY <2>2
      <3>2. PICK i : i = j - n
        OBVIOUS
      <3>3. both[n + i] = rest[i] /\ rest[i] = seq[n + i] /\ n + i = j
        BY <1>2, <1>4, <3>1, <3>2
      <3> QED
        BY <3>3
    <2> QED
      BY <2>1, <2>2
  <1>6. seq = both
    BY <1>4, <1>5, SeqEqual
  <1> QED
    BY <1>0, <1>1, <1>3, <1>6

\* A sequence over a set is one over a larger set.
LEMMA LargerSet ==
    ASSUME NEW C, NEW D, C \subseteq D, NEW s \in Seq(C)
    PROVE  s \in Seq(D)
  OBVIOUS

\* Three sequences, one after the other.
LEMMA Associative ==
    ASSUME NEW C, NEW a \in Seq(C), NEW b \in Seq(C), NEW c \in Seq(C)
    PROVE  a \o (b \o c) = (a \o b) \o c
  BY ConcatAssociative, SMTT(40)

\* A read divides what is there.
LEMMA SentinelsSplit ==
    ASSUME NEW seq \in Seq(Tokens), NEW n \in 0..Len(seq)
    PROVE  /\ SubSeq(seq, 1, n) \in Seq(Tokens) /\ SubSeq(seq, n + 1, Len(seq)) \in Seq(Tokens)
           /\ Sentinels(seq) = Sentinels(SubSeq(seq, 1, n))
                                   + Sentinels(SubSeq(seq, n + 1, Len(seq)))
  <1>1. SubSeq(seq, 1, n) \in Seq(Tokens) /\ SubSeq(seq, n + 1, Len(seq)) \in Seq(Tokens)
    OBVIOUS
  <1>2. seq = SubSeq(seq, 1, n) \o SubSeq(seq, n + 1, Len(seq))
    BY Divided
  <1> QED
    BY <1>1, <1>2, SentinelsConcat

\* The smaller of two numbers.
LEMMA SmallerOfTwo ==
    ASSUME NEW a \in Nat, NEW b \in Nat
    PROVE  Min({a, b}) \in {a, b} /\ Min({a, b}) <= a /\ Min({a, b}) <= b
  <1>1. \E x \in {a, b} : \A y \in {a, b} : x <= y
    OBVIOUS
  <1> QED
    BY <1>1 DEF Min

\* A read takes at most what there is.
LEMMA ChunkSize ==
    ASSUME NEW length \in Nat, NEW size \in Nat, NEW n \in 1..Min({size, length})
    PROVE  n \in 1..length
  <1>1. \E x \in {size, length} : \A y \in {size, length} : x <= y
    OBVIOUS
  <1>2. Min({size, length}) \in {size, length} /\ Min({size, length}) <= length
    BY <1>1 DEF Min
  <1> QED
    BY <1>2

(***************************************************************************)
(* The types that counting needs.                                          *)
(***************************************************************************)
ShellType ==
    /\ shell \in BOOLEAN /\ waiting \in BOOLEAN /\ interrupts \in Nat
    /\ sent \in Seq(Kinds) /\ lines \in Seq(Tokens)
    /\ readbuf \in Seq(Tokens) /\ data \in Seq(Tokens) /\ channel \in Seq(Tokens)
    /\ input \in Seq(1..Len(sent)) /\ background \in SUBSET (1..Len(sent))
    /\ bash \in [st : {"prompt", "runs", "dead"}, n : 0..Len(sent), left : Seq(Seq(Outputs))]

\* A token is what a command or bash puts into the pseudo-tty.
LEMMA TokenType ==
    /\ \A k \in {"line", "mark", "pid"}, n \in Nat : Token(k, n) \in Outputs
    /\ \A n \in Nat, i \in Nat : Line(n, i) \in Outputs
    /\ Sentinel \in Tokens /\ Sentinel.k = "sentinel"
    /\ Outputs \in SUBSET Tokens
  BY DEF Token, Line, Sentinel, Tokens, Outputs

\* Commands write no sentinels.
LEMMA WritesType ==
    ASSUME ShellType, NEW n \in 1..Len(sent)
    PROVE  Writes(n) \in Seq(Seq(Outputs))
  <1>1. sent[n] \in {"plain", "endless", "background"} /\ n \in Nat /\ Lines \in Nat
    <2>1. sent[n] \in Kinds /\ n \in Nat
      BY DEF ShellType
    <2> QED
      BY <2>1, NodeShellAssumption
  <1>2. CASE sent[n] = "plain"
    <2>1. \A i \in 1..Lines : <<Line(n, i)>> \in Seq(Outputs)
      BY <1>1, TokenType
    <2>2. Writes(n) = [i \in 1..Lines |-> <<Line(n, i)>>]
      BY <1>2 DEF Writes
    <2> QED
      BY <1>1, <2>1, <2>2
  <1>3. CASE sent[n] = "endless"
    <2>1. Writes(n) = <<<<Token("line", n)>>>>
      BY <1>3 DEF Writes
    <2>2. <<Token("line", n)>> \in Seq(Outputs)
      BY <1>1, TokenType
    <2> QED
      BY <2>1, <2>2
  <1>4. CASE sent[n] = "background"
    <2>1. Writes(n) = <<<<Token("mark", n), Token("pid", n)>>>>
      BY <1>4 DEF Writes
    <2>2. <<Token("mark", n), Token("pid", n)>> \in Seq(Outputs)
      BY <1>1, TokenType
    <2> QED
      BY <2>1, <2>2
  <1> QED
    BY <1>1, <1>2, <1>3, <1>4

\* Output of commands has no sentinel in it.
LEMMA OutputsCount ==
    ASSUME NEW seq \in Seq(Outputs)
    PROVE  seq \in Seq(Tokens) /\ Sentinels(seq) = 0
  <1>1. seq \in Seq(Tokens)
    BY TokenType
  <1>2. ~Has(seq, "sentinel")
    BY DEF Has, Outputs
  <1> QED
    BY <1>1, <1>2, SentinelsType

\* What bash is when nothing runs in it.
LEMMA IdleType ==
    ASSUME NEW last \in Nat
    PROVE  /\ Idle.st = "prompt" /\ Dead.st = "dead"
           /\ Idle \in [st : {"prompt", "runs", "dead"}, n : 0..last, left : Seq(Seq(Outputs))]
           /\ Dead \in [st : {"prompt", "runs", "dead"}, n : 0..last, left : Seq(Seq(Outputs))]
  <1>1. <<>> \in Seq(Seq(Outputs)) /\ 0 \in 0..last
    OBVIOUS
  <1>2. Dead = [st |-> "dead", n |-> 0, left |-> <<>>]
    BY DEF Dead, Idle
  <1> QED
    BY <1>1, <1>2 DEF Idle

(***************************************************************************)
(* What the steps do, as far as the sentinels are concerned.               *)
(***************************************************************************)
Quiescent == UNCHANGED <<waiting, readbuf, lastPid, data, sent, heard, lines, channel, input,
                         bash, background, interrupts>>

\* What sendCmd() does, on a new shell or on the old one.
Sending(k) ==
    /\ sent' = Append(sent, k) /\ waiting' = TRUE /\ lastPid' = 0 /\ heard' = <<>>
    /\ data = <<>> /\ UNCHANGED <<interrupts, lines>>

\* A command goes to a new shell, or to the old one if the node waits for nothing.
LEMMA CommandCases ==
    ASSUME NEW k \in Kinds, CallSendCmd(k) \/ CliCommand(k) \/ CallCmd(k)
    PROVE  \/ /\ Sending(k)
              /\ \/ FreshShell(Len(sent) + 1)
                 \/ OldShell(Len(sent) + 1) /\ ~waiting
           \/ Quiescent /\ shell' \in {shell, FALSE}
  <1>1. ASSUME NEW next, NEW fresh \in BOOLEAN, Send(k, next, fresh), fresh \/ ~waiting,
               data = <<>>
        PROVE  /\ Sending(k)
               /\ \/ FreshShell(Len(sent) + 1)
                  \/ OldShell(Len(sent) + 1) /\ ~waiting
    BY <1>1 DEF Send, Sending
  <1>2. Refuse => Quiescent /\ shell' = shell
    BY DEF Refuse, Quiescent, outside
  <1>3. ASSUME NEW next, Disconnect(next) PROVE Quiescent /\ shell' = FALSE
    BY <1>3 DEF Disconnect, Quiescent, outside
  <1>4. ASSUME NEW next, SendCmd(k, next)
        PROVE  \/ Send(k, next, TRUE) /\ data = <<>>
               \/ Send(k, next, FALSE) /\ ~waiting /\ data = <<>>
               \/ Refuse \/ Disconnect(next)
    BY <1>4 DEF SendCmd
  <1>5. PICK next \in {"idle", "waitForNode", "waitOutput"} :
            SendCmd(k, next) \/ (Send(k, next, TRUE) /\ data = <<>>)
    BY DEF CallSendCmd, CliCommand, CallCmd
  <1> QED
    BY <1>1, <1>2, <1>3, <1>4, <1>5

\* A read of monitor(): with what there is of an incomplete marker, d is read and r is left.
LEMMA ReadDoes ==
    ASSUME NEW C, data \in Seq(C), channel \in Seq(C), Monitor \/ ReadMarker
    PROVE  /\ UNCHANGED <<sent, lines, readbuf, input, bash, background, interrupts>>
           /\ \E d \in Seq(C), r \in Seq(C) :
                 data \o channel = d \o r /\ channel' = r /\ Reports(d)
  <1>1. UNCHANGED <<sent, lines, readbuf, input, bash, background, interrupts>>
    BY DEF Monitor, ReadMarker
  <1>2. ASSUME NEW n \in Chunks PROVE n \in 0..Len(channel)
    <2>1. Len(channel) \in Nat /\ ReadSize \in Nat
      BY NodeShellAssumption
    <2> QED
      BY <2>1, ChunkSize DEF Chunks
  <1>3. PICK n \in Chunks : Reports(data \o SubSeq(channel, 1, n)) /\ Takes(n)
    <2>1. CASE Monitor
      <3>1. PICK n \in Chunks : Reports(SubSeq(channel, 1, n)) /\ Takes(n)
        BY <2>1 DEF Monitor
      <3>2. SubSeq(channel, 1, n) \in Seq(C)
        BY <1>2, Divided
      <3>3. PICK chunk : chunk = SubSeq(channel, 1, n)
        OBVIOUS
      <3>4. data \o chunk = chunk
        <4>1. data = <<>> /\ chunk \in Seq(C)
          BY <2>1, <3>2, <3>3 DEF Monitor
        <4> QED
          BY <4>1, ConcatEmptySeq
      <3> QED
        BY <3>1, <3>3, <3>4
    <2>2. CASE ReadMarker
      BY <2>2 DEF ReadMarker
    <2> QED
      BY <2>1, <2>2
  <1>4. PICK chunk, r : chunk = SubSeq(channel, 1, n) /\ r = SubSeq(channel, n + 1, Len(channel))
    OBVIOUS
  <1>5. chunk \in Seq(C) /\ r \in Seq(C) /\ channel = chunk \o r
    BY <1>2, <1>4, Divided
  <1>6. data \o channel = (data \o chunk) \o r
    BY <1>5, Associative
  <1>7. data \o chunk \in Seq(C)
    BY <1>5, ConcatProperties
  <1>8. channel' = r /\ Reports(data \o chunk)
    BY <1>3, <1>4 DEF Takes
  <1> QED
    BY <1>1, <1>5, <1>6, <1>7, <1>8

\* monitor() stops waiting just when what it has read has a sentinel.
LEMMA ReadCases ==
    ASSUME ShellType, Monitor \/ ReadMarker
    PROVE  /\ UNCHANGED <<shell, readbuf, sent, lines, input, bash, background, interrupts>>
           /\ data' \in Seq(Tokens) /\ channel' \in Seq(Tokens) /\ waiting' \in BOOLEAN
           /\ \E m \in Nat :
                 /\ Sentinels(data') + Sentinels(channel') + m
                        = Sentinels(data) + Sentinels(channel)
                 /\ (waiting' <=> waiting /\ m = 0)
  <1>1. data \in Seq(Tokens) /\ channel \in Seq(Tokens) /\ waiting \in BOOLEAN
    BY DEF ShellType
  <1>2. PICK d \in Seq(Tokens), r \in Seq(Tokens) :
            data \o channel = d \o r /\ channel' = r /\ Reports(d)
    BY <1>1, ReadDoes
  <1>3. UNCHANGED <<shell, readbuf, sent, lines, input, bash, background, interrupts>>
    BY DEF Monitor, ReadMarker
  <1>4. Sentinels(data) + Sentinels(channel) = Sentinels(d) + Sentinels(r)
    <2>1. Sentinels(data \o channel) = Sentinels(data) + Sentinels(channel)
      BY <1>1, SentinelsConcat
    <2>2. Sentinels(d \o r) = Sentinels(d) + Sentinels(r)
      BY SentinelsConcat
    <2> QED
      BY <1>2, <2>1, <2>2
  <1>5. /\ Sentinels(d) \in Nat /\ Sentinels(r) \in Nat
        /\ FindsSentinel(d) <=> Sentinels(d) # 0
    BY SentinelsType DEF FindsSentinel
  <1>6. CASE Incomplete(d)
    <2>1. data' = d /\ waiting' = waiting
      BY <1>2, <1>6 DEF Reports
    <2>2. Sentinels(data') + Sentinels(channel') + 0 = Sentinels(data) + Sentinels(channel)
      BY <1>2, <1>4, <1>5, <2>1
    <2>3. waiting' <=> waiting /\ 0 = 0
      BY <1>1, <2>1
    <2> QED
      BY <1>1, <1>2, <1>3, <2>1, <2>2, <2>3
  <1>7. CASE ~Incomplete(d)
    <2>1. data' = <<>> /\ waiting' = (waiting /\ ~FindsSentinel(d))
      BY <1>2, <1>7 DEF Reports
    <2>2. Sentinels(data') + Sentinels(channel') + Sentinels(d)
              = Sentinels(data) + Sentinels(channel)
      BY <1>2, <1>4, <1>5, <2>1, SentinelsOfOne
    <2>3. (waiting' <=> waiting /\ Sentinels(d) = 0) /\ waiting' \in BOOLEAN
      BY <1>1, <1>5, <2>1
    <2>4. data' \in Seq(Tokens)
      BY <2>1
    <2> QED
      BY <1>2, <1>3, <1>5, <2>2, <2>3, <2>4
  <1> QED
    BY <1>6, <1>7

\* chr(3) brings at most one sentinel more than there were.
LEMMA InterruptCounts ==
    ASSUME ShellType, NEW rest \in Seq(Tokens), Sentinels(rest) <= Sentinels(channel),
           bash.st # "dead",
           channel' \in {Append(rest, Sentinel), <<Sentinel>>}, input' \in {input, <<>>},
           bash' = Idle
    PROVE  /\ channel' \in Seq(Tokens) /\ input' \in Seq(1..Len(sent))
           /\ Sentinels(channel') + Pending' <= Sentinels(channel) + Pending + 1
           /\ Sentinels(channel') \in Nat /\ Pending' \in Nat
  <1>1. /\ Append(rest, Sentinel) \in Seq(Tokens) /\ <<Sentinel>> \in Seq(Tokens)
        /\ Sentinels(Append(rest, Sentinel)) = Sentinels(rest) + 1 /\ Sentinels(<<Sentinel>>) = 1
    BY TokenType, SentinelsAppend, SentinelsOfOne
  <1>2. Sentinels(rest) \in Nat /\ Sentinels(channel) \in Nat
    BY SentinelsType DEF ShellType
  <1>3. channel' \in Seq(Tokens) /\ Sentinels(channel') \in Nat
        /\ Sentinels(channel') <= Sentinels(channel) + 1
    <2>1. CASE channel' = Append(rest, Sentinel)
      BY <1>1, <1>2, <2>1
    <2>2. CASE channel' = <<Sentinel>>
      BY <1>1, <1>2, <2>2
    <2> QED
      BY <2>1, <2>2
  <1>4. /\ input' \in Seq(1..Len(sent)) /\ Len(input') \in Nat /\ Len(input') <= Len(input)
        /\ Len(input) \in Nat
    <2>1. input \in Seq(1..Len(sent)) /\ Len(input) \in Nat
      BY DEF ShellType
    <2>2. CASE input' = input
      BY <2>1, <2>2
    <2>3. CASE input' = <<>>
      BY <2>1, <2>3
    <2> QED
      BY <2>1, <2>2, <2>3
  <1>5. Pending' = Len(input') /\ Pending >= Len(input) /\ Pending \in Nat
    BY <1>4 DEF Pending, Idle, Number
  <1> QED
    BY <1>2, <1>3, <1>4, <1>5

\* One more in a part is one more in the sum.
LEMMA AtMostOneMore ==
    ASSUME NEW a \in Nat, NEW b \in Nat, NEW c \in Nat, NEW d \in Nat, NEW e \in Nat,
           d + e <= a + c + 1
    PROVE  (d + b) + e <= (a + b) + c + 1 /\ (d + b) + e \in Nat /\ (a + b) + c \in Nat
  OBVIOUS

\* What is left of a number.
LEMMA Drift ==
    ASSUME NEW a \in Nat, NEW b \in Nat, NEW m \in Nat, a + m = b
    PROVE  (m = 0 => a = b) /\ (m # 0 => a < b)
  OBVIOUS

\* readline() takes what there is, or nothing if its buffer is full, and leaves something in its
\* buffer or a line behind.
LEMMA ReadlineTakes ==
    ASSUME ShellType, Readline
    PROVE  /\ \E n \in 0..Len(channel) : channel' = SubSeq(channel, n + 1, Len(channel))
           /\ channel' \in Seq(Tokens) /\ Sentinels(channel') <= Sentinels(channel)
           /\ Sentinels(channel') \in Nat
           /\ readbuf' \in Seq(Tokens) /\ lines' \in Seq(Tokens) /\ ~Unread'
  <1>2. PICK n \in ReadSizes :
            /\ Takes(n)
            /\ \/ readbuf' = readbuf \o Returned(n) /\ UNCHANGED lines
               \/ \E end \in 1..Len(readbuf \o Returned(n)) :
                     /\ readbuf' = SubSeq(readbuf \o Returned(n), end + 1,
                                          Len(readbuf \o Returned(n)))
                     /\ lines' = Append(lines, (readbuf \o Returned(n))[end])
    BY DEF Readline
  <1>3. ReadSize \in Nat /\ Len(channel) \in Nat /\ Len(readbuf) \in Nat
        /\ readbuf \in Seq(Tokens) /\ channel \in Seq(Tokens) /\ lines \in Seq(Tokens)
    BY NodeShellAssumption DEF ShellType
  <1>4. n \in 0..Len(channel) /\ (readbuf = <<>> => n # 0)
    <2>1. CASE Len(readbuf) < ReadSize
      <3>1. n \in 1..Min({ReadSize - Len(readbuf), Len(channel)})
        BY <1>2, <2>1 DEF ReadSizes
      <3>2. n \in 1..Len(channel)
        BY <1>3, <2>1, <3>1, ChunkSize
      <3> QED
        BY <1>3, <3>2
    <2>2. CASE ~(Len(readbuf) < ReadSize)
      <3>1. n = 0 /\ readbuf # <<>>
        BY <1>2, <1>3, <2>2, NodeShellAssumption DEF ReadSizes
      <3> QED
        BY <1>3, <3>1
    <2> QED
      BY <2>1, <2>2
  <1>5. /\ channel' \in Seq(Tokens) /\ Sentinels(channel') <= Sentinels(channel)
        /\ Sentinels(channel') \in Nat /\ SubSeq(channel, 1, n) \in Seq(Tokens)
    <2>1. /\ channel' \in Seq(Tokens) /\ SubSeq(channel, 1, n) \in Seq(Tokens)
          /\ Sentinels(channel) = Sentinels(SubSeq(channel, 1, n)) + Sentinels(channel')
      BY <1>2, <1>3, <1>4, SentinelsSplit DEF Takes
    <2>2. Sentinels(SubSeq(channel, 1, n)) \in Nat /\ Sentinels(channel') \in Nat
      BY <2>1, SentinelsType
    <2> QED
      BY <2>1, <2>2
  <1>6. /\ readbuf \o Returned(n) \in Seq(Tokens) /\ readbuf \o Returned(n) # <<>>
    <2>0. Len(SubSeq(channel, 1, n)) = n /\ n \in Nat /\ ReadSize # 0
      BY <1>3, <1>4, NodeShellAssumption
    <2>1. Buffered(n) \in Seq(Tokens) /\ Len(Buffered(n)) = Len(readbuf) + n
      <3>1. \A a, b \in Seq(Tokens) : a \o b \in Seq(Tokens) /\ Len(a \o b) = Len(a) + Len(b)
        OBVIOUS
      <3> QED
        BY <1>3, <1>5, <2>0, <3>1, SMTT(40) DEF Buffered
    <2>2. Min({ReadSize, Len(Buffered(n))}) \in 0..Len(Buffered(n))
          /\ (Len(Buffered(n)) # 0 => Min({ReadSize, Len(Buffered(n))}) # 0)
      <3>1. Len(Buffered(n)) \in Nat
        BY <2>1
      <3> QED
        BY <1>3, <2>0, <3>1, SmallerOfTwo
    <2>3. Returned(n) \in Seq(Tokens) /\ Len(Returned(n)) = Min({ReadSize, Len(Buffered(n))})
      <3>1. \A a \in Seq(Tokens), l \in Nat :
                l <= Len(a) => SubSeq(a, 1, l) \in Seq(Tokens) /\ Len(SubSeq(a, 1, l)) = l
        OBVIOUS
      <3>2. Min({ReadSize, Len(Buffered(n))}) \in Nat
            /\ Min({ReadSize, Len(Buffered(n))}) <= Len(Buffered(n))
        BY <2>1, <2>2
      <3> QED
        BY <2>1, <3>1, <3>2 DEF Returned
    <2>4. readbuf # <<>> \/ Len(Returned(n)) # 0
      BY <1>3, <1>4, <2>1, <2>2, <2>3
    <2> QED
      BY <1>3, <2>3, <2>4
  <1>7. readbuf' \in Seq(Tokens) /\ lines' \in Seq(Tokens) /\ ~Unread'
    <2> DEFINE buffer == readbuf \o Returned(n)
    <2>1. buffer \in Seq(Tokens) /\ buffer # <<>> /\ Len(buffer) \in Nat
      BY <1>6
    <2>2. CASE readbuf' = buffer /\ UNCHANGED lines
      BY <1>3, <2>1, <2>2 DEF Unread
    <2> HIDE DEF buffer
    <2>3. ASSUME NEW end \in 1..Len(buffer),
                 readbuf' = SubSeq(buffer, end + 1, Len(buffer)),
                 lines' = Append(lines, buffer[end])
          PROVE  readbuf' \in Seq(Tokens) /\ lines' \in Seq(Tokens) /\ ~Unread'
      <3>1. buffer[end] \in Tokens
        BY <2>1
      <3>2. lines' \in Seq(Tokens) /\ lines' # <<>>
        BY <1>3, <2>3, <3>1
      <3>3. readbuf' \in Seq(Tokens)
        BY <2>1, <2>3
      <3> QED
        BY <3>2, <3>3 DEF Unread
    <2> QED
      BY <1>2, <2>2, <2>3 DEF buffer
  <1> QED
    BY <1>2, <1>4, <1>5, <1>7 DEF Takes

(***************************************************************************)
(* Staying in step.                                                        *)
(***************************************************************************)

\* Every call and every step of bash keeps node and shell in step.
LEMMA InStepKept ==
    ASSUME ShellType, InStep, [Next]_vars
    PROVE  ShellType' /\ InStep'
  <1>a. /\ shell \in BOOLEAN /\ waiting \in BOOLEAN /\ interrupts \in Nat
        /\ Sentinels(channel) \in Nat /\ Sentinels(data) \in Nat
        /\ Len(input) \in Nat /\ Len(sent) \in Nat
        /\ Sentinels(<<>>) = 0
    BY SentinelsType, SentinelsOfOne DEF ShellType
  <1>b. bash.st \in {"prompt", "runs", "dead"}
    BY DEF ShellType
  <1>c. /\ Idle.st = "prompt" /\ Dead.st = "dead"
        /\ Idle \in [st : {"prompt", "runs", "dead"}, n : 0..Len(sent), left : Seq(Seq(Outputs))]
        /\ Dead \in [st : {"prompt", "runs", "dead"}, n : 0..Len(sent), left : Seq(Seq(Outputs))]
    BY <1>a, IdleType
  <1>1. ASSUME NEW k \in Kinds, CallSendCmd(k) \/ CliCommand(k) \/ CallCmd(k)
        PROVE  ShellType' /\ InStep'
    <2> DEFINE n == Len(sent) + 1
    <2>1. CASE Quiescent /\ shell' \in {shell, FALSE}
      <3>1. ShellType'
        BY <1>a, <2>1 DEF ShellType, Quiescent
      <3> QED
        BY <1>a, <2>1, <3>1 DEF InStep, Alive, Unread, ToCome, Pending, Quiescent
    <2>2. CASE Sending(k)
      <3>0. sent' = Append(sent, k) /\ waiting' = TRUE /\ UNCHANGED <<interrupts, lines>>
        BY <2>2 DEF Sending
      <3>1. sent' \in Seq(Kinds) /\ Len(sent') = n /\ n \in 1..n
        BY <1>a, <1>1, <3>0 DEF ShellType
      <3>2. CASE FreshShell(n)
        <4>1. /\ shell' = TRUE /\ readbuf' = <<>> /\ data' = <<>> /\ channel' = <<>>
              /\ input' = <<n>> /\ bash' = Idle /\ background' = {}
          BY <3>2 DEF FreshShell
        <4>2. input' \in Seq(1..Len(sent')) /\ Len(input') = 1
          BY <3>1, <4>1
        <4>3. ShellType'
          BY <1>a, <3>0, <3>1, <4>1, <4>2 DEF ShellType, Idle
        <4>4. ToCome' = 1
          BY <1>a, <1>c, <4>1, <4>2 DEF ToCome, Pending, Number
        <4> QED
          BY <1>a, <3>0, <4>3, <4>4 DEF InStep, Number
      <3>3. CASE OldShell(n) /\ ~waiting
        <4>1. /\ input' = Append(input, n)
              /\ UNCHANGED <<shell, readbuf, data, channel, bash, background>>
          BY <3>3 DEF OldShell
        <4>2. input' \in Seq(1..Len(sent')) /\ Len(input') = Len(input) + 1
          <5>1. input \in Seq(1..n)
            BY <1>a DEF ShellType
          <5> QED
            BY <3>1, <4>1, <5>1
        <4>3. ShellType'
          <5>1. bash \in [st : {"prompt", "runs", "dead"}, n : 0..n, left : Seq(Seq(Outputs))]
                /\ background \in SUBSET (1..n)
            BY <1>a DEF ShellType
          <5>2. /\ bash' \in [st : {"prompt", "runs", "dead"}, n : 0..Len(sent'),
                              left : Seq(Seq(Outputs))]
                /\ background' \in SUBSET (1..Len(sent'))
            BY <3>1, <4>1, <5>1
          <5> HIDE DEF n
          <5> QED
            BY <1>a, <3>0, <3>1, <4>1, <4>2, <5>2 DEF ShellType
        <4>4. ToCome' = ToCome + 1 /\ ToCome \in Nat
          <5>1. Pending \in Nat /\ Pending' = Pending + 1
            BY <1>a, <4>1, <4>2 DEF Pending, Number
          <5> QED
            BY <1>a, <4>1, <5>1 DEF ToCome
        <4> QED
          BY <1>a, <3>0, <3>3, <4>1, <4>3, <4>4 DEF InStep, Alive, Unread, Number
      <3> QED
        BY <1>1, <2>1, <3>2, <3>3, CommandCases
    <2> QED
      BY <1>1, <2>1, <2>2, CommandCases
  <1>2. CASE Monitor \/ ReadMarker
    <2>1. /\ UNCHANGED <<shell, readbuf, sent, lines, input, bash, background, interrupts>>
          /\ data' \in Seq(Tokens) /\ channel' \in Seq(Tokens) /\ waiting' \in BOOLEAN
      BY <1>2, ReadCases
    <2>2. PICK m \in Nat :
              /\ Sentinels(data') + Sentinels(channel') + m = Sentinels(data) + Sentinels(channel)
              /\ (waiting' <=> waiting /\ m = 0)
      BY <1>2, ReadCases
    <2>3. ShellType'
      BY <1>a, <2>1 DEF ShellType
    <2>4. Pending' = Pending /\ Pending \in Nat /\ Alive' = Alive /\ Unread' = Unread
      BY <1>a, <2>1 DEF Pending, Number, Alive, Unread
    <2>5. Sentinels(data') \in Nat /\ Sentinels(channel') \in Nat
      BY <2>1, SentinelsType
    <2>6. Sentinels(data') + Sentinels(channel') + m = Sentinels(data) + Sentinels(channel)
      BY <2>2
    <2>7. ToCome' + m = ToCome /\ ToCome' \in Nat /\ ToCome \in Nat
      BY <1>a, <2>4, <2>5, <2>6 DEF ToCome
    <2>8. CASE m = 0
      <3>1. ToCome' = ToCome
        BY <2>7, <2>8, Drift
      <3>2. waiting' <=> waiting
        BY <2>2, <2>8
      <3>3. Number(waiting') = Number(waiting) /\ interrupts' = interrupts
        BY <2>1, <3>2 DEF Number
      <3> QED
        BY <2>3, <2>4, <3>1, <3>3 DEF InStep
    <2>9. CASE m # 0
      <3>0. ~waiting'
        BY <2>2, <2>9
      <3>1. ToCome' < ToCome
        BY <2>7, <2>9, Drift
      <3>2. /\ Number(waiting') = 0 /\ Number(waiting) \in {0, 1}
            /\ interrupts' = interrupts
        BY <2>1, <3>0 DEF Number
      <3> QED
        BY <1>a, <2>3, <2>4, <2>7, <3>1, <3>2 DEF InStep
    <2> QED
      BY <2>8, <2>9
  <1>3. CASE CallWaitOutput \/ UNCHANGED vars
    <2>1. Quiescent /\ shell' = shell
      BY <1>3 DEF CallWaitOutput, Quiescent, outside, vars
    <2>2. ShellType'
      BY <2>1 DEF ShellType, Quiescent
    <2> QED
      BY <2>1, <2>2 DEF InStep, Alive, Unread, ToCome, Pending, Quiescent
  <1>4. CASE Readline
    <2>1. UNCHANGED <<shell, waiting, data, sent, input, bash, background, interrupts>>
      BY <1>4 DEF Readline
    <2>2. /\ channel' \in Seq(Tokens) /\ Sentinels(channel') <= Sentinels(channel)
          /\ Sentinels(channel') \in Nat
          /\ readbuf' \in Seq(Tokens) /\ lines' \in Seq(Tokens) /\ ~Unread'
      BY <1>4, ReadlineTakes
    <2>3. ShellType'
      BY <1>a, <2>1, <2>2 DEF ShellType
    <2>4. /\ Pending' = Pending /\ Pending \in Nat /\ (Alive' <=> Alive)
          /\ Number(waiting) \in Nat
      BY <1>a, <2>1 DEF Pending, Number, Alive
    <2>5. ToCome' <= ToCome /\ ToCome' \in Nat /\ ToCome \in Nat
      BY <1>a, <2>1, <2>2, <2>4 DEF ToCome
    <2> QED
      BY <1>a, <2>1, <2>2, <2>3, <2>4, <2>5 DEF InStep
  <1>5. CASE CallSendInt \/ CliStops
    <2>1. UNCHANGED <<shell, waiting, readbuf, data, sent, lines, background>>
      BY <1>5 DEF CallSendInt, CliStops, Interrupted, mininet
    <2>2. interrupts' = interrupts + 1
      BY <1>5 DEF CallSendInt, CliStops, Interrupted
    <2>3. CASE bash.st = "dead"
      <3>1. UNCHANGED <<channel, input, bash>>
        BY <1>5, <2>3 DEF CallSendInt, CliStops, Interrupted
      <3> QED
        BY <1>a, <2>1, <2>2, <2>3, <3>1 DEF ShellType, InStep, Alive
    <2>4. CASE bash.st # "dead"
      <3>1. /\ channel' \in {Append(channel, Sentinel), <<Sentinel>>} /\ input' \in {input, <<>>}
            /\ bash' = Idle
        BY <1>5, <2>4 DEF CallSendInt, CliStops, Interrupted
      <3>2. /\ channel' \in Seq(Tokens) /\ input' \in Seq(1..Len(sent))
            /\ Sentinels(channel') + Pending' <= Sentinels(channel) + Pending + 1
            /\ Sentinels(channel') \in Nat /\ Pending' \in Nat
        <4>1. channel \in Seq(Tokens) /\ Sentinels(channel) <= Sentinels(channel)
          BY <1>a DEF ShellType
        <4> QED
          BY <2>4, <3>1, <4>1, InterruptCounts
      <3>3. ShellType'
        BY <1>a, <2>1, <2>2, <3>1, <3>2 DEF ShellType, Idle
      <3>4. Pending \in Nat /\ (Alive' => Alive)
        BY <1>a, <2>1, <2>4 DEF Pending, Number, Alive
      <3>5. ToCome' <= ToCome + 1 /\ ToCome' \in Nat /\ ToCome \in Nat
        <4>1. data' = data
          BY <2>1
        <4>2. /\ ToCome = Sentinels(channel) + Sentinels(data) + Pending
              /\ ToCome' = Sentinels(channel') + Sentinels(data) + Pending'
          BY <4>1 DEF ToCome
        <4>3. /\ Sentinels(channel) \in Nat /\ Sentinels(data) \in Nat /\ Pending \in Nat
              /\ Sentinels(channel') \in Nat /\ Pending' \in Nat
              /\ Sentinels(channel') + Pending' <= Sentinels(channel) + Pending + 1
          BY <1>a, <3>2, <3>4
        <4> QED
          BY <4>2, <4>3, AtMostOneMore
      <3> QED
        BY <1>a, <2>1, <2>2, <3>3, <3>4, <3>5 DEF InStep, Number
    <2> QED
      BY <2>3, <2>4
  <1>6. CASE InterruptedRead
    <2>1. /\ UNCHANGED <<shell, waiting, readbuf, data, sent, lines, background>>
          /\ interrupts' = interrupts + 1
      BY <1>6 DEF InterruptedRead, mininet
    <2>2. PICK n \in Chunks :
              LET rest == SubSeq(channel, n + 1, Len(channel))
              IN  IF bash.st = "dead" THEN channel' = rest /\ UNCHANGED <<input, bash>>
                  ELSE /\ channel' \in {Append(rest, Sentinel), <<Sentinel>>}
                       /\ input' \in {input, <<>>}
                       /\ bash' = Idle
      BY <1>6 DEF InterruptedRead
    <2> DEFINE rest == SubSeq(channel, n + 1, Len(channel))
    <2>3. channel \in Seq(Tokens) /\ n \in 0..Len(channel)
      <3>1. channel \in Seq(Tokens) /\ Len(channel) \in Nat /\ ReadSize \in Nat
        BY NodeShellAssumption DEF ShellType
      <3> QED
        BY <3>1, ChunkSize DEF Chunks
    <2>4. /\ rest \in Seq(Tokens) /\ SubSeq(channel, 1, n) \in Seq(Tokens)
          /\ Sentinels(channel) = Sentinels(SubSeq(channel, 1, n)) + Sentinels(rest)
      BY <2>3, SentinelsSplit
    <2>5. Sentinels(rest) <= Sentinels(channel)
      <3>1. Sentinels(rest) \in Nat /\ Sentinels(SubSeq(channel, 1, n)) \in Nat
        BY <2>4, SentinelsType
      <3> QED
        BY <2>4, <3>1
    <2>6. CASE bash.st = "dead"
      <3>1. channel' = rest /\ UNCHANGED <<input, bash>>
        BY <2>2, <2>6
      <3> QED
        BY <1>a, <2>1, <2>4, <2>6, <3>1 DEF ShellType, InStep, Alive
    <2>7. CASE bash.st # "dead"
      <3>1. /\ channel' \in {Append(rest, Sentinel), <<Sentinel>>} /\ input' \in {input, <<>>}
            /\ bash' = Idle
        BY <2>2, <2>7
      <3> HIDE DEF rest
      <3>2. /\ channel' \in Seq(Tokens) /\ input' \in Seq(1..Len(sent))
            /\ Sentinels(channel') + Pending' <= Sentinels(channel) + Pending + 1
            /\ Sentinels(channel') \in Nat /\ Pending' \in Nat
        BY <2>4, <2>5, <2>7, <3>1, InterruptCounts
      <3>3. ShellType'
        BY <1>a, <2>1, <3>1, <3>2 DEF ShellType, Idle
      <3>4. Pending \in Nat /\ (Alive' => Alive)
        BY <1>a, <2>1, <2>7 DEF Pending, Number, Alive
      <3>5. ToCome' <= ToCome + 1 /\ ToCome' \in Nat /\ ToCome \in Nat
        <4>1. data' = data
          BY <2>1
        <4>2. /\ ToCome = Sentinels(channel) + Sentinels(data) + Pending
              /\ ToCome' = Sentinels(channel') + Sentinels(data) + Pending'
          BY <4>1 DEF ToCome
        <4>3. /\ Sentinels(channel) \in Nat /\ Sentinels(data) \in Nat /\ Pending \in Nat
              /\ Sentinels(channel') \in Nat /\ Pending' \in Nat
              /\ Sentinels(channel') + Pending' <= Sentinels(channel) + Pending + 1
          BY <1>a, <3>2, <3>4
        <4> QED
          BY <4>2, <4>3, AtMostOneMore
      <3> QED
        BY <1>a, <2>1, <3>3, <3>4, <3>5 DEF InStep, Number
    <2> QED
      BY <2>6, <2>7
  <1>7. CASE Terminate
    <2>1. /\ shell' = FALSE /\ bash' = Dead /\ channel' = <<>> /\ input' = <<>> /\ background' = {}
          /\ UNCHANGED <<waiting, readbuf, data, sent, lines, interrupts>>
      BY <1>7 DEF Terminate
    <2>2. input' \in Seq(1..Len(sent')) /\ channel' \in Seq(Tokens) /\ background' = {}
      BY <2>1
    <2>3. bash' \in [st : {"prompt", "runs", "dead"}, n : 0..Len(sent'),
                     left : Seq(Seq(Outputs))]
      BY <1>c, <2>1
    <2>4. ShellType'
      BY <1>a, <2>1, <2>2, <2>3 DEF ShellType
    <2> QED
      BY <2>1, <2>4 DEF InStep, Alive
  <1>8. CASE BashTakes
    <2>1. /\ bash = Idle /\ input # <<>> /\ input' = Tail(input)
          /\ bash' = [st |-> "runs", n |-> Head(input), left |-> Writes(Head(input))]
          /\ background' \in {background, background \cup {Head(input)}}
          /\ UNCHANGED <<shell, waiting, readbuf, data, sent, lines, channel, interrupts>>
      BY <1>8 DEF BashTakes, mininet
    <2>2. /\ Head(input) \in 1..Len(sent) /\ input' \in Seq(1..Len(sent))
          /\ Len(input') = Len(input) - 1
      BY <2>1 DEF ShellType
    <2>3. Writes(Head(input)) \in Seq(Seq(Outputs))
      BY <2>2, WritesType
    <2>4. ShellType'
      BY <1>a, <2>1, <2>2, <2>3 DEF ShellType
    <2>5. Pending' = Pending
      <3>1. bash.st # "runs" /\ bash'.st = "runs"
        BY <1>c, <2>1
      <3>2. Pending = Len(input) /\ Pending' = Len(input') + 1
        BY <1>a, <2>2, <3>1 DEF Pending, Number
      <3> QED
        BY <1>a, <2>2, <3>2
    <2>6. (Alive' <=> Alive) /\ (Unread' <=> Unread)
      <3>1. bash.st # "dead" /\ bash'.st # "dead"
        BY <1>c, <2>1
      <3> QED
        BY <2>1, <3>1 DEF Alive, Unread
    <2> QED
      BY <2>1, <2>4, <2>5, <2>6 DEF InStep, ToCome
  <1>9. CASE BashPrints
    <2>1. /\ bash.st = "runs"
          /\ UNCHANGED <<shell, waiting, readbuf, data, sent, lines, input, background, interrupts>>
      BY <1>9 DEF BashPrints, mininet
    <2>2. CASE bash.left # <<>> /\ channel' = channel \o Head(bash.left)
               /\ bash' = IF sent[bash.n] = "endless" THEN bash
                          ELSE [bash EXCEPT !.left = Tail(@)]
      <3>1. Head(bash.left) \in Seq(Outputs) /\ Tail(bash.left) \in Seq(Seq(Outputs))
        BY <2>2 DEF ShellType
      <3>2. Head(bash.left) \in Seq(Tokens) /\ Sentinels(Head(bash.left)) = 0
        BY <3>1, OutputsCount
      <3>3. channel' \in Seq(Tokens) /\ Sentinels(channel') = Sentinels(channel)
        BY <1>a, <2>2, <3>2, SentinelsConcat, SMTT(40) DEF ShellType
      <3>4. bash'.st = "runs" /\ bash' \in [st : {"prompt", "runs", "dead"}, n : 0..Len(sent),
                                           left : Seq(Seq(Outputs))]
        BY <2>1, <2>2, <3>1 DEF ShellType
      <3>5. ShellType'
        BY <1>a, <2>1, <3>3, <3>4 DEF ShellType
      <3> QED
        BY <1>a, <2>1, <3>3, <3>4, <3>5 DEF InStep, Alive, Unread, ToCome, Pending
    <2>3. CASE channel' = Append(channel, Sentinel) /\ bash' = Idle
      <3>1. channel' \in Seq(Tokens) /\ Sentinels(channel') = Sentinels(channel) + 1
        BY <2>3, SentinelsAppend, TokenType DEF ShellType
      <3>2. ShellType'
        BY <1>a, <2>1, <2>3, <3>1 DEF ShellType, Idle
      <3>3. ToCome' = ToCome
        <4>1. bash.st = "runs" /\ bash'.st # "runs"
          BY <1>c, <2>1, <2>3
        <4>2. Pending = Len(input) + 1 /\ Pending' = Len(input)
          BY <1>a, <2>1, <4>1 DEF Pending, Number
        <4> QED
          BY <1>a, <2>1, <3>1, <4>1, <4>2 DEF ToCome, Pending, Number
      <3>4. (Alive' <=> Alive) /\ (Unread' <=> Unread)
        <4>1. bash.st # "dead" /\ bash'.st # "dead"
          BY <1>c, <2>1, <2>3
        <4> QED
          BY <2>1, <4>1 DEF Alive, Unread
      <3> QED
        BY <2>1, <3>2, <3>3, <3>4 DEF InStep
    <2> QED
      BY <1>9, <2>2, <2>3 DEF BashPrints
  <1>10. CASE ShellDies
    <2>1. bash' = Dead /\ UNCHANGED <<shell, waiting, readbuf, data, sent, lines, channel, input,
                                     background, interrupts>>
      BY <1>10 DEF ShellDies, mininet
    <2> QED
      BY <1>a, <1>c, <2>1 DEF ShellType, InStep, Alive
  <1>11. ASSUME NEW n \in background, BackgroundPrints(n) PROVE ShellType' /\ InStep'
    <2>1. /\ channel' = Append(channel, Token("line", n)) /\ background' = background \ {n}
          /\ UNCHANGED <<shell, waiting, readbuf, data, sent, lines, input, bash, interrupts>>
      BY <1>11 DEF BackgroundPrints, mininet
    <2>2. Token("line", n) \in Tokens /\ Token("line", n).k # "sentinel"
      BY TokenType DEF ShellType, Outputs
    <2>3. channel' \in Seq(Tokens) /\ Sentinels(channel') = Sentinels(channel)
      BY <1>a, <2>1, <2>2, SentinelsAppend DEF ShellType
    <2>4. ShellType'
      BY <1>a, <2>1, <2>3 DEF ShellType
    <2> QED
      BY <2>1, <2>3, <2>4 DEF InStep, Alive, Unread, ToCome, Pending
  <1> QED
    BY <1>1, <1>2, <1>3, <1>4, <1>5, <1>6, <1>7, <1>8, <1>9, <1>10, <1>11
    DEF Next, Program, Outside

\* At first they are in step.
LEMMA InStepAtFirst == Init => ShellType /\ InStep
  <1> SUFFICES ASSUME Init PROVE ShellType /\ InStep
    OBVIOUS
  <1>1. bash \in [st : {"prompt", "runs", "dead"}, n : 0..0, left : Seq(Seq(Outputs))]
        /\ bash.st = "prompt"
    BY IdleType DEF Init
  <1>2. ShellType
    <2>1. Len(sent) = 0 /\ sent = <<>> /\ background = {} /\ input = <<>>
      BY DEF Init
    <2>2. sent \in Seq(Kinds) /\ input \in Seq(1..Len(sent))
      BY <2>1
    <2>3. bash \in [st : {"prompt", "runs", "dead"}, n : 0..Len(sent), left : Seq(Seq(Outputs))]
      BY <1>1, <2>1
    <2>4. lines \in Seq(Tokens) /\ readbuf \in Seq(Tokens) /\ data \in Seq(Tokens)
          /\ channel \in Seq(Tokens)
      BY DEF Init
    <2> QED
      BY <2>1, <2>2, <2>3, <2>4 DEF Init, ShellType
  <1>3. ToCome = 0
    BY <1>1, SentinelsOfOne DEF Init, ToCome, Pending, Number
  <1> QED
    BY <1>2, <1>3 DEF Init, InStep, Number

(***************************************************************************)
(* What is kept of a sequence.                                             *)
(***************************************************************************)
\* Induction over the numbers up to a bound, for a set of numbers.
LEMMA UpTo ==
    ASSUME NEW M \in Nat, NEW T, 0 \in T,
           \A n \in Nat : n < M /\ n \in T => n + 1 \in T
    PROVE  \A n \in 0..M : n \in T
  <1> DEFINE Rest == (0..M) \ T
  <1> SUFFICES ASSUME Rest # {} PROVE FALSE
    OBVIOUS
  <1>1. \E R : IsWellFoundedOn(R, Nat) /\ R = {p \in Nat \X Nat : p[1] < p[2]}
    BY NatLessThanWellFounded, Zenon DEF OpToRel
  <1>2. PICK x \in Rest : \A y \in Rest : ~(<<y, x>> \in {p \in Nat \X Nat : p[1] < p[2]})
    <2>1. Rest \subseteq Nat
      OBVIOUS
    <2> QED
      BY <1>1, <2>1, WFMin, ZenonT(60)
  <1>3. ASSUME NEW y \in Rest, y < x PROVE FALSE
    <2> DEFINE pair == <<y, x>>
    <2>1. pair \in Nat \X Nat /\ pair[1] < pair[2]
      BY <1>3
    <2>2. pair \in {p \in Nat \X Nat : p[1] < p[2]}
      BY <2>1
    <2> QED
      BY <1>2, <2>2
  <1>4. x # 0 /\ x - 1 \in Nat /\ x - 1 < M
    OBVIOUS
  <1>5. x - 1 \in T
    BY <1>3, <1>4
  <1> QED
    BY <1>4, <1>5

\* A token is added if it is in the set.
Grown(kept, t, S) == IF t \in S THEN Append(kept, t) ELSE kept

\* kept[j] is what is kept of the first j tokens.
IsKept(kept, seq, S, m) ==
    kept = [j \in 0..m |-> IF j = 0 THEN <<>>
                           ELSE IF seq[j] \in S THEN Append(kept[j - 1], seq[j]) ELSE kept[j - 1]]

\* Every sequence has such a list.
LEMMA KeptExists ==
    ASSUME NEW seq, NEW S, NEW M \in Nat
    PROVE  \E kept : IsKept(kept, seq, S, M)
  <1> DEFINE T == {m \in 0..M : \E kept : IsKept(kept, seq, S, m)}
  <1>1. 0 \in T
    <2> DEFINE r == [j \in 0..0 |-> <<>>]
    <2>1. IsKept(r, seq, S, 0)
      BY DEF IsKept
    <2> QED
      BY <2>1
  <1>2. ASSUME NEW m \in Nat, m < M, m \in T PROVE m + 1 \in T
    <2>1. PICK kept : IsKept(kept, seq, S, m)
      BY <1>2
    <2> DEFINE Next1 == IF seq[m + 1] \in S THEN Append(kept[m], seq[m + 1]) ELSE kept[m]
               r == [j \in 0..(m + 1) |-> IF j = m + 1 THEN Next1 ELSE kept[j]]
    <2>2. \A j \in 0..(m + 1) :
              r[j] = IF j = 0 THEN <<>>
                     ELSE IF seq[j] \in S THEN Append(r[j - 1], seq[j]) ELSE r[j - 1]
      <3> SUFFICES ASSUME NEW j \in 0..(m + 1)
                   PROVE  r[j] = IF j = 0 THEN <<>>
                                 ELSE IF seq[j] \in S THEN Append(r[j - 1], seq[j]) ELSE r[j - 1]
        OBVIOUS
      <3>1. CASE j = m + 1
        <4>1. r[j] = Next1 /\ j # 0 /\ j - 1 = m /\ r[m] = kept[m]
          BY <3>1
        <4> QED
          BY <3>1, <4>1
      <3>2. CASE j \in 0..m
        <4>1. r[j] = kept[j] /\ (j # 0 => j - 1 \in 0..m /\ r[j - 1] = kept[j - 1])
          BY <3>2
        <4>2. kept[j] = IF j = 0 THEN <<>>
                        ELSE IF seq[j] \in S THEN Append(kept[j - 1], seq[j]) ELSE kept[j - 1]
          BY <2>1, <3>2 DEF IsKept
        <4> QED
          BY <4>1, <4>2
      <3> QED
        BY <3>1, <3>2
    <2>3. IsKept(r, seq, S, m + 1)
      BY <2>2 DEF IsKept
    <2> QED
      BY <1>2, <2>3
  <1>3. \A m \in 0..M : m \in T
    <2> HIDE DEF T
    <2> QED
      BY <1>1, <1>2, UpTo
  <1> QED
    BY <1>3

\* There is only one, and Kept() is its last.
LEMMA KeptIsLast ==
    ASSUME NEW seq, NEW S, NEW kept, Len(seq) \in Nat, kept[0] = <<>>,
           \A j \in 1..Len(seq) : kept[j] = Grown(kept[j - 1], seq[j], S)
    PROVE  Kept(seq, S) = kept[Len(seq)]
  <1> DEFINE that == CHOOSE that : IsKept(that, seq, S, Len(seq))
             T == {j \in 0..Len(seq) : that[j] = kept[j]}
  <1>1. IsKept(that, seq, S, Len(seq))
    BY KeptExists
  <1>2. Kept(seq, S) = that[Len(seq)]
    BY DEF Kept, IsKept
  <1> HIDE DEF that
  <1>3. 0 \in T
    BY <1>1 DEF IsKept
  <1>4. ASSUME NEW j \in Nat, j < Len(seq), j \in T PROVE j + 1 \in T
    <2>1. j + 1 \in 0..Len(seq) /\ j + 1 \in 1..Len(seq) /\ j + 1 # 0 /\ (j + 1) - 1 = j
      BY <1>4
    <2>2. that[j + 1] = Grown(that[j], seq[j + 1], S)
      BY <1>1, <2>1 DEF IsKept, Grown
    <2>3. kept[j + 1] = Grown(kept[j], seq[j + 1], S)
      BY <2>1
    <2> QED
      BY <1>4, <2>1, <2>2, <2>3
  <1>5. \A j \in 0..Len(seq) : j \in T
    <2> HIDE DEF T
    <2> QED
      BY <1>3, <1>4, UpTo
  <1> QED
    BY <1>2, <1>5

\* What is kept is made of the tokens that are in the set.
LEMMA KeptRuns ==
    ASSUME NEW C, NEW S, NEW seq \in Seq(C)
    PROVE  /\ Kept(seq, S) \in Seq(C \cap S)
           /\ \E kept : /\ Kept(seq, S) = kept[Len(seq)] /\ kept[0] = <<>>
                        /\ \A j \in 1..Len(seq) : kept[j] = Grown(kept[j - 1], seq[j], S)
                        /\ \A j \in 0..Len(seq) : kept[j] \in Seq(C \cap S)
  <1>0. PICK m \in Nat : m = Len(seq)
    OBVIOUS
  <1>1. PICK kept : IsKept(kept, seq, S, m)
    BY KeptExists
  <1>2. kept[0] = <<>>
    BY <1>1 DEF IsKept
  <1>3. ASSUME NEW j \in 1..m PROVE kept[j] = Grown(kept[j - 1], seq[j], S)
    <2>1. j \in 0..m /\ j # 0
      OBVIOUS
    <2> QED
      BY <1>1, <2>1 DEF IsKept, Grown
  <1>4. Kept(seq, S) = kept[m]
    BY <1>0, <1>2, <1>3, KeptIsLast
  <1> DEFINE T == {j \in 0..m : kept[j] \in Seq(C \cap S)}
  <1>5. 0 \in T
    <2>1. PICK D : D = C \cap S
      OBVIOUS
    <2>2. <<>> \in Seq(D)
      OBVIOUS
    <2>3. kept[0] \in Seq(C \cap S) /\ 0 \in 0..m
      BY <1>2, <2>1, <2>2
    <2> QED
      BY <2>3
  <1>6. ASSUME NEW j \in Nat, j < m, j \in T PROVE j + 1 \in T
    <2>1. j + 1 \in 1..m /\ j + 1 \in 0..m /\ (j + 1) - 1 = j
      BY <1>6
    <2>2. kept[j + 1] = Grown(kept[j], seq[j + 1], S)
      BY <1>3, <2>1
    <2>3. seq[j + 1] \in C
      BY <1>0, <2>1
    <2>4. kept[j] \in Seq(C \cap S)
      BY <1>6
    <2>5. CASE seq[j + 1] \in S
      <3>1. seq[j + 1] \in C \cap S
        BY <2>3, <2>5
      <3>2. Append(kept[j], seq[j + 1]) \in Seq(C \cap S)
        BY <2>4, <3>1, AppendProperties
      <3> QED
        BY <2>1, <2>2, <2>5, <3>2 DEF Grown
    <2>6. CASE seq[j + 1] \notin S
      BY <2>1, <2>2, <2>4, <2>6 DEF Grown
    <2> QED
      BY <2>5, <2>6
  <1>7. \A j \in 0..m : kept[j] \in Seq(C \cap S)
    <2>1. \A j \in 0..m : j \in T
      <3> HIDE DEF T
      <3> QED
        BY <1>5, <1>6, UpTo
    <2> QED
      BY <2>1
  <1>8. m \in 0..m /\ Kept(seq, S) \in Seq(C \cap S)
    BY <1>4, <1>7
  <1> HIDE DEF T
  <1>9. /\ Kept(seq, S) = kept[Len(seq)] /\ kept[0] = <<>>
        /\ \A j \in 1..Len(seq) : kept[j] = Grown(kept[j - 1], seq[j], S)
        /\ \A j \in 0..Len(seq) : kept[j] \in Seq(C \cap S)
    BY <1>0, <1>2, <1>3, <1>4, <1>7
  <1> QED
    BY <1>8, <1>9

\* Of what has nothing in the set nothing is kept.
LEMMA KeptNone ==
    ASSUME NEW C, NEW S, NEW seq \in Seq(C), \A j \in DOMAIN seq : seq[j] \notin S
    PROVE  Kept(seq, S) = <<>>
  <1>1. PICK D : D = C \ S
    OBVIOUS
  <1>2. seq \in Seq(D)
    <2>1. \A j \in 1..Len(seq) : seq[j] \in D
      BY <1>1
    <2>2. Len(seq) \in Nat /\ seq = [j \in 1..Len(seq) |-> seq[j]]
      OBVIOUS
    <2> QED
      BY <2>1, <2>2, SeqDef
  <1>3. Kept(seq, S) \in Seq(D \cap S)
    BY <1>2, KeptRuns
  <1>4. PICK k : k = Kept(seq, S)
    OBVIOUS
  <1>5. D \cap S = {}
    BY <1>1
  <1>6. k \in Seq({})
    BY <1>3, <1>4, <1>5
  <1>7. Len(k) \in Nat /\ \A j \in 1..Len(k) : k[j] \in {}
    BY <1>6
  <1>8. Len(k) = 0
    <2>1. Len(k) # 0 => 1 \in 1..Len(k)
      BY <1>7
    <2> QED
      BY <1>7, <2>1
  <1>9. k = <<>>
    BY <1>6, <1>8
  <1> QED
    BY <1>4, <1>9

\* Of nothing, nothing is kept; a token is kept if it is in the set.
LEMMA KeptOfOne ==
    ASSUME NEW S
    PROVE  /\ Kept(<<>>, S) = <<>>
           /\ \A t : Kept(<<t>>, S) = IF t \in S THEN <<t>> ELSE <<>>
  <1>1. Kept(<<>>, S) = <<>>
    <2>1. PICK seq : seq = <<>>
      OBVIOUS
    <2>2. PICK C : C = {}
      OBVIOUS
    <2>5. seq \in Seq(C)
      BY <2>1
    <2>4. Len(seq) = 0
      BY <2>1
    <2>9. \E kept : /\ Kept(seq, S) = kept[Len(seq)] /\ kept[0] = <<>>
                    /\ \A j \in 1..Len(seq) : kept[j] = Grown(kept[j - 1], seq[j], S)
                    /\ \A j \in 0..Len(seq) : kept[j] \in Seq(C \cap S)
      BY <2>5, KeptRuns
    <2>3. PICK kept : Kept(seq, S) = kept[Len(seq)] /\ kept[0] = <<>>
      BY <2>9
    <2> QED
      BY <2>1, <2>3, <2>4
  <1>2. ASSUME NEW t PROVE Kept(<<t>>, S) = IF t \in S THEN <<t>> ELSE <<>>
    <2>1. PICK seq : seq = <<t>>
      OBVIOUS
    <2>7. PICK C : C = {t}
      OBVIOUS
    <2>8. seq \in Seq(C)
      BY <2>1, <2>7
    <2>2. Len(seq) = 1 /\ seq[1] = t
      BY <2>1
    <2>9. \E kept : /\ Kept(seq, S) = kept[Len(seq)] /\ kept[0] = <<>>
                    /\ \A j \in 1..Len(seq) : kept[j] = Grown(kept[j - 1], seq[j], S)
                    /\ \A j \in 0..Len(seq) : kept[j] \in Seq(C \cap S)
      BY <2>8, KeptRuns
    <2>3. PICK kept : /\ Kept(seq, S) = kept[Len(seq)] /\ kept[0] = <<>>
                      /\ \A j \in 1..Len(seq) : kept[j] = Grown(kept[j - 1], seq[j], S)
      BY <2>9
    <2>4. kept[1] = Grown(kept[0], t, S)
      BY <2>2, <2>3
    <2>5. Append(<<>>, t) = <<t>>
      OBVIOUS
    <2>6. kept[1] = IF t \in S THEN <<t>> ELSE <<>>
      BY <2>3, <2>4, <2>5 DEF Grown
    <2> QED
      BY <2>1, <2>2, <2>3, <2>6
  <1> QED
    BY <1>1, <1>2

\* What is kept of two sequences is what is kept of the one and then of the other.
LEMMA KeptConcat ==
    ASSUME NEW C, NEW S, NEW a \in Seq(C), NEW b \in Seq(C)
    PROVE  Kept(a \o b, S) = Kept(a, S) \o Kept(b, S)
  <1> DEFINE s == a \o b
  <1>0. PICK m \in Nat, k \in Nat : m = Len(a) /\ k = Len(b)
    OBVIOUS
  <1>1. /\ s \in Seq(C) /\ Len(s) = m + k
        /\ \A j \in 1..(m + k) : s[j] = IF j <= m THEN a[j] ELSE b[j - m]
    BY <1>0, ConcatProperties
  <1> HIDE DEF s
  <1>2. PICK ka : /\ Kept(a, S) = ka[m] /\ ka[0] = <<>>
                  /\ \A j \in 1..m : ka[j] = Grown(ka[j - 1], a[j], S)
                  /\ \A j \in 0..m : ka[j] \in Seq(C \cap S)
    BY <1>0, KeptRuns
  <1>3. PICK kb : /\ Kept(b, S) = kb[k] /\ kb[0] = <<>>
                  /\ \A j \in 1..k : kb[j] = Grown(kb[j - 1], b[j], S)
                  /\ \A j \in 0..k : kb[j] \in Seq(C \cap S)
    BY <1>0, KeptRuns
  <1>4. PICK D : D = C \cap S
    OBVIOUS
  <1> DEFINE r == [j \in 0..(m + k) |-> IF j <= m THEN ka[j] ELSE ka[m] \o kb[j - m]]
  <1>5. ka[m] \in Seq(D) /\ ka[m] \o <<>> = ka[m]
    <2>1. ka[m] \in Seq(D)
      BY <1>2, <1>4
    <2> QED
      BY <2>1, ConcatEmptySeq
  <1>6. \A j \in m..(m + k) : r[j] = ka[m] \o kb[j - m]
    <2> SUFFICES ASSUME NEW j \in m..(m + k) PROVE r[j] = ka[m] \o kb[j - m]
      OBVIOUS
    <2>1. CASE j = m
      <3>1. j - m = 0 /\ j \in 0..(m + k) /\ j <= m
        BY <2>1
      <3>2. r[j] = ka[m] /\ kb[j - m] = <<>>
        BY <1>3, <2>1, <3>1
      <3> HIDE DEF r
      <3> QED
        BY <1>5, <3>2, Zenon
    <2>2. CASE j # m
      <3>1. j \in 0..(m + k) /\ ~(j <= m)
        BY <2>2
      <3> QED
        BY <3>1
    <2> QED
      BY <2>1, <2>2
  <1>7. ASSUME NEW j \in 1..(m + k) PROVE r[j] = Grown(r[j - 1], s[j], S)
    <2>1. CASE j <= m
      <3>1. j \in 1..m /\ j \in 0..(m + k) /\ j - 1 \in 0..(m + k) /\ j - 1 <= m
        BY <2>1
      <3>2. s[j] = a[j]
        BY <1>1, <2>1
      <3>3. r[j] = ka[j] /\ r[j - 1] = ka[j - 1]
        BY <2>1, <3>1
      <3> QED
        BY <1>2, <3>1, <3>2, <3>3
    <2>2. CASE ~(j <= m)
      <3>1. /\ j - m \in 1..k /\ j \in m..(m + k) /\ j - 1 \in m..(m + k)
            /\ (j - 1) - m = (j - m) - 1 /\ (j - m) - 1 \in 0..k
        BY <2>2
      <3>2. s[j] = b[j - m]
        BY <1>1, <2>2
      <3>3. r[j] = ka[m] \o kb[j - m] /\ r[j - 1] = ka[m] \o kb[(j - m) - 1]
        BY <1>6, <3>1
      <3>4. kb[j - m] = Grown(kb[(j - m) - 1], b[j - m], S)
        BY <1>3, <3>1
      <3>5. kb[(j - m) - 1] \in Seq(D) /\ b[j - m] \in C
        BY <1>0, <1>3, <1>4, <3>1
      <3> HIDE DEF r
      <3>6. CASE s[j] \in S
        <4>1. b[j - m] \in D
          BY <1>4, <3>2, <3>5, <3>6
        <4>2. \A x, y \in Seq(D), t \in D : x \o Append(y, t) = Append(x \o y, t)
          OBVIOUS
        <4>3. r[j] = ka[m] \o Append(kb[(j - m) - 1], b[j - m])
          BY <3>2, <3>3, <3>4, <3>6 DEF Grown
        <4>4. r[j] = Append(r[j - 1], s[j])
          BY <1>5, <3>2, <3>3, <3>5, <4>1, <4>2, <4>3
        <4> QED
          BY <3>6, <4>4 DEF Grown
      <3>7. CASE s[j] \notin S
        BY <3>2, <3>3, <3>4, <3>7 DEF Grown
      <3> QED
        BY <3>6, <3>7
    <2> QED
      BY <2>1, <2>2
  <1>8. r[0] = <<>> /\ r[m + k] = ka[m] \o kb[k]
    <2>1. 0 \in 0..(m + k) /\ 0 <= m /\ m + k \in m..(m + k) /\ (m + k) - m = k
      OBVIOUS
    <2> QED
      BY <1>2, <1>6, <2>1
  <1> HIDE DEF r
  <1>9. Kept(s, S) = r[m + k]
    <2>1. PICK n \in Nat : n = m + k
      OBVIOUS
    <2>2. Len(s) = n /\ r[0] = <<>> /\ \A j \in 1..n : r[j] = Grown(r[j - 1], s[j], S)
      BY <1>1, <1>7, <1>8, <2>1
    <2>3. Kept(s, S) = r[n]
      BY <2>2, KeptIsLast
    <2> QED
      BY <2>1, <2>3
  <1> QED
    BY <1>2, <1>3, <1>8, <1>9 DEF s

\* Keeping less of what was kept is keeping less.
LEMMA KeptKept ==
    ASSUME NEW C, NEW S, NEW T, S \subseteq T, NEW seq \in Seq(C)
    PROVE  Kept(Kept(seq, T), S) = Kept(seq, S)
  <1>0. PICK m \in Nat : m = Len(seq)
    OBVIOUS
  <1>1. PICK ks : /\ Kept(seq, S) = ks[m] /\ ks[0] = <<>>
                  /\ \A j \in 1..m : ks[j] = Grown(ks[j - 1], seq[j], S)
                  /\ \A j \in 0..m : ks[j] \in Seq(C \cap S)
    BY <1>0, KeptRuns
  <1>2. PICK kt : /\ Kept(seq, T) = kt[m] /\ kt[0] = <<>>
                  /\ \A j \in 1..m : kt[j] = Grown(kt[j - 1], seq[j], T)
                  /\ \A j \in 0..m : kt[j] \in Seq(C \cap T)
    BY <1>0, KeptRuns
  <1> DEFINE I == {j \in 0..m : Kept(kt[j], S) = ks[j]}
  <1>3. 0 \in I
    BY <1>1, <1>2, KeptOfOne
  <1>4. ASSUME NEW j \in Nat, j < m, j \in I PROVE j + 1 \in I
    <2>1. j + 1 \in 1..m /\ j \in 0..m /\ j + 1 \in 0..m /\ (j + 1) - 1 = j
      BY <1>4
    <2>2. PICK t : t = seq[j + 1] /\ t \in C
      BY <1>0, <2>1
    <2>3. ks[j + 1] = Grown(ks[j], t, S) /\ kt[j + 1] = Grown(kt[j], t, T)
      BY <1>1, <1>2, <2>1, <2>2
    <2>4. PICK D : D = C \cap T
      OBVIOUS
    <2>5. kt[j] \in Seq(D)
      BY <1>2, <2>1, <2>4
    <2>6. Kept(kt[j], S) = ks[j]
      BY <1>4
    <2>7. CASE t \in T
      <3>1. kt[j + 1] = kt[j] \o <<t>> /\ <<t>> \in Seq(D)
        <4>1. kt[j + 1] = Append(kt[j], t)
          BY <2>3, <2>7 DEF Grown
        <4>2. t \in D
          BY <2>2, <2>4, <2>7
        <4>3. \A x \in Seq(D), y \in D : Append(x, y) = x \o <<y>> /\ <<y>> \in Seq(D)
          OBVIOUS
        <4> QED
          BY <2>5, <4>1, <4>2, <4>3
      <3>2. Kept(kt[j] \o <<t>>, S) = Kept(kt[j], S) \o Kept(<<t>>, S)
        BY <2>5, <3>1, KeptConcat
      <3>3. PICK E : E = C \cap S
        OBVIOUS
      <3>4. ks[j] \in Seq(E)
        BY <1>1, <2>1, <3>3
      <3>5. CASE t \in S
        <4>1. Kept(<<t>>, S) = <<t>> /\ t \in E
          BY <2>2, <3>3, <3>5, KeptOfOne
        <4>2. ks[j + 1] = Append(ks[j], t)
          BY <2>3, <3>5 DEF Grown
        <4>3. Append(ks[j], t) = ks[j] \o <<t>>
          BY <3>4, <4>1
        <4> QED
          BY <2>1, <2>6, <3>1, <3>2, <4>1, <4>2, <4>3
      <3>6. CASE t \notin S
        <4>1. Kept(<<t>>, S) = <<>>
          BY <3>6, KeptOfOne
        <4>2. ks[j + 1] = ks[j]
          BY <2>3, <3>6 DEF Grown
        <4>3. ks[j] \o <<>> = ks[j]
          BY <3>4, ConcatEmptySeq
        <4> QED
          BY <2>1, <2>6, <3>1, <3>2, <4>1, <4>2, <4>3
      <3> QED
        BY <3>5, <3>6
    <2>8. CASE t \notin T
      <3>1. kt[j + 1] = kt[j] /\ ks[j + 1] = ks[j]
        BY <2>3, <2>8 DEF Grown
      <3> QED
        BY <2>1, <2>6, <3>1
    <2> QED
      BY <2>7, <2>8
  <1>5. \A j \in 0..m : j \in I
    <2> HIDE DEF I
    <2> QED
      BY <1>3, <1>4, UpTo
  <1>6. m \in I
    BY <1>5
  <1> QED
    BY <1>1, <1>2, <1>6

(***************************************************************************)
(* Whose tokens are where.                                                 *)
(***************************************************************************)
TokensUpTo(m) == {t \in Tokens : t.n <= m}

\* What is in the pseudo-tty is of a command that was sent, what bash still writes is of the
\* command that runs, and a marker only of one in the background.
Typed ==
    /\ channel \in Seq(TokensUpTo(Len(sent))) /\ data \in Seq(TokensUpTo(Len(sent)))
    /\ lastPid \in 0..Len(sent) /\ heard \in Seq(Tokens)
    /\ \A n \in background : sent[n] = "background"
    /\ \A w \in DOMAIN bash.left :
          /\ bash.n \in 1..Len(sent)
          /\ \A j \in DOMAIN bash.left[w] :
                /\ bash.left[w][j].n = bash.n
                /\ sent[bash.n] # "background" => bash.left[w][j].k = "line"

\* Tokens of commands sent remain that when more commands are sent.
LEMMA UpToTokens ==
    ASSUME NEW m \in Nat
    PROVE  /\ TokensUpTo(m) \subseteq Tokens /\ TokensUpTo(m) \subseteq TokensUpTo(m + 1)
           /\ Sentinel \in TokensUpTo(m)
           /\ \A n \in 0..m : Token("line", n) \in TokensUpTo(m)
           /\ \A t \in Outputs : t.n <= m => t \in TokensUpTo(m)
  BY DEF TokensUpTo, Tokens, Outputs, Sentinel, Token

\* The process id that is found is one that is there.
LEMMA PidIsThere ==
    ASSUME NEW d, NEW C, d \in Seq(C), Has(d, "pid")
    PROVE  \E j \in DOMAIN d : d[j].k = "pid" /\ PidIn(d) = d[j].n
  <1> DEFINE I == {j \in DOMAIN d : d[j].k = "pid"}
  <1>1. I \subseteq Nat /\ I # {}
    BY DEF Has
  <1>2. Min(I) = CHOOSE x \in I : \A y \in I : x <= y
    BY DEF Min
  <1>3. \E x \in I : \A y \in I : x <= y
    <2> HIDE DEF I
    <2>1. \E R : IsWellFoundedOn(R, Nat) /\ R = {q \in Nat \X Nat : q[1] < q[2]}
      BY NatLessThanWellFounded, Zenon DEF OpToRel
    <2>2. PICK x \in I : \A y \in I : ~(<<y, x>> \in {q \in Nat \X Nat : q[1] < q[2]})
      BY <1>1, <2>1, WFMin, ZenonT(60)
    <2>3. ASSUME NEW y \in I, y < x PROVE FALSE
      <3> DEFINE pair == <<y, x>>
      <3>1. pair \in Nat \X Nat /\ pair[1] < pair[2]
        BY <1>1, <2>3
      <3>2. pair \in {q \in Nat \X Nat : q[1] < q[2]}
        BY <3>1
      <3> QED
        BY <2>2, <3>2
    <2> QED
      BY <1>1, <2>3
  <1>4. Min(I) \in I
    BY <1>2, <1>3
  <1>5. PidIn(d) = d[Min(I)].n
    BY DEF PidIn
  <1> QED
    BY <1>4, <1>5

\* Nothing is left to write when nothing runs.
LEMMA NothingLeftToWrite == Idle.left = <<>> /\ Dead.left = <<>>
  BY DEF Idle, Dead

\* Every step keeps the types.
LEMMA TypedKept ==
    ASSUME ShellType, Typed, [Next]_vars
    PROVE  Typed'
  <1> DEFINE m == Len(sent)
             Known == TokensUpTo(m)
             Left(b) == \A w \in DOMAIN b.left :
                           /\ b.n \in 1..m
                           /\ \A j \in DOMAIN b.left[w] :
                                 /\ b.left[w][j].n = b.n
                                 /\ sent[b.n] # "background" => b.left[w][j].k = "line"
  <1>a. /\ m \in Nat /\ sent \in Seq(Kinds) /\ channel \in Seq(Known) /\ data \in Seq(Known)
        /\ \A n \in background : n \in 1..m /\ sent[n] = "background"
        /\ Left(bash) /\ lastPid \in 0..m /\ heard \in Seq(Tokens)
    BY DEF ShellType, Typed
  <1>b. Left(Idle) /\ Left(Dead)
    BY NothingLeftToWrite
  <1>c. /\ Known \subseteq Tokens /\ Sentinel \in Known /\ Known \subseteq TokensUpTo(m + 1)
        /\ \A n \in 0..m : Token("line", n) \in Known
        /\ \A t \in Outputs : t.n <= m => t \in Known
    BY <1>a, UpToTokens
  <1> HIDE DEF Known
  <1>d. ASSUME UNCHANGED <<sent, lastPid, heard>>, background' \subseteq background,
               channel' \in Seq(Known), data' \in Seq(Known), Left(bash')
        PROVE  Typed'
    BY <1>a, <1>d DEF Typed, Known
  <1>e. <<>> \in Seq(Known)
    OBVIOUS
  <1> HIDE DEF m
  <1>1. ASSUME NEW k \in Kinds, CallSendCmd(k) \/ CliCommand(k) \/ CallCmd(k)
        PROVE  Typed'
    <2>1. CASE Quiescent
      BY <1>a, <1>d, <2>1 DEF Quiescent
    <2>2. CASE Sending(k) /\ (FreshShell(Len(sent) + 1) \/ OldShell(Len(sent) + 1))
      <3>1. PICK n : n = m + 1
        OBVIOUS
      <3>2. /\ Len(sent') = n /\ n \in Nat /\ m <= n /\ \A i \in 1..m : sent'[i] = sent[i]
            /\ lastPid' = 0 /\ heard' = <<>> /\ data = <<>>
        BY <1>a, <2>2, <3>1 DEF Sending, m
      <3>3. lastPid' \in 0..Len(sent') /\ heard' \in Seq(Tokens)
        BY <3>2
      <3>4. PICK Wider : Wider = TokensUpTo(n)
        OBVIOUS
      <3>5. CASE FreshShell(Len(sent) + 1)
        <4>1. /\ data' = <<>> /\ channel' = <<>> /\ bash' = Idle /\ background' = {}
          BY <3>5 DEF FreshShell
        <4>2. channel' \in Seq(Wider) /\ data' \in Seq(Wider)
          BY <4>1
        <4>3. bash'.left = <<>>
          BY <4>1, NothingLeftToWrite
        <4>4. \A w \in DOMAIN bash'.left : FALSE
          BY <4>3
        <4> QED
          BY <3>2, <3>3, <3>4, <4>1, <4>2, <4>4 DEF Typed
      <3>6. CASE OldShell(Len(sent) + 1)
        <4>1. UNCHANGED <<data, channel, bash, background>>
          BY <3>6 DEF OldShell
        <4>2. channel' \in Seq(Wider) /\ data' \in Seq(Wider)
          <5>1. Known \subseteq Wider
            BY <1>c, <3>1, <3>4
          <5> QED
            BY <1>a, <4>1, <5>1, LargerSet
        <4>3. \A i \in background' : sent'[i] = "background"
          BY <1>a, <3>2, <4>1
        <4>4. \A w \in DOMAIN bash'.left :
                  /\ bash'.n \in 1..n
                  /\ \A j \in DOMAIN bash'.left[w] :
                        /\ bash'.left[w][j].n = bash'.n
                        /\ sent'[bash'.n] # "background" => bash'.left[w][j].k = "line"
          BY <1>a, <3>2, <4>1
        <4> QED
          BY <3>2, <3>3, <3>4, <4>2, <4>3, <4>4 DEF Typed
      <3> QED
        BY <2>2, <3>5, <3>6
    <2> QED
      BY <1>1, <2>1, <2>2, CommandCases
  <1>2. CASE Monitor \/ ReadMarker
    <2>1. UNCHANGED <<sent, bash, background>>
      BY <1>2, <1>a, ReadDoes
    <2>2. PICK d \in Seq(Known), r \in Seq(Known) : channel' = r /\ Reports(d)
      BY <1>2, <1>a, ReadDoes
    <2>3. CASE Incomplete(d)
      BY <1>a, <1>d, <2>1, <2>2, <2>3 DEF Reports
    <2>4. CASE ~Incomplete(d)
      <3>1. /\ data' = <<>> /\ heard' = heard \o Finite(d)
            /\ lastPid' = IF Has(d, "mark") THEN PidIn(d) ELSE lastPid
        BY <2>2, <2>4 DEF Reports
      <3>2. lastPid' \in 0..m
        <4>1. CASE Has(d, "mark")
          <5>1. Has(d, "pid")
            BY <2>4, <4>1 DEF Incomplete
          <5>2. PICK j \in DOMAIN d : PidIn(d) = d[j].n
            BY <5>1, PidIsThere
          <5>3. d[j] \in Known
            OBVIOUS
          <5>4. d[j].n \in Nat /\ d[j].n <= m
            BY <5>3 DEF Known, TokensUpTo, Tokens
          <5> QED
            BY <1>a, <3>1, <4>1, <5>2, <5>4
        <4>2. CASE ~Has(d, "mark")
          BY <1>a, <3>1, <4>2
        <4> QED
          BY <4>1, <4>2
      <3>3. heard' \in Seq(Tokens)
        <4>1. PICK S : Finite(d) = Kept(d, S)
          BY DEF Finite
        <4>2. d \in Seq(Tokens)
          BY <1>c, LargerSet
        <4>3. Kept(d, S) \in Seq(Tokens \cap S)
          BY <4>2, KeptRuns
        <4>4. Tokens \cap S \subseteq Tokens
          OBVIOUS
        <4>5. Finite(d) \in Seq(Tokens)
          BY <4>1, <4>3, <4>4, LargerSet
        <4>6. heard \o Finite(d) \in Seq(Tokens)
          BY <1>a, <4>5, ConcatProperties
        <4> QED
          BY <3>1, <4>6
      <3> QED
        BY <1>a, <1>e, <2>1, <2>2, <3>1, <3>2, <3>3 DEF Typed, Known, m
    <2> QED
      BY <2>3, <2>4
  <1>3. CASE CallWaitOutput \/ UNCHANGED vars
    BY <1>3, <1>a, <1>d DEF CallWaitOutput, outside, vars
  <1>4. ASSUME NEW n \in 0..Len(channel), NEW r, r = SubSeq(channel, n + 1, Len(channel))
        PROVE  r \in Seq(Known)
    BY <1>4, <1>a, Divided
  <1>5. CASE Readline
    <2>1. UNCHANGED <<sent, lastPid, heard, data, bash, background>>
      BY <1>5 DEF Readline
    <2>2. PICK n \in 0..Len(channel) : channel' = SubSeq(channel, n + 1, Len(channel))
      BY <1>5, ReadlineTakes
    <2>3. channel' \in Seq(Known)
      BY <1>4, <2>2
    <2> QED
      BY <1>a, <1>d, <2>1, <2>3
  <1>6. ASSUME NEW r \in Seq(Known), channel' \in {Append(r, Sentinel), <<Sentinel>>}
        PROVE  channel' \in Seq(Known)
    <2>1. Append(r, Sentinel) \in Seq(Known)
      BY <1>c, AppendProperties
    <2>2. <<Sentinel>> \in Seq(Known)
      BY <1>c
    <2> QED
      BY <1>6, <2>1, <2>2
  <1>7. CASE CallSendInt \/ CliStops
    <2>1. UNCHANGED <<sent, lastPid, heard, data, background>>
      BY <1>7 DEF CallSendInt, CliStops, Interrupted, mininet
    <2>2. CASE bash.st = "dead"
      <3>1. UNCHANGED <<channel, bash>>
        BY <1>7, <2>2 DEF CallSendInt, CliStops, Interrupted
      <3> QED
        BY <1>a, <1>d, <2>1, <3>1
    <2>3. CASE bash.st # "dead"
      <3>1. channel' \in {Append(channel, Sentinel), <<Sentinel>>} /\ bash' = Idle
        BY <1>7, <2>3 DEF CallSendInt, CliStops, Interrupted
      <3>2. channel' \in Seq(Known)
        BY <1>6, <1>a, <3>1
      <3> QED
        BY <1>a, <1>b, <1>d, <2>1, <3>1, <3>2
    <2> QED
      BY <2>2, <2>3
  <1>8. CASE InterruptedRead
    <2>1. UNCHANGED <<sent, lastPid, heard, data, background>>
      BY <1>8 DEF InterruptedRead, mininet
    <2>2. PICK n \in Chunks :
              LET rest == SubSeq(channel, n + 1, Len(channel))
              IN  IF bash.st = "dead" THEN channel' = rest /\ UNCHANGED bash
                  ELSE channel' \in {Append(rest, Sentinel), <<Sentinel>>} /\ bash' = Idle
      BY <1>8 DEF InterruptedRead
    <2>3. PICK rest : rest = SubSeq(channel, n + 1, Len(channel))
      OBVIOUS
    <2>4. rest \in Seq(Known)
      <3>1. Len(channel) \in Nat /\ ReadSize \in Nat
        BY NodeShellAssumption DEF ShellType
      <3>2. n \in 0..Len(channel)
        BY <3>1, ChunkSize DEF Chunks
      <3> QED
        BY <1>4, <2>3, <3>2
    <2>5. CASE bash.st = "dead"
      <3>1. channel' = rest /\ UNCHANGED bash
        BY <2>2, <2>3, <2>5
      <3> QED
        BY <1>a, <1>d, <2>1, <2>4, <3>1
    <2>6. CASE bash.st # "dead"
      <3>1. channel' \in {Append(rest, Sentinel), <<Sentinel>>} /\ bash' = Idle
        BY <2>2, <2>3, <2>6
      <3>2. channel' \in Seq(Known)
        BY <1>6, <2>4, <3>1
      <3> QED
        BY <1>a, <1>b, <1>d, <2>1, <3>1, <3>2
    <2> QED
      BY <2>5, <2>6
  <1>9. CASE Terminate
    <2>1. /\ bash' = Dead /\ channel' = <<>> /\ background' = {}
          /\ UNCHANGED <<sent, lastPid, heard, data>>
      BY <1>9 DEF Terminate
    <2>2. channel' \in Seq(Known) /\ background' \subseteq background
      BY <1>e, <2>1
    <2> QED
      BY <1>a, <1>b, <1>d, <2>1, <2>2
  <1>10. CASE BashTakes
    <2>1. /\ input # <<>>
          /\ bash' = [st |-> "runs", n |-> Head(input), left |-> Writes(Head(input))]
          /\ background' = IF sent[Head(input)] = "background"
                           THEN background \cup {Head(input)} ELSE background
          /\ UNCHANGED <<sent, lastPid, heard, data, channel>>
      BY <1>10 DEF BashTakes, mininet
    <2>2. PICK h : h = Head(input)
      OBVIOUS
    <2>3. h \in 1..m
      BY <2>1, <2>2 DEF ShellType, m
    <2>4. /\ bash'.n = h /\ bash'.left = Writes(h)
          /\ \A i \in background' : sent[i] = "background"
      BY <1>a, <2>1, <2>2
    <2>5. Left(bash')
      <3>1. sent[h] \in {"plain", "endless", "background"}
        <4>1. sent[h] \in Kinds
          BY <1>a, <2>3 DEF m
        <4> QED
          BY <4>1, NodeShellAssumption
      <3>2. CASE sent[h] = "plain"
        <4>1. Writes(h) = [i \in 1..Lines |-> <<Line(h, i)>>]
          BY <3>2 DEF Writes
        <4>2. \A i \in 1..Lines : Line(h, i).n = h /\ Line(h, i).k = "line"
          BY DEF Line, Token
        <4>3. \A i \in 1..Lines : \A j \in DOMAIN <<Line(h, i)>> :
                  <<Line(h, i)>>[j] = Line(h, i)
          OBVIOUS
        <4> QED
          BY <2>3, <2>4, <4>1, <4>2, <4>3
      <3>3. CASE sent[h] = "endless"
        <4>1. Writes(h) = <<<<Token("line", h)>>>>
          BY <3>3 DEF Writes
        <4>2. Token("line", h).n = h /\ Token("line", h).k = "line"
          BY DEF Token
        <4> QED
          BY <2>3, <2>4, <4>1, <4>2
      <3>4. CASE sent[h] = "background"
        <4>1. Writes(h) = <<<<Token("mark", h), Token("pid", h)>>>>
          BY <3>4 DEF Writes
        <4>2. Token("mark", h).n = h /\ Token("pid", h).n = h
          BY DEF Token
        <4> QED
          BY <2>3, <2>4, <3>4, <4>1, <4>2
      <3> QED
        BY <3>1, <3>2, <3>3, <3>4
    <2> QED
      BY <1>a, <2>1, <2>4, <2>5 DEF Typed, Known, m
  <1>11. CASE BashPrints
    <2>1. UNCHANGED <<sent, lastPid, heard, data, background>>
      BY <1>11 DEF BashPrints, mininet
    <2>2. CASE bash.left # <<>> /\ channel' = channel \o Head(bash.left)
               /\ bash' = IF sent[bash.n] = "endless" THEN bash
                          ELSE [bash EXCEPT !.left = Tail(@)]
      <3>1. PICK left, h, t : left = bash.left /\ h = Head(left) /\ t = Tail(left)
        OBVIOUS
      <3>2. left \in Seq(Seq(Outputs)) /\ left # <<>>
        BY <2>2, <3>1 DEF ShellType
      <3>3. /\ h \in Seq(Outputs) /\ 1 \in DOMAIN left /\ h = left[1]
            /\ \A w \in DOMAIN t : w + 1 \in DOMAIN left /\ t[w] = left[w + 1]
        BY <3>1, <3>2
      <3>4. h \in Seq(Known)
        <4>1. \A j \in DOMAIN h : h[j] \in Outputs /\ h[j].n = bash.n /\ bash.n \in 1..m
          BY <1>a, <3>1, <3>3
        <4>2. \A j \in DOMAIN h : h[j] \in Known
          BY <1>c, <4>1, <1>a
        <4>3. Len(h) \in Nat /\ h = [j \in 1..Len(h) |-> h[j]]
          BY <3>3
        <4> QED
          BY <4>2, <4>3, SeqDef
      <3>5. channel' \in Seq(Known)
        <4>1. channel \o h \in Seq(Known)
          BY <1>a, <3>4, ConcatProperties
        <4> QED
          BY <2>2, <3>1, <4>1
      <3>6. Left(bash')
        <4>1. CASE bash' = bash
          BY <1>a, <4>1
        <4>2. CASE bash' = [bash EXCEPT !.left = t]
          <5>1. bash'.n = bash.n /\ bash'.left = t
            BY <4>2 DEF ShellType
          <5> QED
            BY <1>a, <3>1, <3>3, <5>1
        <4> QED
          BY <2>2, <3>1, <4>1, <4>2
      <3> QED
        BY <1>a, <1>d, <2>1, <3>5, <3>6
    <2>3. CASE channel' = Append(channel, Sentinel) /\ bash' = Idle
      <3>1. channel' \in Seq(Known)
        BY <1>6, <1>a, <2>3
      <3> QED
        BY <1>a, <1>b, <1>d, <2>1, <2>3, <3>1
    <2> QED
      BY <1>11, <2>2, <2>3 DEF BashPrints
  <1>12. CASE ShellDies
    <2>1. bash' = Dead /\ UNCHANGED <<sent, lastPid, heard, data, channel, background>>
      BY <1>12 DEF ShellDies, mininet
    <2> QED
      BY <1>a, <1>b, <1>d, <2>1
  <1>13. ASSUME NEW n \in background, BackgroundPrints(n) PROVE Typed'
    <2>1. /\ channel' = Append(channel, Token("line", n)) /\ background' = background \ {n}
          /\ UNCHANGED <<sent, lastPid, heard, data, bash>>
      BY <1>13 DEF BackgroundPrints, mininet
    <2>2. Token("line", n) \in Known
      BY <1>a, <1>c
    <2>3. channel' \in Seq(Known) /\ background' \subseteq background
      BY <1>a, <2>1, <2>2, AppendProperties
    <2> QED
      BY <1>a, <1>d, <2>1, <2>3
  <1> QED
    BY <1>1, <1>2, <1>3, <1>5, <1>7, <1>8, <1>9, <1>10, <1>11, <1>12, <1>13
    DEF Next, Program, Outside

(***************************************************************************)
(* Whose output it is.                                                     *)
(***************************************************************************)
\* What monitor() has of an incomplete marker and what it has not read.
Stream == data \o channel

\* A line that a command in the background prints beside the others.
Aside(t) == t.k = "line" /\ t.n \in 1..Len(sent) /\ sent[t.n] = "background"

\* All is of the command sent last or printed aside, a sentinel comes after all the rest of the
\* command, and the command is in one place only: not taken, running, or through.
InOrder(s) ==
    /\ \A j \in DOMAIN s :
          Aside(s[j]) \/ (waiting /\ (s[j].k = "sentinel" \/ s[j].n = Len(sent)))
    /\ \A j \in DOMAIN s : s[j].k = "sentinel" =>
          /\ input = <<>> /\ bash.st # "runs"
          /\ \A i \in DOMAIN s : i > j => Aside(s[i])
    /\ input # <<>> => /\ waiting /\ input = <<Len(sent)>> /\ bash.st # "runs"
                       /\ \A j \in DOMAIN s : Aside(s[j])
    /\ bash.st = "runs" => waiting /\ bash.n = Len(sent)
    /\ waiting => Len(sent) > 0
    /\ data = <<>> \/ Incomplete(data)

\* The sentinel of the command sent last has come.
Told(s) == Has(s, "sentinel") \/ ~waiting

\* The lines of the command, heard and unheard.
Printed(s) == Kept(heard, LinesOf(Len(sent))) \o Kept(s, LinesOf(Len(sent)))
FirstLines(n, m) == [i \in 1..m |-> Line(n, i)]

\* A plain command has printed its first lines, in order, and bash has the rest; all of them
\* when it is through.
LinesInOrder(s) ==
    Len(sent) > 0 /\ sent[Len(sent)] = "plain" =>
        /\ input # <<>> => Printed(s) = <<>>
        /\ bash.st = "runs" =>
              \E m \in 0..Lines :
                  /\ Printed(s) = FirstLines(Len(sent), m)
                  /\ bash.left = [i \in 1..(Lines - m) |-> <<Line(Len(sent), m + i)>>]
        /\ Told(s) => Printed(s) = FirstLines(Len(sent), Lines)

\* No marker is under way, or one, of the command sent last.
Unmarked(s) == ~Has(s, "mark") /\ ~Has(s, "pid")
MarkedAt(s, q) ==
    /\ q \in DOMAIN s /\ q + 1 \in DOMAIN s
    /\ s[q].k = "mark" /\ s[q + 1].k = "pid" /\ s[q + 1].n = Len(sent)
    /\ \A j \in DOMAIN s : (s[j].k = "mark" => j = q) /\ (s[j].k = "pid" => j = q + 1)

\* Its process id is known or under way, or it has not been printed.
PidKnown(s) == \/ Unmarked(s) /\ lastPid = Len(sent)
               \/ lastPid = 0 /\ \E q \in DOMAIN s : MarkedAt(s, q)
PidUnknown(s) == Unmarked(s) /\ lastPid = 0
Marker(n) == <<Token("mark", n), Token("pid", n)>>

\* A command in the background has printed its process id, or bash has it still to write.
PidInOrder(s) ==
    IF Len(sent) > 0 /\ sent[Len(sent)] = "background"
    THEN /\ PidKnown(s) \/ PidUnknown(s)
         /\ input # <<>> => PidUnknown(s)
         /\ bash.st = "runs" => \/ PidUnknown(s) /\ bash.left = <<Marker(Len(sent))>>
                                \/ PidKnown(s) /\ bash.left = <<>>
         /\ Told(s) => PidKnown(s)
    ELSE PidUnknown(s)

\* What was heard since the last command was sent is its own or was printed aside.
HeardOwn == \A j \in DOMAIN heard : Aside(heard[j]) \/ heard[j].n = Len(sent)

Orderly(s) == InOrder(s) /\ LinesInOrder(s) /\ PidInOrder(s) /\ HeardOwn

\* What was printed aside is not of a plain command.
LEMMA AsideIsNotKept ==
    ASSUME Len(sent) > 0, sent[Len(sent)] = "plain", NEW s \in Seq(Tokens),
           \A j \in DOMAIN s : Aside(s[j])
    PROVE  Kept(s, LinesOf(Len(sent))) = <<>>
  <1>1. \A t \in LinesOf(Len(sent)) : t.n = Len(sent)
    BY DEF LinesOf, Line, Token
  <1>2. \A j \in DOMAIN s : s[j] \notin LinesOf(Len(sent))
    BY <1>1 DEF Aside
  <1> QED
    BY <1>2, KeptNone

\* A stream in order stays so while node and bash do nothing with it.
LEMMA InOrderSame ==
    ASSUME NEW r, r = Stream', InOrder(r),
           UNCHANGED <<waiting, sent, input>>,
           bash' = bash \/ bash'.st # "runs", data' = <<>> \/ Incomplete(data')
    PROVE  InOrder(Stream)'
  <1>1. \A t : Aside(t)' <=> Aside(t)
    BY DEF Aside
  <1>2. data' = <<>> \/ Incomplete(data')
    OBVIOUS
  <1>3. \A j \in DOMAIN r :
            Aside(r[j])' \/ (waiting' /\ (r[j].k = "sentinel" \/ r[j].n = Len(sent')))
    BY <1>1 DEF InOrder, Aside
  <1>4. \A j \in DOMAIN r : r[j].k = "sentinel" =>
            /\ input' = <<>> /\ bash'.st # "runs"
            /\ \A i \in DOMAIN r : i > j => Aside(r[i])
    BY DEF InOrder
  <1>5. input' # <<>> => /\ waiting' /\ input' = <<Len(sent')>> /\ bash'.st # "runs"
                         /\ \A j \in DOMAIN r : Aside(r[j])
    BY DEF InOrder
  <1>6. /\ bash'.st = "runs" => waiting' /\ bash'.n = Len(sent')
        /\ waiting' => Len(sent') > 0
    BY DEF InOrder
  <1> QED
    BY <1>1, <1>2, <1>3, <1>4, <1>5, <1>6 DEF InOrder, Aside, Incomplete, Has

\* When nothing more is read or written, all is as before, be bash as it was or gone.
LEMMA OrderlySame ==
    ASSUME Orderly(Stream), Stream' = Stream, data' = <<>> \/ Incomplete(data'),
           UNCHANGED <<waiting, lastPid, sent, heard, input>>,
           bash' = bash \/ bash' = Dead
    PROVE  Orderly(Stream)'
  <1>1. PICK s : s = Stream /\ s = Stream'
    OBVIOUS
  <1>2. bash'.st # "runs" \/ bash' = bash
    BY DEF Dead, Idle
  <1>3. InOrder(Stream)'
    <2>1. InOrder(s)
      BY <1>1 DEF Orderly
    <2> QED
      BY <1>1, <1>2, <2>1, InOrderSame
  <1>4. LinesInOrder(Stream)'
    <2>1. LinesInOrder(s)
      BY <1>1 DEF Orderly
    <2>2. Printed(Stream)' = Printed(s) /\ (Told(Stream)' <=> Told(s))
      BY <1>1 DEF Printed, Told
    <2> QED
      BY <1>2, <2>1, <2>2 DEF LinesInOrder
  <1>5. PidInOrder(Stream)'
    <2>1. PidInOrder(s)
      BY <1>1 DEF Orderly
    <2>2. /\ PidKnown(Stream)' <=> PidKnown(s)
          /\ PidUnknown(Stream)' <=> PidUnknown(s)
          /\ Told(Stream)' <=> Told(s)
      BY <1>1 DEF PidKnown, PidUnknown, Told, MarkedAt
    <2> QED
      BY <1>2, <2>1, <2>2 DEF PidInOrder
  <1>6. HeardOwn'
    BY DEF Orderly, HeardOwn, Aside
  <1> QED
    BY <1>3, <1>4, <1>5, <1>6 DEF Orderly

\* A new shell begins in order.
LEMMA FreshOrderly ==
    ASSUME ShellType, NEW k \in Kinds, Sending(k), FreshShell(Len(sent) + 1)
    PROVE  Orderly(Stream)'
  <1>1. PICK n : n = Len(sent) + 1
    OBVIOUS
  <1>2. /\ n \in Nat /\ n > 0 /\ Len(sent') = n /\ waiting' = TRUE /\ lastPid' = 0 /\ heard' = <<>>
        /\ data' = <<>> /\ channel' = <<>> /\ input' = <<n>> /\ bash' = Idle
    BY <1>1 DEF ShellType, Sending, FreshShell
  <1>3. bash'.st # "runs" /\ input' # <<>>
    BY <1>2 DEF Idle
  <1>4. PICK s : s = Stream' /\ s = <<>> /\ DOMAIN s = {}
    BY <1>2 DEF Stream
  <1>5. ~Has(s, "sentinel") /\ ~Has(s, "mark") /\ ~Has(s, "pid")
    BY <1>4 DEF Has
  <1>6. InOrder(Stream)'
    BY <1>2, <1>3, <1>4 DEF InOrder
  <1>7. LinesInOrder(Stream)'
    <2>1. ~Told(Stream)'
      BY <1>2, <1>4, <1>5 DEF Told
    <2>2. Printed(Stream)' = <<>>
      <3>1. Kept(<<>>, LinesOf(n)') = <<>>
        BY KeptOfOne
      <3>2. LinesOf(Len(sent))' = LinesOf(n)'
        BY <1>2 DEF LinesOf
      <3> QED
        BY <1>2, <1>4, <3>1, <3>2 DEF Printed
    <2> QED
      BY <1>3, <2>1, <2>2 DEF LinesInOrder
  <1>8. PidInOrder(Stream)'
    <2>1. ~Told(Stream)' /\ PidUnknown(Stream)'
      BY <1>2, <1>4, <1>5 DEF Told, PidUnknown, Unmarked
    <2> QED
      BY <1>3, <2>1 DEF PidInOrder
  <1>9. HeardOwn'
    BY <1>2 DEF HeardOwn
  <1> QED
    BY <1>6, <1>7, <1>8, <1>9 DEF Orderly

\* So does a command on a shell that waits for nothing.
LEMMA OldOrderly ==
    ASSUME ShellType, Orderly(Stream), NEW k \in Kinds, Sending(k), OldShell(Len(sent) + 1), ~waiting
    PROVE  Orderly(Stream)'
  <1>1. PICK n : n = Len(sent) + 1
    OBVIOUS
  <1>2. /\ n \in Nat /\ n > 0 /\ Len(sent') = n /\ waiting' = TRUE /\ lastPid' = 0 /\ heard' = <<>>
        /\ data = <<>> /\ data' = <<>> /\ channel' = channel /\ bash' = bash
        /\ input' = Append(input, n) /\ \A i \in 1..Len(sent) : sent'[i] = sent[i]
        /\ Len(sent) = n - 1
    BY <1>1 DEF ShellType, Sending, OldShell
  <1>3. PICK s : s = Stream' /\ s = Stream /\ s \in Seq(Tokens)
    <2>1. Stream \in Seq(Tokens)
      BY ConcatProperties DEF Stream, ShellType
    <2> QED
      BY <1>2, <2>1 DEF Stream
  <1>4. InOrder(s)
    BY <1>3 DEF Orderly
  <1>5. /\ input = <<>> /\ bash.st # "runs" /\ \A j \in DOMAIN s : Aside(s[j])
    BY <1>4 DEF InOrder
  <1>6. input' = <<n>> /\ input' # <<>> /\ bash'.st # "runs"
    BY <1>2, <1>5
  <1>7. \A j \in DOMAIN s : Aside(s[j])' /\ s[j].k = "line" /\ s[j].n < n
    BY <1>2, <1>5 DEF Aside
  <1>8. ~Has(s, "sentinel") /\ ~Has(s, "mark") /\ ~Has(s, "pid")
    BY <1>7 DEF Has
  <1>9. InOrder(Stream)'
    BY <1>2, <1>3, <1>6, <1>7 DEF InOrder, Aside
  <1>10. ~Told(Stream)'
    BY <1>2, <1>3, <1>8 DEF Told
  <1>11. LinesInOrder(Stream)'
    <2>1. Printed(Stream)' = <<>>
      <3>1. PICK S : S = LinesOf(Len(sent))'
        OBVIOUS
      <3>2. Kept(<<>>, S) = <<>>
        BY KeptOfOne
      <3>3. \A t \in S : t.n = n
        BY <1>2, <3>1 DEF LinesOf, Line, Token
      <3>4. \A j \in DOMAIN s : s[j] \notin S
        BY <1>7, <1>2, <3>3
      <3>5. Kept(s, S) = <<>>
        BY <1>3, <3>4, KeptNone
      <3> QED
        BY <1>2, <1>3, <3>1, <3>2, <3>5 DEF Printed
    <2> QED
      BY <1>6, <1>10, <2>1 DEF LinesInOrder
  <1>12. PidInOrder(Stream)'
    <2>1. PidUnknown(Stream)'
      BY <1>2, <1>3, <1>8 DEF PidUnknown, Unmarked
    <2> QED
      BY <1>6, <1>10, <2>1 DEF PidInOrder
  <1>13. HeardOwn'
    BY <1>2 DEF HeardOwn
  <1> QED
    BY <1>9, <1>11, <1>12, <1>13 DEF Orderly

\* A marker is where it was while the commands are the same.
LEMMA PidSame ==
    ASSUME NEW r, r = Stream', UNCHANGED <<lastPid, sent>>
    PROVE  /\ PidKnown(Stream)' <=> PidKnown(r)
           /\ PidUnknown(Stream)' <=> PidUnknown(r)
  <1>1. Unmarked(Stream)' <=> Unmarked(r)
    BY DEF Unmarked, Has
  <1>2. lastPid' = lastPid /\ sent' = sent
    OBVIOUS
  <1>3. \A q : MarkedAt(Stream, q)' <=> MarkedAt(r, q)
    BY <1>2 DEF MarkedAt
  <1>4. (\E q \in DOMAIN Stream : MarkedAt(Stream, q))' <=> \E q \in DOMAIN r : MarkedAt(r, q)
    BY <1>3
  <1> QED
    BY <1>1, <1>2, <1>4 DEF PidKnown, PidUnknown

\* A token more.
LEMMA OneMore ==
    ASSUME NEW s \in Seq(Tokens), NEW t \in Tokens
    PROVE  /\ s \o <<t>> \in Seq(Tokens) /\ DOMAIN s = 1..Len(s) /\ Len(s) \in Nat
           /\ DOMAIN (s \o <<t>>) = 1..(Len(s) + 1)
           /\ \A j \in 1..Len(s) : (s \o <<t>>)[j] = s[j]
           /\ (s \o <<t>>)[Len(s) + 1] = t
           /\ \A k : Has(s \o <<t>>, k) <=> Has(s, k) \/ t.k = k
  <1>1. PICK r : r = s \o <<t>>
    OBVIOUS
  <1>2. /\ r \in Seq(Tokens) /\ Len(s) \in Nat /\ DOMAIN r = 1..(Len(s) + 1)
        /\ \A j \in 1..Len(s) : r[j] = s[j]
        /\ r[Len(s) + 1] = t /\ DOMAIN s = 1..Len(s)
    BY <1>1
  <1>3. \A k : Has(r, k) <=> Has(s, k) \/ t.k = k
    BY <1>2 DEF Has
  <1> QED
    BY <1>1, <1>2, <1>3

\* What comes after a marker does not disturb it.
LEMMA MarkerStays ==
    ASSUME NEW s \in Seq(Tokens), NEW t \in Tokens, t.k \in {"line", "sentinel"}
    PROVE  /\ PidKnown(s) => PidKnown(s \o <<t>>)
           /\ PidUnknown(s) => PidUnknown(s \o <<t>>)
  <1>1. PICK r : r = s \o <<t>>
    OBVIOUS
  <1>2. /\ DOMAIN s = 1..Len(s) /\ Len(s) \in Nat /\ DOMAIN r = 1..(Len(s) + 1)
        /\ \A j \in 1..Len(s) : r[j] = s[j]
        /\ r[Len(s) + 1] = t
        /\ \A k : Has(r, k) <=> Has(s, k) \/ t.k = k
    BY <1>1, OneMore
  <1>3. Unmarked(s) => Unmarked(r)
    BY <1>2 DEF Unmarked
  <1>4. ASSUME NEW q \in DOMAIN s, MarkedAt(s, q) PROVE q \in DOMAIN r /\ MarkedAt(r, q)
    BY <1>2, <1>4 DEF MarkedAt
  <1>5. PidKnown(s) => PidKnown(r)
    BY <1>3, <1>4 DEF PidKnown
  <1>6. PidUnknown(s) => PidUnknown(r)
    BY <1>3 DEF PidUnknown
  <1> QED
    BY <1>1, <1>5, <1>6

\* What a token more adds to the lines of the command.
LEMMA PrintedMore ==
    ASSUME ShellType, Typed, NEW s \in Seq(Tokens), NEW t \in Tokens
    PROVE  /\ t \notin LinesOf(Len(sent)) => Printed(s \o <<t>>) = Printed(s)
           /\ t \in LinesOf(Len(sent)) => Printed(s \o <<t>>) = Append(Printed(s), t)
           /\ Printed(s) \in Seq(Tokens)
  <1>1. PICK S : S = LinesOf(Len(sent))
    OBVIOUS
  <1>2. PICK C, h : C = Tokens \cap S /\ h = heard
    OBVIOUS
  <1>3. h \in Seq(Tokens)
    BY <1>2 DEF Typed
  <1>4. Kept(h, S) \in Seq(C) /\ Kept(s, S) \in Seq(C)
    BY <1>2, <1>3, KeptRuns
  <1>5. PICK a, b : a = Kept(h, S) /\ b = Kept(s, S)
    OBVIOUS
  <1>6. a \in Seq(Tokens) /\ b \in Seq(Tokens) /\ a \o b \in Seq(Tokens)
    <2>1. C \subseteq Tokens
      BY <1>2
    <2>2. a \in Seq(Tokens) /\ b \in Seq(Tokens)
      BY <1>4, <1>5, <2>1, LargerSet
    <2> QED
      BY <2>2, ConcatProperties
  <1>7. Printed(s) = a \o b
    BY <1>1, <1>2, <1>5 DEF Printed
  <1>8. Kept(s \o <<t>>, S) = b \o Kept(<<t>>, S)
    <2>1. <<t>> \in Seq(Tokens)
      OBVIOUS
    <2> QED
      BY <1>5, <2>1, KeptConcat
  <1>9. Printed(s \o <<t>>) = a \o (b \o Kept(<<t>>, S))
    BY <1>1, <1>2, <1>5, <1>8 DEF Printed
  <1>10. CASE t \in S
    <2>1. Kept(<<t>>, S) = <<t>>
      BY <1>10, KeptOfOne
    <2>2. a \o (b \o <<t>>) = Append(a \o b, t)
      BY <1>6
    <2> QED
      BY <1>1, <1>6, <1>7, <1>9, <1>10, <2>1, <2>2
  <1>11. CASE t \notin S
    <2>1. Kept(<<t>>, S) = <<>>
      BY <1>11, KeptOfOne
    <2>2. b \o <<>> = b
      BY <1>6, ConcatEmptySeq
    <2> QED
      BY <1>1, <1>6, <1>7, <1>9, <1>11, <2>1, <2>2
  <1> QED
    BY <1>10, <1>11

\* A line printed aside changes nothing.
LEMMA AsideOrderly ==
    ASSUME ShellType, Typed, Orderly(Stream), NEW t \in Tokens, Aside(t),
           Stream' = Stream \o <<t>>,
           UNCHANGED <<waiting, lastPid, data, sent, heard, input, bash>>
    PROVE  Orderly(Stream)'
  <1>1. PICK s : s = Stream
    OBVIOUS
  <1>2. PICK r : r = s \o <<t>> /\ r = Stream'
    BY <1>1
  <1>3. s \in Seq(Tokens) /\ Orderly(s)
    BY <1>1, ConcatProperties DEF Stream, ShellType
  <1>4. /\ DOMAIN s = 1..Len(s) /\ Len(s) \in Nat /\ DOMAIN r = 1..(Len(s) + 1)
        /\ \A j \in 1..Len(s) : r[j] = s[j]
        /\ r[Len(s) + 1] = t
        /\ \A k : Has(r, k) <=> Has(s, k) \/ t.k = k
    BY <1>2, <1>3, OneMore
  <1>5. t.k = "line" /\ t.n \in 1..Len(sent) /\ sent[t.n] = "background"
    BY DEF Aside
  <1>6. InOrder(r)
    <2>1. InOrder(s)
      BY <1>3 DEF Orderly
    <2>2. \A j \in DOMAIN r : (j \in DOMAIN s /\ r[j] = s[j]) \/ (j = Len(s) + 1 /\ r[j] = t)
      BY <1>4
    <2>3. \A j \in DOMAIN r :
              Aside(r[j]) \/ (waiting /\ (r[j].k = "sentinel" \/ r[j].n = Len(sent)))
      BY <2>1, <2>2 DEF InOrder
    <2>4. \A j \in DOMAIN r : r[j].k = "sentinel" =>
              /\ input = <<>> /\ bash.st # "runs"
              /\ \A i \in DOMAIN r : i > j => Aside(r[i])
      BY <1>4, <1>5, <2>1, <2>2 DEF InOrder
    <2>5. input # <<>> => /\ waiting /\ input = <<Len(sent)>> /\ bash.st # "runs"
                          /\ \A j \in DOMAIN r : Aside(r[j])
      BY <2>1, <2>2 DEF InOrder
    <2>6. /\ bash.st = "runs" => waiting /\ bash.n = Len(sent)
          /\ waiting => Len(sent) > 0
          /\ data = <<>> \/ Incomplete(data)
      BY <2>1 DEF InOrder
    <2> QED
      BY <2>3, <2>4, <2>5, <2>6 DEF InOrder
  <1>7. InOrder(Stream)'
    <2>1. data' = <<>> \/ Incomplete(data')
      BY <1>6 DEF InOrder
    <2> QED
      BY <1>2, <1>6, <2>1, InOrderSame
  <1>8. Told(Stream)' <=> Told(s)
    BY <1>2, <1>4, <1>5 DEF Told
  <1>9. LinesInOrder(Stream)'
    <2>1. LinesInOrder(s)
      BY <1>3 DEF Orderly
    <2>2. Printed(Stream)' = Printed(r)
      BY <1>2 DEF Printed
    <2>3. CASE Len(sent) > 0 /\ sent[Len(sent)] = "plain"
      <3>1. t \notin LinesOf(Len(sent))
        BY <1>5, <2>3 DEF LinesOf, Line, Token
      <3>2. Printed(r) = Printed(s)
        BY <1>2, <1>3, <3>1, PrintedMore
      <3> QED
        BY <1>8, <2>1, <2>2, <3>2 DEF LinesInOrder
    <2>4. CASE ~(Len(sent) > 0 /\ sent[Len(sent)] = "plain")
      BY <2>4 DEF LinesInOrder
    <2> QED
      BY <2>3, <2>4
  <1>10. PidInOrder(Stream)'
    <2>1. PidInOrder(s)
      BY <1>3 DEF Orderly
    <2>2. (PidKnown(s) => PidKnown(r)) /\ (PidUnknown(s) => PidUnknown(r))
      BY <1>2, <1>3, <1>5, MarkerStays
    <2>3. PidKnown(Stream)' <=> PidKnown(r)
      BY <1>2, PidSame
    <2>4. PidUnknown(Stream)' <=> PidUnknown(r)
      BY <1>2, PidSame
    <2> QED
      BY <1>8, <2>1, <2>2, <2>3, <2>4 DEF PidInOrder
  <1>11. HeardOwn'
    BY DEF Orderly, HeardOwn, Aside
  <1> QED
    BY <1>7, <1>9, <1>10, <1>11 DEF Orderly

\* What is under way looks the same while the node hears nothing.
LEMMA ViewSame ==
    ASSUME NEW r, r = Stream', UNCHANGED <<lastPid, sent, heard, waiting>>
    PROVE  /\ Printed(Stream)' = Printed(r)
           /\ Told(Stream)' <=> Told(r)
           /\ HeardOwn' <=> HeardOwn
           /\ \A t : Aside(t)' <=> Aside(t)
  BY DEF Printed, Told, HeardOwn, Aside

\* A command taken is a command that runs.
LEMMA TakenOrderly ==
    ASSUME ShellType, Typed, Orderly(Stream), BashTakes
    PROVE  Orderly(Stream)'
  <1>1. PICK s, n : s = Stream /\ n = Len(sent)
    OBVIOUS
  <1>2. s \in Seq(Tokens) /\ Orderly(s) /\ n \in Nat
    BY <1>1, ConcatProperties DEF Stream, ShellType
  <1>3. /\ input # <<>>
        /\ bash' = [st |-> "runs", n |-> Head(input), left |-> Writes(Head(input))]
        /\ input' = Tail(input)
        /\ UNCHANGED <<waiting, lastPid, data, sent, heard, channel>>
    BY DEF BashTakes, mininet
  <1>4. InOrder(s) /\ LinesInOrder(s) /\ PidInOrder(s)
    BY <1>2 DEF Orderly
  <1>5. waiting /\ input = <<n>> /\ \A j \in DOMAIN s : Aside(s[j])
    BY <1>1, <1>3, <1>4 DEF InOrder
  <1>6. input' = <<>> /\ bash'.st = "runs" /\ bash'.n = n /\ bash'.left = Writes(n)
    BY <1>3, <1>5
  <1>7. s = Stream'
    BY <1>1, <1>3 DEF Stream
  <1>8. /\ Printed(Stream)' = Printed(s) /\ (Told(Stream)' <=> Told(s)) /\ (HeardOwn' <=> HeardOwn)
        /\ \A t : Aside(t)' <=> Aside(t)
    BY <1>3, <1>7, ViewSame
  <1>9. (PidKnown(Stream)' <=> PidKnown(s)) /\ (PidUnknown(Stream)' <=> PidUnknown(s))
    BY <1>3, <1>7, PidSame
  <1>10. ~Told(s)
    BY <1>5 DEF Told, Has, Aside
  <1>11. InOrder(Stream)'
    <2>1. Incomplete(data)' <=> Incomplete(data)
      BY <1>3 DEF Incomplete, Has
    <2>2. \A j \in DOMAIN s : s[j].k # "sentinel"
      BY <1>5 DEF Aside
    <2>3. /\ waiting => Len(sent) > 0
          /\ data = <<>> \/ Incomplete(data)
      BY <1>4 DEF InOrder
    <2> QED
      BY <1>1, <1>3, <1>5, <1>6, <1>7, <1>8, <2>1, <2>2, <2>3 DEF InOrder
  <1>12. LinesInOrder(Stream)'
    <2>1. CASE n > 0 /\ sent[n] = "plain"
      <3>1. Printed(s) = <<>>
        BY <1>1, <1>3, <1>4, <2>1 DEF LinesInOrder
      <3>2. bash'.left = [i \in 1..Lines |-> <<Line(n, i)>>]
        BY <1>6, <2>1 DEF Writes
      <3>3. FirstLines(n, 0) = <<>> /\ Lines \in Nat
        BY NodeShellAssumption DEF FirstLines
      <3>4. [i \in 1..Lines |-> <<Line(n, i)>>] = [i \in 1..(Lines - 0) |-> <<Line(n, 0 + i)>>]
        BY <3>3
      <3>5. \E m \in 0..Lines : /\ Printed(s) = FirstLines(n, m)
                                /\ bash'.left = [i \in 1..(Lines - m) |-> <<Line(n, m + i)>>]
        <4>1. 0 \in 0..Lines
          BY <3>3
        <4> QED
          BY <3>1, <3>2, <3>3, <3>4, <4>1
      <3> QED
        BY <1>1, <1>3, <1>6, <1>8, <1>10, <3>5 DEF LinesInOrder, FirstLines
    <2>2. CASE ~(n > 0 /\ sent[n] = "plain")
      BY <1>1, <1>3, <2>2 DEF LinesInOrder
    <2> QED
      BY <2>1, <2>2
  <1>13. PidInOrder(Stream)'
    <2>1. CASE n > 0 /\ sent[n] = "background"
      <3>1. PidUnknown(s)
        BY <1>1, <1>3, <1>4, <2>1 DEF PidInOrder
      <3>2. bash'.left = <<Marker(n)>>
        BY <1>6, <2>1 DEF Writes, Marker
      <3> QED
        BY <1>1, <1>3, <1>6, <1>8, <1>9, <1>10, <2>1, <3>1, <3>2 DEF PidInOrder, Marker
    <2>2. CASE ~(n > 0 /\ sent[n] = "background")
      BY <1>1, <1>3, <1>4, <1>9, <2>2 DEF PidInOrder
    <2> QED
      BY <2>1, <2>2
  <1>14. HeardOwn'
    BY <1>2, <1>8 DEF Orderly
  <1> QED
    BY <1>11, <1>12, <1>13, <1>14 DEF Orderly

\* The prompt comes when all of the command is printed.
LEMMA PromptOrderly ==
    ASSUME ShellType, Typed, Orderly(Stream), bash.st = "runs", bash.left = <<>>,
           Stream' = Stream \o <<Sentinel>>, bash' = Idle,
           UNCHANGED <<waiting, lastPid, data, sent, heard, input>>
    PROVE  Orderly(Stream)'
  <1>1. PICK s, n : s = Stream /\ n = Len(sent)
    OBVIOUS
  <1>2. PICK r : r = s \o <<Sentinel>> /\ r = Stream'
    BY <1>1
  <1>3. s \in Seq(Tokens) /\ Orderly(s) /\ n \in Nat /\ Lines \in Nat
    BY <1>1, ConcatProperties, NodeShellAssumption DEF Stream, ShellType
  <1>4. InOrder(s) /\ LinesInOrder(s) /\ PidInOrder(s) /\ HeardOwn
    BY <1>3 DEF Orderly
  <1>5. /\ DOMAIN s = 1..Len(s) /\ Len(s) \in Nat /\ DOMAIN r = 1..(Len(s) + 1)
        /\ \A j \in 1..Len(s) : r[j] = s[j]
        /\ r[Len(s) + 1] = Sentinel
    BY <1>2, <1>3, TokenType, OneMore
  <1>6. /\ Printed(Stream)' = Printed(r) /\ (Told(Stream)' <=> Told(r)) /\ (HeardOwn' <=> HeardOwn)
        /\ \A t : Aside(t)' <=> Aside(t)
    BY <1>2, ViewSame
  <1>7. (PidKnown(Stream)' <=> PidKnown(r)) /\ (PidUnknown(Stream)' <=> PidUnknown(r))
    BY <1>2, PidSame
  <1>8. waiting /\ input = <<>> /\ bash'.st # "runs" /\ Sentinel.k = "sentinel"
    BY <1>4, TokenType DEF InOrder, Idle
  <1>9. InOrder(Stream)'
    <2>1. Incomplete(data)' <=> Incomplete(data)
      BY DEF Incomplete, Has
    <2>2. \A j \in DOMAIN s : s[j].k # "sentinel"
      BY <1>4 DEF InOrder
    <2>3. \A j \in DOMAIN r : (j \in DOMAIN s /\ r[j] = s[j]) \/ (j = Len(s) + 1 /\ r[j] = Sentinel)
      BY <1>5
    <2>4. \A j \in DOMAIN r :
              Aside(r[j]) \/ (waiting /\ (r[j].k = "sentinel" \/ r[j].n = Len(sent)))
      BY <1>4, <1>8, <2>3 DEF InOrder
    <2>5. ASSUME NEW j \in DOMAIN r, r[j].k = "sentinel", NEW i \in DOMAIN r, i > j PROVE FALSE
      BY <1>5, <2>2, <2>3, <2>5
    <2>6. /\ waiting => Len(sent) > 0
          /\ data = <<>> \/ Incomplete(data)
      BY <1>4 DEF InOrder
    <2> QED
      BY <1>2, <1>6, <1>8, <2>1, <2>4, <2>5, <2>6 DEF InOrder
  <1>10. LinesInOrder(Stream)'
    <2>1. CASE n > 0 /\ sent[n] = "plain"
      <3>1. PICK m \in 0..Lines :
                /\ Printed(s) = FirstLines(n, m)
                /\ bash.left = [i \in 1..(Lines - m) |-> <<Line(n, m + i)>>]
        BY <1>1, <1>4, <2>1 DEF LinesInOrder
      <3>2. m = Lines
        <4>1. Lines - m \in Nat /\ DOMAIN bash.left = 1..(Lines - m)
          BY <1>3, <3>1
        <4>2. DOMAIN bash.left = {}
          OBVIOUS
        <4>3. Lines - m # 0 => 1 \in 1..(Lines - m)
          BY <4>1
        <4> QED
          BY <1>3, <4>1, <4>2, <4>3
      <3>3. Sentinel \notin LinesOf(n)
        BY <1>8 DEF LinesOf, Line, Token
      <3>4. Printed(r) = FirstLines(n, Lines)
        BY <1>1, <1>2, <1>3, <3>1, <3>2, <3>3, TokenType, PrintedMore
      <3> QED
        BY <1>1, <1>6, <1>8, <3>4 DEF LinesInOrder, FirstLines
    <2>2. CASE ~(n > 0 /\ sent[n] = "plain")
      BY <1>1, <2>2 DEF LinesInOrder
    <2> QED
      BY <2>1, <2>2
  <1>11. PidInOrder(Stream)'
    <2>1. (PidKnown(s) => PidKnown(r)) /\ (PidUnknown(s) => PidUnknown(r))
      BY <1>2, <1>3, <1>8, TokenType, MarkerStays
    <2>2. CASE n > 0 /\ sent[n] = "background"
      <3>1. PidKnown(s)
        BY <1>1, <1>4, <2>2 DEF PidInOrder
      <3> QED
        BY <1>1, <1>7, <1>8, <2>1, <2>2, <3>1 DEF PidInOrder
    <2>3. CASE ~(n > 0 /\ sent[n] = "background")
      BY <1>1, <1>4, <1>7, <2>1, <2>3 DEF PidInOrder
    <2> QED
      BY <2>2, <2>3
  <1> QED
    BY <1>4, <1>6, <1>9, <1>10, <1>11 DEF Orderly

\* What two sequences have.
LEMMA HasConcat ==
    ASSUME NEW a \in Seq(Tokens), NEW b \in Seq(Tokens)
    PROVE  /\ a \o b \in Seq(Tokens) /\ DOMAIN a = 1..Len(a) /\ Len(a) \in Nat
           /\ DOMAIN b = 1..Len(b) /\ Len(b) \in Nat
           /\ DOMAIN (a \o b) = 1..(Len(a) + Len(b))
           /\ \A j \in 1..Len(a) : (a \o b)[j] = a[j]
           /\ \A j \in 1..Len(b) : (a \o b)[Len(a) + j] = b[j]
           /\ \A j \in 1..(Len(a) + Len(b)) :
                 j \in 1..Len(a) \/ (j - Len(a) \in 1..Len(b) /\ (a \o b)[j] = b[j - Len(a)])
           /\ \A k : Has(a \o b, k) <=> Has(a, k) \/ Has(b, k)
  <1>1. PICK r, m, n : r = a \o b /\ m = Len(a) /\ n = Len(b)
    OBVIOUS
  <1>2. /\ r \in Seq(Tokens) /\ m \in Nat /\ n \in Nat /\ DOMAIN r = 1..(m + n)
        /\ DOMAIN a = 1..m /\ DOMAIN b = 1..n
        /\ \A j \in 1..m : r[j] = a[j]
        /\ \A j \in 1..n : r[m + j] = b[j]
    BY <1>1
  <1>3. ASSUME NEW j \in 1..(m + n), j \notin 1..m PROVE j - m \in 1..n /\ r[j] = b[j - m]
    <2>1. PICK i : i = j - m
      OBVIOUS
    <2>2. i \in 1..n /\ m + i = j
      BY <1>2, <1>3, <2>1
    <2> QED
      BY <1>2, <2>1, <2>2
  <1>4. ASSUME NEW k PROVE Has(r, k) <=> Has(a, k) \/ Has(b, k)
    <2>1. Has(r, k) => Has(a, k) \/ Has(b, k)
      BY <1>2, <1>3, ZenonT(60) DEF Has
    <2>2. Has(a, k) => Has(r, k)
      <3> SUFFICES ASSUME NEW j \in 1..m, a[j].k = k PROVE Has(r, k)
        BY <1>2 DEF Has
      <3>1. j \in DOMAIN r /\ r[j].k = k
        BY <1>2
      <3> QED
        BY <3>1 DEF Has
    <2>3. Has(b, k) => Has(r, k)
      <3> SUFFICES ASSUME NEW j \in 1..n, b[j].k = k PROVE Has(r, k)
        BY <1>2 DEF Has
      <3>1. m + j \in DOMAIN r /\ r[m + j].k = k
        BY <1>2
      <3> QED
        BY <3>1 DEF Has
    <2> QED
      BY <2>1, <2>2, <2>3
  <1> QED
    BY <1>1, <1>2, <1>3, <1>4

\* A line more, in order.
LEMMA FirstLinesMore ==
    ASSUME NEW n, NEW m \in Nat
    PROVE  FirstLines(n, m + 1) = Append(FirstLines(n, m), Line(n, m + 1))
  <1>1. PICK C : C = {Line(n, i) : i \in Nat}
    OBVIOUS
  <1>2. FirstLines(n, m) \in Seq(C) /\ FirstLines(n, m + 1) \in Seq(C)
    <2>1. \A l \in Nat : [i \in 1..l |-> Line(n, i)] \in Seq(C)
      BY <1>1
    <2> QED
      BY <2>1 DEF FirstLines
  <1>3. PICK a, t : a = FirstLines(n, m) /\ t = Line(n, m + 1)
    OBVIOUS
  <1>4. t \in C
    BY <1>1, <1>3
  <1>5. Len(a) = m /\ Len(FirstLines(n, m + 1)) = m + 1
    BY <1>3 DEF FirstLines
  <1>6. /\ Append(a, t) \in Seq(C) /\ Len(Append(a, t)) = m + 1
        /\ \A j \in 1..m : Append(a, t)[j] = a[j]
        /\ Append(a, t)[m + 1] = t
    BY <1>2, <1>3, <1>4, <1>5, AppendProperties
  <1>7. ASSUME NEW j \in 1..(m + 1) PROVE FirstLines(n, m + 1)[j] = Append(a, t)[j]
    <2>1. FirstLines(n, m + 1)[j] = Line(n, j)
      BY DEF FirstLines
    <2>2. CASE j \in 1..m
      <3>1. a[j] = Line(n, j)
        BY <1>3, <2>2 DEF FirstLines
      <3> QED
        BY <1>6, <2>1, <2>2, <3>1
    <2>3. CASE j = m + 1
      <3>1. Append(a, t)[j] = t /\ t = Line(n, j)
        BY <1>3, <1>6, <2>3
      <3> QED
        BY <2>1, <3>1
    <2>4. j \in 1..m \/ j = m + 1
      OBVIOUS
    <2> QED
      BY <2>2, <2>3, <2>4
  <1> QED
    BY <1>2, <1>3, <1>5, <1>6, <1>7, SeqEqual

\* A line less to write.
LEMMA LinesLeft ==
    ASSUME NEW C, NEW left \in Seq(C), NEW n, NEW m \in Nat, Lines \in Nat, m < Lines,
           left = [i \in 1..(Lines - m) |-> <<Line(n, m + i)>>]
    PROVE  Tail(left) = [i \in 1..(Lines - (m + 1)) |-> <<Line(n, (m + 1) + i)>>]
  <1>1. PICK l \in Nat : l = Lines - (m + 1) /\ l + 1 = Lines - m
    OBVIOUS
  <1>2. PICK b : b = [i \in 1..l |-> <<Line(n, (m + 1) + i)>>]
    OBVIOUS
  <1>3. Len(left) = l + 1
    <2>1. PICK k \in Nat : k = l + 1 /\ k = Lines - m
      BY <1>1
    <2>2. Len(left) \in Nat /\ DOMAIN left = 1..Len(left)
      BY LenProperties
    <2>3. DOMAIN left = 1..k
      BY <2>1
    <2> QED
      BY <2>1, <2>2, <2>3
  <1>4. PICK t : t = Tail(left)
    OBVIOUS
  <1>5. t \in Seq(C) /\ Len(t) = l /\ \A i \in 1..l : t[i] = left[i + 1]
    BY <1>3, <1>4
  <1>6. ASSUME NEW i \in 1..l PROVE t[i] = b[i]
    <2>1. PICK k : k = i + 1
      OBVIOUS
    <2>2. k \in 1..(Lines - m) /\ m + k = (m + 1) + i
      BY <1>1, <2>1
    <2>3. left[k] = <<Line(n, m + k)>>
      BY <2>2
    <2>4. b[i] = <<Line(n, (m + 1) + i)>>
      BY <1>2
    <2> QED
      BY <1>5, <2>1, <2>2, <2>3, <2>4
  <1>7. t = [i \in 1..l |-> t[i]] /\ b = [i \in 1..l |-> b[i]]
    BY <1>2, <1>5
  <1>8. t = b
    BY <1>6, <1>7
  <1> QED
    BY <1>1, <1>2, <1>4, <1>8

\* A part of its output is where it belongs.
LEMMA PieceOrderly ==
    ASSUME ShellType, Typed, Orderly(Stream), bash.st = "runs", bash.left # <<>>,
           Stream' = Stream \o Head(bash.left),
           bash' = IF sent[bash.n] = "endless" THEN bash ELSE [bash EXCEPT !.left = Tail(@)],
           UNCHANGED <<waiting, lastPid, data, sent, heard, input>>
    PROVE  Orderly(Stream)'
  <1>1. PICK s, n : s = Stream /\ n = Len(sent)
    OBVIOUS
  <1>2. PICK left, h : left = bash.left /\ h = Head(left)
    OBVIOUS
  <1>3. s \in Seq(Tokens) /\ Orderly(s) /\ n \in Nat /\ Lines \in Nat
    BY <1>1, ConcatProperties, NodeShellAssumption DEF Stream, ShellType
  <1>4. InOrder(s) /\ LinesInOrder(s) /\ PidInOrder(s) /\ HeardOwn
    BY <1>3 DEF Orderly
  <1>5. waiting /\ input = <<>> /\ bash.n = n /\ n > 0 /\ \A j \in DOMAIN s : s[j].k # "sentinel"
    BY <1>1, <1>4 DEF InOrder
  <1>6. left \in Seq(Seq(Outputs)) /\ left # <<>> /\ Len(left) \in Nat /\ Len(left) > 0
    BY <1>2 DEF ShellType
  <1>7. h = left[1] /\ 1 \in DOMAIN left /\ h \in Seq(Outputs)
    BY <1>2, <1>6
  <1>8. /\ \A j \in DOMAIN h : h[j].n = n /\ h[j].k # "sentinel"
        /\ sent[n] # "background" => \A j \in DOMAIN h : h[j].k = "line"
    <2>1. \A j \in DOMAIN h : h[j].k # "sentinel"
      BY <1>7 DEF Outputs
    <2> QED
      BY <1>2, <1>5, <1>7, <2>1 DEF Typed
  <1>9. h \in Seq(Tokens)
    BY <1>7, OutputsCount
  <1>10. PICK r : r = s \o h /\ r = Stream'
    BY <1>1, <1>2
  <1>11. /\ DOMAIN s = 1..Len(s) /\ Len(s) \in Nat /\ DOMAIN h = 1..Len(h) /\ Len(h) \in Nat
         /\ DOMAIN r = 1..(Len(s) + Len(h))
         /\ \A j \in 1..Len(s) : r[j] = s[j]
         /\ \A j \in 1..Len(h) : r[Len(s) + j] = h[j]
         /\ \A j \in 1..(Len(s) + Len(h)) :
               j \in 1..Len(s) \/ (j - Len(s) \in 1..Len(h) /\ r[j] = h[j - Len(s)])
         /\ \A k : Has(r, k) <=> Has(s, k) \/ Has(h, k)
    <2>1. /\ s \o h \in Seq(Tokens) /\ DOMAIN s = 1..Len(s) /\ Len(s) \in Nat
          /\ DOMAIN h = 1..Len(h) /\ Len(h) \in Nat
          /\ DOMAIN (s \o h) = 1..(Len(s) + Len(h))
          /\ \A j \in 1..Len(s) : (s \o h)[j] = s[j]
          /\ \A j \in 1..Len(h) : (s \o h)[Len(s) + j] = h[j]
          /\ \A j \in 1..(Len(s) + Len(h)) :
                j \in 1..Len(s) \/ (j - Len(s) \in 1..Len(h) /\ (s \o h)[j] = h[j - Len(s)])
          /\ \A k : Has(s \o h, k) <=> Has(s, k) \/ Has(h, k)
      BY <1>3, <1>9, HasConcat
    <2> QED
      BY <1>10, <2>1
  <1>12. /\ Printed(Stream)' = Printed(r) /\ (Told(Stream)' <=> Told(r)) /\ (HeardOwn' <=> HeardOwn)
         /\ \A t : Aside(t)' <=> Aside(t)
    BY <1>10, ViewSame
  <1>13. (PidKnown(Stream)' <=> PidKnown(r)) /\ (PidUnknown(Stream)' <=> PidUnknown(r))
    BY <1>10, PidSame
  <1>14. bash'.st = "runs" /\ bash'.n = n /\ (sent[n] # "endless" => bash'.left = Tail(left))
    BY <1>2, <1>5 DEF ShellType
  <1>15. \A j \in DOMAIN r : r[j].k # "sentinel" /\ (Aside(r[j]) \/ r[j].n = n)
    <2>1. ASSUME NEW j \in DOMAIN r PROVE r[j].k # "sentinel" /\ (Aside(r[j]) \/ r[j].n = n)
      <3>1. CASE j \in 1..Len(s)
        BY <1>1, <1>4, <1>5, <1>11, <3>1 DEF InOrder
      <3>2. CASE j - Len(s) \in 1..Len(h) /\ r[j] = h[j - Len(s)]
        BY <1>8, <1>11, <3>2
      <3> QED
        BY <1>11, <3>1, <3>2
    <2> QED
      BY <2>1
  <1>16. ~Told(r)
    BY <1>5, <1>15 DEF Told, Has
  <1>17. InOrder(Stream)'
    <2>1. Incomplete(data)' <=> Incomplete(data)
      BY DEF Incomplete, Has
    <2>2. data = <<>> \/ Incomplete(data)
      BY <1>4 DEF InOrder
    <2> QED
      BY <1>1, <1>5, <1>10, <1>12, <1>14, <1>15, <2>1, <2>2 DEF InOrder
  <1>18. LinesInOrder(Stream)'
    <2>1. CASE sent[n] = "plain"
      <3>1. PICK m \in 0..Lines :
                /\ Printed(s) = FirstLines(n, m)
                /\ left = [i \in 1..(Lines - m) |-> <<Line(n, m + i)>>]
        BY <1>1, <1>2, <1>4, <1>5, <2>1 DEF LinesInOrder
      <3>2. m < Lines /\ m + 1 \in 0..Lines /\ m \in Nat /\ Len(left) = Lines - m
        BY <1>3, <1>6, <3>1
      <3>3. h = <<Line(n, m + 1)>>
        BY <1>7, <3>1, <3>2
      <3>4. PICK t : t = Line(n, m + 1)
        OBVIOUS
      <3>5. t \in Tokens /\ t \in LinesOf(n)
        BY <1>3, <3>2, <3>4, TokenType DEF LinesOf
      <3>6. Printed(r) = Append(Printed(s), t)
        <4>1. r = s \o <<t>> /\ t \in LinesOf(Len(sent))
          BY <1>1, <1>10, <3>3, <3>4, <3>5
        <4>2. Printed(s \o <<t>>) = Append(Printed(s), t)
          BY <1>3, <3>5, <4>1, PrintedMore
        <4> QED
          BY <4>1, <4>2
      <3>7. Printed(r) = FirstLines(n, m + 1)
        BY <3>1, <3>2, <3>4, <3>6, FirstLinesMore
      <3>8. Tail(left) = [i \in 1..(Lines - (m + 1)) |-> <<Line(n, (m + 1) + i)>>]
        <4>1. left \in Seq(Seq(Outputs)) /\ m \in Nat /\ Lines \in Nat /\ m < Lines
          BY <1>3, <1>6, <3>2
        <4> QED
          BY <3>1, <4>1, LinesLeft, SMTT(40)
      <3>9. PICK l : l = m + 1
        OBVIOUS
      <3>10. /\ l \in 0..Lines /\ Printed(r) = FirstLines(n, l)
             /\ bash'.left = [i \in 1..(Lines - l) |-> <<Line(n, l + i)>>]
        <4>1. bash'.left = Tail(left)
          BY <1>14, <2>1
        <4> QED
          BY <3>2, <3>7, <3>8, <3>9, <4>1
      <3>11. /\ (input # <<>>)' <=> FALSE
             /\ Printed(Stream)' = Printed(r) /\ ~Told(Stream)' /\ Len(sent)' = n
        BY <1>1, <1>5, <1>12, <1>16
      <3>12. \E i \in 0..Lines :
                 /\ Printed(Stream)' = FirstLines(n, i)
                 /\ bash'.left = [j \in 1..(Lines - i) |-> <<Line(n, i + j)>>]
        BY <3>10, <3>11
      <3>13. \A i : FirstLines(Len(sent), i)' = FirstLines(n, i)
        BY <3>11 DEF FirstLines
      <3> QED
        BY <3>11, <3>12, <3>13 DEF LinesInOrder
    <2>2. CASE sent[n] # "plain"
      BY <1>1, <2>2 DEF LinesInOrder
    <2> QED
      BY <2>1, <2>2
  <1>19. PidInOrder(Stream)'
    <2>1. CASE sent[n] = "background"
      <3>1. PidUnknown(s) /\ left = <<Marker(n)>>
        BY <1>1, <1>2, <1>4, <1>5, <1>6, <2>1 DEF PidInOrder
      <3>2. h = Marker(n) /\ bash'.left = <<>>
        BY <1>2, <1>14, <2>1, <3>1
      <3>3. /\ Len(h) = 2 /\ h[1].k = "mark" /\ h[2].k = "pid" /\ h[2].n = n
        BY <3>2 DEF Marker, Token
      <3>4. PICK q : q = Len(s) + 1
        OBVIOUS
      <3>5. /\ q \in DOMAIN r /\ q + 1 \in DOMAIN r /\ r[q] = h[1] /\ r[q + 1] = h[2]
            /\ \A j \in DOMAIN r : (j \in DOMAIN s /\ r[j] = s[j]) \/ j = q \/ j = q + 1
        <4>1. Len(s) + 2 = q + 1 /\ 1 \in 1..Len(h) /\ 2 \in 1..Len(h) /\ Len(s) + Len(h) = q + 1
          BY <1>11, <3>3, <3>4
        <4>2. r[Len(s) + 1] = h[1] /\ r[Len(s) + 2] = h[2]
          BY <1>11, <4>1
        <4>3. \A j \in 1..(q + 1) : j \in 1..Len(s) \/ j = q \/ j = q + 1
          <5>1. PICK l \in Nat : l = Len(s)
            BY <1>11
          <5>2. q = l + 1
            BY <3>4, <5>1
          <5>3. \A j \in 1..(q + 1) : j \in 1..l \/ j = q \/ j = q + 1
            BY <5>2
          <5> QED
            BY <5>1, <5>3
        <4> QED
          BY <1>11, <3>4, <4>1, <4>2, <4>3
      <3>6. \A j \in DOMAIN s : s[j].k # "mark" /\ s[j].k # "pid"
        BY <3>1 DEF PidUnknown, Unmarked, Has
      <3>7. q # q + 1
        BY <1>11, <3>4
      <3>8. MarkedAt(r, q)
        BY <1>1, <3>3, <3>5, <3>6, <3>7 DEF MarkedAt
      <3>9. PidKnown(r)
        BY <3>1, <3>5, <3>8 DEF PidKnown, PidUnknown
      <3> QED
        BY <1>1, <1>5, <1>12, <1>13, <1>16, <2>1, <3>2, <3>9 DEF PidInOrder
    <2>2. CASE sent[n] # "background"
      <3>1. PidUnknown(s)
        BY <1>1, <1>4, <2>2 DEF PidInOrder
      <3>2. ~Has(h, "mark") /\ ~Has(h, "pid")
        BY <1>8, <2>2 DEF Has
      <3>3. PidUnknown(r)
        BY <1>11, <3>1, <3>2 DEF PidUnknown, Unmarked
      <3> QED
        BY <1>1, <1>13, <2>2, <3>3 DEF PidInOrder
    <2> QED
      BY <2>1, <2>2
  <1> QED
    BY <1>4, <1>12, <1>17, <1>18, <1>19 DEF Orderly

\* What monitor() returned and what is left to read are the lines that were there before.
LEMMA HeardAndUnread ==
    ASSUME ShellType, Typed, NEW d \in Seq(Tokens), NEW r \in Seq(Tokens),
           Stream = d \o r, Stream' = r, heard' = heard \o Finite(d), sent' = sent,
           Len(sent) > 0, sent[Len(sent)] = "plain"
    PROVE  Printed(Stream)' = Printed(Stream)
  <1>1. PICK n, S : n = Len(sent) /\ S = LinesOf(n)
    OBVIOUS
  <1>2. PICK T : /\ T = UNION {LinesOf(m) : m \in {m \in DOMAIN sent : sent[m] # "endless"}}
                 /\ Finite(d) = Kept(d, T)
    BY DEF Finite
  <1>3. S \subseteq T
    <2>1. n \in DOMAIN sent /\ sent[n] # "endless"
      BY <1>1 DEF ShellType
    <2> QED
      BY <1>1, <1>2, <2>1
  <1>4. PICK h, f : h = heard /\ f = Finite(d)
    OBVIOUS
  <1>5. h \in Seq(Tokens) /\ f \in Seq(Tokens)
    <2>1. Kept(d, T) \in Seq(Tokens \cap T)
      BY KeptRuns
    <2>2. Tokens \cap T \subseteq Tokens
      OBVIOUS
    <2>3. f \in Seq(Tokens)
      BY <1>2, <1>4, <2>1, <2>2, LargerSet
    <2> QED
      BY <1>4, <2>3 DEF Typed
  <1>6. Kept(h \o f, S) = Kept(h, S) \o Kept(f, S)
    BY <1>5, KeptConcat
  <1>7. Kept(f, S) = Kept(d, S)
    BY <1>2, <1>3, <1>4, KeptKept
  <1>8. Kept(d \o r, S) = Kept(d, S) \o Kept(r, S)
    BY KeptConcat
  <1>9. PICK a, b, c, C : a = Kept(h, S) /\ b = Kept(d, S) /\ c = Kept(r, S) /\ C = Tokens \cap S
    OBVIOUS
  <1>10. a \in Seq(C) /\ b \in Seq(C) /\ c \in Seq(C)
    BY <1>5, <1>9, KeptRuns
  <1>11. a \o (b \o c) = (a \o b) \o c
    <2>1. \A x, y, z \in Seq(C) : x \o (y \o z) = (x \o y) \o z
      BY Associative, SMTT(40)
    <2> QED
      BY <1>10, <2>1
  <1>12. Printed(Stream) = a \o (b \o c)
    BY <1>1, <1>4, <1>8, <1>9 DEF Printed
  <1>13. Printed(Stream)' = (a \o b) \o c
    <2>1. heard' = h \o f /\ LinesOf(Len(sent))' = S
      BY <1>1, <1>4 DEF LinesOf
    <2> QED
      BY <1>6, <1>7, <1>9, <2>1 DEF Printed
  <1> QED
    BY <1>11, <1>12, <1>13

\* A place behind the first part of a sequence is one in the rest.
LEMMA PlaceInRest ==
    ASSUME NEW l \in Nat, NEW k \in Nat, NEW q \in Nat, q + 1 \in 1..(l + k), q > l
    PROVE  /\ q - l \in 1..k /\ (q - l) + 1 \in 1..k
           /\ l + (q - l) = q /\ l + ((q - l) + 1) = q + 1
  OBVIOUS

\* A whole marker is read, or none of it.
LEMMA MarkerRead ==
    ASSUME ShellType, NEW d \in Seq(Tokens), NEW r \in Seq(Tokens),
           Stream = d \o r, Stream' = r, ~Incomplete(d), sent' = sent,
           lastPid' = IF Has(d, "mark") THEN PidIn(d) ELSE lastPid
    PROVE  /\ PidKnown(Stream) => PidKnown(Stream)'
           /\ PidUnknown(Stream) => PidUnknown(Stream)'
  <1>1. PICK s, n, l : s = Stream /\ n = Len(sent) /\ l = Len(d)
    OBVIOUS
  <1>2. /\ s = d \o r
        /\ DOMAIN d = 1..l /\ l \in Nat /\ DOMAIN r = 1..Len(r) /\ Len(r) \in Nat
        /\ DOMAIN s = 1..(l + Len(r))
        /\ \A j \in 1..l : s[j] = d[j]
        /\ \A j \in 1..Len(r) : s[l + j] = r[j]
        /\ \A k : Has(s, k) <=> Has(d, k) \/ Has(r, k)
    <2>1. /\ DOMAIN d = 1..Len(d) /\ Len(d) \in Nat
          /\ DOMAIN r = 1..Len(r) /\ Len(r) \in Nat
          /\ DOMAIN (d \o r) = 1..(Len(d) + Len(r))
          /\ \A j \in 1..Len(d) : (d \o r)[j] = d[j]
          /\ \A j \in 1..Len(r) : (d \o r)[Len(d) + j] = r[j]
          /\ \A k : Has(d \o r, k) <=> Has(d, k) \/ Has(r, k)
      BY HasConcat
    <2> QED
      BY <1>1, <2>1
  <1>3. CASE Unmarked(s)
    <2>1. Unmarked(r) /\ ~Has(d, "mark")
      BY <1>2, <1>3 DEF Unmarked
    <2>2. lastPid' = lastPid /\ Unmarked(Stream)'
      BY <2>1 DEF Unmarked, Has
    <2>3. PidUnknown(Stream) => PidUnknown(Stream)'
      BY <2>2 DEF PidUnknown
    <2>4. PidKnown(Stream) => lastPid = n
      <3>1. \A q \in DOMAIN s : ~MarkedAt(s, q)
        BY <1>3 DEF MarkedAt, Unmarked, Has
      <3> QED
        BY <1>1, <3>1 DEF PidKnown
    <2>5. lastPid = n => PidKnown(Stream)'
      BY <1>1, <2>2 DEF PidKnown
    <2> QED
      BY <2>3, <2>4, <2>5
  <1>4. ASSUME NEW q \in DOMAIN s, MarkedAt(s, q), lastPid = 0
        PROVE  PidKnown(Stream)' /\ ~Unmarked(s)
    <2>1. /\ q \in Nat /\ q + 1 \in DOMAIN s /\ s[q].k = "mark"
          /\ s[q + 1].k = "pid" /\ s[q + 1].n = n
          /\ \A j \in DOMAIN s : (s[j].k = "mark" => j = q) /\ (s[j].k = "pid" => j = q + 1)
      BY <1>1, <1>2, <1>4 DEF MarkedAt
    <2>2. ~Unmarked(s)
      BY <2>1 DEF Unmarked, Has
    <2>3. CASE q + 1 <= l
      <3>1. q \in DOMAIN d /\ q + 1 \in DOMAIN d /\ d[q].k = "mark" /\ d[q + 1].k = "pid"
        BY <1>2, <2>1, <2>3
      <3>2. Has(d, "mark") /\ Has(d, "pid")
        BY <3>1 DEF Has
      <3>3. PICK j \in DOMAIN d : d[j].k = "pid" /\ PidIn(d) = d[j].n
        BY <3>2, PidIsThere
      <3>4. j \in DOMAIN s /\ s[j] = d[j]
        BY <1>2
      <3>5. PidIn(d) = n
        BY <2>1, <3>3, <3>4
      <3>6. \A i \in DOMAIN r : r[i].k # "mark" /\ r[i].k # "pid"
        <4> SUFFICES ASSUME NEW i \in DOMAIN r PROVE r[i].k # "mark" /\ r[i].k # "pid"
          OBVIOUS
        <4>1. i \in 1..Len(r) /\ l + i \in DOMAIN s /\ s[l + i] = r[i]
          BY <1>2
        <4>2. l + i # q /\ l + i # q + 1
          BY <1>2, <2>1, <2>3
        <4> QED
          BY <2>1, <4>1, <4>2
      <3>7. Unmarked(Stream)' /\ lastPid' = n /\ Len(sent)' = n
        BY <1>1, <3>2, <3>5, <3>6 DEF Unmarked, Has
      <3> QED
        BY <2>2, <3>7 DEF PidKnown
    <2>4. CASE q = l
      <3>1. Has(d, "mark")
        <4>1. q \in DOMAIN d /\ d[q].k = "mark"
          BY <1>2, <2>1, <2>4
        <4> QED
          BY <4>1 DEF Has
      <3>2. PICK j \in DOMAIN d : d[j].k = "pid"
        BY <3>1 DEF Incomplete, Has
      <3>3. j \in DOMAIN s /\ s[j].k = "pid" /\ j # q + 1
        BY <1>2, <2>4, <3>2
      <3> QED
        BY <2>1, <3>3
    <2>5. CASE q > l
      <3>1. \A j \in DOMAIN d : d[j].k # "mark"
        <4> SUFFICES ASSUME NEW j \in DOMAIN d, d[j].k = "mark" PROVE FALSE
          OBVIOUS
        <4>1. j \in DOMAIN s /\ s[j].k = "mark" /\ j # q
          BY <1>2, <2>5
        <4> QED
          BY <2>1, <4>1
      <3>2. lastPid' = 0
        BY <1>4, <3>1 DEF Has
      <3>3. PICK p : p = q - l
        OBVIOUS
      <3>4. p \in 1..Len(r) /\ p + 1 \in 1..Len(r) /\ l + p = q /\ l + (p + 1) = q + 1
        <4>1. PICK k \in Nat : k = Len(r)
          BY <1>2
        <4>2. l \in Nat /\ q \in Nat /\ q + 1 \in 1..(l + k)
          BY <1>2, <2>1, <4>1
        <4>3. p \in 1..k /\ p + 1 \in 1..k /\ l + p = q /\ l + (p + 1) = q + 1
          BY <2>5, <3>3, <4>2, PlaceInRest
        <4> QED
          BY <4>1, <4>3
      <3>5. r[p] = s[q] /\ r[p + 1] = s[q + 1]
        BY <1>2, <3>4
      <3>6. ASSUME NEW j \in DOMAIN r
            PROVE  (r[j].k = "mark" => j = p) /\ (r[j].k = "pid" => j = p + 1)
        <4>1. j \in 1..Len(r) /\ l + j \in DOMAIN s /\ s[l + j] = r[j]
          BY <1>2
        <4>2. (r[j].k = "mark" => l + j = q) /\ (r[j].k = "pid" => l + j = q + 1)
          BY <2>1, <4>1
        <4> QED
          BY <1>2, <3>4, <4>1, <4>2
      <3>7. MarkedAt(r, p)
        BY <1>1, <1>2, <2>1, <3>4, <3>5, <3>6 DEF MarkedAt
      <3>8. MarkedAt(Stream, p)' /\ p \in DOMAIN r
        BY <1>2, <3>4, <3>7 DEF MarkedAt
      <3> QED
        BY <2>2, <3>2, <3>8 DEF PidKnown
    <2> QED
      BY <1>2, <2>1, <2>3, <2>4, <2>5
  <1> QED
    BY <1>1, <1>3, <1>4 DEF PidKnown, PidUnknown

\* monitor() keeps the order.
LEMMA ReadOrderly ==
    ASSUME ShellType, Typed, Orderly(Stream), Monitor \/ ReadMarker
    PROVE  Orderly(Stream)'
  <1>1. /\ data \in Seq(Tokens) /\ channel \in Seq(Tokens)
        /\ UNCHANGED <<sent, lines, readbuf, input, bash, background, interrupts>>
    BY ReadDoes DEF ShellType
  <1>2. PICK d \in Seq(Tokens), r \in Seq(Tokens) :
            data \o channel = d \o r /\ channel' = r /\ Reports(d)
    BY <1>1, ReadDoes
  <1>3. Stream = d \o r
    BY <1>2 DEF Stream
  <1>4. CASE Incomplete(d)
    <2>1. data' = d /\ UNCHANGED <<waiting, lastPid, heard>>
      BY <1>2, <1>4 DEF Reports
    <2>2. Stream' = Stream
      BY <1>2, <1>3, <2>1 DEF Stream
    <2>3. UNCHANGED <<waiting, lastPid, sent, heard, input>> /\ bash' = bash
      BY <1>1, <2>1
    <2>4. Incomplete(data')
      BY <1>4, <2>1
    <2> QED
      BY <2>2, <2>3, <2>4, OrderlySame
  <1>5. CASE ~Incomplete(d)
    <2>1. /\ data' = <<>> /\ waiting' = (waiting /\ ~Has(d, "sentinel"))
          /\ lastPid' = IF Has(d, "mark") THEN PidIn(d) ELSE lastPid
          /\ heard' = heard \o Finite(d) /\ sent' = sent
      BY <1>1, <1>2, <1>5 DEF Reports, FindsSentinel
    <2>2. Stream' = r
      <3>1. <<>> \o r = r
        BY ConcatEmptySeq
      <3> QED
        BY <1>2, <2>1, <3>1 DEF Stream
    <2>3. PICK s, n : s = Stream /\ s = d \o r /\ n = Len(sent)
      BY <1>3
    <2>4. /\ DOMAIN d = 1..Len(d) /\ Len(d) \in Nat /\ DOMAIN r = 1..Len(r) /\ Len(r) \in Nat
          /\ DOMAIN s = 1..(Len(d) + Len(r))
          /\ \A j \in 1..Len(d) : s[j] = d[j]
          /\ \A j \in 1..Len(r) : s[Len(d) + j] = r[j]
          /\ \A k : Has(s, k) <=> Has(d, k) \/ Has(r, k)
      <3>1. /\ DOMAIN d = 1..Len(d) /\ Len(d) \in Nat
            /\ DOMAIN r = 1..Len(r) /\ Len(r) \in Nat
            /\ DOMAIN (d \o r) = 1..(Len(d) + Len(r))
            /\ \A j \in 1..Len(d) : (d \o r)[j] = d[j]
            /\ \A j \in 1..Len(r) : (d \o r)[Len(d) + j] = r[j]
            /\ \A k : Has(d \o r, k) <=> Has(d, k) \/ Has(r, k)
        BY HasConcat
      <3> QED
        BY <2>3, <3>1
    <2>5. InOrder(s) /\ LinesInOrder(s) /\ PidInOrder(s) /\ HeardOwn /\ waiting \in BOOLEAN
      BY <2>3 DEF Orderly, ShellType
    <2>6. \A t : Aside(t)' <=> Aside(t)
      BY <2>1 DEF Aside
    <2>7. Has(d, "sentinel") => \A j \in DOMAIN r : Aside(r[j])
      <3> SUFFICES ASSUME NEW i \in DOMAIN d, d[i].k = "sentinel", NEW j \in DOMAIN r
                   PROVE  Aside(r[j])
        BY DEF Has
      <3>1. i \in DOMAIN s /\ s[i].k = "sentinel"
        BY <2>4
      <3>2. Len(d) + j \in DOMAIN s /\ Len(d) + j > i /\ s[Len(d) + j] = r[j]
        BY <2>4
      <3> QED
        BY <2>5, <3>1, <3>2 DEF InOrder
    <2>8. ASSUME NEW j \in DOMAIN r
          PROVE  /\ Aside(r[j]) \/ (waiting' /\ (r[j].k = "sentinel" \/ r[j].n = n))
                 /\ input # <<>> => Aside(r[j])
                 /\ r[j].k = "sentinel" =>
                       /\ input = <<>> /\ bash.st # "runs"
                       /\ \A i \in DOMAIN r : i > j => Aside(r[i])
      <3>1. Len(d) + j \in DOMAIN s /\ s[Len(d) + j] = r[j]
        BY <2>4
      <3>2. Aside(r[j]) \/ (waiting /\ (r[j].k = "sentinel" \/ r[j].n = n))
        BY <2>3, <2>5, <3>1 DEF InOrder
      <3>3. input # <<>> => Aside(r[j])
        BY <2>5, <3>1 DEF InOrder
      <3>4. r[j].k = "sentinel" =>
                /\ input = <<>> /\ bash.st # "runs"
                /\ \A i \in DOMAIN r : i > j => Aside(r[i])
        <4>1. \A i \in DOMAIN r : Len(d) + i \in DOMAIN s /\ s[Len(d) + i] = r[i]
                                  /\ (i > j => Len(d) + i > Len(d) + j)
          BY <2>4
        <4> QED
          BY <2>5, <3>1, <4>1 DEF InOrder
      <3> QED
        BY <2>1, <2>7, <3>2, <3>3, <3>4
    <2>9. Has(d, "sentinel") => input = <<>> /\ bash.st # "runs"
      <3> SUFFICES ASSUME NEW i \in DOMAIN d, d[i].k = "sentinel"
                   PROVE  input = <<>> /\ bash.st # "runs"
        BY DEF Has
      <3>1. i \in DOMAIN s /\ s[i].k = "sentinel"
        BY <2>4
      <3> QED
        BY <2>5, <3>1 DEF InOrder
    <2>10. InOrder(Stream)'
      <3>1. /\ input # <<>> => waiting /\ input = <<n>> /\ bash.st # "runs"
            /\ bash.st = "runs" => waiting /\ bash.n = n
            /\ waiting => n > 0
        BY <2>3, <2>5 DEF InOrder
      <3> QED
        BY <1>1, <2>1, <2>2, <2>3, <2>6, <2>8, <2>9, <3>1 DEF InOrder
    <2>11. Told(Stream)' <=> Told(s)
      <3>1. Has(r, "sentinel")' <=> Has(r, "sentinel")
        BY DEF Has
      <3>2. Told(Stream)' <=> Has(r, "sentinel") \/ ~waiting'
        BY <2>2 DEF Told, Has
      <3> QED
        BY <2>1, <2>4, <2>5, <3>2 DEF Told
    <2>12. LinesInOrder(Stream)'
      <3>1. CASE n > 0 /\ sent[n] = "plain"
        <4>1. Printed(Stream)' = Printed(s)
          BY <1>3, <2>1, <2>2, <2>3, <3>1, HeardAndUnread
        <4> QED
          BY <1>1, <2>3, <2>5, <2>11, <3>1, <4>1 DEF LinesInOrder, FirstLines
      <3>2. CASE ~(n > 0 /\ sent[n] = "plain")
        BY <2>1, <2>3, <3>2 DEF LinesInOrder
      <3> QED
        BY <3>1, <3>2
    <2>13. PidInOrder(Stream)'
      <3>1. (PidKnown(s) => PidKnown(Stream)') /\ (PidUnknown(s) => PidUnknown(Stream)')
        BY <1>3, <1>5, <2>1, <2>2, <2>3, MarkerRead
      <3> QED
        BY <1>1, <2>1, <2>5, <2>11, <3>1 DEF PidInOrder, Marker
    <2>14. HeardOwn'
      <3> DEFINE C == {t \in Tokens : Aside(t) \/ t.k = "sentinel" \/ t.n = n}
      <3>1. PICK D : D = C
        OBVIOUS
      <3>2. d \in Seq(D)
        <4>1. \A j \in 1..Len(d) : d[j] \in D
          <5> SUFFICES ASSUME NEW j \in 1..Len(d) PROVE d[j] \in D
            OBVIOUS
          <5>1. j \in DOMAIN s /\ s[j] = d[j] /\ d[j] \in Tokens
            BY <2>4
          <5>2. Aside(d[j]) \/ d[j].k = "sentinel" \/ d[j].n = n
            BY <2>3, <2>5, <5>1 DEF InOrder
          <5> QED
            BY <3>1, <5>1, <5>2
        <4>2. d = [j \in 1..Len(d) |-> d[j]]
          BY <2>4
        <4> QED
          BY <2>4, <4>1, <4>2, SeqDef
      <3>3. PICK T : /\ T = UNION {LinesOf(m) : m \in {m \in DOMAIN sent : sent[m] # "endless"}}
                     /\ Finite(d) = Kept(d, T)
        BY DEF Finite
      <3>4. \A t \in T : t.k = "line"
        <4>1. \A m : \A t \in LinesOf(m) : t.k = "line"
          BY DEF LinesOf, Line, Token
        <4> QED
          BY <3>3, <4>1
      <3>5. PICK E, f : E = D \cap T /\ f = Finite(d)
        OBVIOUS
      <3>6. f \in Seq(E)
        <4>1. Kept(d, T) \in Seq(D \cap T)
          BY <3>2, KeptRuns
        <4> QED
          BY <3>3, <3>5, <4>1
      <3>7. \A t \in E : Aside(t) \/ t.n = n
        BY <3>1, <3>4, <3>5
      <3>8. heard \in Seq(Tokens)
        BY DEF Typed
      <3>9. f \in Seq(Tokens)
        <4>1. E \subseteq Tokens
          BY <3>1, <3>5
        <4> QED
          BY <3>6, <4>1, LargerSet
      <3>10. \A j \in DOMAIN f : Aside(f[j]) \/ f[j].n = n
        BY <3>6, <3>7
      <3>11. PICK h : h = heard
        OBVIOUS
      <3>12. /\ DOMAIN h = 1..Len(h) /\ Len(h) \in Nat /\ DOMAIN f = 1..Len(f)
             /\ DOMAIN (h \o f) = 1..(Len(h) + Len(f))
             /\ \A j \in 1..Len(h) : (h \o f)[j] = h[j]
             /\ \A j \in 1..(Len(h) + Len(f)) :
                   j \in 1..Len(h) \/ (j - Len(h) \in 1..Len(f) /\ (h \o f)[j] = f[j - Len(h)])
        BY <3>8, <3>9, <3>11, HasConcat
      <3>13. \A j \in DOMAIN (h \o f) : Aside((h \o f)[j]) \/ (h \o f)[j].n = n
        <4> SUFFICES ASSUME NEW j \in DOMAIN (h \o f)
                     PROVE  Aside((h \o f)[j]) \/ (h \o f)[j].n = n
          OBVIOUS
        <4>1. CASE j \in 1..Len(h)
          BY <2>3, <2>5, <3>11, <3>12, <4>1 DEF HeardOwn
        <4>2. CASE j - Len(h) \in 1..Len(f) /\ (h \o f)[j] = f[j - Len(h)]
          BY <3>10, <3>12, <4>2
        <4> QED
          BY <3>12, <4>1, <4>2
      <3>14. heard' = h \o f /\ Len(sent)' = n
        BY <2>1, <2>3, <3>5, <3>11
      <3> QED
        BY <2>6, <3>13, <3>14 DEF HeardOwn
    <2> QED
      BY <2>10, <2>12, <2>13, <2>14 DEF Orderly
  <1> QED
    BY <1>4, <1>5

\* Nothing is under way to a node that is terminated, and nothing is missing of a command that
\* was through.
LEMMA TerminatedOrderly ==
    ASSUME ShellType, Typed, Orderly(Stream), Terminate
    PROVE  Orderly(Stream)'
  <1>1. PICK s, n : s = Stream /\ n = Len(sent)
    OBVIOUS
  <1>2. s \in Seq(Tokens) /\ InOrder(s) /\ LinesInOrder(s) /\ PidInOrder(s) /\ HeardOwn
    BY <1>1, ConcatProperties DEF Stream, ShellType, Orderly
  <1>3. /\ bash' = Dead /\ channel' = <<>> /\ input' = <<>> /\ data = <<>> /\ data' = <<>>
        /\ UNCHANGED <<waiting, lastPid, sent, heard>>
    BY DEF Terminate
  <1>4. PICK r : r = <<>> /\ r = Stream' /\ DOMAIN r = {}
    BY <1>3 DEF Stream
  <1>5. bash'.st # "runs"
    BY <1>3 DEF Dead, Idle
  <1>6. /\ Printed(Stream)' = Printed(r) /\ (Told(Stream)' <=> Told(r)) /\ (HeardOwn' <=> HeardOwn)
    BY <1>3, <1>4, ViewSame
  <1>7. (PidKnown(Stream)' <=> PidKnown(r)) /\ (PidUnknown(Stream)' <=> PidUnknown(r))
    BY <1>3, <1>4, PidSame
  <1>8. Told(r) => ~waiting
    BY <1>4 DEF Told, Has
  <1>9. ~waiting => \A j \in DOMAIN s : Aside(s[j])
    BY <1>2 DEF InOrder
  <1>10. Unmarked(r)
    BY <1>4 DEF Unmarked, Has
  <1>11. InOrder(Stream)'
    <2>1. waiting => Len(sent) > 0
      BY <1>2 DEF InOrder
    <2> QED
      BY <1>3, <1>4, <1>5, <2>1 DEF InOrder
  <1>12. LinesInOrder(Stream)'
    <2> SUFFICES ASSUME n > 0, sent[n] = "plain", Told(r)
                 PROVE  Printed(r) = FirstLines(n, Lines)
      BY <1>1, <1>3, <1>5, <1>6 DEF LinesInOrder, FirstLines
    <2>1. Printed(s) = FirstLines(n, Lines)
      BY <1>1, <1>2, <1>8 DEF LinesInOrder, Told
    <2>2. Kept(s, LinesOf(n)) = <<>>
      BY <1>1, <1>2, <1>8, <1>9, AsideIsNotKept
    <2>3. Kept(r, LinesOf(n)) = <<>>
      BY <1>4, KeptOfOne
    <2> QED
      BY <1>1, <2>1, <2>2, <2>3 DEF Printed
  <1>13. PidInOrder(Stream)'
    <2>1. CASE n > 0 /\ sent[n] = "background"
      <3>1. PidKnown(s) \/ PidUnknown(s)
        BY <1>1, <1>2, <2>1 DEF PidInOrder
      <3>2. PidKnown(r) \/ PidUnknown(r)
        BY <1>10, <3>1 DEF PidKnown, PidUnknown
      <3>3. Told(r) => PidKnown(r)
        <4> SUFFICES ASSUME Told(r) PROVE PidKnown(r)
          OBVIOUS
        <4>1. PidKnown(s)
          BY <1>1, <1>2, <1>8, <2>1 DEF PidInOrder, Told
        <4>2. \A q \in DOMAIN s : s[q].k # "mark"
          BY <1>8, <1>9 DEF Aside
        <4>3. lastPid = Len(sent)
          BY <4>1, <4>2 DEF PidKnown, MarkedAt
        <4> QED
          BY <1>10, <4>3 DEF PidKnown
      <3> QED
        BY <1>1, <1>3, <1>5, <1>6, <1>7, <2>1, <3>2, <3>3 DEF PidInOrder
    <2>2. CASE ~(n > 0 /\ sent[n] = "background")
      <3>1. PidUnknown(s)
        BY <1>1, <1>2, <2>2 DEF PidInOrder
      <3>2. PidUnknown(r)
        BY <1>10, <3>1 DEF PidUnknown
      <3> QED
        BY <1>1, <1>3, <1>7, <2>2, <3>2 DEF PidInOrder
    <2> QED
      BY <2>1, <2>2
  <1> QED
    BY <1>2, <1>6, <1>11, <1>12, <1>13 DEF Orderly

\* As long as nobody interrupts and readline() is not used, all is in order.
Belongs == interrupts = 0 /\ Unread => Orderly(Stream)

\* Every step keeps the order.
LEMMA BelongsKept ==
    ASSUME ShellType, Typed, Belongs, InStep, [Next]_vars
    PROVE  Belongs'
  <1>a. interrupts \in Nat /\ channel \in Seq(Tokens) /\ data \in Seq(Tokens)
    BY DEF ShellType
  <1>b. ASSUME Stream' = Stream, data' = data, interrupts' = interrupts,
               UNCHANGED <<waiting, lastPid, sent, heard, input, readbuf, lines>>,
               bash' = bash \/ bash' = Dead
        PROVE  Belongs'
    <2> SUFFICES ASSUME Orderly(Stream) PROVE Orderly(Stream)'
      BY <1>b DEF Belongs, Unread
    <2>1. data' = <<>> \/ Incomplete(data')
      <3>1. InOrder(Stream)
        BY DEF Orderly
      <3> QED
        BY <1>b, <3>1 DEF InOrder
    <2> QED
      BY <1>b, <2>1, OrderlySame
  <1>1. ASSUME NEW k \in Kinds, CallSendCmd(k) \/ CliCommand(k) \/ CallCmd(k)
        PROVE  Belongs'
    <2>1. CASE Quiescent
      BY <1>b, <2>1 DEF Quiescent, Stream
    <2>2. CASE Sending(k) /\ FreshShell(Len(sent) + 1)
      BY <2>2, FreshOrderly DEF Belongs
    <2>3. CASE Sending(k) /\ OldShell(Len(sent) + 1) /\ ~waiting
      <3>1. interrupts' = interrupts /\ (Unread' <=> Unread)
        BY <2>3 DEF Sending, OldShell, Unread
      <3>2. Orderly(Stream) => Orderly(Stream)'
        BY <2>3, OldOrderly
      <3> QED
        BY <3>1, <3>2 DEF Belongs
    <2> QED
      BY <1>1, <2>1, <2>2, <2>3, CommandCases
  <1>2. CASE Monitor \/ ReadMarker
    <2>1. interrupts' = interrupts /\ (Unread' <=> Unread)
      BY <1>2 DEF Monitor, ReadMarker, Unread
    <2>2. Orderly(Stream) => Orderly(Stream)'
      BY <1>2, ReadOrderly
    <2> QED
      BY <2>1, <2>2 DEF Belongs
  <1>3. CASE CallWaitOutput \/ UNCHANGED vars
    BY <1>3, <1>b DEF CallWaitOutput, outside, vars, Stream
  <1>4. CASE Readline
    BY <1>4, ReadlineTakes DEF Belongs
  <1>5. CASE CallSendInt \/ CliStops \/ InterruptedRead
    <2>1. interrupts' # 0
      BY <1>5, <1>a DEF CallSendInt, CliStops, Interrupted, InterruptedRead
    <2> QED
      BY <2>1 DEF Belongs
  <1>6. CASE Terminate
    <2>1. interrupts' = interrupts /\ (Unread' <=> Unread)
      BY <1>6 DEF Terminate, Unread
    <2>2. Orderly(Stream) => Orderly(Stream)'
      BY <1>6, TerminatedOrderly
    <2> QED
      BY <2>1, <2>2 DEF Belongs
  <1>7. CASE BashTakes
    <2>1. interrupts' = interrupts /\ (Unread' <=> Unread)
      BY <1>7 DEF BashTakes, mininet, Unread
    <2>2. Orderly(Stream) => Orderly(Stream)'
      BY <1>7, TakenOrderly
    <2> QED
      BY <2>1, <2>2 DEF Belongs
  <1>8. CASE BashPrints
    <2>1. /\ interrupts' = interrupts /\ (Unread' <=> Unread)
          /\ UNCHANGED <<waiting, lastPid, data, sent, heard, input>> /\ bash.st = "runs"
      BY <1>8 DEF BashPrints, mininet, Unread
    <2> SUFFICES ASSUME Orderly(Stream) PROVE Orderly(Stream)'
      BY <2>1 DEF Belongs
    <2>2. CASE bash.left # <<>> /\ channel' = channel \o Head(bash.left)
               /\ bash' = IF sent[bash.n] = "endless" THEN bash
                          ELSE [bash EXCEPT !.left = Tail(@)]
      <3>1. PICK h : h = Head(bash.left)
        OBVIOUS
      <3>2. h \in Seq(Outputs)
        BY <2>2, <3>1 DEF ShellType
      <3>3. h \in Seq(Tokens)
        BY <3>2, OutputsCount
      <3>4. data \o (channel \o h) = (data \o channel) \o h
        BY <1>a, <3>3, Associative
      <3>5. Stream' = Stream \o Head(bash.left)
        BY <2>1, <2>2, <3>1, <3>4 DEF Stream
      <3> QED
        BY <2>1, <2>2, <3>5, PieceOrderly
    <2>3. CASE bash.left = <<>> /\ channel' = Append(channel, Sentinel) /\ bash' = Idle
      <3>1. data \o Append(channel, Sentinel) = (data \o channel) \o <<Sentinel>>
        BY <1>a, TokenType
      <3>2. Stream' = Stream \o <<Sentinel>>
        BY <2>1, <2>3, <3>1 DEF Stream
      <3> QED
        BY <2>1, <2>3, <3>2, PromptOrderly
    <2> QED
      BY <1>8, <2>2, <2>3 DEF BashPrints
  <1>9. CASE ShellDies
    <2>1. bash' = Dead /\ UNCHANGED <<waiting, readbuf, lastPid, data, sent, heard, lines, channel,
                                      input, interrupts>>
      BY <1>9 DEF ShellDies, mininet
    <2>2. Stream' = Stream
      BY <2>1 DEF Stream
    <2> QED
      BY <1>b, <2>1, <2>2
  <1>10. ASSUME NEW n \in background, BackgroundPrints(n) PROVE Belongs'
    <2>1. /\ channel' = Append(channel, Token("line", n))
          /\ interrupts' = interrupts /\ (Unread' <=> Unread)
          /\ UNCHANGED <<waiting, lastPid, data, sent, heard, input, bash>>
      BY <1>10 DEF BackgroundPrints, mininet, Unread
    <2> SUFFICES ASSUME Orderly(Stream) PROVE Orderly(Stream)'
      BY <2>1 DEF Belongs
    <2>2. PICK t : t = Token("line", n)
      OBVIOUS
    <2>3. t \in Tokens /\ Aside(t)
      <3>1. n \in 1..Len(sent) /\ n \in Nat /\ sent[n] = "background"
        BY DEF ShellType, Typed
      <3>2. t.k = "line" /\ t.n = n
        BY <2>2 DEF Token
      <3> QED
        BY <2>2, <3>1, <3>2, TokenType DEF Aside
    <2>4. data \o Append(channel, t) = (data \o channel) \o <<t>>
      BY <1>a, <2>3
    <2>5. Stream' = Stream \o <<t>>
      BY <2>1, <2>2, <2>4 DEF Stream
    <2> QED
      BY <2>1, <2>3, <2>5, AsideOrderly
  <1> QED
    BY <1>1, <1>2, <1>3, <1>4, <1>5, <1>6, <1>7, <1>8, <1>9, <1>10
    DEF Next, Program, Outside

\* What the threads and the container may be.
Modes ==
    /\ docker \in BOOLEAN /\ container \in BOOLEAN
    /\ user \in {"idle", "waitOutput", "waitForNode", "failed"}
    /\ interrupts \in 0..MaxInterrupts /\ deaths \in 0..MaxDeaths

\* Every step keeps them.
LEMMA ModesKept ==
    ASSUME Modes, [Next]_vars
    PROVE  Modes'
  <1>a. MaxInterrupts \in Nat /\ MaxDeaths \in Nat
    BY NodeShellAssumption
  <1>b. ASSUME UNCHANGED <<docker, container, interrupts, deaths>>,
               user' \in {user, "idle", "waitOutput", "waitForNode", "failed"}
        PROVE  Modes'
    BY <1>b DEF Modes
  <1>1. ASSUME NEW k \in Kinds, CallSendCmd(k) \/ CliCommand(k) \/ CallCmd(k)
        PROVE  Modes'
    <2>1. PICK next \in {"idle", "waitForNode", "waitOutput"} :
              \/ SendCmd(k, next)
              \/ Send(k, next, TRUE)
      BY <1>1 DEF CallSendCmd, CliCommand, CallCmd
    <2>2. ASSUME NEW fresh \in BOOLEAN, Send(k, next, fresh) PROVE Modes'
      BY <1>b, <2>2 DEF Send
    <2>3. CASE Refuse
      BY <1>b, <2>3 DEF Refuse, outside
    <2>4. CASE Disconnect(next)
      BY <1>b, <2>4 DEF Disconnect, outside
    <2>5. SendCmd(k, next) => \/ Send(k, next, TRUE) \/ Send(k, next, FALSE)
                              \/ Refuse \/ Disconnect(next)
      BY DEF SendCmd
    <2> QED
      BY <2>1, <2>2, <2>3, <2>4, <2>5
  <1>2. CASE Monitor \/ ReadMarker
    <2>1. UNCHANGED <<docker, container, interrupts, deaths>>
      BY <1>2 DEF Monitor, ReadMarker
    <2>2. \A d : Reports(d) => user' \in {user, "idle"}
      BY DEF Reports
    <2>3. user' \in {user, "idle"}
      BY <1>2, <2>2 DEF Monitor, ReadMarker
    <2> QED
      BY <1>b, <2>1, <2>3
  <1>3. CASE CallWaitOutput \/ UNCHANGED vars
    BY <1>3, <1>b DEF CallWaitOutput, outside, vars
  <1>4. CASE Readline
    BY <1>4, <1>b DEF Readline
  <1>5. CASE CallSendInt \/ CliStops \/ InterruptedRead
    <2>1. /\ interrupts < MaxInterrupts /\ interrupts' = interrupts + 1
          /\ UNCHANGED <<docker, container, deaths>> /\ user' \in {user, "waitOutput"}
      BY <1>5 DEF CallSendInt, CliStops, InterruptedRead, Interrupted, mininet
    <2> QED
      BY <1>a, <2>1 DEF Modes
  <1>6. CASE Terminate
    <2>1. /\ container' = (container /\ ~docker)
          /\ UNCHANGED <<docker, user, interrupts, deaths>>
      BY <1>6 DEF Terminate
    <2> QED
      BY <2>1 DEF Modes
  <1>7. CASE BashTakes \/ BashPrints
    BY <1>7, <1>b DEF BashTakes, BashPrints, mininet
  <1>8. CASE ShellDies
    <2>1. /\ deaths < MaxDeaths /\ deaths' = deaths + 1
          /\ container' \in {container, container /\ ~docker}
          /\ UNCHANGED <<docker, user, interrupts>>
      BY <1>8 DEF ShellDies, mininet
    <2>2. container' \in BOOLEAN
      BY <2>1 DEF Modes
    <2> QED
      BY <1>a, <2>1, <2>2 DEF Modes
  <1>9. ASSUME NEW n \in background, BackgroundPrints(n) PROVE Modes'
    BY <1>9, <1>b DEF BackgroundPrints, mininet
  <1> QED
    BY <1>1, <1>2, <1>3, <1>4, <1>5, <1>6, <1>7, <1>8, <1>9 DEF Next, Program, Outside

(***************************************************************************)
(* The theorems.                                                           *)
(***************************************************************************)
\* All of it holds at first and is kept.
LEMMA ShellSound == Spec => [](ShellType /\ InStep /\ Typed /\ Belongs /\ Modes)
  <1>1. Init => ShellType /\ InStep
    BY InStepAtFirst
  <1>2. Init => Typed /\ Belongs /\ Modes
    <2> SUFFICES ASSUME Init PROVE Typed /\ Belongs /\ Modes
      OBVIOUS
    <2>1. /\ sent = <<>> /\ Len(sent) = 0 /\ channel = <<>> /\ data = <<>> /\ heard = <<>>
          /\ lastPid = 0 /\ background = {} /\ input = <<>> /\ ~waiting /\ bash = Idle
          /\ bash.left = <<>> /\ bash.st # "runs"
      BY DEF Init, Idle
    <2>2. Typed
      <3>1. PICK C : C = TokensUpTo(Len(sent))
        OBVIOUS
      <3>2. channel \in Seq(C) /\ data \in Seq(C) /\ heard \in Seq(Tokens)
        BY <2>1
      <3>3. \A w \in DOMAIN bash.left : FALSE
        BY <2>1
      <3> QED
        BY <2>1, <3>1, <3>2, <3>3 DEF Typed
    <2>3. Orderly(Stream)
      <3>1. PICK s : s = Stream /\ s = <<>> /\ DOMAIN s = {}
        BY <2>1 DEF Stream
      <3>2. InOrder(s)
        BY <2>1, <3>1 DEF InOrder
      <3>3. LinesInOrder(s)
        BY <2>1 DEF LinesInOrder
      <3>4. PidInOrder(s)
        BY <2>1, <3>1 DEF PidInOrder, PidUnknown, Unmarked, Has
      <3>5. HeardOwn
        BY <2>1 DEF HeardOwn
      <3> QED
        BY <3>1, <3>2, <3>3, <3>4, <3>5 DEF Orderly
    <2>4. Modes
      <3>1. MaxInterrupts \in Nat /\ MaxDeaths \in Nat /\ Dockers \subseteq BOOLEAN
        BY NodeShellAssumption
      <3> QED
        BY <3>1 DEF Init, Modes
    <2> QED
      BY <2>2, <2>3, <2>4 DEF Belongs
  <1>3. ShellType /\ InStep /\ Typed /\ Belongs /\ Modes /\ [Next]_vars
            => (ShellType /\ InStep /\ Typed /\ Belongs /\ Modes)'
    BY InStepKept, TypedKept, BelongsKept, ModesKept
  <1> QED
    BY <1>1, <1>2, <1>3, PTL DEF Spec

\* A node and its shell stay in step, for all sizes of reads, lengths of output and
\* numbers of commands: a sentinel is to come exactly while the node waits for one, and
\* each interrupt puts them out of step by at most one.
THEOREM NodeStaysInStep == Spec => []InStep
  BY ShellSound, PTL

\* The variables have the shape that the code gives them.
THEOREM NodeTyped == Spec => []TypeOK
  <1>1. ShellType /\ Typed /\ Modes => TypeOK
    <2> SUFFICES ASSUME ShellType, Typed, Modes PROVE TypeOK
      OBVIOUS
    <2>1. \A t \in Tokens : t.k \in {"line", "sentinel", "mark", "pid"}
      BY DEF Tokens
    <2>2. \A seq \in Seq(Tokens) : ToSet(seq) \subseteq Tokens
      BY DEF ToSet
    <2>3. ToSet(readbuf) \cup ToSet(data) \cup ToSet(channel) \subseteq Tokens
      BY <2>2 DEF ShellType
    <2>4. {shell, waiting, container} \subseteq BOOLEAN
      BY DEF ShellType, Modes
    <2>5. /\ lastPid \in 0..Len(sent)
          /\ \A n \in background : n \in 1..Len(sent)
      BY DEF ShellType, Typed
    <2> QED
      BY <2>1, <2>3, <2>4, <2>5 DEF TypeOK, Modes
  <1> QED
    BY <1>1, ShellSound, PTL

\* A command's output is its own: when the node has stopped waiting, monitor() has returned
\* every line of a plain command, in order, and the process id of one in the background,
\* whatever the pieces they arrived in.
THEOREM OutputsBelong == Spec => []OutputBelongs
  <1>1. ShellType /\ Typed /\ Belongs => OutputBelongs
    <2> SUFFICES ASSUME ShellType, Typed, Orderly(Stream) PROVE OutputBelongs
      BY DEF Belongs, OutputBelongs
    <2>1. PICK s, n : s = Stream /\ n = Len(sent)
      OBVIOUS
    <2>2. s \in Seq(Tokens) /\ InOrder(s) /\ LinesInOrder(s) /\ PidInOrder(s) /\ HeardOwn
      BY <2>1, ConcatProperties DEF Stream, ShellType, Orderly
    <2>3. \A t \in ToSet(heard) : t.n = n \/ sent[t.n] = "background"
      BY <2>1, <2>2 DEF ToSet, HeardOwn, Aside
    <2>4. ASSUME sent # <<>>, ~waiting
          PROVE  /\ Last(sent) = "plain" => Kept(heard, LinesOf(n)) = [i \in 1..Lines |-> Line(n, i)]
                 /\ lastPid = IF Last(sent) = "background" THEN n ELSE 0
      <3>1. n > 0 /\ Last(sent) = sent[n]
        BY <2>1, <2>4 DEF Last, ShellType
      <3>2. \A j \in DOMAIN s : Aside(s[j])
        BY <2>2, <2>4 DEF InOrder
      <3>3. Told(s)
        BY <2>4 DEF Told
      <3>4. ASSUME sent[n] = "plain" PROVE Kept(heard, LinesOf(n)) = FirstLines(n, Lines)
        <4>1. Printed(s) = FirstLines(n, Lines)
          BY <2>1, <2>2, <3>1, <3>3, <3>4 DEF LinesInOrder
        <4>2. Kept(s, LinesOf(n)) = <<>>
          BY <2>1, <2>2, <3>1, <3>2, <3>4, AsideIsNotKept
        <4>3. PICK a, C : a = Kept(heard, LinesOf(n)) /\ C = Tokens \cap LinesOf(n)
          OBVIOUS
        <4>4. a \in Seq(C)
          BY <4>3, KeptRuns DEF Typed
        <4>5. a \o <<>> = a
          BY <4>4, ConcatEmptySeq
        <4> QED
          BY <2>1, <4>1, <4>2, <4>3, <4>5 DEF Printed
      <3>5. lastPid = IF sent[n] = "background" THEN n ELSE 0
        <4>1. CASE sent[n] = "background"
          <5>1. PidKnown(s)
            BY <2>1, <2>2, <3>1, <3>3, <4>1 DEF PidInOrder
          <5>2. \A q \in DOMAIN s : ~MarkedAt(s, q)
            BY <3>2 DEF MarkedAt, Aside
          <5> QED
            BY <2>1, <4>1, <5>1, <5>2 DEF PidKnown
        <4>2. CASE sent[n] # "background"
          BY <2>1, <2>2, <4>2 DEF PidInOrder, PidUnknown
        <4> QED
          BY <4>1, <4>2
      <3> QED
        BY <3>1, <3>4, <3>5 DEF FirstLines
    <2> QED
      BY <2>1, <2>3, <2>4 DEF OutputBelongs
  <1> QED
    BY <1>1, ShellSound, PTL

-----------------------------------------------------------------------------
(***************************************************************************)
(* The limits of hosts and links.                                          *)
(***************************************************************************)
USE DEF limitsVars, tcVars, cpuVars

(***************************************************************************)
(* Quotients.                                                              *)
(***************************************************************************)
\* The quotient of two numbers is the last multiple below.
LEMMA Quotient ==
    ASSUME NEW x \in Nat, NEW b \in Nat \ {0}
    PROVE  /\ x \div b \in Nat
           /\ (x \div b) * b <= x
           /\ x < (x \div b) * b + b
  OBVIOUS

\* The limits of the kernel are numbers.
LEMMA KernelLimits ==
    MinQuota \in Nat \ {0} /\ MaxPeriod \in Nat /\ PeriodUs \in MinQuota..MaxPeriod
  <1>1. MinQuota \in Nat \ {0}
    BY DEF MinQuota
  <1>2. MaxPeriod \in Nat
    BY DEF MaxPeriod
  <1>3. PeriodUs \in MinQuota..MaxPeriod
    BY CpuAssumption DEF Periods
  <1> QED
    BY <1>1, <1>2, <1>3

\* A product of numbers is one, and positive if they are.
LEMMA Product ==
    ASSUME NEW x \in Nat, NEW y \in Nat
    PROVE  /\ x * y \in Nat
           /\ x > 0 /\ y > 0 => x * y > 0
  OBVIOUS

\* Of two numbers the larger has the larger multiple.
LEMMA LargerMultiple ==
    ASSUME NEW x \in Nat, NEW y \in Nat, NEW n \in Nat, x <= y
    PROVE  x * n <= y * n
  OBVIOUS

(***************************************************************************)
(* The quota and the period of a fraction.                                 *)
(***************************************************************************)
Pairs == Int \X (Nat \ {0})
Groups == [exists : {TRUE}, period : Periods, quota : Int, rtPeriod : Int, runtime : Int,
           cpus : SUBSET Int, placed : BOOLEAN]

\* A group with this quota and period has the share f.
GivesShare(quota, period, f) ==
    /\ Negative(f) => quota = Unlimited
    /\ Feasible(f) =>
          /\ quota # Unlimited
          /\ quota * f[2] <= period * f[1] * NumCores + f[1] * NumCores
          /\ period * f[1] * NumCores < quota * f[2] + f[2] + f[1] * NumCores

\* cfsInfo() makes them so that the kernel takes both, and that they are the fraction to a
\* microsecond: the quota where it is rounded, the period where it had to be stretched.
LEMMA InfoGivesShare ==
    ASSUME NEW f \in Pairs
    PROVE  /\ CfsInfo(f).period \in Int /\ CfsInfo(f).quota \in Int
           /\ Negative(f) \/ Feasible(f) =>
                 /\ AcceptsCfsPeriod(CfsInfo(f).period) /\ AcceptsCfsQuota(CfsInfo(f).quota)
                 /\ GivesShare(CfsInfo(f).quota, CfsInfo(f).period, f)
  <1> DEFINE a == f[1]
             b == f[2]
             whole == PeriodUs * a * NumCores
             part == MinQuota * b
             cores == a * NumCores
  <1>1. a \in Int /\ b \in Nat \ {0} /\ NumCores \in Nat \ {0} /\ PeriodUs \in MinQuota..MaxPeriod
        /\ MinQuota \in Nat \ {0} /\ MaxPeriod \in Nat
    BY CpuAssumption, KernelLimits DEF Pairs
  <1>2. CASE Negative(f)
    BY <1>1, <1>2 DEF CfsInfo, Negative, GivesShare, Feasible, AcceptsCfsPeriod, AcceptsCfsQuota,
                      Periods, Unlimited
  <1>3. CASE ~Negative(f)
    <2>1. a \in Nat /\ whole \in Nat /\ part \in Nat /\ cores \in Nat
      BY <1>1, <1>3, Product DEF Negative
    <2>2. whole \div b \in Nat /\ (whole \div b) * b <= whole /\ whole < (whole \div b) * b + b
      BY <1>1, <2>1, Quotient
    <2>3. CASE ~(a > 0 /\ whole \div b < MinQuota)
      <3>1. CfsInfo(f) = [period |-> PeriodUs, quota |-> whole \div b]
        BY <1>3, <2>3 DEF CfsInfo, Floor
      <3>2. Feasible(f) => whole \div b >= MinQuota
        BY <1>1, <2>2, <2>3 DEF Feasible
      <3>3. GivesShare(whole \div b, PeriodUs, f)
        BY <1>1, <1>3, <2>1, <2>2 DEF GivesShare, Unlimited
      <3> QED
        BY <1>1, <1>3, <2>2, <3>1, <3>2, <3>3
        DEF AcceptsCfsPeriod, AcceptsCfsQuota, Periods
    <2>4. CASE a > 0 /\ whole \div b < MinQuota
      <3>1. cores \in Nat \ {0}
        BY <1>1, <2>1, <2>4, Product
      <3>2. part \div cores \in Nat /\ (part \div cores) * cores <= part
            /\ part < (part \div cores) * cores + cores
        BY <2>1, <3>1, Quotient
      <3>3. CfsInfo(f) = [period |-> part \div cores, quota |-> MinQuota]
        BY <1>3, <2>4 DEF CfsInfo, Floor
      <3>4. (part \div cores) * a * NumCores = (part \div cores) * cores
        BY <1>1, <3>2
      <3>5. PeriodUs * cores = whole
        BY <1>1
      <3>6. whole < part
        BY <1>1, <2>2, <2>4
      <3>7. part \div cores >= PeriodUs
        <4> SUFFICES ASSUME part \div cores < PeriodUs PROVE FALSE
          BY <1>1, <3>2
        <4>1. (part \div cores + 1) * cores <= PeriodUs * cores
          BY <1>1, <3>1, <3>2, LargerMultiple
        <4>2. (part \div cores + 1) * cores = (part \div cores) * cores + cores
          BY <3>1, <3>2
        <4> QED
          BY <2>1, <3>1, <3>2, <3>5, <3>6, <4>1, <4>2
      <3>8. Feasible(f) => part \div cores <= MaxPeriod
        <4> SUFFICES ASSUME Feasible(f), part \div cores > MaxPeriod PROVE FALSE
          BY <1>1, <3>2
        <4>1. part <= MaxPeriod * cores
          <5>1. part <= MaxPeriod * a * NumCores
            BY DEF Feasible
          <5>2. MaxPeriod * a * NumCores = MaxPeriod * cores
            BY <1>1, <2>1
          <5> QED
            BY <5>1, <5>2
        <4>2. (MaxPeriod + 1) * cores <= (part \div cores) * cores
          BY <1>1, <3>1, <3>2, LargerMultiple
        <4>3. (MaxPeriod + 1) * cores = MaxPeriod * cores + cores
          BY <1>1, <3>1
        <4>4. MaxPeriod * cores \in Nat
          BY <1>1, <3>1, Product
        <4> QED
          BY <2>1, <3>1, <3>2, <4>1, <4>2, <4>3, <4>4
      <3>9. GivesShare(MinQuota, part \div cores, f)
        BY <1>1, <1>3, <2>1, <3>2, <3>4 DEF GivesShare, Unlimited
      <3> QED
        BY <1>1, <1>3, <3>2, <3>3, <3>7, <3>8, <3>9
        DEF AcceptsCfsPeriod, AcceptsCfsQuota, Periods
    <2> QED
      BY <2>3, <2>4
  <1> QED
    BY <1>2, <1>3

(***************************************************************************)
(* The invariant.                                                          *)
(***************************************************************************)
\* A host that runs has its group, one that was terminated has none, and the group has the
\* share that was asked for last.
Grouped ==
    /\ share \in Pairs
    /\ fate \in {"runs", "terminated", "gave up"}
    /\ fate = "runs" => cgroup \in Groups
    /\ fate = "terminated" => cgroup = NoGroup
    /\ \/ cgroup \in Groups /\ GivesShare(cgroup.quota, cgroup.period, share)
       \/ cgroup = NoGroup

\* A group is there or not.
LEMMA NoGroupIsNone ==
    /\ ~NoGroup.exists
    /\ \A g \in Groups : g.exists = TRUE
    /\ NoGroup \notin Groups
  <1>1. ~NoGroup.exists
    BY DEF NoGroup
  <1>2. \A g \in Groups : g.exists = TRUE
    BY DEF Groups
  <1> QED
    BY <1>1, <1>2

\* What config() and setCPUFrac() do to the group.
LEMMA FractionKept ==
    ASSUME NEW g \in Groups, NEW f \in Pairs, NEW s, share \in Pairs,
           GivesShare(g.quota, g.period, share)
    PROVE  /\ WithFraction(g, f, s).g \in Groups
           /\ WithFraction(g, f, s).share \in Pairs
           /\ GivesShare(WithFraction(g, f, s).g.quota, WithFraction(g, f, s).g.period,
                         WithFraction(g, f, s).share)
  <1>0. f[1] \in Int
    BY DEF Pairs
  <1>1. CASE s = "rt" /\ f[1] <= 0
    <2>1. WithFraction(g, f, s).g = g /\ WithFraction(g, f, s).share = share
      BY <1>0, <1>1 DEF WithFraction
    <2> QED
      BY <2>1
  <1>2. CASE s = "rt" /\ f[1] > 0
    <2>1. RtInfo(f).period \in Int /\ RtInfo(f).quota \in Int
      <3>1. PeriodUs \in Nat
        BY KernelLimits
      <3>2. f[1] \in Nat /\ f[2] \in Nat \ {0}
        BY <1>2 DEF Pairs
      <3>3. PeriodUs * f[1] \in Nat
        BY <3>1, <3>2, Product
      <3> QED
        BY <3>1, <3>2, <3>3, Quotient DEF RtInfo, Floor
    <2>2. RtSet(g, RtInfo(f)) \in Groups
      BY <2>1 DEF RtSet, Groups
    <2>3. RtSet(g, RtInfo(f)).quota = g.quota /\ RtSet(g, RtInfo(f)).period = g.period
      BY DEF RtSet, Groups
    <2>4. WithFraction(g, f, s).g = RtSet(g, RtInfo(f)) /\ WithFraction(g, f, s).share = share
      BY <1>2 DEF WithFraction
    <2> QED
      BY <2>2, <2>3, <2>4
  <1>3. CASE s = "cfs"
    <2> DEFINE h == CfsSet(g, CfsInfo(f))
    <2>1. WithFraction(g, f, s).g = h /\ WithFraction(g, f, s).share = f
      BY <1>3 DEF WithFraction
    <2>2. h \in Groups
      BY InfoGivesShare DEF CfsSet, Groups, AcceptsCfsPeriod
    <2>3. Negative(f) \/ Feasible(f) =>
              h.quota = CfsInfo(f).quota /\ h.period = CfsInfo(f).period
      BY InfoGivesShare DEF CfsSet, Groups
    <2>4. GivesShare(h.quota, h.period, f)
      <3>1. CASE Negative(f) \/ Feasible(f)
        BY <2>3, <3>1, InfoGivesShare
      <3>2. CASE ~(Negative(f) \/ Feasible(f))
        BY <3>2 DEF GivesShare
      <3> QED
        BY <3>1, <3>2
    <2> QED
      BY <2>1, <2>2, <2>4
  <1>4. CASE s # "rt" /\ s # "cfs"
    <2>1. WithFraction(g, f, s).g = g /\ WithFraction(g, f, s).share = share
      BY <1>4 DEF WithFraction
    <2> QED
      BY <2>1
  <1>5. f[1] <= 0 \/ f[1] > 0
    BY DEF Pairs
  <1> QED
    BY <1>1, <1>2, <1>3, <1>4, <1>5

\* Processors do not change the share of time.
LEMMA PlacedKeeps ==
    ASSUME NEW g \in Groups, NEW cores \in SUBSET (0..(NumCores - 1))
    PROVE  /\ Placed(g, cores) \in Groups
           /\ Placed(g, cores).quota = g.quota /\ Placed(g, cores).period = g.period
  <1>1. cores \in SUBSET Int
    BY CpuAssumption
  <1> QED
    BY <1>1 DEF Placed, Groups

\* retry() that does not give up has succeeded.
LEMMA RetriesLeft ==
    ASSUME NEW n \in 0..(MaxRetries + 1), ~GivesUp(n)
    PROVE  ~(n > MaxRetries)
  <1>1. MaxRetries \in Int
    BY CpuAssumption
  <1>2. n \in Int
    BY <1>1
  <1> QED
    BY <1>1, <1>2 DEF GivesUp

\* No call changes the share but the one that asks for another.
LEMMA GroupedStep == Grouped /\ [LimitsNext]_limitsVars => Grouped'
  <1> SUFFICES ASSUME Grouped, [LimitsNext]_limitsVars PROVE Grouped'
    OBVIOUS
  <1> USE DEF Grouped
  <1>0. fate = "runs" => cgroup \in Groups /\ GivesShare(cgroup.quota, cgroup.period, share)
    BY NoGroupIsNone
  <1>1. CASE UNCHANGED cpuVars
    BY <1>1 DEF GivesShare, Negative, Feasible
  <1>2. ASSUME NEW f \in Fractions, NEW s \in {"cfs", "rt", "host"}, SetCPUFrac(f, s)
        PROVE  Grouped'
    <2>1. f \in Pairs
      BY CpuAssumption DEF Pairs
    <2> QED
      BY <1>0, <1>2, <2>1, FractionKept DEF SetCPUFrac, GivesShare, Negative, Feasible
  <1>3. ASSUME NEW cores \in SUBSET (0..(NumCores - 1)), SetCPUs(cores) PROVE Grouped'
    BY <1>0, <1>3, PlacedKeeps DEF SetCPUs, GivesShare, Negative, Feasible
  <1>4. ASSUME NEW f \in Fractions, NEW cores \in SUBSET (0..(NumCores - 1)),
               ConfigCpu(f, cores)
        PROVE  Grouped'
    <2> DEFINE r == WithFraction(cgroup, f, sched)
    <2>1. f \in Pairs
      BY CpuAssumption DEF Pairs
    <2>2. fate = "runs" /\ fate' = fate /\ share' = r.share
          /\ cgroup' = IF r.ok THEN Placed(r.g, cores) ELSE r.g
      BY <1>4 DEF ConfigCpu
    <2>3. r.g \in Groups /\ r.share \in Pairs /\ GivesShare(r.g.quota, r.g.period, r.share)
      BY <1>0, <2>1, <2>2, FractionKept
    <2>4. cgroup' \in Groups /\ cgroup'.quota = r.g.quota /\ cgroup'.period = r.g.period
      BY <2>2, <2>3, PlacedKeeps
    <2>5. GivesShare(cgroup'.quota, cgroup'.period, share')
      BY <2>2, <2>3, <2>4
    <2> QED
      BY <2>2, <2>3, <2>4, <2>5 DEF GivesShare, Negative, Feasible
  <1>5. CASE Popen
    BY <1>5 DEF Popen, GivesShare, Negative, Feasible
  <1>6. CASE Cleanup
    <2>1. PICK n \in 0..(MaxRetries + 1) :
              /\ cgroup' = IF n > MaxRetries THEN cgroup ELSE NoGroup
              /\ fate' = IF GivesUp(n) THEN "gave up" ELSE "terminated"
      BY <1>6 DEF Cleanup
    <2>2. fate' = "terminated" => cgroup' = NoGroup
      <3>2. CASE GivesUp(n)
        BY <2>1, <3>2
      <3>3. CASE ~GivesUp(n)
        <4>1. ~(n > MaxRetries)
          BY <3>3, RetriesLeft
        <4> QED
          BY <2>1, <4>1
      <3> QED
        BY <3>2, <3>3
    <2> QED
      BY <1>0, <1>6, <2>1, <2>2 DEF Cleanup, GivesShare, Negative, Feasible
  <1> QED
    BY <1>1, <1>2, <1>3, <1>4, <1>5, <1>6 DEF LimitsNext, CpuNext

\* Of the time of all processors a host gets the fraction asked for last, to a microsecond,
\* for every number of processors, period and fraction, whatever the kernel refused before;
\* after its removal nothing is left of the group.
THEOREM HostGetsItsShare == LimitsSpec => []ShareAsAsked
  <1>1. LimitsInit => Grouped
    <2>1. NewGroup \in Groups
      <3> DEFINE period == NewGroup.period
      <3>1. period \in Int /\ MinQuota <= period /\ period <= MaxPeriod
        BY SMT DEF NewGroup, MinQuota, MaxPeriod
      <3>2. period \in Periods
        BY <3>1, KernelLimits DEF Periods
      <3> QED
        BY <3>2, SMT DEF NewGroup, Groups, Unlimited
    <2>2. NoShare \in Pairs /\ ~Negative(NoShare) /\ ~Feasible(NoShare)
      BY DEF NoShare, Pairs, Negative, Feasible
    <2> QED
      BY <2>1, <2>2 DEF LimitsInit, CpuInit, Grouped, GivesShare
  <1>2. Grouped => ShareAsAsked
    BY NoGroupIsNone DEF Grouped, ShareAsAsked, GivesShare
  <1> QED
    BY <1>1, <1>2, GroupedStep, PTL DEF LimitsSpec

(***************************************************************************)
(* Lists of commands.                                                      *)
(***************************************************************************)
\* run[n] is what the first n of the commands make of t.
IsRun(run, t, cmds, m) ==
    run = [n \in 0..m |-> IF n = 0 THEN t ELSE Tc(run[n - 1], cmds[n])]

\* Every list has a run.
LEMMA RunExists ==
    ASSUME NEW t, NEW cmds, NEW N \in Nat
    PROVE  \E run : IsRun(run, t, cmds, N)
  <1> DEFINE T == {m \in 0..N : \E run : IsRun(run, t, cmds, m)}
  <1>1. 0 \in T
    <2> DEFINE r == [n \in 0..0 |-> t]
    <2>1. IsRun(r, t, cmds, 0)
      BY DEF IsRun
    <2> QED
      BY <2>1
  <1>2. ASSUME NEW m \in Nat, m < N, m \in T
        PROVE  m + 1 \in T
    <2>1. PICK run : IsRun(run, t, cmds, m)
      BY <1>2
    <2> DEFINE r == [n \in 0..(m + 1) |-> IF n = m + 1 THEN Tc(run[m], cmds[m + 1]) ELSE run[n]]
    <2>2. \A n \in 0..(m + 1) : r[n] = IF n = 0 THEN t ELSE Tc(r[n - 1], cmds[n])
      <3> SUFFICES ASSUME NEW n \in 0..(m + 1)
                   PROVE  r[n] = IF n = 0 THEN t ELSE Tc(r[n - 1], cmds[n])
        OBVIOUS
      <3>1. CASE n = m + 1
        <4>1. r[n] = Tc(run[m], cmds[n]) /\ n # 0 /\ n - 1 = m /\ r[m] = run[m]
          BY <3>1
        <4> QED
          BY <4>1
      <3>2. CASE n \in 0..m
        <4>1. r[n] = run[n] /\ (n # 0 => n - 1 \in 0..m /\ r[n - 1] = run[n - 1])
          BY <3>2
        <4>2. run[n] = IF n = 0 THEN t ELSE Tc(run[n - 1], cmds[n])
          BY <2>1, <3>2 DEF IsRun
        <4> QED
          BY <4>1, <4>2
      <3> QED
        BY <3>1, <3>2
    <2>3. IsRun(r, t, cmds, m + 1)
      BY <2>2 DEF IsRun
    <2> QED
      BY <1>2, <2>3
  <1>3. \A m \in 0..N : m \in T
    <2> HIDE DEF T
    <2> QED
      BY <1>1, <1>2, UpTo
  <1> QED
    BY <1>3

\* A list has one run, and TcAll() is its last.
LEMMA RunIsTcAll ==
    ASSUME NEW t, NEW cmds, Len(cmds) \in Nat, NEW run, run[0] = t,
           \A n \in 1..Len(cmds) : run[n] = Tc(run[n - 1], cmds[n])
    PROVE  TcAll(t, cmds) = run[Len(cmds)]
  <1> DEFINE that == CHOOSE that : IsRun(that, t, cmds, Len(cmds))
             T == {n \in 0..Len(cmds) : that[n] = run[n]}
  <1>1. IsRun(that, t, cmds, Len(cmds))
    BY RunExists
  <1>2. TcAll(t, cmds) = that[Len(cmds)]
    BY DEF TcAll, IsRun
  <1> HIDE DEF that
  <1>3. 0 \in T
    BY <1>1 DEF IsRun
  <1>4. ASSUME NEW n \in Nat, n < Len(cmds), n \in T PROVE n + 1 \in T
    <2>1. n + 1 \in 0..Len(cmds) /\ n + 1 \in 1..Len(cmds) /\ n + 1 # 0 /\ (n + 1) - 1 = n
      BY <1>4
    <2>2. that[n + 1] = Tc(that[n], cmds[n + 1])
      BY <1>1, <2>1 DEF IsRun
    <2>3. run[n + 1] = Tc(run[n], cmds[n + 1])
      BY <2>1
    <2> QED
      BY <1>4, <2>1, <2>2, <2>3
  <1>5. \A n \in 0..Len(cmds) : n \in T
    <2> HIDE DEF T
    <2> QED
      BY <1>3, <1>4, UpTo
  <1> QED
    BY <1>2, <1>5

\* And it has one.
LEMMA TcAllRuns ==
    ASSUME NEW t, NEW cmds, Len(cmds) \in Nat
    PROVE  \E run : /\ TcAll(t, cmds) = run[Len(cmds)] /\ run[0] = t
                    /\ \A n \in 1..Len(cmds) : run[n] = Tc(run[n - 1], cmds[n])
  <1>1. PICK run : IsRun(run, t, cmds, Len(cmds))
    BY RunExists
  <1>2. run[0] = t
    BY <1>1 DEF IsRun
  <1>3. ASSUME NEW n \in 1..Len(cmds) PROVE run[n] = Tc(run[n - 1], cmds[n])
    <2>1. n \in 0..Len(cmds) /\ n # 0
      OBVIOUS
    <2> QED
      BY <1>1, <2>1 DEF IsRun
  <1>4. TcAll(t, cmds) = run[Len(cmds)]
    BY <1>2, <1>3, RunIsTcAll
  <1> QED
    BY <1>2, <1>3, <1>4

\* No command, one command, one list after another.
LEMMA TcAllNone == ASSUME NEW t PROVE TcAll(t, <<>>) = t
  <1>1. PICK cmds : cmds = <<>>
    OBVIOUS
  <1>2. Len(cmds) = 0 /\ Len(cmds) \in Nat
    BY <1>1
  <1>3. PICK run : TcAll(t, cmds) = run[Len(cmds)] /\ run[0] = t
    BY <1>2, TcAllRuns
  <1> QED
    BY <1>1, <1>2, <1>3

\* One command.
LEMMA TcAllOne == ASSUME NEW t, NEW c PROVE TcAll(t, <<c>>) = Tc(t, c)
  <1>1. PICK cmds : cmds = <<c>>
    OBVIOUS
  <1>2. Len(cmds) = 1 /\ Len(cmds) \in Nat /\ cmds[1] = c
    BY <1>1
  <1>3. PICK run : /\ TcAll(t, cmds) = run[Len(cmds)] /\ run[0] = t
                   /\ \A n \in 1..Len(cmds) : run[n] = Tc(run[n - 1], cmds[n])
    BY <1>2, TcAllRuns
  <1>4. run[1] = Tc(run[0], cmds[1])
    BY <1>2, <1>3
  <1> QED
    BY <1>1, <1>2, <1>3, <1>4

\* One list after another.
LEMMA TcAllConcat ==
    ASSUME NEW C, NEW t, NEW a \in Seq(C), NEW b \in Seq(C)
    PROVE  TcAll(t, a \o b) = TcAll(TcAll(t, a), b)
  <1> DEFINE s == a \o b
  <1>0. PICK m \in Nat, k \in Nat : m = Len(a) /\ k = Len(b)
    OBVIOUS
  <1>1. m \in Nat /\ k \in Nat /\ Len(s) = m + k /\ Len(a) = m /\ Len(b) = k
    BY <1>0
  <1>2. PICK ra : /\ TcAll(t, a) = ra[m] /\ ra[0] = t
                  /\ \A n \in 1..m : ra[n] = Tc(ra[n - 1], a[n])
    BY <1>1, TcAllRuns
  <1>3. PICK rb : /\ TcAll(ra[m], b) = rb[k] /\ rb[0] = ra[m]
                  /\ \A n \in 1..k : rb[n] = Tc(rb[n - 1], b[n])
    BY <1>1, TcAllRuns
  <1> DEFINE r == [n \in 0..(m + k) |-> IF n <= m THEN ra[n] ELSE rb[n - m]]
  <1>4. ASSUME NEW n \in 1..(m + k) PROVE r[n] = Tc(r[n - 1], s[n])
    <2>1. CASE n <= m
      <3>1. n \in 1..m /\ n \in 0..(m + k) /\ n - 1 \in 0..(m + k) /\ n - 1 <= m
        BY <1>1, <2>1
      <3>2. s[n] = a[n]
        BY <1>0, <3>1
      <3>3. r[n] = ra[n] /\ r[n - 1] = ra[n - 1]
        BY <2>1, <3>1
      <3> QED
        BY <1>2, <3>1, <3>2, <3>3
    <2>2. CASE n > m
      <3>1. n - m \in 1..k /\ n \in 0..(m + k) /\ n - 1 \in 0..(m + k) /\ ~(n <= m)
        BY <1>1, <2>2
      <3>2. s[n] = b[n - m]
        BY <1>0, <2>2
      <3>3. r[n] = rb[n - m]
        BY <3>1
      <3>4. r[n - 1] = rb[(n - m) - 1]
        <4>1. CASE n - 1 <= m
          <5>1. n - 1 = m /\ (n - m) - 1 = 0
            BY <1>1, <2>2, <4>1
          <5> QED
            BY <1>3, <3>1, <4>1, <5>1
        <4>2. CASE ~(n - 1 <= m)
          <5>1. (n - 1) - m = (n - m) - 1
            BY <1>1
          <5> QED
            BY <3>1, <4>2, <5>1
        <4> QED
          BY <4>1, <4>2
      <3> QED
        BY <1>3, <3>1, <3>2, <3>3, <3>4
    <2> QED
      BY <1>1, <2>1, <2>2
  <1>5. r[0] = t /\ r[m + k] = rb[k]
    <2>1. 0 \in 0..(m + k) /\ 0 <= m /\ m + k \in 0..(m + k) /\ (m + k) - m = k
      BY <1>1
    <2>2. r[0] = ra[0]
      BY <2>1
    <2>3. r[m + k] = rb[k]
      <3>1. CASE k = 0
        <4>1. m + k <= m /\ m + k = m
          BY <1>1, <3>1
        <4>2. r[m + k] = ra[m]
          BY <2>1, <4>1
        <4> QED
          BY <1>3, <3>1, <4>2
      <3>2. CASE k # 0
        <4>1. ~(m + k <= m)
          BY <1>1, <3>2
        <4> QED
          BY <2>1, <4>1
      <3> QED
        BY <3>1, <3>2
    <2> QED
      BY <1>2, <2>2, <2>3
  <1> HIDE DEF r, s
  <1>6. TcAll(t, s) = r[m + k]
    <2>1. PICK N \in Nat : N = m + k
      BY <1>1
    <2>2. Len(s) = N /\ r[0] = t /\ \A n \in 1..N : r[n] = Tc(r[n - 1], s[n])
      BY <1>1, <1>4, <1>5, <2>1
    <2>3. TcAll(t, s) = r[N]
      BY <2>2, RunIsTcAll
    <2> QED
      BY <2>1, <2>3
  <1> QED
    BY <1>2, <1>3, <1>5, <1>6 DEF s

(***************************************************************************)
(* Short sequences.                                                        *)
(***************************************************************************)
\* Their type.
LEMMA ShortSeq ==
    ASSUME NEW C, NEW x \in C, NEW y \in C
    PROVE  <<>> \in Seq(C) /\ <<x>> \in Seq(C) /\ <<x, y>> \in Seq(C)
  <1>1. <<>> \in Seq(C)
    OBVIOUS
  <1>2. <<x>> \in Seq(C)
    OBVIOUS
  <1>3. <<x, y>> \in Seq(C)
    OBVIOUS
  <1> QED
    BY <1>1, <1>2, <1>3

\* What they make together.
LEMMA ShortConcat ==
    ASSUME NEW x, NEW y
    PROVE  <<x>> \o <<y>> = <<x, y>> /\ Append(<<x>>, y) = <<x, y>>
  <1>1. PICK s : s = <<x>>
    OBVIOUS
  <1>2. PICK t : t = <<y>>
    OBVIOUS
  <1>3. PICK u : u = <<x, y>>
    OBVIOUS
  <1> DEFINE C == {x, y}
  <1>4. s \in Seq(C) /\ t \in Seq(C) /\ u \in Seq(C) /\ y \in C
    BY <1>1, <1>2, <1>3, ShortSeq
  <1> HIDE DEF C
  <1>5. Len(s) = 1 /\ s[1] = x /\ Len(t) = 1 /\ t[1] = y /\ Len(u) = 2 /\ u[1] = x /\ u[2] = y
    BY <1>1, <1>2, <1>3
  <1>6. s \o t = u
    <2>1. s \o t \in Seq(C) /\ Len(s \o t) = 2 /\ (s \o t)[1] = x /\ (s \o t)[2] = y
      <3>1. /\ s \o t \in Seq(C) /\ Len(s \o t) = Len(s) + Len(t)
            /\ \A n \in 1..(Len(s) + Len(t)) :
                  (s \o t)[n] = IF n <= Len(s) THEN s[n] ELSE t[n - Len(s)]
        BY <1>4, ConcatProperties
      <3>2. (s \o t)[1] = s[1] /\ (s \o t)[2] = t[2 - 1]
        BY <1>5, <3>1
      <3> QED
        BY <1>5, <3>1, <3>2
    <2>2. \A n \in 1..2 : n = 1 \/ n = 2
      OBVIOUS
    <2> QED
      BY <1>4, <1>5, <2>1, <2>2, SeqEqual
  <1>7. Append(s, y) = u
    <2>1. /\ Append(s, y) \in Seq(C) /\ Len(Append(s, y)) = 2
          /\ Append(s, y)[1] = x /\ Append(s, y)[2] = y
      BY <1>4, <1>5
    <2>2. \A n \in 1..2 : n = 1 \/ n = 2
      OBVIOUS
    <2> QED
      BY <1>4, <1>5, <2>1, <2>2, SeqEqual
  <1> QED
    BY <1>1, <1>2, <1>3, <1>6, <1>7

(***************************************************************************)
(* What config() makes of valid parameters.                                *)
(***************************************************************************)
LimitLayer(p) == [kind |-> p.how, rate |-> Rate(p)]
EarlyLayer(p) == [kind |-> p.red, rate |-> Rate(p)]
NetemLayer(p) ==
    [kind |-> "netem", delay |-> p.delay, jitter |-> p.jitter,
     loss |-> IF Truthy(p.loss) THEN p.loss ELSE NoValue, limit |-> p.limit]

HasNetem(p) == Given(p.delay) \/ Truthy(p.loss) \/ Given(p.limit)
LimitLayers(p) ==
    IF ~Given(p.bw) THEN <<>>
    ELSE IF p.red = "no" THEN <<LimitLayer(p)>> ELSE <<LimitLayer(p), EarlyLayer(p)>>

\* The disciplines that the parameters mean, layer by layer.
LEMMA MeantLayers ==
    ASSUME NEW p
    PROVE  Meant(p) = LimitLayers(p) \o IF HasNetem(p) THEN <<NetemLayer(p)>> ELSE <<>>
  <1> DEFINE x == LimitLayer(p)
             y == EarlyLayer(p)
             z == NetemLayer(p)
             n == IF HasNetem(p) THEN <<z>> ELSE <<>>
  <1>1. Meant(p) = ((IF Given(p.bw) THEN <<x>> ELSE <<>>)
                    \o (IF Given(p.bw) /\ p.red # "no" THEN <<y>> ELSE <<>>)) \o n
    BY DEF Meant, HasNetem, LimitLayer, EarlyLayer, NetemLayer
  <1>2. (IF Given(p.bw) THEN <<x>> ELSE <<>>)
        \o (IF Given(p.bw) /\ p.red # "no" THEN <<y>> ELSE <<>>) = LimitLayers(p)
    <2> HIDE DEF x, y, n
    <2>1. <<x>> \o <<>> = <<x>> /\ <<x>> \o <<y>> = <<x, y>>
      <3>1. <<x>> \in Seq({x})
        BY ShortSeq
      <3> QED
        BY <3>1, ConcatEmptySeq, ShortConcat, Zenon
    <2>2. <<>> \o <<>> = <<>>
      <3>1. <<>> \in Seq({x})
        BY ShortSeq
      <3> QED
        BY <3>1, ConcatEmptySeq, Zenon
    <2>3. LimitLayers(p) = IF ~Given(p.bw) THEN <<>> ELSE IF p.red = "no" THEN <<x>> ELSE <<x, y>>
      BY DEF LimitLayers, x, y
    <2> QED
      BY <2>1, <2>2, <2>3, Zenon
  <1> QED
    BY <1>1, <1>2

\* The first command clears what another configuration left.
LEMMA ClearClears ==
    ASSUME NEW t, t # FaultTree("prio")
    PROVE  TcAll(t, Clear(t)) = <<>>
  <1>1. CASE t = <<>>
    <2>1. Clear(t) = <<>>
      BY <1>1 DEF Clear, ShowsPriomap
    <2> QED
      BY <1>1, <2>1, TcAllNone
  <1>2. CASE t # <<>>
    <2>1. Clear(t) = <<Del>>
      BY <1>2 DEF Clear, ShowsPriomap
    <2>2. Tc(t, Del) = <<>>
      <3>1. Del.op = "del"
        BY DEF Del
      <3> QED
        BY <3>1 DEF Tc
    <2> QED
      BY <2>1, <2>2, TcAllOne
  <1> QED
    BY <1>1, <1>2

\* What the parameters are made of.
LEMMA ValidRate ==
    ASSUME NEW p \in ParamRecords, Valid(p), ~BwRaises(p), Given(p.bw)
    PROVE  Limited(p) /\ Rate(p) \in Int /\ Rate(p) > 0 /\ Given(Rate(p))
  <1>1. p.bw \in Int /\ p.bw >= 1 /\ p.bw <= bwParamMax /\ p.speedup \in Int /\ NoValue \notin Int
    BY TcAssumption DEF Valid, ParamRecords, bwParamMax
  <1>2. Limited(p)
    BY <1>1 DEF Limited, BadRate, bwParamMax
  <1> QED
    BY <1>1, <1>2, TcAssumption DEF Rate, Given

\* A root that no injector made.
LEMMA NotInjected ==
    ASSUME NEW s, NEW x, s[1] = x, "by" \notin DOMAIN x
    PROVE  ~Injected(s)
  <1> SUFFICES ASSUME NEW k \in FaultKinds, s = FaultTree(k) PROVE FALSE
    BY DEF Injected
  <1> DEFINE f == [kind |-> k, by |-> "injector"]
  <1>1. "by" \in DOMAIN f
    OBVIOUS
  <1>2. s = <<f>>
    BY DEF FaultTree
  <1> HIDE DEF f
  <1>3. s[1] = f
    BY <1>2
  <1> QED
    BY <1>1, <1>3

\* The limit, and early detection below it.
LEMMA LimitMade ==
    ASSUME NEW p \in ParamRecords, Valid(p), ~BwRaises(p)
    PROVE  /\ TcAll(<<>>, BwCmds(p)) = LimitLayers(p)
           /\ \E C : BwCmds(p) \in Seq(C)
  <1>1. CASE ~Given(p.bw)
    <2>1. BwCmds(p) = <<>> /\ LimitLayers(p) = <<>>
      BY <1>1 DEF BwCmds, Limited, LimitLayers
    <2>2. <<>> \in Seq({1})
      OBVIOUS
    <2> QED
      BY <2>1, <2>2, TcAllNone
  <1>2. CASE Given(p.bw)
    <2> DEFINE bare == [kind |-> p.how, rate |-> IF p.how = "tbf" THEN Rate(p) ELSE NoValue]
               a == Add("root", bare)
               b == Class(Rate(p))
               c == Add("5:1", EarlyLayer(p))
               x == LimitLayer(p)
               y == EarlyLayer(p)
               first == IF p.how = "tbf" THEN <<a>> ELSE <<a, b>>
    <2>0. /\ Limited(p) /\ Rate(p) \in Int /\ Rate(p) > 0 /\ Given(Rate(p))
          /\ p.how \in {"htb", "hfsc", "tbf"} /\ p.red \in {"no", "red", "ecn"}
      BY <1>2, ValidRate DEF ParamRecords
    <2>1. BwCmds(p) = IF p.red = "no" THEN first ELSE first \o <<c>>
      <3>1. BwCmds(p) = (<<a>> \o (IF p.how = "tbf" THEN <<>> ELSE <<b>>))
                        \o (IF p.red = "no" THEN <<>> ELSE <<c>>)
        BY <2>0 DEF BwCmds, EarlyLayer
      <3> HIDE DEF a, b, c
      <3>2. <<a>> \in Seq({a, b}) /\ <<a, b>> \in Seq({a, b})
        BY ShortSeq
      <3>3. <<a>> \o <<>> = <<a>> /\ <<a, b>> \o <<>> = <<a, b>>
        BY <3>2, ConcatEmptySeq, Zenon
      <3>4. <<a>> \o <<b>> = <<a, b>>
        BY ShortConcat
      <3> QED
        BY <3>1, <3>3, <3>4, Zenon
    <2>2. Tc(<<>>, a) = <<bare>>
      <3>1. a.op = "add" /\ a.parent = "root" /\ a.layer = bare
        BY DEF Add
      <3>2. WellFormed(bare)
        BY <2>0 DEF WellFormed
      <3> HIDE DEF a, bare
      <3>3. Tc(<<>>, a) = Append(<<>>, bare)
        BY <3>1, <3>2 DEF Tc, Accepted
      <3> QED
        BY <3>3
    <2>3. p.how # "tbf" => Tc(<<bare>>, b) = <<x>>
      <3> SUFFICES ASSUME p.how # "tbf" PROVE Tc(<<bare>>, b) = <<x>>
        OBVIOUS
      <3>1. b.op = "class" /\ b.rate = Rate(p)
        BY DEF Class
      <3>2. bare = [kind |-> p.how, rate |-> NoValue] /\ x = [bare EXCEPT !.rate = Rate(p)]
        BY DEF LimitLayer
      <3>3. bare.kind \in {"htb", "hfsc"}
        BY <2>0, <3>2
      <3> HIDE DEF b, bare, x
      <3>4. PICK s : s = <<bare>>
        OBVIOUS
      <3>5. s # <<>> /\ s[1] = bare
        BY <3>4
      <3>6. Tc(s, b) = [s EXCEPT ![1].rate = Rate(p)]
        BY <2>0, <3>1, <3>3, <3>5 DEF Tc
      <3>7. [s EXCEPT ![1].rate = Rate(p)] = <<[bare EXCEPT !.rate = Rate(p)]>>
        BY <3>4
      <3> QED
        BY <3>2, <3>4, <3>6, <3>7
    <2>4. p.how = "tbf" => bare = x
      BY DEF LimitLayer
    <2>5. TcAll(<<>>, first) = <<x>>
      <3> HIDE DEF a, b, x, bare
      <3>1. CASE p.how = "tbf"
        BY <2>2, <2>4, <3>1, TcAllOne
      <3>2. CASE p.how # "tbf"
        <4>1. <<a, b>> = <<a>> \o <<b>> /\ <<a>> \in Seq({a, b}) /\ <<b>> \in Seq({a, b})
          BY ShortSeq, ShortConcat
        <4>2. TcAll(<<>>, <<a>> \o <<b>>) = TcAll(TcAll(<<>>, <<a>>), <<b>>)
          <5>1. PICK u, w : u = <<a>> /\ w = <<b>>
            OBVIOUS
          <5> DEFINE C == {a, b}
          <5>3. u \in Seq(C) /\ w \in Seq(C)
            BY <4>1, <5>1
          <5> HIDE DEF C
          <5>2. TcAll(<<>>, u \o w) = TcAll(TcAll(<<>>, u), w)
            BY <5>3, TcAllConcat
          <5> QED
            BY <5>1, <5>2
        <4>3. TcAll(<<>>, <<a>>) = <<bare>> /\ TcAll(<<bare>>, <<b>>) = <<x>>
          BY <2>2, <2>3, <3>2, TcAllOne
        <4> QED
          BY <3>2, <4>1, <4>2, <4>3
      <3> QED
        BY <3>1, <3>2
    <2>6. first \in Seq({a, b, c}) /\ <<c>> \in Seq({a, b, c})
      <3> HIDE DEF a, b, c
      <3>1. <<a>> \in Seq({a, b, c}) /\ <<a, b>> \in Seq({a, b, c}) /\ <<c>> \in Seq({a, b, c})
        BY ShortSeq
      <3> QED
        BY <3>1, Zenon
    <2>7. p.red # "no" => Tc(<<x>>, c) = <<x, y>>
      <3> SUFFICES ASSUME p.red # "no" PROVE Tc(<<x>>, c) = <<x, y>>
        OBVIOUS
      <3>1. c.op = "add" /\ c.parent = "5:1" /\ c.layer = y
        BY DEF Add
      <3>2. WellFormed(y)
        BY <2>0 DEF WellFormed, EarlyLayer
      <3>3. x.kind \in {"htb", "hfsc", "tbf"} /\ HasClass(x)
        BY <2>0 DEF LimitLayer, HasClass
      <3>8. "by" \notin DOMAIN x
        BY DEF LimitLayer
      <3> HIDE DEF c, x, y
      <3>4. PICK s : s = <<x>>
        OBVIOUS
      <3>5. Len(s) = 1 /\ s[1] = x /\ Append(s, y) = <<x, y>>
        <4>1. Len(s) = 1 /\ s[1] = x
          BY <3>4
        <4> QED
          BY <3>4, <4>1, ShortConcat
      <3>6. Accepted(s, c)
        <4>1. ~Injected(s)
          BY <3>5, <3>8, NotInjected
        <4> QED
          BY <3>1, <3>3, <3>5, <4>1 DEF Accepted
      <3>7. Tc(s, c) = Append(s, y)
        BY <3>1, <3>2, <3>6 DEF Tc
      <3> QED
        BY <3>4, <3>5, <3>7
    <2> HIDE DEF a, b, c, x, y, bare, first
    <2>8. LimitLayers(p) = IF p.red = "no" THEN <<x>> ELSE <<x, y>>
      BY <1>2 DEF LimitLayers, x, y
    <2>9. CASE p.red = "no"
      BY <2>1, <2>5, <2>6, <2>8, <2>9
    <2>10. CASE p.red # "no"
      <3>1. TcAll(<<>>, first \o <<c>>) = TcAll(TcAll(<<>>, first), <<c>>)
        <4>1. PICK w : w = <<c>>
          OBVIOUS
        <4> DEFINE C == {a, b, c}
        <4>3. first \in Seq(C) /\ w \in Seq(C)
          BY <2>6, <4>1
        <4> HIDE DEF C
        <4>2. TcAll(<<>>, first \o w) = TcAll(TcAll(<<>>, first), w)
          BY <4>3, TcAllConcat
        <4> QED
          BY <4>1, <4>2
      <3>2. TcAll(<<x>>, <<c>>) = <<x, y>>
        BY <2>7, <2>10, TcAllOne
      <3>3. first \o <<c>> \in Seq({a, b, c})
        BY <2>6
      <3> QED
        BY <2>1, <2>5, <2>8, <2>10, <3>1, <3>2, <3>3
    <2> QED
      BY <2>9, <2>10
  <1> QED
    BY <1>1, <1>2

\* Delay and loss, below the limit.
LEMMA DelayMade ==
    ASSUME NEW p \in ParamRecords, Valid(p), ~BwRaises(p)
    PROVE  /\ TcAll(LimitLayers(p), DelayCmds(BwParent(p), p)) = Meant(p)
           /\ \E C : DelayCmds(BwParent(p), p) \in Seq(C)
  <1> DEFINE z == NetemLayer(p)
             c == Add(BwParent(p), z)
             s == LimitLayers(p)
  <1>0. /\ NoValue \notin Int /\ (Given(p.loss) => p.loss \in 0..100)
        /\ (Given(p.jitter) => Given(p.delay))
    BY TcAssumption DEF Valid
  <1>1. DelayCmds(BwParent(p), p) = IF HasNetem(p) THEN <<c>> ELSE <<>>
    <2> DEFINE loss == IF Truthy(p.loss) THEN p.loss ELSE NoValue
    <2>1. ~(Truthy(p.loss) /\ (p.loss < 0 \/ p.loss > 100))
      BY <1>0 DEF Truthy, Given
    <2>2. {p.delay, p.jitter, loss, p.limit} = {NoValue} <=> ~HasNetem(p)
      <3>1. loss = NoValue <=> ~Truthy(p.loss)
        BY DEF Truthy
      <3> HIDE DEF loss
      <3>2. {p.delay, p.jitter, loss, p.limit} = {NoValue} <=>
               p.delay = NoValue /\ p.jitter = NoValue /\ loss = NoValue /\ p.limit = NoValue
        OBVIOUS
      <3> QED
        BY <1>0, <3>1, <3>2 DEF HasNetem, Given
    <2>3. c = Add(BwParent(p), [kind |-> "netem", delay |-> p.delay, jitter |-> p.jitter,
                                loss |-> loss, limit |-> p.limit])
      BY DEF NetemLayer
    <2>4. DelayCmds(BwParent(p), p) =
             IF {p.delay, p.jitter, loss, p.limit} = {NoValue} THEN <<>> ELSE <<c>>
      BY <2>1, <2>3, Zenon DEF DelayCmds
    <2> HIDE DEF c, loss
    <2> QED
      BY <2>2, <2>4, Zenon
  <1>2. HasNetem(p) => Tc(s, c) = Append(s, z)
    <2> SUFFICES ASSUME HasNetem(p) PROVE Tc(s, c) = Append(s, z)
      OBVIOUS
    <2>1. c.op = "add" /\ c.parent = BwParent(p) /\ c.layer = z
      BY DEF Add
    <2>2. WellFormed(z)
      BY <1>0 DEF WellFormed, NetemLayer
    <2>3. Accepted(s, c)
      <3> HIDE DEF c
      <3>1. CASE ~Given(p.bw)
        <4>1. BwParent(p) = "root" /\ s = <<>>
          BY <3>1 DEF BwParent, Limited, LimitLayers
        <4> QED
          BY <2>1, <4>1 DEF Accepted
      <3>2. CASE Given(p.bw) /\ p.red = "no"
        <4>1. Limited(p) /\ Given(Rate(p))
          BY <3>2, ValidRate
        <4>2. BwParent(p) = "5:1"
          BY <3>2, <4>1 DEF BwParent
        <4>3. PICK x : x = LimitLayer(p)
          OBVIOUS
        <4>4. /\ x.kind \in {"htb", "hfsc", "tbf"} /\ HasClass(x)
              /\ "by" \notin DOMAIN x
          BY <4>1, <4>3 DEF LimitLayer, HasClass, ParamRecords
        <4>5. s = <<x>>
          BY <3>2, <4>3 DEF LimitLayers
        <4> HIDE DEF s
        <4>6. Len(s) = 1 /\ s[1] = x
          BY <4>5
        <4>7. ~Injected(s)
          BY <4>4, <4>6, NotInjected
        <4> QED
          BY <2>1, <4>2, <4>4, <4>6, <4>7 DEF Accepted
      <3>3. CASE Given(p.bw) /\ p.red # "no"
        <4>1. Limited(p)
          BY <3>3, ValidRate
        <4>2. BwParent(p) = "6:"
          BY <3>3, <4>1 DEF BwParent
        <4>3. PICK x, y : x = LimitLayer(p) /\ y = EarlyLayer(p)
          OBVIOUS
        <4>4. y.kind \in {"red", "ecn"}
          BY <3>3, <4>3 DEF EarlyLayer, ParamRecords
        <4>5. s = <<x, y>>
          BY <3>3, <4>3 DEF LimitLayers
        <4> HIDE DEF s
        <4>6. s # <<>> /\ Last(s) = y
          BY <4>5 DEF Last
        <4> QED
          BY <2>1, <4>2, <4>4, <4>6 DEF Accepted
      <3> QED
        BY <3>1, <3>2, <3>3
    <2> HIDE DEF c, z, s
    <2> QED
      BY <2>1, <2>2, <2>3 DEF Tc
  <1>3. Meant(p) = IF HasNetem(p) THEN s \o <<z>> ELSE s \o <<>>
    BY MeantLayers
  <1>4. \E S : s \in Seq(S)
    <2> DEFINE x == LimitLayer(p)
               y == EarlyLayer(p)
    <2>1. s = IF ~Given(p.bw) THEN <<>> ELSE IF p.red = "no" THEN <<x>> ELSE <<x, y>>
      BY DEF LimitLayers
    <2> HIDE DEF x, y, s
    <2>2. s \in Seq({x, y})
      <3>1. <<>> \in Seq({x, y}) /\ <<x>> \in Seq({x, y}) /\ <<x, y>> \in Seq({x, y})
        BY ShortSeq
      <3> QED
        BY <2>1, <3>1, Zenon
    <2> QED
      BY <2>2
  <1> HIDE DEF c, z, s
  <1>5. Append(s, z) = s \o <<z>> /\ s \o <<>> = s
    <2>1. PICK S : s \in Seq(S)
      BY <1>4
    <2>2. s \in Seq(S \cup {z})
      BY <2>1
    <2> QED
      BY <2>2
  <1>6. CASE HasNetem(p)
    <2>1. TcAll(s, <<c>>) = s \o <<z>>
      BY <1>2, <1>5, <1>6, TcAllOne
    <2>2. <<c>> \in Seq({c})
      OBVIOUS
    <2> QED
      BY <1>1, <1>3, <1>6, <2>1, <2>2 DEF s
  <1>7. CASE ~HasNetem(p)
    <2>1. TcAll(s, <<>>) = s
      BY TcAllNone
    <2>2. <<>> \in Seq({c})
      OBVIOUS
    <2> QED
      BY <1>1, <1>3, <1>5, <1>7, <2>1, <2>2 DEF s
  <1> QED
    BY <1>6, <1>7

\* A configuration that does something makes what its parameters mean, whatever another
\* configuration left.
LEMMA ConfiguredIsMeant ==
    ASSUME NEW p \in ParamRecords, Valid(p), ~BwRaises(p), ~NothingToDo(p), NEW t, t # FaultTree("prio")
    PROVE  Configured(t, p) = Meant(p)
  <1>1. PICK a, b, c : a = Clear(t) /\ b = BwCmds(p) /\ c = DelayCmds(BwParent(p), p)
    OBVIOUS
  <1>2. PICK B : b \in Seq(B)
    BY <1>1, LimitMade
  <1>3. PICK C : c \in Seq(C)
    BY <1>1, DelayMade
  <1> DEFINE D == B \cup C \cup {Del}
  <1>4. a \in Seq(D)
    <2>1. <<>> \in Seq(D) /\ <<Del>> \in Seq(D)
      BY ShortSeq
    <2> QED
      BY <1>1, <2>1, Zenon DEF Clear
  <1>5. b \in Seq(D) /\ c \in Seq(D)
    BY <1>2, <1>3
  <1> HIDE DEF D
  <1>6. a \o b \in Seq(D)
    BY <1>4, <1>5
  <1>7. Configured(t, p) = TcAll(t, (a \o b) \o c)
    BY <1>1 DEF Configured
  <1>8. TcAll(t, (a \o b) \o c) = TcAll(TcAll(t, a \o b), c)
    <2>1. PICK ab : ab = a \o b
      OBVIOUS
    <2>3. ab \in Seq(D)
      BY <1>6, <2>1
    <2>2. TcAll(t, ab \o c) = TcAll(TcAll(t, ab), c)
      BY <1>5, <2>3, TcAllConcat
    <2> QED
      BY <2>1, <2>2
  <1>9. TcAll(t, a \o b) = TcAll(TcAll(t, a), b)
    BY <1>4, <1>5, TcAllConcat
  <1>10. TcAll(t, a) = <<>>
    BY <1>1, ClearClears
  <1>11. TcAll(<<>>, b) = LimitLayers(p)
    BY <1>1, LimitMade
  <1>12. TcAll(LimitLayers(p), c) = Meant(p)
    BY <1>1, DelayMade
  <1> QED
    BY <1>7, <1>8, <1>9, <1>10, <1>11, <1>12

\* No parameters mean no disciplines.
LEMMA NothingMeant == Nothing \in ParamRecords /\ Meant(Nothing) = <<>>
  <1>1. Nothing \in ParamRecords
    <2>1. 0 \in Int
      OBVIOUS
    <2> QED
      BY <2>1 DEF Nothing, ParamRecords
  <1>2. LimitLayers(Nothing) = <<>> /\ ~HasNetem(Nothing)
    BY DEF LimitLayers, HasNetem, Nothing, Given, Truthy
  <1>3. Meant(Nothing) = <<>> \o <<>>
    BY <1>2, MeantLayers
  <1>4. <<>> \in Seq({1})
    OBVIOUS
  <1> QED
    BY <1>1, <1>3, <1>4, ConcatEmptySeq

\* What is meant is not the discipline of a fault, and no prio.
LEMMA MeantIsNoFault ==
    ASSUME NEW p \in ParamRecords
    PROVE  /\ ~Injected(Meant(p))
           /\ Meant(p) # <<>> => Meant(p)[1].kind # "prio"
  <1> DEFINE x == LimitLayer(p)
             y == EarlyLayer(p)
             z == NetemLayer(p)
  <1>1. /\ x.kind # "prio" /\ "by" \notin DOMAIN x
        /\ z.kind # "prio" /\ "by" \notin DOMAIN z
    BY DEF LimitLayer, NetemLayer, ParamRecords
  <1>2. Meant(p) = LimitLayers(p) \o IF HasNetem(p) THEN <<z>> ELSE <<>>
    BY MeantLayers
  <1>3. LimitLayers(p) \in {<<>>, <<x>>, <<x, y>>}
    BY DEF LimitLayers
  <1> HIDE DEF x, y, z
  <1>4. PICK s, n : /\ s = LimitLayers(p) /\ n = IF HasNetem(p) THEN <<z>> ELSE <<>>
    OBVIOUS
  <1> DEFINE C == {x, y, z}
  <1>5. <<>> \in Seq(C) /\ <<x>> \in Seq(C) /\ <<x, y>> \in Seq(C) /\ <<z>> \in Seq(C)
    BY ShortSeq
  <1>6. s \in Seq(C) /\ n \in Seq(C)
    BY <1>3, <1>4, <1>5, Zenon
  <1> HIDE DEF C
  <1>7. s \o n = <<>> \/ (s \o n)[1] \in {x, z}
    <2>1. CASE s = <<>>
      <3>1. s \o n = n
        BY <1>6, <2>1, ConcatEmptySeq
      <3>2. n = <<>> \/ n = <<z>>
        BY <1>4
      <3> QED
        BY <3>1, <3>2
    <2>2. CASE s # <<>>
      <3>1. Len(s) >= 1 /\ s[1] = x
        BY <1>3, <1>4, <2>2
      <3>2. (s \o n)[1] = s[1]
        BY <1>6, <3>1
      <3> QED
        BY <3>1, <3>2
    <2> QED
      BY <2>1, <2>2
  <1>8. PICK g : g = Meant(p)
    OBVIOUS
  <1>9. g = <<>> \/ g[1] \in {x, z}
    BY <1>2, <1>4, <1>7, <1>8
  <1>10. CASE g = <<>>
    <2>1. ~Injected(g)
      <3>1. \A k : FaultTree(k) # <<>>
        <4> SUFFICES ASSUME NEW k PROVE FaultTree(k) # <<>>
          OBVIOUS
        <4>1. PICK f : FaultTree(k) = <<f>>
          BY DEF FaultTree
        <4> QED
          BY <4>1
      <3> QED
        BY <1>10, <3>1 DEF Injected
    <2> QED
      BY <1>8, <1>10, <2>1
  <1>11. CASE g[1] \in {x, z}
    <2>1. ~Injected(g)
      BY <1>1, <1>11, NotInjected
    <2>2. g[1].kind # "prio"
      BY <1>1, <1>11
    <2> QED
      BY <1>8, <2>1, <2>2
  <1> QED
    BY <1>9, <1>10, <1>11

\* The parameters, the fault that is on, and the disciplines as they are asked for.
Queued ==
    /\ params \in ParamRecords /\ asked \in ParamRecords
    /\ injecting \in FaultKinds \cup {"no"}
    /\ QueuesAsAsked

\* A configuration of anything, by its interface or by the switch it is attached to.
LEMMA QueuedReconfigured ==
    ASSUME Queued, NEW p \in ParamRecords, NEW t \in {tree, <<>>}, Reconfigured(t, p),
           params' = params, injecting' = injecting
    PROVE  Queued'
  <1>1. CASE NothingToDo(p) \/ BwRaises(p)
    <2>1. tree' = t
      BY <1>1 DEF Reconfigured, Configured
    <2>2. CASE t = tree
      <3>1. asked' = asked /\ blocked' = blocked /\ taken' = taken
        BY <1>1, <2>2 DEF Reconfigured
      <3> QED
        BY <2>1, <2>2, <3>1 DEF Queued, QueuesAsAsked
    <2>3. CASE t # tree
      <3>1. asked' = Nothing /\ t = <<>>
        BY <1>1, <2>3 DEF Reconfigured
      <3> QED
        BY <2>1, <3>1, NothingMeant DEF Queued, QueuesAsAsked
    <2> QED
      BY <2>2, <2>3
  <1>2. CASE ~NothingToDo(p) /\ ~BwRaises(p)
    <2>1. tree' = Configured(t, p) /\ asked' = p /\ blocked' = (t = FaultTree("prio"))
      BY <1>2 DEF Reconfigured
    <2>2. Valid(p) /\ ~blocked' => tree' = Meant(p)
      <3> SUFFICES ASSUME Valid(p), t # FaultTree("prio") PROVE tree' = Meant(p)
        BY <2>1
      <3> QED
        BY <1>2, <2>1, ConfiguredIsMeant
    <2> QED
      BY <2>1, <2>2 DEF Queued, QueuesAsAsked
  <1> QED
    BY <1>1, <1>2

\* The begin of a fault: where there is a root, nothing happens.
LEMMA QueuedInjected ==
    ASSUME Queued, NEW k \in FaultKinds, Inject(k)
    PROVE  Queued'
  <1>1. /\ injecting' = k /\ params' = params /\ asked' = asked
        /\ blocked' = blocked /\ taken' = taken
    BY DEF Inject
  <1>2. CASE tree = <<>>
    <2>1. tree' = FaultTree(k)
      BY <1>2 DEF Inject
    <2>2. Injected(tree')
      BY <2>1 DEF Injected
    <2>3. ASSUME Valid(asked), ~blocked
          PROVE  Meant(asked) = <<>> \/ (Exposed(asked) /\ taken)
      BY <1>2, <2>3 DEF Queued, QueuesAsAsked
    <2> QED
      BY <1>1, <2>2, <2>3 DEF Queued, QueuesAsAsked
  <1>3. CASE tree # <<>>
    <2>1. tree' = tree
      BY <1>3 DEF Inject
    <2> QED
      BY <1>1, <2>1 DEF Queued, QueuesAsAsked
  <1> QED
    BY <1>2, <1>3

\* The end of a fault: a root of its kind goes, its own or a configured netem or tbf.
LEMMA QueuedEjected ==
    ASSUME Queued, Eject
    PROVE  Queued'
  <1>1. /\ injecting \in FaultKinds /\ injecting' = "no" /\ params' = params
        /\ asked' = asked /\ blocked' = blocked
    BY DEF Eject, Queued
  <1>2. CASE ~RootIs(tree, injecting)
    <2>1. tree' = tree /\ taken' = (taken \/ FALSE)
      BY <1>2 DEF Eject
    <2> QED
      BY <1>1, <2>1 DEF Queued, QueuesAsAsked
  <1>3. CASE RootIs(tree, injecting)
    <2>1. tree' = <<>> /\ (taken' <=> (taken \/ ~Injected(tree)))
      BY <1>3 DEF Eject
    <2>2. tree # <<>> /\ tree[1].kind = injecting
      BY <1>3 DEF RootIs
    <2>3. ASSUME Valid(asked), ~blocked
          PROVE  Meant(asked) = <<>> \/ (Exposed(asked) /\ taken')
      <3>1. CASE tree = Meant(asked)
        <4>1. ~Injected(tree) /\ tree[1].kind # "prio"
          BY <2>2, <3>1, MeantIsNoFault DEF Queued
        <4>2. tree[1].kind \in {"netem", "tbf"}
          BY <1>1, <2>2, <4>1 DEF FaultKinds
        <4> QED
          BY <2>1, <2>2, <3>1, <4>1, <4>2 DEF Exposed
      <3>2. CASE Meant(asked) = <<>> /\ Injected(tree)
        BY <3>2
      <3>3. CASE Exposed(asked) /\ taken
        BY <2>1, <3>3
      <3> QED
        BY <2>3, <3>1, <3>2, <3>3 DEF Queued, QueuesAsAsked
    <2> QED
      BY <1>1, <2>1, <2>3 DEF Queued, QueuesAsAsked
  <1> QED
    BY <1>2, <1>3

\* Every step keeps it.
LEMMA QueuedKept == Queued /\ [LimitsNext]_limitsVars => Queued'
  <1> SUFFICES ASSUME Queued, [LimitsNext]_limitsVars PROVE Queued'
    OBVIOUS
  <1>0. params \in ParamRecords /\ Params \subseteq ParamRecords
    BY TcAssumption DEF Queued
  <1>1. ASSUME NEW p \in Params, Config(p) PROVE Queued'
    <2>1. /\ p \in ParamRecords /\ Reconfigured(tree, p)
          /\ params' = params /\ injecting' = injecting
      BY <1>0, <1>1 DEF Config
    <2> QED
      BY <2>1, QueuedReconfigured
  <1>2. CASE Attach
    <2>1. PICK t \in {tree, <<>>} : Reconfigured(t, params)
      BY <1>2 DEF Attach
    <2>2. params' = params /\ injecting' = injecting
      BY <1>2 DEF Attach
    <2> QED
      BY <1>0, <2>1, <2>2, QueuedReconfigured
  <1>3. ASSUME NEW k \in FaultKinds, Inject(k) PROVE Queued'
    BY <1>3, QueuedInjected
  <1>4. CASE Eject
    BY <1>4, QueuedEjected
  <1>5. CASE UNCHANGED tcVars
    BY <1>5 DEF tcVars, Queued, QueuesAsAsked
  <1> QED
    BY <1>1, <1>2, <1>3, <1>4, <1>5 DEF LimitsNext, TcNext, limitsVars

\* The first configuration.
LEMMA QueuedInitially == LimitsInit => Queued
  <1> SUFFICES ASSUME LimitsInit PROVE Queued
    OBVIOUS
  <1>1. params \in ParamRecords /\ ~BwRaises(params) /\ tree = Configured(<<>>, params)
        /\ asked = (IF NothingToDo(params) THEN Nothing ELSE params) /\ injecting = "no"
    BY TcAssumption DEF LimitsInit, TcInit
  <1>2. <<>> # FaultTree("prio")
    <2>1. PICK x : FaultTree("prio") = <<x>>
      BY DEF FaultTree
    <2> QED
      BY <2>1
  <1>3. CASE NothingToDo(params)
    BY <1>1, <1>3, NothingMeant DEF Queued, QueuesAsAsked, Configured
  <1>4. CASE ~NothingToDo(params)
    <2>1. Valid(params) => tree = Meant(params)
      BY <1>1, <1>2, <1>4, ConfiguredIsMeant
    <2> QED
      BY <1>1, <1>4, <2>1 DEF Queued, QueuesAsAsked
  <1> QED
    BY <1>3, <1>4

\* Packets pass exactly the disciplines that the last configuration means, for every set of
\* parameters, whatever was configured, attached and injected before, but for what is
\* configured under the prio of a fault, and for a netem or tbf root that the end of a fault
\* deletes (config(), bwCmds(), delayCmds(); the commands of the link faults).
THEOREM PacketsQueueAsAsked == LimitsSpec => []QueuesAsAsked
  <1>1. Queued => QueuesAsAsked
    BY DEF Queued
  <1> QED
    BY <1>1, QueuedInitially, QueuedKept, PTL DEF LimitsSpec
=============================================================================
