------------------------- MODULE FaultInjectionProofs -------------------------
(* The injectors, for every set of them and of interfaces and every choice of
   faults: their times and the values they climb through, what they leave on the
   interfaces, and what the table of active faults says of it.                  *)
EXTENDS FaultInjection, WellFoundedInduction, SequenceTheorems, TLAPS

USE DEF vars

(***************************************************************************)
(* Numbers.                                                                *)
(***************************************************************************)
\* The quotient of two numbers is the last multiple below.
LEMMA Quotient ==
    ASSUME NEW x \in Nat, NEW b \in Nat \ {0}
    PROVE  x \div b \in Nat /\ (x \div b) * b <= x
  OBVIOUS

\* The smaller of two numbers.
LEMMA SmallerOfTwo ==
    ASSUME NEW a \in Int, NEW b \in Int
    PROVE  /\ Min({a, b}) \in {a, b} /\ Min({a, b}) <= a /\ Min({a, b}) <= b
  <1>1. \E x \in {a, b} : \A y \in {a, b} : x <= y
    OBVIOUS
  <1> QED
    BY <1>1 DEF Min

\* The larger of two numbers.
LEMMA LargerOfTwo ==
    ASSUME NEW a \in Int, NEW b \in Int
    PROVE  /\ Max({a, b}) \in {a, b} /\ a <= Max({a, b}) /\ b <= Max({a, b})
  <1>1. \E x \in {a, b} : \A y \in {a, b} : x >= y
    OBVIOUS
  <1> QED
    BY <1>1 DEF Max

\* Fewer rounds of at most the same length take no longer.
LEMMA FewerRounds ==
    ASSUME NEW m \in Nat, NEW n \in Nat, NEW x \in Nat, NEW y \in Nat, NEW z \in Nat,
           m <= n, x <= y, n * y <= z
    PROVE  m * x <= z
  <1>1. m * x <= m * y
    OBVIOUS
  <1>2. m * y <= n * y
    OBVIOUS
  <1>3. m * x \in Int /\ m * y \in Int /\ n * y \in Int
    OBVIOUS
  <1> QED
    BY <1>1, <1>2, <1>3

\* Whole seconds are not more.
LEMMA WholeSeconds ==
    ASSUME NEW ms \in Nat
    PROVE  Div1000(ms) \in Nat /\ Div1000(ms) <= ms
  <1>1. ms \div 1000 \in Nat /\ (ms \div 1000) * 1000 <= ms
    BY Quotient
  <1> QED
    BY <1>1 DEF Div1000

(***************************************************************************)
(* The parameters of a fault.                                              *)
(***************************************************************************)
IsFault(c) == c.time \in Nat /\ c.patternArgs \in Seq(Nat)

\* An argument is a number, given or not.
LEMMA ArgumentType ==
    ASSUME NEW c, IsFault(c), NEW n \in Nat \ {0}, NEW default \in Nat
    PROVE  PatternArg(c, n, default) \in Nat
  BY DEF PatternArg, IsFault

\* The values of a degradation are numbers.
LEMMA ValueType ==
    ASSUME NEW c, IsFault(c)
    PROVE  /\ StartValue(c) \in Nat /\ EndValue(c) \in Nat
           /\ \A v \in Int :
                 /\ NextValue(c, v) \in Int /\ NextValue(c, v) <= EndValue(c)
                 /\ v <= EndValue(c) => v <= NextValue(c, v)
  <1>1. PatternArg(c, 3, 0) \in Nat /\ PatternArg(c, 4, 100) \in Nat
        /\ PatternArg(c, 1, 5) \in Nat
    BY ArgumentType
  <1>2. StartValue(c) \in Nat
    BY <1>1 DEF StartValue, IsFault
  <1>3. EndValue(c) \in Nat
    <2>1. Min({PatternArg(c, 4, 100), 100}) \in {PatternArg(c, 4, 100), 100}
      <3>1. PICK hundred \in Int : hundred = 100
        OBVIOUS
      <3>2. PICK asked \in Int : asked = PatternArg(c, 4, 100)
        BY <1>1
      <3>3. Min({asked, hundred}) \in {asked, hundred}
        BY SmallerOfTwo
      <3> QED
        BY <3>1, <3>2, <3>3, Zenon
    <2> QED
      BY <1>1, <2>1 DEF EndValue
  <1>4. ASSUME NEW v \in Int
        PROVE  /\ NextValue(c, v) \in Int /\ NextValue(c, v) <= EndValue(c)
               /\ v <= EndValue(c) => v <= NextValue(c, v)
    <2>1. v + PatternArg(c, 1, 5) \in Int /\ v <= v + PatternArg(c, 1, 5)
      BY <1>1
    <2> QED
      BY <1>3, <2>1, SmallerOfTwo DEF NextValue
  <1> QED
    BY <1>2, <1>3, <1>4

(***************************************************************************)
(* The rounds of a fault.                                                  *)
(***************************************************************************)
InTime(c) == c.pattern = "burst" => BurstDuration(c) <= BurstPeriod(c)
RoundTime(c) == OnTime(c) + OffTime(c)

\* The number of rounds is chosen so that their sleeps fit into the time of a fault that
\* begins at all.
LEMMA RoundsFit ==
    ASSUME NEW c, IsFault(c), ~FaultRaises(c)
    PROVE  /\ Rounds(c) \in Nat
           /\ InTime(c) /\ Rounds(c) > 0 => \E length \in Nat :
                 RoundTime(c) = length /\ Rounds(c) * length <= c.time
  <1>0. c.time \in Nat
    BY DEF IsFault
  <1>1. CASE ~KnownFault(c)
    BY <1>1 DEF Rounds
  <1>2. CASE KnownFault(c) /\ c.pattern = "burst"
    <2>1. ~PatternRaises(c)
      BY <1>2 DEF FaultRaises, KnownFault
    <2>2. BurstPeriod(c) \in Nat \ {0}
      <3>1. CASE BurstDefaults(c)
        BY <3>1 DEF BurstPeriod
      <3>2. CASE ~BurstDefaults(c)
        <4>1. Len(c.patternArgs) >= 2 /\ BurstPeriod(c) # 0
          BY <1>2, <2>1, <3>2 DEF PatternRaises, BurstDefaults, IsFault
        <4> QED
          BY <3>2, <4>1 DEF BurstPeriod, IsFault
      <3> QED
        BY <3>1, <3>2
    <2>3. BurstDuration(c) \in Nat
      <3> DEFINE asked == IF BurstDefaults(c) THEN 1000 ELSE c.patternArgs[1]
      <3>1. asked \in Nat
        <4>1. CASE BurstDefaults(c)
          BY <4>1
        <4>2. CASE ~BurstDefaults(c)
          <5>1. Len(c.patternArgs) >= 2
            BY <1>2, <2>1, <4>2 DEF PatternRaises, BurstDefaults, IsFault
          <5> QED
            BY <4>2, <5>1 DEF IsFault
        <4> QED
          BY <4>1, <4>2
      <3>2. Max({1000, asked}) \in Nat
        <4>1. PICK second \in Nat : second = 1000
          OBVIOUS
        <4>2. PICK other \in Nat : other = asked
          BY <3>1
        <4>3. Max({second, other}) \in {second, other}
          BY LargerOfTwo
        <4>4. Max({second, other}) \in Nat
          BY <4>3
        <4> QED
          BY <4>1, <4>2, <4>4, SMTT(40)
      <3>3. Div1000(Max({1000, asked})) \in Nat
        BY <3>2, WholeSeconds
      <3> QED
        BY <3>1, <3>3 DEF BurstDuration
    <2>4. Rounds(c) = c.time \div BurstPeriod(c)
      BY <1>2 DEF Rounds
    <2>5. Rounds(c) \in Nat /\ Rounds(c) * BurstPeriod(c) <= c.time
      BY <1>0, <2>2, <2>4, Quotient
    <2>6. InTime(c) => RoundTime(c) = BurstPeriod(c)
      <3> SUFFICES ASSUME InTime(c) PROVE RoundTime(c) = BurstPeriod(c)
        OBVIOUS
      <3>1. OnTime(c) = BurstDuration(c)
        BY <1>2 DEF OnTime
      <3>2. BurstPeriod(c) - BurstDuration(c) >= 0
        BY <1>2, <2>2, <2>3 DEF InTime
      <3>3. Max({0, BurstPeriod(c) - BurstDuration(c)}) = BurstPeriod(c) - BurstDuration(c)
        <4>1. PICK nothing \in Int : nothing = 0
          OBVIOUS
        <4>2. PICK rest \in Int : rest = BurstPeriod(c) - BurstDuration(c)
          BY <2>2, <2>3
        <4>3. Max({nothing, rest}) \in {nothing, rest} /\ rest <= Max({nothing, rest})
              /\ nothing <= Max({nothing, rest})
          BY LargerOfTwo
        <4>4. nothing <= rest
          BY <3>2, <4>1, <4>2
        <4>5. Max({nothing, rest}) = rest
          BY <4>3, <4>4
        <4> QED
          BY <4>1, <4>2, <4>5, Zenon
      <3>4. OffTime(c) = BurstPeriod(c) - BurstDuration(c)
        BY <1>2, <3>3 DEF OffTime
      <3> QED
        BY <2>2, <2>3, <3>1, <3>4 DEF RoundTime
    <2> QED
      BY <2>2, <2>5, <2>6
  <1>3. CASE KnownFault(c) /\ c.pattern = "degradation"
    <2>1. ~PatternRaises(c)
      BY <1>3 DEF FaultRaises, KnownFault
    <2>2. StepLength(c) \in Nat \ {0}
      <3>1. StepLength(c) \in Nat
        BY ArgumentType DEF StepLength
      <3> QED
        BY <1>3, <2>1, <3>1 DEF PatternRaises
    <2>3. Rounds(c) = c.time \div StepLength(c)
      BY <1>3 DEF Rounds
    <2>4. Rounds(c) \in Nat /\ Rounds(c) * StepLength(c) <= c.time
      BY <1>0, <2>2, <2>3, Quotient
    <2>5. OnTime(c) \in Nat /\ OnTime(c) <= StepLength(c)
      BY <1>3, <2>2, WholeSeconds DEF OnTime
    <2>6. RoundTime(c) = OnTime(c)
      BY <1>3, <2>5 DEF RoundTime, OffTime
    <2>7. Rounds(c) * OnTime(c) <= c.time
      BY <1>0, <2>2, <2>4, <2>5, FewerRounds
    <2> QED
      BY <2>4, <2>5, <2>6, <2>7
  <1>4. CASE KnownFault(c) /\ c.pattern \notin {"burst", "degradation"}
    <2>1. Rounds(c) = 1 /\ OnTime(c) = c.time /\ OffTime(c) = 0
      BY <1>4 DEF Rounds, OnTime, OffTime
    <2> QED
      BY <1>0, <2>1 DEF RoundTime
  <1> QED
    BY <1>1, <1>2, <1>3, <1>4

(***************************************************************************)
(* The invariant.                                                          *)
(***************************************************************************)
\* A fault that was turned on does not raise, no oftener than it has rounds; and a
\* degradation that starts below its end value is not above it.
InRhythm ==
    /\ \A i \in Injectors : IsFault(fault[i])
    /\ round \in [Injectors -> Nat] /\ value \in [Injectors -> Int]
    /\ pc \in [Injectors -> Sleeps \cup Ends]
    /\ \A i \in Injectors :
          /\ pc[i] \in {"on", "off"} => ~FaultRaises(fault[i])
          /\ round[i] > 0 => ~FaultRaises(fault[i]) /\ round[i] <= Rounds(fault[i])
          /\ fault[i].pattern = "degradation" /\ StartValue(fault[i]) <= EndValue(fault[i])
                => value[i] <= EndValue(fault[i])

\* No fault has had a round, and every value is the first.
LEMMA InRhythmInitially == Init => InRhythm
  <1> SUFFICES ASSUME Init PROVE InRhythm
    OBVIOUS
  <1>1. PICK config \in Profiles : fault = [i \in Injectors |-> TargetTraffic(config[i])]
    BY DEF Init
  <1>2. \A i \in Injectors : IsFault(fault[i])
    <2> SUFFICES ASSUME NEW i \in Injectors PROVE IsFault(fault[i])
      OBVIOUS
    <2>1. fault[i] = TargetTraffic(config[i])
      BY <1>1
    <2>2. {"time", "patternArgs"} \subseteq DOMAIN config[i] /\ IsFault(config[i])
      BY ProfilesAssumption DEF IsFault
    <2> QED
      BY <2>1, <2>2 DEF TargetTraffic, IsFault
  <1>3. \A i \in Injectors : StartValue(fault[i]) \in Int /\ EndValue(fault[i]) \in Int
    BY <1>2, ValueType
  <1>4. value = [i \in Injectors |-> StartValue(fault[i])] /\ round = [i \in Injectors |-> 0]
        /\ pc = [i \in Injectors |-> "pre"]
    BY DEF Init
  <1> QED
    BY <1>2, <1>3, <1>4 DEF InRhythm, Sleeps

\* Every step keeps the rhythm: a task turns its fault on only while it has rounds left.
LEMMA InRhythmKept == InRhythm /\ [Next]_vars => InRhythm'
  <1> SUFFICES ASSUME InRhythm, [Next]_vars PROVE InRhythm'
    OBVIOUS
  <1> DEFINE Known(i) == /\ ~FaultRaises(fault[i]) => Rounds(fault[i]) \in Nat
                         /\ \A v \in Int : /\ NextValue(fault[i], v) \in Int
                                           /\ NextValue(fault[i], v) <= EndValue(fault[i])
  <1>1. \A i \in Injectors : Known(i)
    BY RoundsFit, ValueType DEF InRhythm
  <1>2. ASSUME NEW i \in Injectors, Task(i) PROVE InRhythm'
    <2>1. fault' = fault
      BY <1>2 DEF Task, Raise, BeginInjection, SkipInjection, EndBurst, NextBurst,
                  NextDegradation, EndInjection, Finish
    <2>2. CASE Raise(i)
      BY <2>1, <2>2 DEF Raise, Goes, InRhythm, Sleeps, Ends
    <2>3. CASE BeginInjection(i)
      <3>1. ~FaultRaises(fault[i]) /\ HasRoundsLeft(i) /\ Goes(i, "on") /\ NextRound(i)
            /\ value' = value
        BY <2>3 DEF BeginInjection
      <3> QED
        BY <1>1, <2>1, <3>1 DEF HasRoundsLeft, Goes, NextRound, InRhythm, Sleeps, Ends
    <2>4. CASE SkipInjection(i)
      BY <2>1, <2>4 DEF SkipInjection, Goes, InRhythm, Sleeps, Ends
    <2>5. CASE EndBurst(i)
      BY <2>1, <2>5 DEF EndBurst, Runs, Goes, InRhythm, Sleeps, Ends
    <2>6. CASE NextBurst(i)
      <3>1. ~FaultRaises(fault[i]) /\ value' = value
        BY <2>6 DEF NextBurst, Runs, InRhythm
      <3>2. CASE HasRoundsLeft(i) /\ Goes(i, "on") /\ NextRound(i)
        BY <1>1, <2>1, <3>1, <3>2
           DEF HasRoundsLeft, Goes, NextRound, InRhythm, Sleeps, Ends
      <3>3. CASE Goes(i, "post") /\ round' = round
        BY <2>1, <3>1, <3>3 DEF Goes, InRhythm, Sleeps, Ends
      <3> QED
        BY <2>6, <3>2, <3>3 DEF NextBurst
    <2>7. CASE NextDegradation(i)
      <3>1. ~FaultRaises(fault[i])
        BY <2>7 DEF NextDegradation, Runs, InRhythm
      <3>2. value' = [value EXCEPT ![i] = NextValue(fault[i], value[i])]
        BY <2>7 DEF NextDegradation
      <3>3. /\ value' \in [Injectors -> Int]
            /\ \A j \in Injectors :
                  fault[j].pattern = "degradation" /\ StartValue(fault[j]) <= EndValue(fault[j])
                  => value'[j] <= EndValue(fault[j])
        BY <1>1, <3>2 DEF InRhythm
      <3>4. CASE HasRoundsLeft(i) /\ NextRound(i) /\ pc' = pc
        BY <1>1, <2>1, <3>1, <3>3, <3>4 DEF HasRoundsLeft, NextRound, InRhythm
      <3>5. CASE Goes(i, "post") /\ round' = round
        BY <2>1, <3>3, <3>5 DEF Goes, InRhythm, Sleeps, Ends
      <3> QED
        BY <2>7, <3>4, <3>5 DEF NextDegradation
    <2>8. CASE EndInjection(i)
      BY <2>1, <2>8 DEF EndInjection, Goes, InRhythm, Sleeps, Ends
    <2>9. CASE Finish(i)
      BY <2>1, <2>9 DEF Finish, Goes, InRhythm, Sleeps, Ends
    <2> QED
      BY <1>2, <2>2, <2>3, <2>4, <2>5, <2>6, <2>7, <2>8, <2>9 DEF Task
  <1>3. CASE CloseLoop
    BY <1>3 DEF CloseLoop, InRhythm, Sleeps, Ends
  <1>4. CASE UNCHANGED vars
    BY <1>4 DEF InRhythm
  <1> QED
    BY <1>2, <1>3, <1>4 DEF Next

\* The rounds a fault has had take no longer than all of its rounds.
LEMMA InRhythmKeepsTime == InRhythm => KeepsToItsTime
  <1> SUFFICES ASSUME InRhythm, NEW i \in Injectors, round[i] > 0, InTime(fault[i])
               PROVE  round[i] * (OnTime(fault[i]) + OffTime(fault[i])) <= fault[i].time
    BY DEF KeepsToItsTime, InTime
  <1>1. /\ IsFault(fault[i]) /\ ~FaultRaises(fault[i])
        /\ round[i] \in Nat /\ round[i] <= Rounds(fault[i])
    BY DEF InRhythm
  <1>2. Rounds(fault[i]) \in Nat
    BY <1>1, RoundsFit
  <1>3. Rounds(fault[i]) > 0
    BY <1>1, <1>2
  <1>4. PICK length \in Nat : RoundTime(fault[i]) = length
                              /\ Rounds(fault[i]) * length <= fault[i].time
    BY <1>1, <1>3, RoundsFit
  <1>5. fault[i].time \in Nat
    BY <1>1 DEF IsFault
  <1>6. round[i] * length <= fault[i].time
    BY <1>1, <1>2, <1>4, <1>5, FewerRounds
  <1> QED
    BY <1>4, <1>6 DEF RoundTime

\* A step changes a value by the step of a degradation, or not at all.
LEMMA ValueClimbs ==
    ASSUME InRhythm, [Next]_vars, NEW j \in Injectors
    PROVE  Climbs(j)
  <1>1. fault' = fault
    BY DEF Next, Task, Raise, BeginInjection, SkipInjection, EndBurst, NextBurst,
           NextDegradation, EndInjection, Finish, CloseLoop
  <1>2. value' = value \/ \E i \in Injectors :
                             value' = [value EXCEPT ![i] = NextValue(fault[i], value[i])]
    BY DEF Next, Task, Raise, BeginInjection, SkipInjection, EndBurst, NextBurst,
           NextDegradation, EndInjection, Finish, CloseLoop
  <1>3. value \in [Injectors -> Int] /\ IsFault(fault[j]) /\ value[j] \in Int
    BY DEF InRhythm
  <1>4. /\ NextValue(fault[j], value[j]) \in Int
        /\ NextValue(fault[j], value[j]) <= EndValue(fault[j])
        /\ value[j] <= EndValue(fault[j]) => value[j] <= NextValue(fault[j], value[j])
    BY <1>3, ValueType
  <1>5. value'[j] \in {value[j], NextValue(fault[j], value[j])}
    BY <1>2, <1>3
  <1>6. fault[j].pattern = "degradation" /\ StartValue(fault[j]) <= EndValue(fault[j])
        => value[j] <= EndValue(fault[j])
    BY DEF InRhythm
  <1> QED
    BY <1>3, <1>4, <1>5, <1>6 DEF Climbs

\* Induction over the numbers up to a bound, for a set of numbers.
LEMMA UpTo ==
    ASSUME NEW N \in Nat, NEW T, 0 \in T,
           \A n \in Nat : n < N /\ n \in T => n + 1 \in T
    PROVE  \A n \in 0..N : n \in T
  <1> DEFINE Rest == (0..N) \ T
  <1> SUFFICES ASSUME Rest # {} PROVE FALSE
    OBVIOUS
  <1>1. \E R : IsWellFoundedOn(R, Nat) /\ R = {p \in Nat \X Nat : p[1] < p[2]}
    BY NatLessThanWellFounded, Zenon DEF OpToRel
  <1>2. PICK x \in Rest : \A y \in Rest : ~(<<y, x>> \in {p \in Nat \X Nat : p[1] < p[2]})
    <2>1. Rest \subseteq Nat
      OBVIOUS
    <2> QED
      BY <1>1, <2>1, WFMin, ZenonT(60)
  <1>3. ASSUME NEW y \in Rest, y < x PROVE FALSE
    <2> DEFINE pair == <<y, x>>
    <2>1. pair \in Nat \X Nat /\ pair[1] < pair[2]
      BY <1>3
    <2>2. pair \in {p \in Nat \X Nat : p[1] < p[2]}
      BY <2>1
    <2> QED
      BY <1>2, <2>2
  <1>4. x # 0 /\ x - 1 \in Nat /\ x - 1 < N
    OBVIOUS
  <1>5. x - 1 \in T
    BY <1>3, <1>4
  <1> QED
    BY <1>4, <1>5

(***************************************************************************)
(* What the commands of a list do, one after the other.                    *)
(***************************************************************************)
IsRun(run, d, i, cmds, m) ==
    run = [n \in 0..m |-> IF n = 0 THEN [dev |-> d, ok |-> TRUE]
                          ELSE Do(run[n - 1], i, cmds[n])]

\* Every list of commands has a run.
LEMMA RunExists ==
    ASSUME NEW d, NEW i, NEW cmds, NEW N \in Nat
    PROVE  \E run : IsRun(run, d, i, cmds, N)
  <1> DEFINE T == {m \in 0..N : \E run : IsRun(run, d, i, cmds, m)}
  <1>1. 0 \in T
    <2> DEFINE r == [n \in 0..0 |-> [dev |-> d, ok |-> TRUE]]
    <2>1. IsRun(r, d, i, cmds, 0)
      BY DEF IsRun
    <2> QED
      BY <2>1
  <1>2. ASSUME NEW m \in Nat, m < N, m \in T
        PROVE  m + 1 \in T
    <2>1. PICK run : IsRun(run, d, i, cmds, m)
      BY <1>2
    <2> DEFINE r == [n \in 0..(m + 1) |-> IF n = m + 1 THEN Do(run[m], i, cmds[m + 1])
                                          ELSE run[n]]
    <2>2. \A n \in 0..(m + 1) : r[n] = IF n = 0 THEN [dev |-> d, ok |-> TRUE]
                                       ELSE Do(r[n - 1], i, cmds[n])
      <3> SUFFICES ASSUME NEW n \in 0..(m + 1)
                   PROVE  r[n] = IF n = 0 THEN [dev |-> d, ok |-> TRUE]
                                 ELSE Do(r[n - 1], i, cmds[n])
        OBVIOUS
      <3>1. CASE n = m + 1
        <4>1. r[n] = Do(run[m], i, cmds[n]) /\ n # 0 /\ n - 1 = m /\ r[m] = run[m]
          BY <3>1
        <4> QED
          BY <4>1
      <3>2. CASE n \in 0..m
        <4>1. r[n] = run[n] /\ (n # 0 => n - 1 \in 0..m /\ r[n - 1] = run[n - 1])
          BY <3>2
        <4>2. run[n] = IF n = 0 THEN [dev |-> d, ok |-> TRUE] ELSE Do(run[n - 1], i, cmds[n])
          BY <2>1, <3>2 DEF IsRun
        <4> QED
          BY <4>1, <4>2
      <3> QED
        BY <3>1, <3>2
    <2>3. IsRun(r, d, i, cmds, m + 1)
      BY <2>2 DEF IsRun
    <2> QED
      BY <1>2, <2>3
  <1>3. \A m \in 0..N : m \in T
    <2> HIDE DEF T
    <2> QED
      BY <1>1, <1>2, UpTo
  <1> QED
    BY <1>3

\* Execute() is the last of a run.
LEMMA ExecuteRuns ==
    ASSUME NEW d, NEW i, NEW cmds, Len(cmds) \in Nat
    PROVE  \E run : /\ Execute(d, i, cmds) = run[Len(cmds)]
                    /\ run[0] = [dev |-> d, ok |-> TRUE]
                    /\ \A n \in 1..Len(cmds) : run[n] = Do(run[n - 1], i, cmds[n])
  <1> DEFINE run == CHOOSE run : IsRun(run, d, i, cmds, Len(cmds))
  <1>1. IsRun(run, d, i, cmds, Len(cmds))
    BY RunExists
  <1>2. Execute(d, i, cmds) = run[Len(cmds)]
    BY DEF Execute, IsRun
  <1> HIDE DEF run
  <1>3. run[0] = [dev |-> d, ok |-> TRUE]
    BY <1>1 DEF IsRun
  <1>4. ASSUME NEW n \in 1..Len(cmds) PROVE run[n] = Do(run[n - 1], i, cmds[n])
    <2>1. n \in 0..Len(cmds) /\ n # 0
      OBVIOUS
    <2> QED
      BY <1>1, <2>1 DEF IsRun
  <1> QED
    BY <1>2, <1>3, <1>4

\* A list of one command.
LEMMA ExecuteOne ==
    ASSUME NEW d, NEW i, NEW cmd
    PROVE  Execute(d, i, <<cmd>>) = [dev |-> After(d, i, cmd), ok |-> Accepts(d, cmd)]
  <1>1. Len(<<cmd>>) = 1 /\ <<cmd>>[1] = cmd
    OBVIOUS
  <1>2. PICK run : /\ Execute(d, i, <<cmd>>) = run[1]
                   /\ run[0] = [dev |-> d, ok |-> TRUE]
                   /\ run[1] = Do(run[0], i, cmd)
    BY <1>1, ExecuteRuns, SMTT(40)
  <1> QED
    BY <1>2 DEF Do

(***************************************************************************)
(* What an injector may have in place on an interface.                     *)
(***************************************************************************)
RootKind(c) ==
    IF ~ProtocolWide(c) THEN "prio"
    ELSE IF CommandPattern(c) = "persistent" /\ c.type = "bottleneck" THEN "tbf" ELSE "netem"
Downs(c) == ProtocolWide(c) /\ CommandPattern(c) = "persistent" /\ c.type = "down"
RootsAt(c, v) ==
    /\ c.type # "redirect" /\ ~Downs(c)
    /\ RootKind(c) = "netem" =>
          NetemAccepts(c.type, IF CommandPattern(c) = "random" THEN v ELSE 100)
HasLeaf(c) == ~ProtocolWide(c) /\ c.type # "redirect"

DevFields == {"root", "leaf", "filters", "ingress", "mirrors", "downBy"}
Kinds == {"none", "htb", "hfsc", "tbf", "netem"}

\* Nothing is in place on an interface d but what the network made and what the injectors
\* of S have; a leaf and filters hang at a prio, mirrors at an ingress.
HeldBy(d, kind, S, v) ==
    /\ d = [f \in DevFields |-> d[f]]
    /\ \/ d.root = NoQdisc
       \/ d.root = Qdisc(kind, Network) /\ kind # "none"
       \/ \E i \in S : d.root = Qdisc(RootKind(fault[i]), i) /\ RootsAt(fault[i], v[i])
    /\ kind \notin TakenAlong \cup {"none"} => d.root = Qdisc(kind, Network)
    /\ d.leaf = NoQdisc \/ \E i \in S : d.leaf.by = i /\ HasLeaf(fault[i])
    /\ d.leaf # NoQdisc \/ d.filters # {} => d.root.kind = "prio"
    /\ d.ingress = NoOne \/ \E i \in S : d.ingress = i /\ fault[i].type = "redirect"
    /\ d.mirrors # {} => d.ingress # NoOne
    /\ d.downBy = NoOne \/ \E i \in S : d.downBy = i /\ Downs(fault[i])

\* A command that turns the fault c on with the value v.
TurnsOn(cmd, c, v) ==
    /\ cmd.op = "add" /\ cmd.valid \in BOOLEAN
    /\ cmd.object \in {"root", "leaf", "filter", "ingress", "mirror", "link"}
    /\ cmd.object = "root" => cmd.kind = RootKind(c) /\ (cmd.valid => RootsAt(c, v))
    /\ cmd.object = "leaf" => (cmd.valid => HasLeaf(c))
    /\ cmd.object \in {"ingress", "mirror"} => c.type = "redirect"
    /\ cmd.object = "link" => Downs(c)

\* Such a command puts nothing in place but what the injector may have.
LEMMA CommandHolds ==
    ASSUME NEW d, NEW kind \in Kinds, NEW S, NEW v, NEW i \in S, NoOne \notin S, Network \notin S,
           HeldBy(d, kind, S, v), NEW cmd, TurnsOn(cmd, fault[i], v[i])
    PROVE  HeldBy(After(d, i, cmd), kind, S, v)
  <1> DEFINE e == After(d, i, cmd)
  <1>1. CASE ~Accepts(d, cmd)
    BY <1>1 DEF After
  <1>2. CASE Accepts(d, cmd) /\ cmd.object = "root"
    <2>1. e = [d EXCEPT !.root = Qdisc(cmd.kind, i)]
      BY <1>2 DEF After, TurnsOn
    <2>4. d.root.kind = "none" /\ cmd.valid
      BY <1>2 DEF Accepts, TurnsOn
    <2>2. kind \in TakenAlong \cup {"none"} /\ d.leaf = NoQdisc /\ d.filters = {}
      BY <2>4 DEF HeldBy, Qdisc, RootKind
    <2>3. e.root = Qdisc(RootKind(fault[i]), i) /\ RootsAt(fault[i], v[i])
      BY <1>2, <2>1, <2>4 DEF TurnsOn, HeldBy, DevFields
    <2>5. /\ e = [f \in DevFields |-> e[f]]
          /\ e.leaf = NoQdisc /\ e.filters = {} /\ e.ingress = d.ingress
          /\ e.mirrors = d.mirrors /\ e.downBy = d.downBy
      BY <2>1, <2>2 DEF HeldBy, DevFields
    <2> HIDE DEF e
    <2>6. HeldBy(e, kind, S, v)
      BY <2>2, <2>3, <2>5 DEF HeldBy
    <2> QED
      BY <2>6 DEF e
  <1>3. CASE Accepts(d, cmd) /\ cmd.object = "leaf"
    <2>1. e = [d EXCEPT !.leaf = Qdisc(cmd.kind, i)] /\ d.root.kind = "prio" /\ cmd.valid
      BY <1>3 DEF After, Accepts, TurnsOn
    <2>2. e.leaf.by = i /\ HasLeaf(fault[i])
      BY <1>3, <2>1 DEF TurnsOn, HeldBy, DevFields, Qdisc
    <2> QED
      BY <2>1, <2>2 DEF HeldBy, DevFields
  <1>4. CASE Accepts(d, cmd) /\ cmd.object = "filter"
    <2>1. e = [d EXCEPT !.filters = @ \cup {<<i, cmd.match>>}] /\ d.root.kind = "prio"
      BY <1>4 DEF After, Accepts, TurnsOn
    <2> QED
      BY <2>1 DEF HeldBy, DevFields
  <1>5. CASE Accepts(d, cmd) /\ cmd.object = "ingress"
    <2>1. e = [d EXCEPT !.ingress = i] /\ fault[i].type = "redirect"
      BY <1>5 DEF After, Accepts, TurnsOn
    <2> QED
      BY <2>1 DEF HeldBy, DevFields
  <1>6. CASE Accepts(d, cmd) /\ cmd.object = "mirror"
    <2>1. e = [d EXCEPT !.mirrors = @ \cup {<<i, cmd.match>>}] /\ d.ingress # NoOne
      BY <1>6 DEF After, Accepts, TurnsOn
    <2> QED
      BY <2>1 DEF HeldBy, DevFields
  <1>7. CASE Accepts(d, cmd) /\ cmd.object = "link"
    <2>1. e = [d EXCEPT !.downBy = i] /\ Downs(fault[i])
      BY <1>7 DEF After, Accepts, TurnsOn
    <2> QED
      BY <2>1 DEF HeldBy, DevFields
  <1> QED
    BY <1>1, <1>2, <1>3, <1>4, <1>5, <1>6, <1>7 DEF TurnsOn

(***************************************************************************)
(* The commands that turn a fault on.                                      *)
(***************************************************************************)
HasPorts(c) == c.dst.ports \in Seq(Nat) /\ c.src.ports \in Seq(Nat)
FilterCommands(c) ==
    {Matching(Cmd("add", "filter", "u32", TRUE), match) :
        match \in ({"dport", "sport"} \X Nat) \cup {<<"protocol", c.protocol>>}}

\* A list between a first and a last element.
LEMMA Between ==
    ASSUME NEW T, NEW a \in T, NEW t \in Seq(T), NEW b \in T
    PROVE  LET s == <<a>> \o t \o <<b>>
           IN  /\ s \in Seq(T) /\ Len(s) = Len(t) + 2 /\ s[1] = a /\ s[Len(s)] = b
               /\ \A n \in 2..(Len(t) + 1) : s[n] = t[n - 1]
  OBVIOUS

\* There is at least one filter, and each is one for a port or the protocol.
LEMMA PortFiltersType ==
    ASSUME NEW c, HasPorts(c)
    PROVE  PortFilters(c) \in Seq(FilterCommands(c)) /\ Len(PortFilters(c)) >= 1
  <1> DEFINE F == FilterCommands(c)
             Filter(match) == Matching(Cmd("add", "filter", "u32", TRUE), match)
             s == [n \in 1..Len(c.dst.ports) |-> Filter(<<"dport", c.dst.ports[n]>>)]
             t == IF c.src.ports # <<>>
                  THEN [n \in 1..Len(c.src.ports) |-> Filter(<<"sport", c.src.ports[n]>>)]
                  ELSE <<Filter(<<"protocol", c.protocol>>)>>
  <1>0. Len(c.dst.ports) \in Nat /\ Len(c.src.ports) \in Nat
    BY DEF HasPorts
  <1>1. \A match \in ({"dport", "sport"} \X Nat) \cup {<<"protocol", c.protocol>>} : Filter(match) \in F
    BY DEF FilterCommands
  <1>2. s \in Seq(F)
    <2>1. \A n \in 1..Len(c.dst.ports) : <<"dport", c.dst.ports[n]>> \in {"dport", "sport"} \X Nat
      BY DEF HasPorts
    <2>2. \A n \in 1..Len(c.dst.ports) : Filter(<<"dport", c.dst.ports[n]>>) \in F
      BY <1>1, <2>1
    <2> HIDE DEF Filter, F
    <2> QED
      BY <1>0, <2>2
  <1>3. t \in Seq(F) /\ Len(t) >= 1
    <2>1. CASE c.src.ports # <<>>
      <3>1. \A n \in 1..Len(c.src.ports) : <<"sport", c.src.ports[n]>> \in {"dport", "sport"} \X Nat
        BY DEF HasPorts
      <3>2. \A n \in 1..Len(c.src.ports) : Filter(<<"sport", c.src.ports[n]>>) \in F
        BY <1>1, <3>1
      <3>3. Len(c.src.ports) >= 1
        BY <2>1 DEF HasPorts
      <3> HIDE DEF Filter, F
      <3> QED
        BY <1>0, <2>1, <3>2, <3>3
    <2>2. CASE c.src.ports = <<>>
      <3>1. Filter(<<"protocol", c.protocol>>) \in F
        BY <1>1
      <3> HIDE DEF Filter, F
      <3> QED
        BY <2>2, <3>1
    <2> QED
      BY <2>1, <2>2
  <1>4. PortFilters(c) = s \o t
    BY DEF PortFilters
  <1> HIDE DEF s, t, F
  <1>5. s \o t \in Seq(F) /\ Len(s \o t) >= 1
    BY <1>2, <1>3
  <1> QED
    BY <1>4, <1>5 DEF F

\* A filter does nothing but filter.
LEMMA FilterTurnsOn ==
    ASSUME NEW c, NEW v, NEW cmd \in FilterCommands(c)
    PROVE  TurnsOn(cmd, c, v) /\ cmd.object = "filter" /\ cmd.valid
  <1>1. PICK match : cmd = Matching(Cmd("add", "filter", "u32", TRUE), match)
    BY DEF FilterCommands
  <1>2. /\ cmd.op = "add" /\ cmd.object = "filter" /\ cmd.valid = TRUE
    BY <1>1 DEF Matching, Cmd
  <1> QED
    BY <1>2 DEF TurnsOn

\* A list of one command.
LEMMA OneCommand ==
    ASSUME NEW c, NEW v, NEW x, TurnsOn(x, c, v), NEW s, s = <<x>>
    PROVE  Len(s) \in Nat /\ \A n \in 1..Len(s) : TurnsOn(s[n], c, v)
  <1>1. Len(s) = 1 /\ s[1] = x
    OBVIOUS
  <1>2. \A n \in 1..Len(s) : n = 1
    BY <1>1
  <1> QED
    BY <1>1, <1>2

\* A list of two commands.
LEMMA TwoCommands ==
    ASSUME NEW c, NEW v, NEW x, TurnsOn(x, c, v), NEW y, TurnsOn(y, c, v), NEW s, s = <<x, y>>
    PROVE  Len(s) \in Nat /\ \A n \in 1..Len(s) : TurnsOn(s[n], c, v)
  <1>1. Len(s) = 2 /\ s[1] = x /\ s[2] = y
    OBVIOUS
  <1>2. \A n \in 1..Len(s) : n = 1 \/ n = 2
    BY <1>1
  <1> QED
    BY <1>1, <1>2

\* The leaf of a filtered fault of known pattern, and what goes before the filters.
LeafCommand(c, v) ==
    IF c.type = "bottleneck" /\ CommandPattern(c) # "random"
    THEN Cmd("add", "leaf", "tbf", TRUE)
    ELSE Cmd("add", "leaf", "netem",
             NetemAccepts(c.type, IF CommandPattern(c) = "random" THEN v ELSE 100))
Opening(c) ==
    IF c.type = "redirect" THEN Cmd("add", "ingress", "ingress", TRUE)
    ELSE Cmd("add", "root", "prio", TRUE)
Mirrors(c) ==
    [n \in 1..Len(PortFilters(c)) |->
        Matching(Cmd("add", "mirror", "mirred", TRUE), PortFilters(c)[n].match)]

\* The lists of commands that turn a link fault on.
LEMMA CommandsOn ==
    ASSUME NEW c, c.kind = "link", NEW v
    PROVE  Commands(c, v, "add") =
             CASE ProtocolWide(c) -> ProtocolWideCommands(c, v, "add")
               [] ~ProtocolWide(c) /\ Redirected(c) -> <<Opening(c)>> \o Mirrors(c)
               [] ~ProtocolWide(c) /\ ~Redirected(c) /\ KnownPattern(c) ->
                     <<Opening(c)>> \o PortFilters(c) \o <<LeafCommand(c, v)>>
               [] ~ProtocolWide(c) /\ ~Redirected(c) /\ ~KnownPattern(c) ->
                     <<Opening(c)>> \o PortFilters(c) \o <<>>
  <1>1. CASE ProtocolWide(c)
    BY <1>1 DEF Commands
  <1>2. CASE ~ProtocolWide(c) /\ Redirected(c)
    <2>1. c.type = "redirect"
      BY <1>2 DEF Redirected
    <2>2. Opening(c) = Cmd("add", "ingress", "ingress", TRUE)
      BY <2>1 DEF Opening
    <2>3. Commands(c, v, "add") = <<Opening(c)>> \o Mirrors(c)
      BY <1>2, <2>2 DEF Commands, FilteredCommands, Mirrors
    <2> QED
      BY <1>2, <2>3
  <1>3. CASE ~ProtocolWide(c) /\ ~Redirected(c)
    <2>1. Commands(c, v, "add") = <<Opening(c)>> \o PortFilters(c) \o Leaf(c, v)
      BY <1>3 DEF Commands, FilteredCommands, Opening
    <2>2. CASE KnownPattern(c)
      <3>1. Leaf(c, v) = <<LeafCommand(c, v)>>
        BY <1>3, <2>2 DEF Leaf, LeafCommand, KnownPattern, Redirected
      <3> QED
        BY <1>3, <2>1, <2>2, <3>1
    <2>3. CASE ~KnownPattern(c)
      <3>1. Leaf(c, v) = <<>>
        BY <2>3 DEF Leaf, KnownPattern
      <3> QED
        BY <1>3, <2>1, <2>3, <3>1
    <2> QED
      BY <2>2, <2>3
  <1> QED
    BY <1>1, <1>2, <1>3

\* Every command of them turns the fault on.
LEMMA CommandsTurnOn ==
    ASSUME NEW c, c.kind = "link", HasPorts(c), NEW v, NEW cmds, cmds = Commands(c, v, "add")
    PROVE  Len(cmds) \in Nat /\ \A n \in 1..Len(cmds) : TurnsOn(cmds[n], c, v)
  <1>0. CommandPattern(c) = "random" => CommandPattern(c) # "persistent"
    OBVIOUS
  <1>1. CASE ProtocolWide(c)
    <2>1. cmds = ProtocolWideCommands(c, v, "add")
      BY <1>1, CommandsOn
    <2>2. CASE c.type = "redirect"
      <3>1. cmds = <<Cmd("add", "ingress", "ingress", TRUE), Cmd("add", "mirror", "mirred", TRUE)>>
        BY <2>1, <2>2 DEF ProtocolWideCommands, Redirects
      <3>2. TurnsOn(Cmd("add", "ingress", "ingress", TRUE), c, v)
            /\ TurnsOn(Cmd("add", "mirror", "mirred", TRUE), c, v)
        BY <2>2 DEF TurnsOn, Cmd
      <3> QED
        BY <3>1, <3>2, TwoCommands
    <2>3. CASE c.type = "bottleneck" /\ CommandPattern(c) = "persistent"
      <3>1. cmds = <<Cmd("add", "root", "tbf", TRUE)>>
        BY <2>1, <2>3 DEF ProtocolWideCommands
      <3>2. TurnsOn(Cmd("add", "root", "tbf", TRUE), c, v)
        BY <1>1, <2>3 DEF TurnsOn, Cmd, RootKind, RootsAt, Downs
      <3> QED
        BY <3>1, <3>2, OneCommand
    <2>4. CASE c.type = "down" /\ CommandPattern(c) = "persistent"
      <3>1. cmds = <<Cmd("add", "link", "down", TRUE)>>
        BY <2>1, <2>4 DEF ProtocolWideCommands
      <3>2. TurnsOn(Cmd("add", "link", "down", TRUE), c, v)
        BY <1>1, <2>4 DEF TurnsOn, Cmd, Downs
      <3> QED
        BY <3>1, <3>2, OneCommand
    <2>5. CASE c.type # "redirect" /\ ~(c.type \in {"bottleneck", "down"} /\ CommandPattern(c) = "persistent")
      <3> DEFINE x == Cmd("add", "root", "netem",
                          NetemAccepts(c.type, IF CommandPattern(c) = "random" THEN v ELSE 100))
      <3>1. cmds = <<x>>
        BY <2>1, <2>5 DEF ProtocolWideCommands
      <3>2. TurnsOn(x, c, v)
        <4>1. NetemAccepts(c.type, IF CommandPattern(c) = "random" THEN v ELSE 100) \in BOOLEAN
          BY DEF NetemAccepts
        <4>2. RootKind(c) = "netem" /\ ~Downs(c)
          BY <1>1, <2>5 DEF RootKind, Downs
        <4> QED
          BY <2>5, <4>1, <4>2 DEF TurnsOn, Cmd, RootsAt
      <3> HIDE DEF x
      <3> QED
        BY <3>1, <3>2, OneCommand
    <2> QED
      BY <2>2, <2>3, <2>4, <2>5
  <1>2. CASE ~ProtocolWide(c) /\ Redirected(c)
    <2>1. cmds = <<Opening(c)>> \o Mirrors(c)
      BY <1>2, CommandsOn
    <2>2. Len(PortFilters(c)) \in Nat
      BY PortFiltersType
    <2>3. TurnsOn(Opening(c), c, v)
      BY <1>2 DEF Opening, TurnsOn, Cmd, Redirected
    <2> DEFINE M == {Matching(Cmd("add", "mirror", "mirred", TRUE), PortFilters(c)[n].match) :
                         n \in 1..Len(PortFilters(c))}
    <2>4. \A m \in M : TurnsOn(m, c, v)
      BY <1>2 DEF TurnsOn, Matching, Cmd, Redirected
    <2>5. Mirrors(c) \in Seq(M)
      <3> DEFINE Mirror(n) == Matching(Cmd("add", "mirror", "mirred", TRUE), PortFilters(c)[n].match)
      <3>1. \A n \in 1..Len(PortFilters(c)) : Mirror(n) \in M
        OBVIOUS
      <3>2. Mirrors(c) = [n \in 1..Len(PortFilters(c)) |-> Mirror(n)]
        BY DEF Mirrors
      <3> HIDE DEF Mirror, M
      <3> QED
        BY <2>2, <3>1, <3>2
    <2>6. <<Opening(c)>> \o Mirrors(c) \in Seq(M \cup {Opening(c)})
      <3> HIDE DEF M
      <3> QED
        BY <2>5
    <2>7. \A m \in M \cup {Opening(c)} : TurnsOn(m, c, v)
      BY <2>3, <2>4
    <2> HIDE DEF M
    <2>8. Len(cmds) \in Nat /\ \A n \in 1..Len(cmds) : cmds[n] \in M \cup {Opening(c)}
      BY <2>1, <2>6
    <2> QED
      BY <2>7, <2>8
  <1>3. CASE ~ProtocolWide(c) /\ ~Redirected(c) /\ KnownPattern(c)
    <2> DEFINE F == FilterCommands(c) \cup {Opening(c), LeafCommand(c, v)}
    <2>1. cmds = <<Opening(c)>> \o PortFilters(c) \o <<LeafCommand(c, v)>>
      BY <1>3, CommandsOn
    <2>2. PortFilters(c) \in Seq(F)
      BY PortFiltersType
    <2>3. TurnsOn(Opening(c), c, v)
      BY <1>3 DEF Opening, TurnsOn, Cmd, RootKind, RootsAt, Downs
    <2>4. TurnsOn(LeafCommand(c, v), c, v)
      BY <1>3 DEF LeafCommand, TurnsOn, Cmd, HasLeaf, NetemAccepts, Redirected, KnownPattern
    <2>5. \A m \in F : TurnsOn(m, c, v)
      BY <2>3, <2>4, FilterTurnsOn
    <2> HIDE DEF F
    <2>6. cmds \in Seq(F)
      <3>1. Opening(c) \in F /\ LeafCommand(c, v) \in F
        BY DEF F
      <3> QED
        BY <2>1, <2>2, <3>1, Between, SMTT(40)
    <2>7. Len(cmds) \in Nat /\ \A n \in 1..Len(cmds) : cmds[n] \in F
      BY <2>6
    <2> QED
      BY <2>5, <2>7
  <1>4. CASE ~ProtocolWide(c) /\ ~Redirected(c) /\ ~KnownPattern(c)
    <2> DEFINE F == FilterCommands(c) \cup {Opening(c)}
    <2>1. cmds = <<Opening(c)>> \o PortFilters(c) \o <<>>
      BY <1>4, CommandsOn
    <2>2. PortFilters(c) \in Seq(F)
      BY PortFiltersType
    <2>3. TurnsOn(Opening(c), c, v)
      BY <1>4 DEF Opening, TurnsOn, Cmd, RootKind, RootsAt, Downs
    <2>4. \A m \in F : TurnsOn(m, c, v)
      BY <2>3, FilterTurnsOn
    <2>5. Opening(c) \in F
      OBVIOUS
    <2> HIDE DEF F
    <2>6. cmds \in Seq(F)
      <3>1. PICK a, t : a = Opening(c) /\ t = PortFilters(c)
        OBVIOUS
      <3>2. cmds = (<<a>> \o t) \o <<>>
        BY <2>1, <3>1
      <3>3. <<a>> \o t \in Seq(F)
        BY <2>2, <2>5, <3>1
      <3> QED
        BY <3>2, <3>3, ConcatEmptySeq
    <2>7. Len(cmds) \in Nat /\ \A n \in 1..Len(cmds) : cmds[n] \in F
      BY <2>6
    <2> QED
      BY <2>4, <2>7
  <1> QED
    BY <1>1, <1>2, <1>3, <1>4

\* Turning a fault on puts nothing in place but what the injector may have.
LEMMA TurningOnHolds ==
    ASSUME NEW d, NEW kind \in Kinds, NEW S, NEW v, NEW i \in S, NoOne \notin S, Network \notin S,
           HeldBy(d, kind, S, v), fault[i].kind = "link", HasPorts(fault[i])
    PROVE  LET r == Execute(d, i, Commands(fault[i], v[i], "add"))
           IN  HeldBy(r.dev, kind, S, v) /\ r.ok \in BOOLEAN
  <1> DEFINE cmds == Commands(fault[i], v[i], "add")
  <1>1. Len(cmds) \in Nat /\ \A n \in 1..Len(cmds) : TurnsOn(cmds[n], fault[i], v[i])
    BY CommandsTurnOn
  <1> HIDE DEF cmds
  <1>2. PICK run : /\ Execute(d, i, cmds) = run[Len(cmds)]
                   /\ run[0] = [dev |-> d, ok |-> TRUE]
                   /\ \A n \in 1..Len(cmds) : run[n] = Do(run[n - 1], i, cmds[n])
    BY <1>1, ExecuteRuns
  <1> DEFINE T == {n \in 0..Len(cmds) : HeldBy(run[n].dev, kind, S, v) /\ run[n].ok \in BOOLEAN}
  <1>3. 0 \in T
    <2>1. run[0].dev = d /\ run[0].ok = TRUE
      BY <1>2
    <2>2. HeldBy(run[0].dev, kind, S, v)
      BY <2>1
    <2>3. run[0].ok \in BOOLEAN
      BY <2>1, Zenon
    <2>4. 0 \in 0..Len(cmds)
      BY <1>1
    <2> QED
      BY <2>2, <2>3, <2>4, Zenon
  <1>4. ASSUME NEW n \in Nat, n < Len(cmds), n \in T PROVE n + 1 \in T
    <2>1. n + 1 \in 1..Len(cmds) /\ (n + 1) - 1 = n
      BY <1>1, <1>4
    <2>2. run[n + 1] = Do(run[n], i, cmds[n + 1])
      BY <1>2, <2>1
    <2>3. run[n + 1].dev = After(run[n].dev, i, cmds[n + 1])
          /\ run[n + 1].ok = Accepts(run[n].dev, cmds[n + 1])
      BY <2>2 DEF Do
    <2>4. Accepts(run[n].dev, cmds[n + 1]) \in BOOLEAN
      BY DEF Accepts
    <2>5. TurnsOn(cmds[n + 1], fault[i], v[i]) /\ HeldBy(run[n].dev, kind, S, v)
      BY <1>1, <1>4, <2>1
    <2>6. HeldBy(run[n + 1].dev, kind, S, v)
      BY <2>3, <2>5, CommandHolds
    <2> QED
      BY <2>1, <2>3, <2>4, <2>6
  <1>5. \A n \in 0..Len(cmds) : n \in T
    <2> HIDE DEF T
    <2> QED
      BY <1>1, <1>3, <1>4, UpTo
  <1>6. HeldBy(run[Len(cmds)].dev, kind, S, v) /\ run[Len(cmds)].ok \in BOOLEAN
    BY <1>1, <1>5
  <1> QED
    BY <1>2, <1>6 DEF cmds

(***************************************************************************)
(* The command that turns a fault off.                                     *)
(***************************************************************************)
OffCommand(c, v) ==
    IF c.type = "redirect" THEN Cmd("del", "ingress", "ingress", TRUE)
    ELSE IF Downs(c) THEN Cmd("del", "link", "down", TRUE)
    ELSE Cmd("del", "root", RootKind(c),
             RootKind(c) = "netem"
             => NetemAccepts(c.type, IF CommandPattern(c) = "random" THEN v ELSE 100))

\* One command turns a link fault off.
LEMMA CommandsOff ==
    ASSUME NEW c, c.kind = "link", NEW v
    PROVE  Commands(c, v, "del") = <<OffCommand(c, v)>>
  <1>0. CommandPattern(c) = "random" => CommandPattern(c) # "persistent"
    OBVIOUS
  <1>1. CASE ProtocolWide(c)
    <2>1. Commands(c, v, "del") = ProtocolWideCommands(c, v, "del")
      BY <1>1 DEF Commands
    <2>2. CASE c.type = "redirect"
      BY <2>1, <2>2 DEF ProtocolWideCommands, Redirects, OffCommand
    <2>3. CASE c.type = "bottleneck" /\ CommandPattern(c) = "persistent"
      <3>1. RootKind(c) = "tbf" /\ ~Downs(c)
        BY <1>1, <2>3 DEF RootKind, Downs
      <3> HIDE DEF RootKind
      <3>2. OffCommand(c, v) = Cmd("del", "root", "tbf", TRUE)
        BY <2>3, <3>1 DEF OffCommand
      <3> QED
        BY <2>1, <2>3, <3>2 DEF ProtocolWideCommands
    <2>4. CASE c.type = "down" /\ CommandPattern(c) = "persistent"
      BY <1>1, <2>1, <2>4 DEF ProtocolWideCommands, OffCommand, Downs
    <2>5. CASE c.type # "redirect" /\ ~(c.type \in {"bottleneck", "down"} /\ CommandPattern(c) = "persistent")
      <3> DEFINE takes == NetemAccepts(c.type, IF CommandPattern(c) = "random" THEN v ELSE 100)
      <3>1. takes \in BOOLEAN
        BY DEF NetemAccepts
      <3>2. RootKind(c) = "netem" /\ ~Downs(c)
        BY <1>1, <2>5 DEF RootKind, Downs
      <3>3. ("netem" = "netem" => takes) = takes
        BY <3>1
      <3>4. OffCommand(c, v) = Cmd("del", "root", "netem", takes)
        BY <2>5, <3>2, <3>3 DEF OffCommand
      <3>5. ProtocolWideCommands(c, v, "del") = <<Cmd("del", "root", "netem", takes)>>
        BY <2>5 DEF ProtocolWideCommands
      <3> HIDE DEF takes
      <3> QED
        BY <2>1, <3>4, <3>5
    <2> QED
      BY <2>2, <2>3, <2>4, <2>5
  <1>2. CASE ~ProtocolWide(c)
    <2>1. Commands(c, v, "del") = FilteredCommands(c, v, "del")
      BY <1>2 DEF Commands
    <2>2. CASE c.type = "redirect"
      BY <2>1, <2>2 DEF FilteredCommands, OffCommand
    <2>3. CASE c.type # "redirect"
      <3>1. RootKind(c) = "prio" /\ ~Downs(c)
        BY <1>2 DEF RootKind, Downs
      <3>2. OffCommand(c, v) = Cmd("del", "root", "prio", TRUE)
        BY <2>3, <3>1 DEF OffCommand
      <3>3. FilteredCommands(c, v, "del") = <<Cmd("del", "root", "prio", TRUE)>>
        BY <2>3 DEF FilteredCommands
      <3> QED
        BY <2>1, <3>2, <3>3
    <2> QED
      BY <2>2, <2>3
  <1> QED
    BY <1>1, <1>2

\* It removes what the injector has in place, and puts nothing there.
LEMMA TurningOffHolds ==
    ASSUME NEW d, NEW kind \in Kinds, NEW S, NEW v, NEW i,
           HeldBy(d, kind, S, v), fault[i].kind = "link"
    PROVE  HeldBy(Execute(d, i, Commands(fault[i], v[i], "del")).dev, kind, S \ {i}, v)
  <1> DEFINE c == fault[i]
             cmd == OffCommand(c, v[i])
             e == After(d, i, cmd)
  <1>1. Execute(d, i, Commands(fault[i], v[i], "del")).dev = e
    <2>1. Commands(c, v[i], "del") = <<cmd>>
      BY CommandsOff
    <2>2. Execute(d, i, <<cmd>>) = [dev |-> e, ok |-> Accepts(d, cmd)]
      BY ExecuteOne
    <2> HIDE DEF cmd, e
    <2> QED
      BY <2>1, <2>2
  <1>2. HeldBy(e, kind, S \ {i}, v)
    <2>1. CASE c.type = "redirect"
      <3>1. cmd.valid = TRUE /\ cmd.object = "ingress" /\ cmd.op = "del"
        BY <2>1 DEF OffCommand, Cmd
      <3>2. CASE d.ingress = NoOne
        <4>1. e = d /\ d.mirrors = {}
          BY <3>1, <3>2 DEF After, Accepts, HeldBy
        <4>2. HeldBy(d, kind, S \ {i}, v)
          BY <2>1, <3>2, <4>1 DEF HeldBy, RootsAt, HasLeaf, Downs
        <4> QED
          BY <4>1, <4>2
      <3>3. CASE d.ingress # NoOne
        <4>1. Accepts(d, cmd)
          BY <3>1, <3>3 DEF Accepts
        <4>2. e = [d EXCEPT !.ingress = NoOne, !.mirrors = {}]
          BY <3>1, <4>1 DEF After
        <4> HIDE DEF e, cmd
        <4> QED
          BY <2>1, <4>2 DEF HeldBy, DevFields, RootsAt, HasLeaf, Downs
      <3> QED
        BY <3>2, <3>3
    <2>2. CASE Downs(c)
      <3>1. cmd.valid = TRUE /\ cmd.object = "link" /\ cmd.op = "del"
        BY <2>2 DEF OffCommand, Cmd, Downs
      <3>2. e = [d EXCEPT !.downBy = NoOne]
        BY <3>1 DEF After, Accepts
      <3> HIDE DEF e, cmd
      <3> QED
        BY <2>2, <3>2 DEF HeldBy, DevFields, RootsAt, HasLeaf, Downs
    <2>3. CASE c.type # "redirect" /\ ~Downs(c)
      <3> DEFINE takes == RootKind(c) = "netem"
                          => NetemAccepts(c.type, IF CommandPattern(c) = "random" THEN v[i] ELSE 100)
      <3>1. /\ cmd.valid = takes /\ cmd.object = "root" /\ cmd.op = "del"
            /\ cmd.kind = RootKind(c)
        BY <2>3 DEF OffCommand, Cmd
      <3>2. CASE ~Accepts(d, cmd)
        <4>1. e = d
          BY <3>2 DEF After
        <4>2. d.root # Qdisc(RootKind(c), i) \/ ~RootsAt(c, v[i])
          <5> SUFFICES ASSUME d.root = Qdisc(RootKind(c), i), RootsAt(c, v[i]) PROVE FALSE
            OBVIOUS
          <5>1. takes
            BY DEF RootsAt
          <5>2. cmd.valid
            BY <3>1, <5>1
          <5>3. d.root.kind = cmd.kind
            BY <3>1 DEF Qdisc
          <5> HIDE DEF cmd
          <5> QED
            BY <3>1, <3>2, <5>2, <5>3 DEF Accepts
        <4>3. HasLeaf(c) => d.root.kind # "prio"
          BY <3>1, <3>2 DEF Accepts, HasLeaf, RootKind
        <4>4. HeldBy(d, kind, S \ {i}, v)
          BY <2>3, <4>2, <4>3 DEF HeldBy
        <4> QED
          BY <4>1, <4>4
      <3>3. CASE Accepts(d, cmd)
        <4>1. e = [d EXCEPT !.root = NoQdisc, !.leaf = NoQdisc, !.filters = {}]
          BY <3>1, <3>3 DEF After
        <4>2. d.root.kind = RootKind(c)
          BY <3>1, <3>3 DEF Accepts
        <4>3. kind \in TakenAlong \cup {"none"}
          BY <4>2 DEF HeldBy, Qdisc, RootKind, Kinds, TakenAlong
        <4> HIDE DEF e, cmd
        <4> QED
          BY <2>3, <4>1, <4>3 DEF HeldBy, DevFields
      <3> QED
        BY <3>2, <3>3
    <2> QED
      BY <2>1, <2>2, <2>3
  <1> QED
    BY <1>1, <1>2

\* No commands, no change.
LEMMA ExecuteNone ==
    ASSUME NEW d, NEW i
    PROVE  Execute(d, i, <<>>) = [dev |-> d, ok |-> TRUE]
  <1>1. PICK cmds : cmds = <<>>
    OBVIOUS
  <1>2. Len(cmds) = 0 /\ Len(cmds) \in Nat
    BY <1>1
  <1>3. PICK run : Execute(d, i, cmds) = run[Len(cmds)] /\ run[0] = [dev |-> d, ok |-> TRUE]
    BY <1>2, ExecuteRuns
  <1>4. run[Len(cmds)] = run[0]
    BY <1>2
  <1> QED
    BY <1>1, <1>3, <1>4

(***************************************************************************)
(* What exit status zero says.                                             *)
(***************************************************************************)
IsDev(d) == d = [f \in DevFields |-> d[f]]

\* TakesEffect, of a fault whose pattern is known and a device.
Effect(c, d, i) ==
    KnownPattern(c) =>
        /\ c.type = "redirect" => \E m \in d.mirrors : m[1] = i
        /\ Downs(c) => d.downBy = i
        /\ ProtocolWide(c) /\ c.type \notin {"redirect", "down"} => d.root.by = i
        /\ ProtocolWide(c) => c.type # "down" \/ Downs(c)
        /\ ~ProtocolWide(c) /\ c.type # "redirect" =>
              d.leaf.by = i /\ \E f \in d.filters : f[1] = i

\* An accepted mirror is there.
LEMMA MirrorMirrors ==
    ASSUME NEW d, IsDev(d), NEW i, NEW cmd, cmd.object = "mirror", cmd.op = "add", Accepts(d, cmd)
    PROVE  \E m \in After(d, i, cmd).mirrors : m[1] = i
  <1>1. After(d, i, cmd) = [d EXCEPT !.mirrors = @ \cup {<<i, cmd.match>>}]
    BY DEF After
  <1>2. <<i, cmd.match>> \in After(d, i, cmd).mirrors
    BY <1>1 DEF IsDev, DevFields
  <1>3. <<i, cmd.match>>[1] = i
    OBVIOUS
  <1> QED
    BY <1>2, <1>3

\* An interface stays one.
LEMMA IsDevKept ==
    ASSUME NEW d, IsDev(d), NEW i, NEW cmd, NEW c, NEW v, TurnsOn(cmd, c, v)
    PROVE  IsDev(After(d, i, cmd))
  <1> DEFINE e == After(d, i, cmd)
  <1>1. \/ e = d
        \/ \E x : e = [d EXCEPT !.root = x] \/ e = [d EXCEPT !.leaf = x]
                  \/ e = [d EXCEPT !.filters = x] \/ e = [d EXCEPT !.ingress = x]
                  \/ e = [d EXCEPT !.mirrors = x] \/ e = [d EXCEPT !.downBy = x]
    BY DEF After, TurnsOn
  <1> HIDE DEF e
  <1>2. IsDev(e)
    BY <1>1 DEF IsDev, DevFields
  <1> QED
    BY <1>2 DEF e

\* The faults on all protocols.
LEMMA EffectWide ==
    ASSUME NEW d, IsDev(d), NEW i, NEW c, c.kind = "link", ProtocolWide(c), NEW v,
           Execute(d, i, Commands(c, v, "add")).ok
    PROVE  Effect(c, Execute(d, i, Commands(c, v, "add")).dev, i)
  <1> DEFINE r == Execute(d, i, Commands(c, v, "add"))
  <1> SUFFICES Effect(c, r.dev, i)
    OBVIOUS
  <1>0. CommandPattern(c) = "random" => CommandPattern(c) # "persistent"
    OBVIOUS
  <1>1. Commands(c, v, "add") = ProtocolWideCommands(c, v, "add")
    BY CommandsOn
  <1>2. CASE c.type = "redirect"
    <2> DEFINE x == Cmd("add", "ingress", "ingress", TRUE)
               y == Cmd("add", "mirror", "mirred", TRUE)
    <2>1. PICK cmds : cmds = <<x, y>>
      OBVIOUS
    <2>2. Commands(c, v, "add") = cmds
      BY <1>1, <1>2, <2>1 DEF ProtocolWideCommands, Redirects
    <2> HIDE DEF x, y
    <2>3. Len(cmds) = 2 /\ cmds[2] = y /\ cmds[1] = x /\ Len(cmds) \in Nat
      BY <2>1
    <2>4. PICK run : /\ Execute(d, i, cmds) = run[Len(cmds)]
                     /\ run[0] = [dev |-> d, ok |-> TRUE]
                     /\ \A n \in 1..Len(cmds) : run[n] = Do(run[n - 1], i, cmds[n])
      BY <2>3, ExecuteRuns
    <2>5. run[2] = Do(run[1], i, y) /\ run[1] = Do(run[0], i, x) /\ r = run[2]
      BY <2>2, <2>3, <2>4
    <2>6. IsDev(run[1].dev)
      <3>1. TurnsOn(x, c, v)
        BY <1>2 DEF TurnsOn, Cmd, x
      <3>2. run[1].dev = After(d, i, x)
        BY <2>4, <2>5 DEF Do
      <3> QED
        BY <3>1, <3>2, IsDevKept
    <2>7. r.dev = After(run[1].dev, i, y) /\ r.ok = Accepts(run[1].dev, y)
      <3>1. r = Do(run[1], i, y)
        BY <2>5
      <3> HIDE DEF r
      <3> QED
        BY <3>1 DEF Do
    <2>8. y.object = "mirror" /\ y.op = "add"
      BY DEF Cmd, y
    <2>9. \E m \in r.dev.mirrors : m[1] = i
      <3>1. Accepts(run[1].dev, y)
        BY <2>7
      <3> QED
        BY <2>6, <2>7, <2>8, <3>1, MirrorMirrors
    <2> QED
      BY <1>2, <2>9 DEF Effect, Downs
  <1>3. CASE c.type # "redirect"
    <2> DEFINE takes == NetemAccepts(c.type, IF CommandPattern(c) = "random" THEN v ELSE 100)
    <2>1. ASSUME NEW cmd, Commands(c, v, "add") = <<cmd>>
          PROVE  r.dev = After(d, i, cmd) /\ Accepts(d, cmd)
      <3>1. Execute(d, i, <<cmd>>) = [dev |-> After(d, i, cmd), ok |-> Accepts(d, cmd)]
        BY ExecuteOne
      <3> QED
        BY <2>1, <3>1
    <2>2. ASSUME NEW cmd, Commands(c, v, "add") = <<cmd>>, cmd.object = "root", cmd.op = "add"
          PROVE  r.dev.root.by = i
      <3>1. r.dev = [d EXCEPT !.root = Qdisc(cmd.kind, i)]
        BY <2>1, <2>2 DEF After
      <3> HIDE DEF r
      <3> QED
        BY <3>1 DEF IsDev, DevFields, Qdisc
    <2>3. CASE c.type = "bottleneck" /\ CommandPattern(c) = "persistent"
      <3> DEFINE x == Cmd("add", "root", "tbf", TRUE)
      <3>1. Commands(c, v, "add") = <<x>>
        BY <1>1, <2>3 DEF ProtocolWideCommands
      <3>2. x.object = "root" /\ x.op = "add"
        BY DEF Cmd
      <3> HIDE DEF x
      <3>3. r.dev.root.by = i
        BY <2>2, <3>1, <3>2
      <3> QED
        BY <2>3, <3>3 DEF Effect, Downs
    <2>4. CASE c.type = "down" /\ CommandPattern(c) = "persistent"
      <3> DEFINE x == Cmd("add", "link", "down", TRUE)
      <3>1. Commands(c, v, "add") = <<x>>
        BY <1>1, <2>4 DEF ProtocolWideCommands
      <3>2. x.object = "link" /\ x.op = "add"
        BY DEF Cmd
      <3> HIDE DEF x
      <3>3. r.dev = [d EXCEPT !.downBy = i]
        BY <2>1, <3>1, <3>2 DEF After
      <3> HIDE DEF r
      <3>4. r.dev.downBy = i
        BY <3>3 DEF IsDev, DevFields
      <3> QED
        BY <2>4, <3>4 DEF Effect, Downs
    <2>5. CASE ~(c.type \in {"bottleneck", "down"} /\ CommandPattern(c) = "persistent")
      <3> DEFINE x == Cmd("add", "root", "netem", takes)
      <3>1. Commands(c, v, "add") = <<x>>
        BY <1>1, <1>3, <2>5 DEF ProtocolWideCommands
      <3>2. x.object = "root" /\ x.op = "add" /\ x.valid = takes
        BY DEF Cmd
      <3> HIDE DEF x
      <3>3. r.dev.root.by = i
        BY <2>2, <3>1, <3>2
      <3>4. takes
        BY <2>1, <3>1, <3>2 DEF Accepts
      <3>5. c.type # "down"
        BY <3>4 DEF NetemAccepts
      <3> QED
        BY <1>3, <3>3, <3>5 DEF Effect, Downs
    <2> QED
      BY <2>3, <2>4, <2>5
  <1> QED
    BY <1>2, <1>3

\* The faults on some traffic.
LEMMA EffectFiltered ==
    ASSUME NEW d, IsDev(d), NEW i, NEW c, c.kind = "link", HasPorts(c), ~ProtocolWide(c), NEW v,
           Execute(d, i, Commands(c, v, "add")).ok
    PROVE  Effect(c, Execute(d, i, Commands(c, v, "add")).dev, i)
  <1> DEFINE r == Execute(d, i, Commands(c, v, "add"))
  <1> SUFFICES ASSUME KnownPattern(c) PROVE Effect(c, r.dev, i)
    BY DEF Effect
  <1>1. PICK cmds : cmds = Commands(c, v, "add")
    OBVIOUS
  <1>2. Len(cmds) \in Nat /\ \A n \in 1..Len(cmds) : TurnsOn(cmds[n], c, v)
    BY <1>1, CommandsTurnOn
  <1>3. PICK run : /\ Execute(d, i, cmds) = run[Len(cmds)]
                   /\ run[0] = [dev |-> d, ok |-> TRUE]
                   /\ \A n \in 1..Len(cmds) : run[n] = Do(run[n - 1], i, cmds[n])
    BY <1>2, ExecuteRuns
  <1>4. \A n \in Nat : n < Len(cmds) =>
           /\ run[n + 1].dev = After(run[n].dev, i, cmds[n + 1])
           /\ run[n + 1].ok = Accepts(run[n].dev, cmds[n + 1])
    <2> SUFFICES ASSUME NEW n \in Nat, n < Len(cmds)
                 PROVE  /\ run[n + 1].dev = After(run[n].dev, i, cmds[n + 1])
                        /\ run[n + 1].ok = Accepts(run[n].dev, cmds[n + 1])
      OBVIOUS
    <2>1. n + 1 \in 1..Len(cmds) /\ (n + 1) - 1 = n
      BY <1>2
    <2>2. run[n + 1] = Do(run[n], i, cmds[n + 1])
      BY <1>3, <2>1
    <2> QED
      BY <2>2 DEF Do
  <1>5. \A n \in 0..Len(cmds) : IsDev(run[n].dev)
    <2> DEFINE T == {n \in 0..Len(cmds) : IsDev(run[n].dev)}
    <2>1. 0 \in T
      <3>1. run[0].dev = d
        BY <1>3
      <3> QED
        BY <1>2, <3>1
    <2>2. ASSUME NEW n \in Nat, n < Len(cmds), n \in T PROVE n + 1 \in T
      <3>1. n + 1 \in 1..Len(cmds)
        BY <1>2, <2>2
      <3>2. IsDev(run[n + 1].dev)
        BY <1>2, <1>4, <2>2, <3>1, IsDevKept
      <3> QED
        BY <3>1, <3>2
    <2>3. \A n \in 0..Len(cmds) : n \in T
      <3> HIDE DEF T
      <3> QED
        BY <1>2, <2>1, <2>2, UpTo
    <2> QED
      BY <2>3
  <1>6. r = run[Len(cmds)]
    BY <1>1, <1>3
  <1>7. PortFilters(c) \in Seq(FilterCommands(c)) /\ Len(PortFilters(c)) >= 1
    BY PortFiltersType
  <1> DEFINE last == Len(cmds) - 1
  <1>8. ASSUME last \in Nat
        PROVE  r.dev = After(run[last].dev, i, cmds[last + 1]) /\ Accepts(run[last].dev, cmds[last + 1])
               /\ IsDev(run[last].dev)
    <2>1. last + 1 = Len(cmds) /\ last < Len(cmds)
      BY <1>2
    <2>2. r.dev = After(run[last].dev, i, cmds[last + 1]) /\ r.ok = Accepts(run[last].dev, cmds[last + 1])
      BY <1>4, <1>6, <1>8, <2>1
    <2>3. IsDev(run[last].dev)
      BY <1>2, <1>5, <1>8, <2>1
    <2> QED
      BY <2>2, <2>3
  <1> HIDE DEF r
  <1>9. CASE Redirected(c)
    <2>1. cmds = <<Opening(c)>> \o Mirrors(c)
      BY <1>1, <1>9, CommandsOn
    <2>2. PICK M : LET t == Mirrors(c)
                   IN  /\ t \in Seq(M) /\ Len(t) >= 1
                       /\ t[Len(t)].object = "mirror" /\ t[Len(t)].op = "add"
      <3> DEFINE Mirror(n) == Matching(Cmd("add", "mirror", "mirred", TRUE), PortFilters(c)[n].match)
                 M == {Mirror(n) : n \in 1..Len(PortFilters(c))}
      <3>0. Len(PortFilters(c)) \in Nat
        BY <1>7
      <3>1. \A n \in 1..Len(PortFilters(c)) :
               Mirror(n) \in M /\ Mirror(n).object = "mirror" /\ Mirror(n).op = "add"
        BY DEF Matching, Cmd
      <3>2. Mirrors(c) = [n \in 1..Len(PortFilters(c)) |-> Mirror(n)]
        BY DEF Mirrors
      <3> HIDE DEF Mirror, M
      <3>3. Mirrors(c) \in Seq(M) /\ Len(Mirrors(c)) = Len(PortFilters(c))
        BY <3>0, <3>1, <3>2
      <3>4. Len(PortFilters(c)) \in 1..Len(PortFilters(c))
        BY <1>7, <3>0
      <3> QED
        BY <1>7, <3>1, <3>2, <3>3, <3>4
    <2> DEFINE t == Mirrors(c)
    <2> HIDE DEF t
    <2>3. last \in Nat /\ cmds[last + 1] = t[Len(t)]
      <3>1. PICK a : a = Opening(c)
        OBVIOUS
      <3>2. cmds = <<a>> \o t
        BY <2>1, <3>1 DEF t
      <3>3. Len(cmds) = Len(t) + 1 /\ cmds[Len(cmds)] = t[Len(t)]
        <4>1. t \in Seq(M \cup {a}) /\ Len(t) \in Nat /\ Len(t) >= 1
          BY <2>2 DEF t
        <4> QED
          BY <3>2, <4>1
      <3>4. Len(t) \in Nat
        BY <2>2 DEF t
      <3> QED
        BY <1>2, <3>3, <3>4
    <2>4. \E m \in r.dev.mirrors : m[1] = i
      BY <1>8, <2>2, <2>3, MirrorMirrors DEF t
    <2> QED
      BY <1>9, <2>4 DEF Effect, Downs, Redirected
  <1>10. CASE ~Redirected(c)
    <2> DEFINE F == FilterCommands(c) \cup {Opening(c), LeafCommand(c, v)}
               N == Len(PortFilters(c))
    <2>1. cmds = <<Opening(c)>> \o PortFilters(c) \o <<LeafCommand(c, v)>>
      BY <1>1, <1>10, CommandsOn
    <2>2. /\ Len(cmds) = N + 2 /\ cmds[Len(cmds)] = LeafCommand(c, v)
          /\ \A n \in 2..(N + 1) : cmds[n] = PortFilters(c)[n - 1]
      <3>1. PortFilters(c) \in Seq(F) /\ Opening(c) \in F /\ LeafCommand(c, v) \in F
        BY <1>7
      <3> HIDE DEF F
      <3> QED
        BY <2>1, <3>1, Between
    <2>3. N \in Nat /\ N >= 1 /\ last = N + 1 /\ cmds[last + 1] = LeafCommand(c, v)
      BY <1>7, <2>2
    <2>4. \A n \in 2..(N + 1) : cmds[n] \in FilterCommands(c)
      <3> SUFFICES ASSUME NEW n \in 2..(N + 1) PROVE cmds[n] \in FilterCommands(c)
        OBVIOUS
      <3>1. n - 1 \in 1..N
        BY <2>3
      <3> QED
        BY <1>7, <2>2, <3>1
    <2>5. /\ LeafCommand(c, v).object = "leaf" /\ LeafCommand(c, v).op = "add"
          /\ LeafCommand(c, v).valid => c.type # "redirect"
      BY <1>10 DEF LeafCommand, Cmd, NetemAccepts, Redirected, KnownPattern
    <2>6. /\ r.dev = After(run[last].dev, i, LeafCommand(c, v)) /\ Accepts(run[last].dev, LeafCommand(c, v))
          /\ IsDev(run[last].dev)
      BY <1>8, <2>3
    <2>7. c.type # "redirect" /\ run[last].dev.root.kind = "prio"
      BY <2>5, <2>6 DEF Accepts
    <2>8. r.dev = [run[last].dev EXCEPT !.leaf = Qdisc(LeafCommand(c, v).kind, i)]
      BY <2>5, <2>6 DEF After
    <2>9. r.dev.leaf.by = i /\ r.dev.filters = run[last].dev.filters
      BY <2>6, <2>8 DEF IsDev, DevFields, Qdisc
    <2>10. ASSUME NEW n \in 1..N
           PROVE  /\ run[n + 1].dev.root = run[n].dev.root
                  /\ run[n].dev.root.kind = "prio" =>
                        <<i, cmds[n + 1].match>> \in run[n + 1].dev.filters
      <3>1. n + 1 \in 2..(N + 1) /\ n \in Nat /\ n < Len(cmds) /\ n \in 0..Len(cmds)
        BY <2>2, <2>3
      <3> DEFINE x == cmds[n + 1]
      <3>2. /\ x.object = "filter" /\ x.op = "add" /\ x.valid
        BY <2>4, <3>1, FilterTurnsOn DEF TurnsOn
      <3>3. run[n + 1].dev = After(run[n].dev, i, x) /\ IsDev(run[n].dev)
        BY <1>4, <1>5, <3>1
      <3> HIDE DEF x
      <3>4. CASE run[n].dev.root.kind = "prio"
        <4>1. run[n + 1].dev = [run[n].dev EXCEPT !.filters = @ \cup {<<i, x.match>>}]
          BY <3>2, <3>3, <3>4 DEF After, Accepts
        <4>2. run[n + 1].dev.root = run[n].dev.root /\ <<i, x.match>> \in run[n + 1].dev.filters
          BY <3>3, <4>1 DEF IsDev, DevFields
        <4> QED
          BY <4>2 DEF x
      <3>5. CASE run[n].dev.root.kind # "prio"
        <4>1. run[n + 1].dev = run[n].dev
          BY <3>2, <3>3, <3>5 DEF After, Accepts
        <4> QED
          BY <3>5, <4>1
      <3> QED
        BY <3>4, <3>5
    <2>11. \A n \in 0..N : run[n + 1].dev.root = run[1].dev.root
      <3> DEFINE T == {n \in 0..N : run[n + 1].dev.root = run[1].dev.root}
      <3>1. 0 \in T
        BY <2>3
      <3>2. ASSUME NEW n \in Nat, n < N, n \in T PROVE n + 1 \in T
        <4>1. n + 1 \in 1..N
          BY <2>3, <3>2
        <4>2. run[(n + 1) + 1].dev.root = run[n + 1].dev.root
          BY <2>10, <4>1
        <4> QED
          BY <3>2, <4>1, <4>2
      <3>3. \A n \in 0..N : n \in T
        <4> HIDE DEF T
        <4> QED
          BY <2>3, <3>1, <3>2, UpTo
      <3> QED
        BY <3>3
    <2>12. run[N].dev.root.kind = "prio"
      <3>1. N - 1 \in 0..N /\ N \in 0..N /\ (N - 1) + 1 = N
        BY <2>3
      <3>2. run[N].dev.root = run[1].dev.root /\ run[N + 1].dev.root = run[1].dev.root
        BY <2>11, <3>1
      <3> QED
        BY <2>3, <2>7, <3>2
    <2>13. <<i, cmds[N + 1].match>> \in run[last].dev.filters
      BY <2>3, <2>10, <2>12
    <2>14. \E f \in r.dev.filters : f[1] = i
      <3>1. <<i, cmds[N + 1].match>>[1] = i
        OBVIOUS
      <3> QED
        BY <2>9, <2>13, <3>1
    <2> QED
      BY <2>7, <2>9, <2>14 DEF Effect, Downs
  <1> QED
    BY <1>9, <1>10 DEF r

(***************************************************************************)
(* What the injectors hold, on all interfaces.                             *)
(***************************************************************************)
\* What the assumptions say of the faults and the network's own roots.
WellFormed ==
    /\ DOMAIN fault = Injectors
    /\ \A i \in Injectors : HasPorts(fault[i]) /\ (Link(i) => fault[i].dev \in Interfaces)
    /\ network \in Networks /\ \A e \in Interfaces : network[e] \in Kinds

HoldersOn(e, on) == {i \in on : Link(i) /\ fault[i].dev = e}
Holds(dev, on, v) ==
    /\ dev = [e \in Interfaces |-> dev[e]]
    /\ \A e \in Interfaces : HeldBy(dev[e], network[e], HoldersOn(e, on), v)

\* Only the holders and their values matter.
LEMMA HeldByMore ==
    ASSUME NEW d, NEW kind, NEW S, NEW S2, S \subseteq S2, NEW v, NEW v2,
           \A i \in S : v2[i] = v[i], HeldBy(d, kind, S, v)
    PROVE  HeldBy(d, kind, S2, v2)
  BY DEF HeldBy

\* So it is on all interfaces.
LEMMA HoldsMore ==
    ASSUME NEW dev, NEW on, NEW on2, on \subseteq on2, NEW v, NEW v2,
           \A i \in on : v2[i] = v[i], Holds(dev, on, v)
    PROVE  Holds(dev, on2, v2)
  <1> SUFFICES ASSUME NEW e \in Interfaces PROVE HeldBy(dev[e], network[e], HoldersOn(e, on2), v2)
    BY DEF Holds
  <1>1. HeldBy(dev[e], network[e], HoldersOn(e, on), v)
    BY DEF Holds
  <1>2. HoldersOn(e, on) \subseteq HoldersOn(e, on2) /\ \A i \in HoldersOn(e, on) : v2[i] = v[i]
    BY DEF HoldersOn
  <1> QED
    BY <1>1, <1>2, HeldByMore

\* The device of an interface, under the names of the code.
Device(w, i) == w.dev[fault[i].dev]

\* Turning on the fault of i.
LEMMA TurnOnDoes ==
    ASSUME WellFormed, NEW w, NEW on \in SUBSET Injectors, NEW v, NEW i \in on,
           Holds(w.dev, on, v), NEW r, \E ok \in BOOLEAN : r = TurnOn(w, i, v[i], ok)
    PROVE  /\ Holds(r.dev, on, v)
           /\ \A e \in Interfaces : (Link(i) /\ fault[i].dev = e) \/ r.dev[e] = w.dev[e]
           /\ \E done \in BOOLEAN :
                 /\ r.table = SetActive(w.table, fault[i], done)
                 /\ Link(i) /\ done => Effect(fault[i], Device(r, i), i)
  <1>0. PICK ok \in BOOLEAN : r = TurnOn(w, i, v[i], ok)
    OBVIOUS
  <1> DEFINE c == fault[i]
             x == Execute(w.dev[c.dev], i, Commands(c, v[i], "add"))
             done == IF c.kind = "link" THEN x.ok ELSE ok \/ ~RunsCommand(c, TRUE)
  <1>1. r.dev = [w.dev EXCEPT ![c.dev] = x.dev] /\ r.table = SetActive(w.table, c, done)
    BY <1>0 DEF TurnOn
  <1>2. w.dev = [e \in Interfaces |-> w.dev[e]]
    BY DEF Holds
  <1>3. NoOne \notin Injectors /\ Network \notin Injectors
    BY InjectorsAssumption
  <1> HIDE DEF x
  <1>4. CASE Link(i)
    <2>1. c.dev \in Interfaces /\ HasPorts(c) /\ c.kind = "link"
      BY <1>4 DEF WellFormed, Link
    <2> DEFINE d == w.dev[c.dev]
               S == HoldersOn(c.dev, on)
    <2>2. HeldBy(d, network[c.dev], S, v) /\ i \in S /\ NoOne \notin S /\ Network \notin S
          /\ network[c.dev] \in Kinds
      BY <1>3, <1>4, <2>1 DEF Holds, HoldersOn, WellFormed
    <2>3. HeldBy(x.dev, network[c.dev], S, v) /\ x.ok \in BOOLEAN
      <3> HIDE DEF S, d
      <3> QED
        BY <2>1, <2>2, TurningOnHolds DEF x, d
    <2>4. r.dev = [e \in Interfaces |-> IF e = c.dev THEN x.dev ELSE w.dev[e]]
      BY <1>1, <1>2
    <2>5. Holds(r.dev, on, v)
      BY <2>3, <2>4 DEF Holds
    <2>6. done = x.ok
      BY <2>1
    <2>7. x.ok => Effect(c, x.dev, i)
      <3> SUFFICES ASSUME x.ok PROVE Effect(c, x.dev, i)
        OBVIOUS
      <3>1. IsDev(d)
        BY <2>2 DEF HeldBy, IsDev
      <3>2. CASE ProtocolWide(c)
        BY <2>1, <3>1, <3>2, EffectWide DEF x
      <3>3. CASE ~ProtocolWide(c)
        BY <2>1, <3>1, <3>3, EffectFiltered DEF x
      <3> QED
        BY <3>2, <3>3
    <2>8. Device(r, i) = x.dev
      BY <2>1, <2>4 DEF Device
    <2> QED
      BY <1>1, <1>4, <2>3, <2>4, <2>5, <2>6, <2>7, <2>8
  <1>5. CASE ~Link(i)
    <2>1. Commands(c, v[i], "add") = <<>>
      BY <1>5 DEF Commands, Link
    <2>2. x.dev = w.dev[c.dev]
      BY <2>1, ExecuteNone DEF x
    <2>3. r.dev = w.dev
      BY <1>1, <1>2, <2>2
    <2>4. done \in BOOLEAN
      BY <1>5 DEF Link, RunsCommand
    <2> QED
      BY <1>1, <1>5, <2>3, <2>4
  <1> QED
    BY <1>4, <1>5

\* Turning it off.
LEMMA TurnOffDoes ==
    ASSUME WellFormed, NEW w, NEW on \in SUBSET Injectors, NEW v, NEW i \in Injectors,
           Holds(w.dev, on, v)
    PROVE  LET r == TurnOff(w, i, v[i])
           IN  /\ Holds(r.dev, on \ {i}, v)
               /\ \A e \in Interfaces : (Link(i) /\ fault[i].dev = e) \/ r.dev[e] = w.dev[e]
               /\ r.table = SetInactive(w.table, fault[i])
  <1> DEFINE c == fault[i]
             x == Execute(w.dev[c.dev], i, Commands(c, v[i], "del"))
             r == TurnOff(w, i, v[i])
  <1> SUFFICES /\ Holds(r.dev, on \ {i}, v)
               /\ \A e \in Interfaces : (Link(i) /\ fault[i].dev = e) \/ r.dev[e] = w.dev[e]
               /\ r.table = SetInactive(w.table, fault[i])
    OBVIOUS
  <1>1. r.dev = [w.dev EXCEPT ![c.dev] = x.dev] /\ r.table = SetInactive(w.table, c)
    BY DEF TurnOff
  <1>2. w.dev = [e \in Interfaces |-> w.dev[e]]
    BY DEF Holds
  <1> HIDE DEF r, x
  <1>3. \A e \in Interfaces : (Link(i) /\ fault[i].dev = e) \/ HoldersOn(e, on \ {i}) = HoldersOn(e, on)
    BY DEF HoldersOn
  <1>4. CASE Link(i)
    <2>1. c.dev \in Interfaces /\ c.kind = "link"
      BY <1>4 DEF WellFormed, Link
    <2> DEFINE S == HoldersOn(c.dev, on)
    <2>2. HeldBy(w.dev[c.dev], network[c.dev], S, v) /\ network[c.dev] \in Kinds
          /\ HoldersOn(c.dev, on \ {i}) = S \ {i}
      BY <2>1 DEF Holds, HoldersOn, WellFormed
    <2>3. HeldBy(x.dev, network[c.dev], S \ {i}, v)
      <3> HIDE DEF S
      <3> QED
        BY <2>1, <2>2, TurningOffHolds DEF x
    <2>4. r.dev = [e \in Interfaces |-> IF e = c.dev THEN x.dev ELSE w.dev[e]]
      BY <1>1, <1>2
    <2>5. ASSUME NEW e \in Interfaces
          PROVE  HeldBy(r.dev[e], network[e], HoldersOn(e, on \ {i}), v)
      <3>1. CASE e = c.dev
        BY <2>2, <2>3, <2>4, <3>1
      <3>2. CASE e # c.dev
        BY <1>3, <2>4, <3>2 DEF Holds
      <3> QED
        BY <3>1, <3>2
    <2> QED
      BY <1>1, <1>4, <2>4, <2>5 DEF Holds
  <1>5. CASE ~Link(i)
    <2>1. Commands(c, v[i], "del") = <<>>
      BY <1>5 DEF Commands, Link
    <2>2. x.dev = w.dev[c.dev]
      BY <2>1, ExecuteNone DEF x
    <2>3. r.dev = w.dev
      BY <1>1, <1>2, <2>2
    <2> QED
      BY <1>1, <1>3, <1>5, <2>3 DEF Holds
  <1> QED
    BY <1>4, <1>5

(***************************************************************************)
(* The table beside the interfaces.                                        *)
(***************************************************************************)
\* Present, of any pair of devices and table.
PresentIn(d, i) ==
    \/ i \in {d.root.by, d.leaf.by, d.ingress, d.downBy}
    \/ \E f \in d.filters \cup d.mirrors : f[1] = i

InLimits(i) == Link(i) /\ Alone(i) /\ OwnTag(i)

\* What is on holds the interfaces and owns the table's entries; a fault in the documented
\* limits that is present is in the table, and has its effect if the entry says so.
TableOwned(table, on) ==
    /\ table = [tag \in DOMAIN table |-> table[tag]]
    /\ \A tag \in DOMAIN table :
          table[tag].ok \in BOOLEAN /\ \E i \in on : fault[i].tag = tag
TableTrue(w) ==
    \A i \in Injectors : InLimits(i) =>
        /\ PresentIn(Device(w, i), i) => fault[i].tag \in DOMAIN w.table
        /\ fault[i].tag \in DOMAIN w.table /\ w.table[fault[i].tag].ok =>
              Effect(fault[i], Device(w, i), i)
Sound(w, on, v) ==
    Holds(w.dev, on, v) /\ TableOwned(w.table, on) /\ TableTrue(w)

\* Where nobody holds anything there is nothing but the network's root.
LEMMA NobodyHolds ==
    ASSUME NEW d, NEW kind \in Kinds, NEW v, HeldBy(d, kind, {}, v)
    PROVE  /\ IsDev(d)
           /\ d.root = NoQdisc \/ d.root = Qdisc(kind, Network)
           /\ kind \notin TakenAlong => d.root = FreshInterface(kind).root
           /\ d.leaf = NoQdisc /\ d.filters = {} /\ d.ingress = NoOne /\ d.mirrors = {}
           /\ d.downBy = NoOne
  <1>1. d.root = NoQdisc \/ (d.root = Qdisc(kind, Network) /\ kind # "none")
    BY DEF HeldBy
  <1>2. d.root.kind # "prio"
    BY <1>1 DEF Kinds, Qdisc, NoQdisc
  <1>3. kind \notin TakenAlong => d.root = FreshInterface(kind).root
    BY <1>1 DEF HeldBy, FreshInterface, TakenAlong
  <1>4. d.leaf = NoQdisc /\ d.filters = {} /\ d.ingress = NoOne /\ d.mirrors = {} /\ d.downBy = NoOne
    BY <1>2 DEF HeldBy
  <1> QED
    BY <1>1, <1>3, <1>4 DEF HeldBy, IsDev

\* Who does not hold an interface has no discipline, redirection or link down on it.
LEMMA NotHolding ==
    ASSUME NEW d, NEW kind \in Kinds, NEW S \in SUBSET Injectors, NEW v, HeldBy(d, kind, S, v),
           NEW i \in Injectors \ S
    PROVE  i \notin {d.root.by, d.leaf.by, d.ingress, d.downBy}
  <1>1. i # NoOne /\ i # Network
    BY InjectorsAssumption
  <1>2. d.root.by = NoOne \/ d.root.by = Network \/ d.root.by \in S
    <2>1. \A k, j : Qdisc(k, j).by = j
      BY DEF Qdisc
    <2> QED
      BY <2>1 DEF HeldBy, NoQdisc
  <1>3. d.leaf.by = NoOne \/ d.leaf.by \in S
    BY DEF HeldBy, Qdisc, NoQdisc
  <1>4. (d.ingress = NoOne \/ d.ingress \in S) /\ (d.downBy = NoOne \/ d.downBy \in S)
    BY DEF HeldBy
  <1> QED
    BY <1>1, <1>2, <1>3, <1>4

\* More may hold, and values of others change.
LEMMA SoundMore ==
    ASSUME NEW w, NEW on, NEW on2, on \subseteq on2, NEW v, NEW v2,
           \A i \in on : v2[i] = v[i], Sound(w, on, v)
    PROVE  Sound(w, on2, v2)
  <1>1. Holds(w.dev, on2, v2)
    BY HoldsMore DEF Sound
  <1>2. TableOwned(w.table, on2)
    BY DEF Sound, TableOwned
  <1> QED
    BY <1>1, <1>2 DEF Sound

\* A fault in the limits is not touched by another's commands.
LEMMA Untouched ==
    ASSUME WellFormed, NEW j \in Injectors, InLimits(j), NEW i \in Injectors \ {j}, NEW w, NEW r,
           \A e \in Interfaces : (Link(i) /\ fault[i].dev = e) \/ r.dev[e] = w.dev[e]
    PROVE  Device(r, j) = Device(w, j) /\ fault[j].tag # fault[i].tag
  BY DEF WellFormed, InLimits, Alone, OwnTag, Device

\* Turning on keeps the table and the interfaces in step.
LEMMA SoundOn ==
    ASSUME WellFormed, NEW w, NEW on \in SUBSET Injectors, NEW v, NEW i \in on,
           Sound(w, on, v), NEW r, \E ok \in BOOLEAN : r = TurnOn(w, i, v[i], ok)
    PROVE  Sound(r, on, v)
  <1> DEFINE tag == fault[i].tag
  <1>1. /\ Holds(r.dev, on, v)
        /\ \A e \in Interfaces : (Link(i) /\ fault[i].dev = e) \/ r.dev[e] = w.dev[e]
        /\ \E done \in BOOLEAN :
              /\ r.table = SetActive(w.table, fault[i], done)
              /\ Link(i) /\ done => Effect(fault[i], Device(r, i), i)
    <2>1. Holds(w.dev, on, v)
      BY DEF Sound
    <2> QED
      BY <2>1, TurnOnDoes
  <1>2. PICK done \in BOOLEAN : /\ r.table = SetActive(w.table, fault[i], done)
                                /\ Link(i) /\ done => Effect(fault[i], Device(r, i), i)
    BY <1>1
  <1>3. /\ DOMAIN r.table = DOMAIN w.table \cup {tag}
        /\ r.table = [t \in DOMAIN r.table |-> r.table[t]]
        /\ r.table[tag].ok = done
        /\ \A t \in DOMAIN w.table \ {tag} : r.table[t] = w.table[t]
    BY <1>2 DEF SetActive
  <1>4. TableOwned(r.table, on)
    <2>1. ASSUME NEW t \in DOMAIN r.table
          PROVE  r.table[t].ok \in BOOLEAN /\ \E k \in on : fault[k].tag = t
      <3>1. CASE t = tag
        <4>1. r.table[t].ok \in BOOLEAN
          BY <1>3, <3>1
        <4> QED
          BY <3>1, <4>1
      <3>2. CASE t # tag
        BY <1>3, <3>2 DEF Sound, TableOwned
      <3> QED
        BY <3>1, <3>2
    <2> QED
      BY <1>3, <2>1 DEF TableOwned
  <1>5. ASSUME NEW j \in Injectors, InLimits(j)
        PROVE  /\ PresentIn(Device(r, j), j) => fault[j].tag \in DOMAIN r.table
               /\ fault[j].tag \in DOMAIN r.table /\ r.table[fault[j].tag].ok =>
                     Effect(fault[j], Device(r, j), j)
    <2>1. CASE j = i
      <3>1. Link(i)
        BY <1>5, <2>1 DEF InLimits
      <3>2. done => Effect(fault[i], Device(r, i), i)
        BY <1>2, <3>1
      <3>3. r.table[tag].ok => done
        BY <1>3
      <3> QED
        BY <1>3, <2>1, <3>2, <3>3
    <2>2. CASE j # i
      <3>1. Device(r, j) = Device(w, j) /\ fault[j].tag # tag
        BY <1>1, <1>5, <2>2, Untouched
      <3>2. fault[j].tag \in DOMAIN r.table <=> fault[j].tag \in DOMAIN w.table
        BY <1>3, <3>1
      <3>3. fault[j].tag \in DOMAIN w.table => r.table[fault[j].tag] = w.table[fault[j].tag]
        BY <1>3, <3>1
      <3>4. /\ PresentIn(Device(w, j), j) => fault[j].tag \in DOMAIN w.table
            /\ fault[j].tag \in DOMAIN w.table /\ w.table[fault[j].tag].ok =>
                  Effect(fault[j], Device(w, j), j)
        BY <1>5 DEF Sound, TableTrue
      <3> QED
        BY <3>1, <3>2, <3>3, <3>4
    <2> QED
      BY <2>1, <2>2
  <1>6. TableTrue(r)
    BY <1>5 DEF TableTrue
  <1> QED
    BY <1>1, <1>4, <1>6 DEF Sound

\* And so does turning off.
LEMMA SoundOff ==
    ASSUME WellFormed, NEW w, NEW on \in SUBSET Injectors, NEW v, NEW i \in Injectors,
           Sound(w, on, v)
    PROVE  Sound(TurnOff(w, i, v[i]), on \ {i}, v)
  <1> DEFINE r == TurnOff(w, i, v[i])
             tag == fault[i].tag
  <1>1. /\ Holds(r.dev, on \ {i}, v)
        /\ \A e \in Interfaces : (Link(i) /\ fault[i].dev = e) \/ r.dev[e] = w.dev[e]
        /\ r.table = SetInactive(w.table, fault[i])
    BY TurnOffDoes DEF Sound
  <1> HIDE DEF r
  <1>3. /\ DOMAIN r.table = DOMAIN w.table \ {tag}
        /\ r.table = [t \in DOMAIN r.table |-> r.table[t]]
        /\ \A t \in DOMAIN w.table \ {tag} : r.table[t] = w.table[t]
    BY <1>1 DEF SetInactive, Restrict
  <1>4. TableOwned(r.table, on \ {i})
    <2>1. ASSUME NEW t \in DOMAIN r.table
          PROVE  r.table[t].ok \in BOOLEAN /\ \E k \in on \ {i} : fault[k].tag = t
      <3>1. r.table[t] = w.table[t] /\ t # tag /\ t \in DOMAIN w.table
        BY <1>3
      <3> QED
        BY <3>1 DEF Sound, TableOwned
    <2> QED
      BY <1>3, <2>1 DEF TableOwned
  <1>5. ASSUME NEW j \in Injectors, InLimits(j)
        PROVE  /\ PresentIn(Device(r, j), j) => fault[j].tag \in DOMAIN r.table
               /\ fault[j].tag \in DOMAIN r.table /\ r.table[fault[j].tag].ok =>
                     Effect(fault[j], Device(r, j), j)
    <2>1. CASE j = i
      <3> DEFINE e == fault[i].dev
      <3>1. HoldersOn(e, on \ {i}) = {}
        BY <1>5, <2>1 DEF HoldersOn, InLimits, Alone
      <3>2. e \in Interfaces /\ network[e] \in Kinds
        BY <1>5, <2>1 DEF WellFormed, InLimits
      <3>3. HeldBy(r.dev[e], network[e], {}, v)
        BY <1>1, <3>1, <3>2 DEF Holds
      <3> DEFINE d == r.dev[e]
      <3>4. d.filters = {} /\ d.mirrors = {}
        BY <3>2, <3>3, NobodyHolds
      <3>5. i \notin {d.root.by, d.leaf.by, d.ingress, d.downBy}
        BY <3>2, <3>3, NotHolding, SMTT(40)
      <3>6. ~PresentIn(Device(r, i), i)
        <4>1. Device(r, i) = d
          BY DEF Device
        <4> HIDE DEF d
        <4> QED
          BY <3>4, <3>5, <4>1 DEF PresentIn
      <3>7. tag \notin DOMAIN r.table
        BY <1>3
      <3> QED
        BY <2>1, <3>6, <3>7
    <2>2. CASE j # i
      <3>1. Device(r, j) = Device(w, j) /\ fault[j].tag # tag
        BY <1>1, <1>5, <2>2, Untouched
      <3>2. fault[j].tag \in DOMAIN r.table <=> fault[j].tag \in DOMAIN w.table
        BY <1>3, <3>1
      <3>3. fault[j].tag \in DOMAIN w.table => r.table[fault[j].tag] = w.table[fault[j].tag]
        BY <1>3, <3>1
      <3>4. /\ PresentIn(Device(w, j), j) => fault[j].tag \in DOMAIN w.table
            /\ fault[j].tag \in DOMAIN w.table /\ w.table[fault[j].tag].ok =>
                  Effect(fault[j], Device(w, j), j)
        BY <1>5 DEF Sound, TableTrue
      <3> QED
        BY <3>1, <3>2, <3>3, <3>4
    <2> QED
      BY <2>1, <2>2
  <1>6. TableTrue(r)
    BY <1>5 DEF TableTrue
  <1> QED
    BY <1>1, <1>4, <1>6 DEF Sound, r

On == {i \in Injectors : pc[i] \in {"on", "cancelled"}}

\* What is sound stays so while the faults and the network's own roots are what they are.
LEMMA SoundNext ==
    ASSUME fault' = fault, network' = network, NEW w, NEW on, NEW v, Sound(w, on, v),
           World'.dev = w.dev, World'.table = w.table, On' = on, value' = v
    PROVE  Sound(World, On, value)'
  <1>1. \A d, kind, S : HeldBy(d, kind, S, v) => HeldBy(d, kind, S, value)'
    BY DEF HeldBy
  <1>2. Holds(World.dev, On, value)'
    BY <1>1 DEF Sound, Holds, HoldersOn, Link
  <1>3. TableOwned(World.table, On)'
    BY DEF Sound, TableOwned
  <1>4. TableTrue(World)'
    BY DEF Sound, TableTrue, InLimits, Link, Alone, OwnTag, Device
  <1> QED
    BY <1>2, <1>3, <1>4 DEF Sound

\* The invariant.
FaultsSound ==
    /\ InRhythm
    /\ WellFormed
    /\ loop \in {"running", "failing", "closed"}
    /\ Sound(World, On, value)

\* Where nothing was done nothing is held, and the table is empty.
LEMMA SoundInitially == Init => FaultsSound
  <1> SUFFICES ASSUME Init PROVE FaultsSound
    OBVIOUS
  <1>1. PICK config \in Profiles : fault = [i \in Injectors |-> TargetTraffic(config[i])]
    BY DEF Init
  <1>2. ASSUME NEW i \in Injectors
        PROVE  HasPorts(fault[i]) /\ (Link(i) => fault[i].dev \in Interfaces)
    <2> DEFINE c == config[i]
    <2>1. /\ {"time", "patternArgs", "kind", "protocol", "dst", "src", "dev"} \subseteq DOMAIN c
          /\ c.dst \in PortLists /\ c.src \in PortLists
          /\ c.kind = "link" => c.dev \in Interfaces
      BY ProfilesAssumption
    <2> HIDE DEF c
    <2>2. fault[i] = TargetTraffic(c)
      BY <1>1 DEF c
    <2>3. /\ fault[i].kind = c.kind /\ fault[i].dev = c.dev
          /\ fault[i].dst = TargetPort(c.dst) /\ fault[i].src = TargetPort(c.src)
      BY <2>1, <2>2 DEF TargetTraffic
    <2>4. \A p \in PortLists : TargetPort(p).ports \in Seq(Nat)
      <3> SUFFICES ASSUME NEW p \in PortLists PROVE TargetPort(p).ports \in Seq(Nat)
        OBVIOUS
      <3>1. p.ports \in Seq(Nat) /\ [p EXCEPT !.ports = <<>>].ports = <<>>
        BY DEF PortLists
      <3>2. <<>> \in Seq(Nat)
        OBVIOUS
      <3> QED
        BY <3>1, <3>2 DEF TargetPort
    <2> QED
      BY <2>1, <2>3, <2>4 DEF HasPorts, Link
  <1>3. network \in Networks /\ \A e \in Interfaces : network[e] \in Kinds
    BY NetworksAssumption DEF Init, Kinds
  <1>4. WellFormed
    BY <1>1, <1>2, <1>3 DEF WellFormed
  <1>5. On = {}
    BY DEF Init, On
  <1>6. kernel = [e \in Interfaces |-> FreshInterface(network[e])] /\ DOMAIN active = {}
        /\ active = [tag \in DOMAIN active |-> active[tag]]
    BY DEF Init
  <1>7. Holds(kernel, {}, value)
    <2> SUFFICES ASSUME NEW e \in Interfaces
                 PROVE  HeldBy(kernel[e], network[e], HoldersOn(e, {}), value)
      BY <1>6 DEF Holds
    <2>1. kernel[e] = FreshInterface(network[e]) /\ network[e] \in Kinds
      BY <1>3, <1>6
    <2> QED
      BY <2>1 DEF FreshInterface, HeldBy, DevFields, TakenAlong, NoQdisc, Qdisc
  <1>8. TableOwned(active, {})
    BY <1>6 DEF TableOwned
  <1>9. TableTrue(World)
    <2> SUFFICES ASSUME NEW i \in Injectors, InLimits(i)
                 PROVE  ~PresentIn(Device(World, i), i) /\ fault[i].tag \notin DOMAIN active
      BY DEF TableTrue, World
    <2> DEFINE e == fault[i].dev
    <2>1. e \in Interfaces /\ network[e] \in Kinds
      BY <1>4 DEF InLimits, WellFormed
    <2>2. HeldBy(kernel[e], network[e], {}, value)
      BY <1>7, <2>1 DEF Holds, HoldersOn
    <2>3. Device(World, i) = kernel[e]
      BY DEF Device, World
    <2> HIDE DEF e
    <2> QED
      BY <1>6, <2>1, <2>2, <2>3, NobodyHolds, NotHolding, ZenonT(60) DEF PresentIn
  <1>10. Sound(World, On, value)
    BY <1>5, <1>7, <1>8, <1>9 DEF Sound, World
  <1> QED
    BY <1>4, <1>10, InRhythmInitially DEF FaultsSound, Init

\* Every step keeps it.
LEMMA SoundKept == FaultsSound /\ [Next]_vars => FaultsSound'
  <1> SUFFICES ASSUME FaultsSound, [Next]_vars PROVE FaultsSound'
    OBVIOUS
  <1>1. InRhythm'
    BY InRhythmKept DEF FaultsSound
  <1>2. /\ WellFormed /\ Sound(World, On, value) /\ On \in SUBSET Injectors
        /\ pc \in [Injectors -> Sleeps \cup Ends] /\ value \in [Injectors -> Int]
    BY DEF FaultsSound, On, InRhythm
  <1>3. fault' = fault /\ network' = network
    BY DEF Next, Task, Raise, BeginInjection, SkipInjection, EndBurst, NextBurst,
           NextDegradation, EndInjection, Finish, CloseLoop
  <1>4. WellFormed'
    BY <1>2, <1>3 DEF WellFormed, Link
  <1>5. loop' \in {"running", "failing", "closed"}
    BY DEF FaultsSound, Next, Task, Raise, BeginInjection, SkipInjection, EndBurst, NextBurst,
           NextDegradation, EndInjection, Finish, CloseLoop
  <1>6. ASSUME UNCHANGED <<kernel, active, value>>, On \subseteq On'
        PROVE  Sound(World, On, value)'
    <2>1. Sound(World, On', value)
      BY <1>2, <1>6, SoundMore
    <2>2. World'.dev = World.dev /\ World'.table = World.table
      BY <1>6 DEF World
    <2> QED
      BY <1>3, <1>6, <2>1, <2>2, SoundNext
  <1>7. ASSUME NEW w, NEW on \in SUBSET Injectors, Sound(w, on, value'), Becomes(w), On' = on
        PROVE  Sound(World, On, value)'
    <2>1. World'.dev = w.dev /\ World'.table = w.table
      BY <1>7 DEF World, Becomes
    <2> QED
      BY <1>3, <1>7, <2>1, SoundNext
  <1>8. ASSUME NEW i \in Injectors, UNCHANGED value, Goes(i, "on"),
               \E ok \in BOOLEAN : Becomes(TurnOn(World, i, value[i], ok))
        PROVE  Sound(World, On, value)'
    <2>1. PICK ok \in BOOLEAN : Becomes(TurnOn(World, i, value[i], ok))
      BY <1>8
    <2>2. PICK r : r = TurnOn(World, i, value[i], ok)
      OBVIOUS
    <2>3. On' = On \cup {i}
      BY <1>2, <1>8 DEF On, Goes
    <2>4. Sound(World, On \cup {i}, value)
      BY <1>2, SoundMore
    <2>5. Sound(r, On \cup {i}, value)
      BY <1>2, <2>2, <2>4, SoundOn
    <2>6. Becomes(r) /\ value' = value /\ On \cup {i} \in SUBSET Injectors
      BY <1>2, <1>8, <2>1, <2>2
    <2> QED
      BY <1>7, <2>3, <2>5, <2>6
  <1>9. ASSUME NEW i \in Injectors, NEW end \in {"off", "post"}, UNCHANGED value, Goes(i, end),
               Becomes(TurnOff(World, i, value[i]))
        PROVE  Sound(World, On, value)'
    <2>1. On' = On \ {i}
      BY <1>2, <1>9 DEF On, Goes
    <2>2. Sound(TurnOff(World, i, value[i]), On \ {i}, value)
      BY <1>2, SoundOff
    <2> QED
      BY <1>2, <1>7, <1>9, <2>1, <2>2
  <1>10. ASSUME NEW i \in Injectors, Task(i) PROVE Sound(World, On, value)'
    <2>1. CASE Raise(i)
      <3>1. On \subseteq On'
        BY <1>2, <2>1 DEF Raise, Runs, Goes, On
      <3> QED
        BY <1>6, <2>1, <3>1 DEF Raise
    <2>2. CASE BeginInjection(i)
      BY <1>8, <2>2 DEF BeginInjection
    <2>3. CASE SkipInjection(i)
      <3>1. On \subseteq On'
        BY <1>2, <2>3 DEF SkipInjection, Runs, Goes, On
      <3> QED
        BY <1>6, <2>3, <3>1 DEF SkipInjection
    <2>4. CASE EndBurst(i)
      BY <1>9, <2>4 DEF EndBurst
    <2>5. CASE NextBurst(i)
      <3>1. CASE Goes(i, "post") /\ UNCHANGED <<kernel, active, round>>
        <4>1. On \subseteq On' /\ UNCHANGED value
          BY <1>2, <2>5, <3>1 DEF NextBurst, Runs, Goes, On
        <4> QED
          BY <1>6, <3>1, <4>1
      <3>2. CASE Goes(i, "on") /\ \E ok \in BOOLEAN : Becomes(TurnOn(World, i, value[i], ok))
        BY <1>8, <2>5, <3>2 DEF NextBurst
      <3> QED
        BY <2>5, <3>1, <3>2 DEF NextBurst
    <2>6. CASE NextDegradation(i)
      <3> DEFINE v == NextValue(fault[i], value[i])
                 w == TurnOff(World, i, value[i])
      <3>1. pc[i] = "on" /\ value' = [value EXCEPT ![i] = v]
        BY <2>6 DEF NextDegradation, Runs
      <3>2. Sound(w, On \ {i}, value)
        BY <1>2, SoundOff
      <3>3. \A j \in On \ {i} : value'[j] = value[j]
        BY <1>2, <3>1
      <3>4. value'[i] = v
        BY <1>2, <3>1
      <3> HIDE DEF w, v
      <3>5. CASE (\E ok \in BOOLEAN : Becomes(TurnOn(w, i, v, ok))) /\ UNCHANGED pc
        <4>1. PICK ok \in BOOLEAN : Becomes(TurnOn(w, i, v, ok))
          BY <3>5
        <4>2. PICK r : r = TurnOn(w, i, v, ok)
          OBVIOUS
        <4>3. On' = On /\ i \in On
          BY <3>1, <3>5 DEF On
        <4>4. Sound(w, On, value')
          BY <3>2, <3>3, SoundMore
        <4>5. Sound(r, On, value')
          BY <1>2, <3>4, <4>2, <4>3, <4>4, SoundOn
        <4> QED
          BY <1>2, <1>7, <4>1, <4>2, <4>3, <4>5
      <3>6. CASE Becomes(w) /\ Goes(i, "post")
        <4>1. On' = On \ {i}
          BY <1>2, <3>6 DEF On, Goes
        <4>2. Sound(w, On \ {i}, value')
          BY <3>2, <3>3, SoundMore
        <4> QED
          BY <1>2, <1>7, <3>6, <4>1, <4>2
      <3> QED
        BY <2>6, <3>5, <3>6 DEF NextDegradation, v, w
    <2>7. CASE EndInjection(i)
      BY <1>9, <2>7 DEF EndInjection
    <2>8. CASE Finish(i)
      <3>1. On \subseteq On'
        BY <1>2, <2>8 DEF Finish, Runs, Goes, On
      <3> QED
        BY <1>6, <2>8, <3>1 DEF Finish
    <2> QED
      BY <1>10, <2>1, <2>2, <2>3, <2>4, <2>5, <2>6, <2>7, <2>8 DEF Task
  <1>11. ASSUME CloseLoop PROVE Sound(World, On, value)'
    <2>1. On \subseteq On'
      BY <1>11 DEF CloseLoop, On, Ends
    <2> QED
      BY <1>6, <1>11, <2>1 DEF CloseLoop
  <1>12. ASSUME UNCHANGED vars PROVE Sound(World, On, value)'
    <2>1. On \subseteq On'
      BY <1>12 DEF On
    <2> QED
      BY <1>6, <1>12, <2>1
  <1>13. Sound(World, On, value)'
    BY <1>10, <1>11, <1>12 DEF Next
  <1> QED
    BY <1>1, <1>4, <1>5, <1>13 DEF FaultsSound

\* The type invariant.
LEMMA SoundTyped == FaultsSound => TypeOK
  <1> SUFFICES ASSUME FaultsSound PROVE TypeOK
    OBVIOUS
  <1>1. DOMAIN fault = Injectors /\ network \in Networks
    BY DEF FaultsSound, WellFormed
  <1>2. DOMAIN kernel = Interfaces
    BY DEF FaultsSound, Sound, Holds, World
  <1>3. TableOwned(active, On)
    BY DEF FaultsSound, Sound, World
  <1>4. DOMAIN active \subseteq {fault[i].tag : i \in Injectors}
        /\ \A tag \in DOMAIN active : active[tag].ok \in BOOLEAN
    BY <1>3 DEF TableOwned, On
  <1> QED
    BY <1>1, <1>2, <1>4 DEF TypeOK, FaultsSound, InRhythm

\* The effect is the one that the properties speak of.
LEMMA SoundTrue == FaultsSound => TableTellsTheTruth
  <1> SUFFICES ASSUME FaultsSound, NEW i \in Injectors, Link(i), Alone(i), OwnTag(i)
               PROVE  /\ Present(i) => fault[i].tag \in DOMAIN active
                      /\ /\ fault[i].tag \in DOMAIN active /\ active[fault[i].tag].ok
                         /\ KnownPattern(fault[i])
                         => TakesEffect(i)
    BY DEF TableTellsTheTruth
  <1>1. /\ PresentIn(Device(World, i), i) => fault[i].tag \in DOMAIN World.table
        /\ fault[i].tag \in DOMAIN World.table /\ World.table[fault[i].tag].ok =>
              Effect(fault[i], Device(World, i), i)
    BY DEF FaultsSound, Sound, TableTrue, InLimits
  <1>2. Device(World, i) = kernel[fault[i].dev] /\ World.table = active
    BY DEF Device, World
  <1>3. Present(i) => PresentIn(kernel[fault[i].dev], i)
    BY DEF Present, PresentIn
  <1>4. Effect(fault[i], kernel[fault[i].dev], i) /\ KnownPattern(fault[i]) => TakesEffect(i)
    BY InjectorsAssumption DEF Effect, TakesEffect, Downs
  <1> QED
    BY <1>1, <1>2, <1>3, <1>4

\* What is over is not held, and what nobody holds is as the network made it.
LEMMA SoundLeavesNothing == FaultsSound => NothingLeft
  <1> SUFFICES ASSUME FaultsSound PROVE NothingLeft
    OBVIOUS
  <1>1. Holds(kernel, On, value) /\ TableOwned(active, On) /\ WellFormed
    BY DEF FaultsSound, Sound, World
  <1>2. ASSUME NEW i \in Injectors, Link(i), pc[i] \in {"off", "post", "done"}
        PROVE  LET d == kernel[fault[i].dev]
               IN  i \notin {d.root.by, d.leaf.by, d.ingress, d.downBy}
    <2> DEFINE e == fault[i].dev
    <2>1. e \in Interfaces /\ network[e] \in Kinds /\ HeldBy(kernel[e], network[e], HoldersOn(e, On), value)
      BY <1>1, <1>2 DEF WellFormed, Holds
    <2>2. HoldersOn(e, On) \in SUBSET Injectors /\ i \in Injectors \ HoldersOn(e, On)
      BY <1>2 DEF HoldersOn, On
    <2> HIDE DEF e
    <2>3. LET d == kernel[e] IN i \notin {d.root.by, d.leaf.by, d.ingress, d.downBy}
      BY <2>1, <2>2, NotHolding
    <2> QED
      BY <2>3 DEF e
  <1>3. ASSUME \A i \in Injectors : pc[i] = "done"
        PROVE  /\ active = <<>>
               /\ \A e \in Interfaces :
                     network[e] \notin TakenAlong => kernel[e] = FreshInterface(network[e])
    <2>1. On = {}
      BY <1>3 DEF On
    <2>2. DOMAIN active = {} /\ active = [tag \in DOMAIN active |-> active[tag]]
      BY <1>1, <2>1 DEF TableOwned
    <2>3. active = <<>>
      BY <2>2
    <2>4. ASSUME NEW e \in Interfaces, network[e] \notin TakenAlong
          PROVE  kernel[e] = FreshInterface(network[e])
      <3>1. network[e] \in Kinds /\ HeldBy(kernel[e], network[e], {}, value)
        BY <1>1, <2>1 DEF WellFormed, Holds, HoldersOn
      <3> DEFINE d == kernel[e]
                 f == FreshInterface(network[e])
      <3>2. /\ IsDev(d) /\ d.root = f.root
            /\ d.leaf = NoQdisc /\ d.filters = {} /\ d.ingress = NoOne /\ d.mirrors = {}
            /\ d.downBy = NoOne
        BY <2>4, <3>1, NobodyHolds
      <3>3. /\ IsDev(f) /\ f.leaf = NoQdisc /\ f.filters = {} /\ f.ingress = NoOne
            /\ f.mirrors = {} /\ f.downBy = NoOne
        BY DEF FreshInterface, IsDev, DevFields
      <3> HIDE DEF d, f
      <3>4. \A x \in DevFields : d[x] = f[x]
        BY <3>2, <3>3 DEF DevFields
      <3>5. d = f
        BY <3>2, <3>3, <3>4 DEF IsDev
      <3> QED
        BY <3>5 DEF d, f
    <2> QED
      BY <2>3, <2>4
  <1> QED
    BY <1>2, <1>3 DEF NothingLeft

-----------------------------------------------------------------------------
\* The rhythm is an invariant.
LEMMA InRhythmAlways == Spec => []InRhythm
  BY InRhythmInitially, InRhythmKept, PTL DEF Spec

\* The sleeps of the rounds of a fault fit into its injection time, for every time and
\* period (_inject_burst_pattern, _inject_degradation_pattern and their siblings).
THEOREM FaultsKeepToTheirTime == Spec => []KeepsToItsTime
  BY InRhythmAlways, InRhythmKeepsTime, PTL

\* A degradation climbs to its end value and not above, whatever its first value and its
\* step (_inject_degradation_pattern: degradation_value and the cap after the increase).
THEOREM DegradationsClimb == Spec => DegradationClimbs
  <1>1. InRhythm /\ [Next]_vars => [\A i \in Injectors : Climbs(i)]_vars
    BY ValueClimbs
  <1> QED
    BY <1>1, InRhythmAlways, PTL DEF Spec, DegradationClimbs

\* What is sound is an invariant.
LEMMA SoundAlways == Spec => []FaultsSound
  BY SoundInitially, SoundKept, PTL DEF Spec

\* The faults, their rounds and values, the interfaces and the table are of their types
\* (FaultInjector.__init__, set_fault_active).
THEOREM FaultsTyped == Spec => []TypeOK
  BY SoundAlways, SoundTyped, PTL

\* The table of active faults tells the truth about every link fault that keeps to the
\* documented limits: what is in place is in the table, and an entry with exit status zero
\* is a fault that takes effect, unless it is on one protocol and of an unknown pattern, which
\* installs nothing its filters could lead to (inject_nics,
\* make_filtered_nics_injection_command, set_fault_active, set_fault_inactive).
THEOREM TableIsTrue == Spec => []TableTellsTheTruth
  BY SoundAlways, SoundTrue, PTL

\* A fault that is off has no discipline, redirection or link down, and when all are over
\* the interfaces are as the network made them, whichever faults shared an interface
\* (_inject_burst_pattern and its siblings; the command lists they run).
THEOREM FaultsLeaveNothing == Spec => []NothingLeft
  BY SoundAlways, SoundLeavesNothing, PTL
===============================================================================
