----------------------------- MODULE NodeShell ------------------------------
(* One node and its shell (Node and Docker in node.py, CLI.waitForNode and
   CLI.run in cli.py): the thread of the Mininet process, the pseudo-tty, and
   the bash behind it, which prints chr(127) whenever it is ready for another
   command.

   A token of the pseudo-tty is a line of output, the sentinel, or one of the
   two halves of the marker that carries the process id of a command put in the
   background.  A read takes what is there, in chunks of any size up to
   ReadSize.  Mininet keeps the slave side open, so that a dead shell gives no
   end-of-file: the pseudo-tty is just silent.                               *)
EXTENDS Integers, Sequences, FiniteSets, SequencesExt, FiniteSetsExt

CONSTANTS
    Dockers,        \* may the node be a container, may it be a host?
    Kinds,          \* the kinds of commands: plain, endless, background
    Lines,          \* how many lines a command prints
    ReadSize,       \* how many tokens a read returns at most
    MaxCommands,    \* bound: commands sent
    MaxInterrupts,  \* bound: interrupts sent
    MaxDeaths,      \* bound: deaths of the shell or the container
    MaxPending,     \* bound: tokens in the pseudo-tty, and in readbuf
    MaxReadlines    \* bound: lines taken with readline()

ASSUME NodeShellAssumption ==
    /\ Dockers \subseteq BOOLEAN
    /\ Kinds \subseteq {"plain", "endless", "background"}
    /\ {Lines, ReadSize, MaxCommands, MaxInterrupts, MaxDeaths, MaxPending, MaxReadlines} \subseteq Nat
    /\ ReadSize > 0

VARIABLES
    docker,     \* is the node a container?
    shell,      \* Node.shell is not None
    waiting,    \* Node.waiting
    readbuf,    \* Node.readbuf
    lastPid,    \* Node.lastPid, 0 for None
    user,       \* the thread: idle, in waitOutput(), in waitForNode(), failed
    data,       \* what monitor() has read of an incomplete marker
    sent,       \* the kinds of the commands sent so far
    channel,    \* the output in the pseudo-tty
    input,      \* the commands bash has not taken yet
    bash,       \* what bash is doing
    background, \* the background commands that have not printed yet
    container,  \* the container runs (always so for a host)
    interrupts, deaths,
    heard,      \* history: the lines that monitor() returned since the last
                \* command, those of endless commands excepted
    lines       \* history: the lines that readline() returned

vars == <<docker, shell, waiting, readbuf, lastPid, user, data, sent, channel, input, bash,
          background, container, interrupts, deaths, heard, lines>>

mininet == <<docker, shell, waiting, readbuf, lastPid, user, data, sent, heard, lines>>
outside == <<channel, input, bash, background, container, interrupts, deaths>>

Token(k, n) == [k |-> k, n |-> n, i |-> 0]
Line(n, i) == [Token("line", n) EXCEPT !.i = i]
Sentinel == Token("sentinel", 0)
Has(seq, k) == \E j \in DOMAIN seq : seq[j].k = k

(* The tokens of a sequence that are in a set, in their order. *)
Kept(seq, S) ==
    LET kept[j \in 0..Len(seq)] ==
            IF j = 0 THEN <<>>
            ELSE IF seq[j] \in S THEN Append(kept[j - 1], seq[j]) ELSE kept[j - 1]
    IN  kept[Len(seq)]

Idle == [st |-> "prompt", n |-> 0, left |-> <<>>]
Dead == [Idle EXCEPT !.st = "dead"]

Init ==
    /\ docker \in Dockers
    /\ shell = TRUE /\ waiting = FALSE /\ readbuf = <<>> /\ lastPid = 0
    /\ user = "idle" /\ data = <<>> /\ sent = <<>>
    /\ channel = <<>> /\ input = <<>> /\ bash = Idle /\ background = {}
    /\ container = TRUE /\ interrupts = 0 /\ deaths = 0
    /\ heard = <<>> /\ lines = <<>>

-----------------------------------------------------------------------------
(* Bash. *)

(* What a command writes, one write after the other. *)
Writes(n) ==
    CASE sent[n] = "plain" -> [i \in 1..Lines |-> <<Line(n, i)>>]
      [] sent[n] = "endless" -> <<<<Token("line", n)>>>>
      [] sent[n] = "background" -> <<<<Token("mark", n), Token("pid", n)>>>>

BashTakes ==
    /\ bash = Idle /\ input # <<>>
    /\ bash' = [st |-> "runs", n |-> Head(input), left |-> Writes(Head(input))]
    /\ input' = Tail(input)
    /\ background' = IF sent[Head(input)] = "background"
                     THEN background \cup {Head(input)} ELSE background
    /\ UNCHANGED <<mininet, channel, container, interrupts, deaths>>

BashPrints ==
    /\ bash.st = "runs" /\ Len(channel) < MaxPending
    /\ \/ /\ bash.left # <<>>
          /\ channel' = channel \o Head(bash.left)
          /\ bash' = IF sent[bash.n] = "endless" THEN bash
                     ELSE [bash EXCEPT !.left = Tail(@)]
       \/ /\ bash.left = <<>>
          /\ channel' = Append(channel, Sentinel)
          /\ bash' = Idle
    /\ UNCHANGED <<mininet, input, background, container, interrupts, deaths>>

BackgroundPrints(n) ==
    /\ n \in background /\ Len(channel) < MaxPending
    /\ channel' = Append(channel, Token("line", n))
    /\ background' = background \ {n}
    /\ UNCHANGED <<mininet, input, bash, container, interrupts, deaths>>

(* chr(3) in the pseudo-tty: what runs is killed and bash prompts again; at a
   prompt bash prompts once more.  The terminal may drop what is queued in
   either direction. *)
Interrupted ==
    /\ interrupts < MaxInterrupts
    /\ interrupts' = interrupts + 1
    /\ IF bash.st = "dead" THEN UNCHANGED <<channel, input, bash>>
       ELSE /\ channel' \in {Append(channel, Sentinel), <<Sentinel>>}
            /\ input' \in {input, <<>>}
            /\ bash' = Idle
    /\ UNCHANGED <<background, container, deaths>>

ShellDies ==
    /\ bash.st # "dead" /\ deaths < MaxDeaths
    /\ deaths' = deaths + 1
    /\ bash' = Dead
    /\ container' \in {container, container /\ ~docker}
    /\ UNCHANGED <<mininet, channel, input, background, interrupts>>

-----------------------------------------------------------------------------
(* Sending a command. *)

(* startShell(): a new pseudo-tty, read up to the first prompt. *)
FreshShellOldTerminal(n) ==                    \* mutant: reads on from the old terminal
    /\ shell' = TRUE /\ readbuf' = <<>> /\ data' = <<>> /\ UNCHANGED channel
    /\ input' = <<n>> /\ bash' = Idle /\ background' = {}
FreshShell(n) ==
    /\ shell' = TRUE /\ readbuf' = <<>> /\ data' = <<>>
    /\ channel' = <<>> /\ input' = <<n>> /\ bash' = Idle /\ background' = {}
OldShell(n) ==
    /\ input' = Append(input, n)
    /\ UNCHANGED <<shell, readbuf, data, channel, bash, background>>

(* sendCmd() proper, on the shell of before or on a new one; whoever calls it
   then goes on as "next". *)
Send(k, next, fresh) ==
    /\ Len(sent) < MaxCommands
    /\ sent' = Append(sent, k)
    /\ IF fresh THEN FreshShell(Len(sent) + 1) ELSE OldShell(Len(sent) + 1)
    /\ waiting' = TRUE /\ lastPid' = 0 /\ heard' = <<>>
    /\ user' = next
    /\ UNCHANGED <<docker, container, interrupts, deaths, lines>>

(* The assertion of sendCmd(), after two minutes in which nobody could have
   called monitor(). *)
Refuse ==
    /\ Len(sent) < MaxCommands
    /\ user' = "failed"
    /\ UNCHANGED <<docker, shell, waiting, readbuf, lastPid, data, sent, heard, lines, outside>>

(* _check_shell() of a container that is gone: nothing is sent, and cmd() goes
   on to waitOutput() all the same. *)
Disconnect(next) ==
    /\ Len(sent) < MaxCommands
    /\ shell' = FALSE
    /\ user' = IF waiting THEN next ELSE "idle"
    /\ UNCHANGED <<docker, waiting, readbuf, lastPid, data, sent, heard, lines, outside>>

ShellIsDead == ~shell \/ bash.st = "dead"

SendCmdUnasserted(k, next) ==                  \* mutant: no assertion
    user = "idle" /\ data = <<>> /\ ~ShellIsDead /\ Send(k, next, FALSE)

(* Docker looks after its shell on every command, a host only in cmd(). *)
SendCmd(k, next) ==
    /\ user = "idle" /\ data = <<>>
    /\ IF docker
       THEN \/ /\ ~container
               /\ Disconnect(next)
            \/ /\ container /\ ShellIsDead
               /\ Send(k, next, TRUE)
            \/ /\ container /\ ~ShellIsDead /\ waiting
               /\ Refuse
            \/ /\ container /\ ~ShellIsDead /\ ~waiting
               /\ Send(k, next, FALSE)
       ELSE \/ /\ ~shell \/ waiting
               /\ Refuse
            \/ /\ shell /\ ~waiting
               /\ Send(k, next, FALSE)

CallSendCmd(k) == SendCmd(k, "idle")
CliCommand(k) == SendCmd(k, "waitForNode")
CallCmd(k) ==
    IF docker THEN SendCmd(k, "waitOutput")
    ELSE \/ /\ shell /\ bash.st # "dead"
            /\ SendCmd(k, "waitOutput")
         \/ /\ user = "idle" /\ data = <<>> /\ shell /\ bash.st = "dead"
            /\ Send(k, "waitOutput", TRUE)

-----------------------------------------------------------------------------
(* Reading its output. *)

(* What monitor() makes of what it has read: an incomplete marker is read on,
   a sentinel anywhere ends the command. *)
Incomplete(d) == Has(d, "mark") /\ ~Has(d, "pid")
LinesOf(n) == {Line(n, i) : i \in 0..Lines}
Finite(d) == Kept(d, UNION {LinesOf(n) : n \in {m \in DOMAIN sent : sent[m] # "endless"}})
PidIn(d) == d[Min({j \in DOMAIN d : d[j].k = "pid"})].n
FindsSentinelAtEnd(d) == d # <<>> /\ Last(d) = Sentinel         \* mutant: only at the end
FindsSentinel(d) == Has(d, "sentinel")
ReportsWrongPid(d) ==             \* mutant: cuts the process id wrongly
    /\ data' = <<>>
    /\ lastPid' = IF Has(d, "pid") /\ Has(d, "mark") THEN PidIn(d) + 1 ELSE lastPid
    /\ waiting' = (waiting /\ ~FindsSentinel(d))
    /\ heard' = heard \o Finite(d)
    /\ user' = IF waiting' THEN user ELSE "idle"

Reports(d) ==
    IF Incomplete(d) THEN data' = d /\ UNCHANGED <<waiting, lastPid, heard, user>>
    ELSE /\ data' = <<>>
         /\ lastPid' = IF Has(d, "mark") THEN PidIn(d) ELSE lastPid
         /\ waiting' = (waiting /\ ~FindsSentinel(d))
         /\ heard' = heard \o Finite(d)
         /\ user' = IF waiting' THEN user ELSE "idle"

Takes(n) == channel' = SubSeq(channel, n + 1, Len(channel))
Chunks == 1..Min({ReadSize, Len(channel)})

Reading == user \in {"waitOutput", "waitForNode"}

(* monitor(): with something in readbuf, waitReadable() returns None and
   monitor() the empty string; the loop of waitOutput() then never ends. *)
Monitor ==
    /\ user = "idle" \/ Reading
    /\ shell \/ user = "waitOutput"
    /\ readbuf = <<>> /\ data = <<>>
    /\ \E n \in Chunks : Reports(SubSeq(channel, 1, n)) /\ Takes(n)
    /\ UNCHANGED <<docker, shell, readbuf, sent, lines, input, bash, background, container,
                   interrupts, deaths>>

ReadMarker ==
    /\ data # <<>>
    /\ \E n \in Chunks : Reports(data \o SubSeq(channel, 1, n)) /\ Takes(n)
    /\ UNCHANGED <<docker, shell, readbuf, sent, lines, input, bash, background, container,
                   interrupts, deaths>>

CallWaitOutput ==
    /\ user = "idle" /\ waiting /\ data = <<>>
    /\ user' = "waitOutput"
    /\ UNCHANGED <<docker, shell, waiting, readbuf, lastPid, data, sent, heard, lines, outside>>

(* read(): what is buffered and, if that is not enough, what the pseudo-tty
   has; at most ReadSize of it are returned, the rest stays in the buffer. *)
Buffered(n) == readbuf \o SubSeq(channel, 1, n)
ReadSizes ==
    IF Len(readbuf) < ReadSize THEN 1..Min({ReadSize - Len(readbuf), Len(channel)}) ELSE {0}
Returned(n) == SubSeq(Buffered(n), 1, Min({ReadSize, Len(Buffered(n))}))

(* readline(), as Mininet.monitor() calls it when the node is readable.  The
   buffer is fetched before read() empties it, and read() returns it too. *)
Readline ==
    /\ user = "idle" /\ data = <<>> /\ shell
    /\ channel # <<>> /\ Len(lines) < MaxReadlines /\ Len(readbuf) <= MaxPending
    /\ \E n \in ReadSizes :
          LET buffer == readbuf \o Returned(n)
              ends == {j \in 1..Len(buffer) : buffer[j].k \in {"line", "pid"}}
          IN  /\ Takes(n)
              /\ \/ ends = {} /\ readbuf' = buffer /\ UNCHANGED lines
                 \/ \E end \in ends :
                       /\ \A j \in ends : end <= j
                       /\ readbuf' = SubSeq(buffer, end + 1, Len(buffer))
                       /\ lines' = Append(lines, buffer[end])
    /\ UNCHANGED <<docker, shell, waiting, lastPid, user, data, sent, heard, input, bash,
                   background, container, interrupts, deaths>>

-----------------------------------------------------------------------------
(* Interrupts and the end. *)

CallSendInt ==
    /\ shell /\ user \in {"idle", "waitForNode"} /\ data = <<>>
    /\ Interrupted
    /\ UNCHANGED mininet

(* A KeyboardInterrupt between the read and the use of what was read. *)
InterruptedRead ==
    /\ user = "waitForNode" /\ data = <<>> /\ readbuf = <<>>
    /\ interrupts < MaxInterrupts
    /\ \E n \in Chunks :
          LET rest == SubSeq(channel, n + 1, Len(channel))
          IN  IF bash.st = "dead" THEN channel' = rest /\ UNCHANGED <<input, bash>>
              ELSE /\ channel' \in {Append(rest, Sentinel), <<Sentinel>>}
                   /\ input' \in {input, <<>>}
                   /\ bash' = Idle
    /\ interrupts' = interrupts + 1
    /\ UNCHANGED <<mininet, background, container, deaths>>

(* CLI.run() begins with stopping whatever a node still waits for. *)
CliStops ==
    /\ user = "idle" /\ waiting /\ shell /\ data = <<>>
    /\ Interrupted
    /\ user' = "waitOutput"
    /\ UNCHANGED <<docker, shell, waiting, readbuf, lastPid, data, sent, heard, lines>>

(* A container that is gone is not cleaned up behind. *)
Terminate ==
    /\ user = "idle" /\ shell /\ data = <<>>
    /\ ~docker \/ container
    /\ shell' = FALSE /\ container' = (container /\ ~docker)
    /\ bash' = Dead /\ channel' = <<>> /\ input' = <<>> /\ background' = {}
    /\ UNCHANGED <<docker, waiting, readbuf, lastPid, user, data, sent, heard, lines,
                   interrupts, deaths>>

Program ==
    \/ \E k \in Kinds : CallSendCmd(k) \/ CliCommand(k) \/ CallCmd(k)
    \/ Monitor \/ ReadMarker \/ CallWaitOutput \/ Readline
    \/ CallSendInt \/ InterruptedRead \/ CliStops \/ Terminate

Outside ==
    \/ BashTakes \/ BashPrints \/ ShellDies
    \/ \E n \in background : BackgroundPrints(n)

Next == Program \/ Outside

(* Bash goes on, and a thread that reads takes what there is; no fairness for
   what a user or a program may call. *)
Spec ==
    /\ Init /\ [][Next]_vars
    /\ WF_vars(BashTakes) /\ WF_vars(BashPrints)
    /\ WF_vars(Reading /\ Monitor) /\ WF_vars(Reading /\ ReadMarker)

-----------------------------------------------------------------------------
(* Properties. *)

Number(b) == IF b THEN 1 ELSE 0
Pending == Len(input) + Number(bash.st = "runs")
Alive == shell /\ bash.st # "dead"
Sentinels(seq) == Cardinality({j \in DOMAIN seq : seq[j].k = "sentinel"})
ToCome == Sentinels(channel) + Sentinels(data) + Pending
Unread == readbuf = <<>> /\ lines = <<>>     \* readline() was not used

(* The variables have the shape that the code gives them. *)
TypeOK ==
    /\ {shell, waiting, container} \subseteq BOOLEAN
    /\ user \in {"idle", "waitOutput", "waitForNode", "failed"}
    /\ lastPid \in 0..Len(sent)
    /\ \A n \in background : n \in 1..Len(sent)
    /\ \A t \in ToSet(readbuf) \cup ToSet(data) \cup ToSet(channel) :
          t.k \in {"line", "sentinel", "mark", "pid"}
    /\ interrupts \in 0..MaxInterrupts /\ deaths \in 0..MaxDeaths

(* Without interrupts, node and shell are in step: there is a sentinel to come
   exactly while the node waits for one, whatever the chunks it reads in and
   however many shells it has gone through (sendCmd, monitor, startShell).  An
   interrupt that meets a prompt leaves a sentinel too many behind, so that the next
   command is taken for complete before it is; the error does not grow beyond the
   number of interrupts. *)
InStep ==
    Alive => /\ ToCome <= Number(waiting) + interrupts
             /\ interrupts = 0 /\ Unread => ToCome = Number(waiting)

(* What monitor() returned for a command is all that the command printed, in order, and
   nothing of another one's that is not in the background; a command put in the
   background leaves its process id, in whatever pieces the marker arrived. *)
OutputBelongs ==
    interrupts = 0 /\ Unread =>
        /\ \A t \in ToSet(heard) : t.n = Len(sent) \/ sent[t.n] = "background"
        /\ sent # <<>> /\ ~waiting =>
              /\ Last(sent) = "plain" =>
                    Kept(heard, LinesOf(Len(sent))) = [i \in 1..Lines |-> Line(Len(sent), i)]
              /\ lastPid = IF Last(sent) = "background" THEN Len(sent) ELSE 0

(* waitOutput() returns, if the shell lives, the command is not endless and
   readline() has not taken the sentinel for a part of a line. *)
CmdReturns ==
    user = "waitOutput" ~>
        \/ user # "waitOutput"
        \/ ~Alive
        \/ ~Unread
        \/ bash.st = "runs" /\ sent[bash.n] = "endless"
=============================================================================
