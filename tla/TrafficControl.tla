--------------------------- MODULE TrafficControl ---------------------------
(* The queueing disciplines of an interface (class TCIntf, link.py): the tc
   commands that config() builds from its parameters, what the kernel makes of
   them, the switch that clears what it finds and has it built again, and the
   fault injectors that use the root of the same interface (fault_injectors.py).

   A tree of disciplines is the sequence of its layers, the root first.      *)
EXTENDS Integers, Sequences, SequencesExt

CONSTANTS
    NoValue,    \* a parameter that is not given
    Params,     \* the parameters that interfaces are configured with
    NamedLikeSwitch  \* the name of the node begins with an s

(* Numbers that are given or not; one of three limits, early detection or none. *)
ParamRecords ==
    [bw : Int \cup {NoValue}, how : {"htb", "hfsc", "tbf"}, red : {"no", "red", "ecn"},
     delay : Int \cup {NoValue}, jitter : Int \cup {NoValue}, loss : Int \cup {NoValue},
     limit : Int \cup {NoValue}, speedup : Int]
ASSUME TcAssumption ==
    NoValue \notin Int /\ Params \subseteq ParamRecords /\ NamedLikeSwitch \in BOOLEAN

VARIABLES
    tree,     \* the disciplines of the interface
    params,   \* Intf.params: the parameters it was made with
    injecting,  \* the kind of discipline of the fault that is on, or "no"
    asked,    \* history: the parameters of the last configuration made
    blocked,  \* history: it was made while the fault of a prio was in place
    taken     \* history: a fault that ended has since removed what it made

tcVars == <<tree, params, injecting, asked, blocked, taken>>

bwParamMax == 1000
Nothing == [bw |-> NoValue, how |-> "htb", red |-> "no", delay |-> NoValue, jitter |-> NoValue,
            loss |-> NoValue, limit |-> NoValue, speedup |-> 0]

Given(v) == v # NoValue
(* None and zero are both false in a condition. *)
Truthy(v) == v \notin {NoValue, 0}

-----------------------------------------------------------------------------
(* The commands *)

Add(parent, layer) == [op |-> "add", parent |-> parent, layer |-> layer]
Class(rate) == [op |-> "class", rate |-> rate]
Del == [op |-> "del"]

Rate(p) == IF p.speedup > 0 /\ NamedLikeSwitch THEN p.speedup ELSE p.bw
BadRate(p) == Given(p.bw) /\ p.bw # 0 /\ (p.bw < 0 \/ p.bw > bwParamMax)
Limited(p) == Given(p.bw) /\ ~BadRate(p)

(* bwCmds(): the commands, and the parent of what comes next.  A token bucket
   of rate 0 divides by it. *)
BwRaises(p) == Limited(p) /\ p.how = "tbf" /\ Rate(p) = 0
BwParent(p) == IF ~Limited(p) THEN "root" ELSE IF p.red = "no" THEN "5:1" ELSE "6:"
BwCmds(p) ==
    IF ~Limited(p) THEN <<>>
    ELSE <<Add("root", [kind |-> p.how, rate |-> IF p.how = "tbf" THEN Rate(p) ELSE NoValue])>>
         \o (IF p.how = "tbf" THEN <<>> ELSE <<Class(Rate(p))>>)
         \o (IF p.red = "no" THEN <<>>
             ELSE <<Add("5:1", [kind |-> p.red, rate |-> Rate(p)])>>)

DelayCmdsAtRoot(parent, p) ==    \* mutant: it is not put below the limit
    IF Truthy(p.delay) THEN <<Add("root", [kind |-> "netem", delay |-> p.delay, jitter |-> p.jitter,
                                         loss |-> NoValue, limit |-> p.limit])>> ELSE <<>>
(* delayCmds(): a bad loss leaves everything out. *)
DelayCmds(parent, p) ==
    LET loss == IF Truthy(p.loss) THEN p.loss ELSE NoValue
    IN  IF Truthy(p.loss) /\ (p.loss < 0 \/ p.loss > 100) THEN <<>>
        ELSE IF {p.delay, p.jitter, loss, p.limit} = {NoValue} THEN <<>>
        ELSE <<Add(parent, [kind |-> "netem", delay |-> p.delay, jitter |-> p.jitter,
                            loss |-> loss, limit |-> p.limit])>>

-----------------------------------------------------------------------------
(* The kernel: a command that it refuses changes nothing. *)

(* What a link fault adds at the root: a netem or a tbf if it is on all traffic, a
   prio if on one protocol.  It has none of the handles that config() uses. *)
FaultKinds == {"netem", "tbf", "prio"}
FaultTree(k) == <<[kind |-> k, by |-> "injector"]>>
Injected(t) == \E k \in FaultKinds : t = FaultTree(k)

HasClass(layer) == layer.kind = "tbf" \/ Given(layer.rate)
Accepted(t, c) ==
    CASE c.parent = "root" -> t = <<>>
      [] c.parent = "5:1" -> /\ Len(t) = 1 /\ ~Injected(t)
                             /\ t[1].kind \in {"htb", "hfsc", "tbf"} /\ HasClass(t[1])
      [] c.parent = "6:" -> t # <<>> /\ Last(t).kind \in {"red", "ecn"}
(* netem knows no jitter without a delay. *)
WellFormed(layer) == layer.kind = "netem" /\ Given(layer.jitter) => Given(layer.delay)
Tc(t, c) ==
    CASE c.op = "del" -> <<>>
      [] c.op = "class" ->
            IF t # <<>> /\ t[1].kind \in {"htb", "hfsc"} /\ c.rate > 0
            THEN [t EXCEPT ![1].rate = c.rate] ELSE t
      [] c.op = "add" ->
            IF Accepted(t, c) /\ WellFormed(c.layer) THEN Append(t, c.layer) ELSE t

(* The commands one after the other. *)
TcAll(t, cmds) ==
    LET run[n \in 0..Len(cmds)] == IF n = 0 THEN t ELSE Tc(run[n - 1], cmds[n])
    IN  run[Len(cmds)]

(* A root that tc shows with a priomap or as noqueue: the kernel's own, and the
   prio of a fault. *)
ShowsPriomap(t) == t \in {<<>>, FaultTree("prio")}

-----------------------------------------------------------------------------
(* config() *)

NothingToDo(p) ==
    ~Given(p.bw) /\ ~Truthy(p.delay) /\ ~Truthy(p.loss) /\ ~Given(p.limit)

Clear(t) == IF ShowsPriomap(t) THEN <<>> ELSE <<Del>>

Configured(t, p) ==
    IF NothingToDo(p) \/ BwRaises(p) THEN t
    ELSE TcAll(t, Clear(t) \o BwCmds(p) \o DelayCmds(BwParent(p), p))

Reconfigured(t, p) ==
    /\ tree' = Configured(t, p)
    /\ IF NothingToDo(p) \/ BwRaises(p)
       THEN IF t = tree THEN UNCHANGED <<asked, blocked, taken>>
            ELSE asked' = Nothing /\ blocked' = FALSE /\ taken' = FALSE
       ELSE asked' = p /\ blocked' = (t = FaultTree("prio")) /\ taken' = FALSE

TcInit ==
    /\ params \in {p \in Params : ~BwRaises(p)}
    /\ tree = Configured(<<>>, params)
    /\ injecting = "no"
    /\ asked = IF NothingToDo(params) THEN Nothing ELSE params
    /\ blocked = FALSE /\ taken = FALSE

Config(p) == Reconfigured(tree, p) /\ UNCHANGED <<params, injecting>>

(* OVSSwitch.attach(), start(): the switch may clear what the interface has;
   TCReapply() configures it as it was made. *)
Attach ==
    /\ \E t \in {tree, <<>>} : Reconfigured(t, params)
    /\ UNCHANGED <<params, injecting>>

(* A fault of kind k begins: its command is run whatever is at the root, and the
   fault is on though the command was refused.  One fault at a time. *)
Inject(k) ==
    /\ injecting = "no" /\ injecting' = k
    /\ tree' = IF tree = <<>> THEN FaultTree(k) ELSE tree
    /\ UNCHANGED <<params, asked, blocked, taken>>

RootIsAny(t, k) == t # <<>>             \* mutant: the deletion names no kind
RootIs(t, k) == t # <<>> /\ t[1].kind = k

(* It ends, and deletes a root of its kind, whoever made it; a prio is named with
   its handle, and config() makes none. *)
Eject ==
    /\ injecting # "no" /\ injecting' = "no"
    /\ tree' = IF RootIs(tree, injecting) THEN <<>> ELSE tree
    /\ taken' = (taken \/ (RootIs(tree, injecting) /\ ~Injected(tree)))
    /\ UNCHANGED <<params, asked, blocked>>

TcNext ==
    \/ \E p \in Params : Config(p)
    \/ Attach
    \/ \E k \in FaultKinds : Inject(k)
    \/ Eject

-----------------------------------------------------------------------------
(* Properties *)

Valid(p) ==
    /\ Given(p.bw) => p.bw \in 1..bwParamMax
    /\ Given(p.loss) => p.loss \in 0..100
    /\ Given(p.jitter) => Given(p.delay)

(* What the documents of config() say the parameters mean. *)
Meant(p) ==
    LET limit == <<[kind |-> p.how, rate |-> Rate(p)]>>
        early == <<[kind |-> p.red, rate |-> Rate(p)]>>
        netem == <<[kind |-> "netem", delay |-> p.delay, jitter |-> p.jitter,
                    loss |-> IF Truthy(p.loss) THEN p.loss ELSE NoValue, limit |-> p.limit]>>
    IN  (IF Given(p.bw) THEN limit ELSE <<>>)
        \o (IF Given(p.bw) /\ p.red # "no" THEN early ELSE <<>>)
        \o (IF Given(p.delay) \/ Truthy(p.loss) \/ Given(p.limit) THEN netem ELSE <<>>)

(* What the end of a fault can take along: a netem or a tbf at the root. *)
Exposed(p) == Meant(p) # <<>> /\ Meant(p)[1].kind \in {"netem", "tbf"}

(* After any sequence of configurations, attachments to a switch and faults, also
   of faults whose command was refused, packets pass exactly the disciplines of the
   last configuration, the limit before early detection before delay and loss, and
   no layer of an earlier one is left.  A fault is in place only where nothing was
   asked for.  Two cases are excepted, until the next configuration: one that is made
   while the prio of a fault is in place is refused, and the end of a netem or tbf
   fault removes a configured netem or tbf root, but never an htb or hfsc limit or
   what is below it (bwCmds(), delayCmds(), config();
   make_nics_injection_command, make_filtered_nics_injection_command). *)
QueuesAsAsked ==
    Valid(asked) /\ ~blocked =>
        \/ tree = Meant(asked)
        \/ Meant(asked) = <<>> /\ Injected(tree)
        \/ Exposed(asked) /\ taken /\ (tree = <<>> \/ Injected(tree))
=============================================================================
