-------------------------- MODULE IterationSchedule --------------------------
(***************************************************************************)
(* What a fault controller promises to whoever runs it (the prose of       *)
(* FaulControllersREADME.md): rounds of increasing size, each on as many   *)
(* different links as its number says, one after the other, beginning anew *)
(* after the last one only in repeating mode, none once the controller has *)
(* been told to stop; and when it reports that it is done no link is being *)
(* worked on and no further round will begin.                              *)
(***************************************************************************)
EXTENDS Naturals, FiniteSets

CONSTANT Links

\* "whole" is a plan of a single round on all links of the plan at once.
Plans ==
    [links : SUBSET Links, first : Nat \ {0}, last : Nat,
     repeating : BOOLEAN, whole : BOOLEAN]

VARIABLES
    plan,      \* the rounds asked for
    stage,     \* idle, injecting, over, or aborted by an exception
    size,      \* number of the latest round
    targets,   \* links the current round works on
    stopped    \* the controller has been told to stop

vars == <<plan, stage, size, targets, stopped>>

Promised(n) == IF plan.whole THEN Cardinality(plan.links) ELSE n

Init ==
    /\ plan \in Plans
    /\ stage = "idle" /\ size = plan.first - 1
    /\ targets = {} /\ stopped = FALSE

BeginRound ==
    /\ stage = "idle" /\ ~stopped
    /\ size < plan.last
    /\ size' = size + 1
    /\ targets' \in SUBSET plan.links
    /\ Cardinality(targets') = Promised(size')
    /\ stage' = "injecting"
    /\ UNCHANGED <<plan, stopped>>

EndRound ==
    /\ stage = "injecting"
    /\ stage' = "idle" /\ targets' = {}
    /\ UNCHANGED <<plan, size, stopped>>

BeginAnew ==
    /\ stage = "idle" /\ ~stopped
    /\ plan.repeating /\ size = plan.last
    /\ size' = plan.first - 1
    /\ UNCHANGED <<plan, stage, targets, stopped>>

\* Before the last round is through, only a request to stop ends the plan.
Finish ==
    /\ stage = "idle"
    /\ stopped \/ (size >= plan.last /\ ~plan.repeating)
    /\ stage' = "over"
    /\ UNCHANGED <<plan, size, targets, stopped>>

Stop ==
    /\ ~stopped
    /\ stopped' = TRUE
    /\ UNCHANGED <<plan, stage, size, targets>>

Abort ==
    /\ stage \in {"idle", "injecting"}
    /\ stage' = "aborted" /\ targets' = {}
    /\ size' \in Nat
    /\ UNCHANGED <<plan, stopped>>

Next == BeginRound \/ EndRound \/ BeginAnew \/ Finish \/ Stop \/ Abort

Spec == Init /\ [][Next]_vars
=============================================================================
