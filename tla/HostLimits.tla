------------------------------ MODULE HostLimits ------------------------------
(* A host with limited processors and its interface to a limited link: a program
   configures both, in any order (addHost(), addLink(), config()).           *)
EXTENDS TrafficControl, CpuLimitedHost

CONSTANT MaxCalls    \* bound: calls that configure, steps of a fault injector

VARIABLE calls

limitsVars == <<tcVars, cpuVars, calls>>

LimitsInit == TcInit /\ CpuInit /\ calls = 0
LimitsNext ==
    /\ calls < MaxCalls /\ calls' = calls + 1
    /\ \/ TcNext /\ UNCHANGED cpuVars
       \/ CpuNext /\ UNCHANGED tcVars
LimitsSpec == LimitsInit /\ [][LimitsNext]_limitsVars
=============================================================================
