----------------------------- MODULE MCDockerHost -----------------------------
(* Instances of DockerHost for TLC: two names, one the beginning of the other,
   and limits of which some cannot be had together. *)
EXTENDS DockerHost

d1 == <<"d1">>
d10 == <<"d1", "0">>
MCNames == {d1, d10}
With(f, v) == [NotGiven EXCEPT ![f] = v]
MCLimits ==
    {NotGiven, With("mem_limit", 64), [With("memswap_limit", 100) EXCEPT !.cpuset_cpus = {0}]}
MCCpuCalls ==
    {[quota |-> 20000, period |-> 50001, shares |-> -1, cores |-> {1}],
     [quota |-> 10, period |-> -1, shares |-> 512, cores |-> {}]}
MCMemoryCalls == {[mem |-> 200, memswap |-> -1], [mem |-> 32, memswap |-> 64]}
=============================================================================
