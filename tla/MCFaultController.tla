-------------------------- MODULE MCFaultController --------------------------
(* Instances of FaultController for TLC. *)
EXTENDS FaultController

CONSTANTS l1, l2

MCLinks == {l1, l2}

Iterating(controller, mode, logging, ranges, links) ==
    {[controller |-> controller, mode |-> mode, logging |-> logging, links |-> s,
      start |-> r[1], end |-> r[2], omits |-> "none"] : r \in ranges, s \in links}

Fixed(controller, links, omissions) ==
    {[controller |-> controller, mode |-> "automatic", logging |-> g, links |-> s,
      start |-> 1, end |-> 9, omits |-> o] : g \in BOOLEAN, s \in links, o \in omissions}

(* Controllers that wait for start_next_run(): two growing rounds, a range that
   starts above one, a repeated range, no links at all.  In repeating mode the
   range is not empty (NoLinksRepeating is that case), and MostUsedLink does not
   repeat (MostUsedRepeating). *)
DrivenConfigs ==
    Iterating("RandomLink", "manual", TRUE, {<<1, 9>>}, {{}, MCLinks})
    \cup Iterating("MostUsedLink", "manual", FALSE, {<<1, 9>>}, {MCLinks})
    \cup Iterating("RandomLink", "repeating", TRUE, {<<1, 1>>}, {MCLinks})
    \cup Iterating("RandomLink", "repeating", FALSE, {<<2, 9>>}, {MCLinks})

(* Controllers that need no request, with every omission of a time. *)
UnattendedConfigs ==
    Iterating("RandomLink", "automatic", FALSE, {<<1, 9>>}, {{}, MCLinks})
    \cup Iterating("MostUsedLink", "automatic", TRUE, {<<1, 9>>}, {{}, MCLinks})
    \cup Fixed("ConfigFile", {{}, {l1}}, Times)
    \cup Fixed("LogOnly", {{}}, {"none"})

(* The cases in which the code does not do what its documents say. *)
NoLinksRepeating == Iterating("RandomLink", "repeating", TRUE, {<<1, 9>>}, {{}, {l1}})
MostUsedRepeating == Iterating("MostUsedLink", "repeating", FALSE, {<<1, 9>>}, {MCLinks})
MostUsedLogging == Iterating("MostUsedLink", "automatic", TRUE, {<<1, 9>>}, {MCLinks})
TimesOmitted == Fixed("ConfigFile", {{l1}}, Times)
=============================================================================
