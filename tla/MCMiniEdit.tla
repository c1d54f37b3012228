----------------------------- MODULE MCMiniEdit -----------------------------
(* Instances of MiniEdit for TLC: two topologies given on the command line, one
   with a controller and one with hosts; a file of the first version, and one of
   today, with a container whose second interface has an address; and names the
   tools give too. *)
EXTENDS MiniEdit

MCKinds == {"Host", "Docker", "Switch", "Controller"}
MCNames == {NoName, <<"h", 2>>}
MCImports ==
    {[controllers |-> <<<<"c", 0>>>>, switches |-> <<<<"s", 1>>>>, hosts |-> <<>>, links |-> <<>>],
     [controllers |-> <<>>, switches |-> <<>>, hosts |-> <<<<"h", 1>>, <<"h", 2>>>>,
      links |-> <<<<<<"h", 1>>, <<"h", 2>>>>>>]}
OldFile ==
    [version |-> 1, prefs |-> "ovs",
     hosts |-> <<HostOpts("Host", 1, NoName, {})>>,
     switches |-> <<SwitchOpts("default", 1, NoName, NoList, {})>>,
     controllers |-> <<[hostname |-> <<"c", 0>>, type |-> "ref"]>>,
     links |-> <<[src |-> <<"h", 1>>, dest |-> <<"s", 1>>, opts |-> {}]>>]
Routed ==
    [version |-> 2, prefs |-> "user",
     hosts |-> <<HostOpts("Docker", 0, <<"d", 1>>, {"eth1"})>>,
     switches |-> <<SwitchOpts("legacySwitch", 1, <<"s", 1>>, <<>>, {}),
                    SwitchOpts("legacyRouter", 2, <<"r", 2>>, NoList, {})>>,
     controllers |-> <<>>,
     links |-> <<[src |-> <<"d", 1>>, dest |-> <<"s", 1>>, opts |-> {"bw"}],
                 [src |-> <<"d", 1>>, dest |-> <<"r", 2>>, opts |-> {"bw"}]>>]
MCOldFiles == {OldFile, Routed}
=============================================================================
