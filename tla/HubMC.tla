--------------------------------- MODULE HubMC ---------------------------------
(* Hosts and where they are, for TLC.  The two parts share no state, so that each
   scenario has one of them at work; the other is off.                           *)
EXTENDS Directory, Hosts

MCCapacity == [n \in Nodes |-> 0]
OneNode == {CHOOSE n \in Nodes : TRUE}

DirOff == [ops |-> {}, nodes |-> {}, faults |-> 0, follow |-> FALSE, dials |-> FALSE]
MCDirScenarios ==
  { DirOff,
    [ops |-> {"event", "lost", "stop", "restart"}, nodes |-> Nodes, faults |-> 2, follow |-> TRUE, dials |-> TRUE],
    [ops |-> {"disable", "unheard", "restart"}, nodes |-> Nodes, faults |-> 2, follow |-> TRUE, dials |-> TRUE],
    [ops |-> {"leave", "join", "stop", "start"}, nodes |-> OneNode, faults |-> 2, follow |-> TRUE, dials |-> TRUE],
    [ops |-> {"create", "enable", "register", "event", "start"}, nodes |-> {}, faults |-> 2, follow |-> FALSE, dials |-> TRUE]}

HostsOff == [ops |-> {}, boxes |-> {}, inactive |-> {}]
MCHostScenarios ==
  { HostsOff,
    [ops |-> {"bind", "approve", "consume", "crash"}, boxes |-> {}, inactive |-> {}],
    [ops |-> {"invite", "uninvite", "register", "revoke", "remove"}, boxes |-> {}, inactive |-> {}],
    [ops |-> {"key", "revoke", "crash"}, boxes |-> Boxes, inactive |-> {}],
    [ops |-> {"key", "remove", "purge"}, boxes |-> Boxes, inactive |-> Owners],
    [ops |-> {"share", "unshare", "remove", "purge", "rename", "meta", "revoke"}, boxes |-> {CHOOSE b \in Boxes : TRUE}, inactive |-> {}]}

HubInit == DirectoryInit /\ HostsInit /\ (dirUse = DirOff) # (hostUse = HostsOff)
HubNext ==
  \/ DirectoryNext /\ UNCHANGED hostVars
  \/ HostsNext /\ UNCHANGED dirVars
HubSpec == HubInit /\ [][HubNext]_<<dirVars, hostVars>> /\ DirectoryFairness
================================================================================
