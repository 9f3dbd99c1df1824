------------------------------ MODULE ServicesMC ------------------------------
(* The plugin and its panel, the doors of the gateway, the script of end-to-end
   encryption, the portal's session, tables and payments, the upgrade of the
   database and the routers, for TLC.  They share no state: part says which of
   them is at work, the others stay in one of their initial states.  They use the
   same names for their actors, so that one symmetry set serves them all.       *)
EXTENDS Plugin, Doors, Shim, PortalTabs, Migration, Routers, PortalTables, PayPages, PanelScan, TLC

VARIABLE part

\* Which call of the plugin connects at its start does not matter.
First == CHOOSE s \in Slots : TRUE
Symm == Permutations(Visits) \cup Permutations(Admins) \cup Permutations(Secrets)

ServicesInit ==
  /\ part \in {"plugin", "doors", "shim", "portal", "migration", "routers", "tables", "pay", "scan"}
  /\ PluginInit /\ DoorsInit /\ ShimInit /\ PortalInit /\ MigrationInit /\ RoutersInit
  /\ TablesInit /\ PayInit /\ ScanInit
  /\ call[First].op = "auto"
  /\ part # "plugin" => file = [mode |-> "lan", code |-> Off] /\ ~token
  /\ part # "doors" => limiter.kind = "login"
  /\ part # "migration" => stored = {} /\ schema.users = "none"
  /\ part # "routers" => service = "llm"
  /\ part # "tables" => shape = AdminUsers
  /\ part # "pay" => flow = "credits"

ServicesNext ==
  \/ part = "plugin" /\ PluginNext
     /\ UNCHANGED <<doors, shimVars, portalVars, migrationVars, routersVars, tableVars, payVars, scanVars, part>>
  \/ part = "doors" /\ DoorsNext
     /\ UNCHANGED <<vars, shimVars, portalVars, migrationVars, routersVars, tableVars, payVars, scanVars, part>>
  \/ part = "shim" /\ ShimNext
     /\ UNCHANGED <<vars, doors, portalVars, migrationVars, routersVars, tableVars, payVars, scanVars, part>>
  \/ part = "portal" /\ PortalNext
     /\ UNCHANGED <<vars, doors, shimVars, migrationVars, routersVars, tableVars, payVars, scanVars, part>>
  \/ part = "migration" /\ MigrationNext
     /\ UNCHANGED <<vars, doors, shimVars, portalVars, routersVars, tableVars, payVars, scanVars, part>>
  \/ part = "routers" /\ RoutersNext
     /\ UNCHANGED <<vars, doors, shimVars, portalVars, migrationVars, tableVars, payVars, scanVars, part>>
  \/ part = "tables" /\ TablesNext
     /\ UNCHANGED <<vars, doors, shimVars, portalVars, migrationVars, routersVars, payVars, scanVars, part>>
  \/ part = "pay" /\ PayNext
     /\ UNCHANGED <<vars, doors, shimVars, portalVars, migrationVars, routersVars, tableVars, scanVars, part>>
  \/ part = "scan" /\ ScanNext
     /\ UNCHANGED <<vars, doors, shimVars, portalVars, migrationVars, routersVars, tableVars, payVars, part>>

ServicesSpec ==
  ServicesInit /\ [][ServicesNext]_<<vars, doors, shimVars, portalVars, migrationVars, routersVars, tableVars, payVars, scanVars, part>>
===============================================================================
