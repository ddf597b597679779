------------------------------- MODULE MCStores -------------------------------
(***************************************************************************)
(* The components that keep or decide something, where what matters is     *)
(* what they may never do: the task store under reused ids, quotas, rate   *)
(* limits, graph and graph stores, migration, signing keys, custom agents  *)
(* and configuration.  They share no state here, so a behaviour moves one  *)
(* of them, chosen at the start: the states add up instead of multiplying. *)
(***************************************************************************)
EXTENDS TaskCollaboration, Quota, RateLimit, MemoryGraph, GraphStorage,
        DataMigration, KeyRotation, CustomAgents, ConfigLayers

VARIABLE component  \* the one that moves

storesVars == <<component, quotaVars, rateVars, graphVars, storeVars, migrationVars,
                keyVars, customVars, configVars, vars>>

Components ==
  {"tasks", "quota", "rate", "graph", "storage", "migration", "keys", "custom", "config"}

MCTaskUser == [t \in QuotaTasks |-> IF t = "t3" THEN "v" ELSE "u"]
MCTaskAgent == [t \in QuotaTasks |-> "tech"]
MCUserDepartment == [u \in QuotaUsers |-> "dev"]

MCUserLimit == [s \in Scopes |-> IF s = "auth" THEN 1 ELSE 2]
MCIpLimit == [s \in Scopes |-> 2]

MCDefinitions == {<<"t1", "x">>, <<"t2", "x">>}
MCFolder == <<[of |-> <<"t1", "x">>, valid |-> TRUE], [of |-> <<"t1", "x">>, valid |-> FALSE],
              [of |-> <<"t1", "x">>, valid |-> TRUE]>>

\* A component that does not move starts in one of its initial states only.
Parked == component # "config" => env = "none"

StoresInit ==
  /\ component \in Components
  /\ QuotaInit /\ RateInit /\ GraphInit /\ StoreInit
  /\ MigrationInit /\ KeyInit /\ CustomInit /\ ConfigInit /\ Init
  /\ Parked

Rest(c, variables) == IF component = c THEN TRUE ELSE UNCHANGED variables

StoresNext ==
  /\ \/ component = "tasks" /\ Next
     \/ component = "quota" /\ QuotaNext
     \/ component = "rate" /\ RateNext
     \/ component = "graph" /\ GraphNext
     \/ component = "storage" /\ StoreNext
     \/ component = "migration" /\ MigrationNext
     \/ component = "keys" /\ KeyNext
     \/ component = "custom" /\ CustomNext
     \/ component = "config" /\ ConfigNext
  /\ Rest("quota", quotaVars) /\ Rest("rate", rateVars)
  /\ Rest("graph", graphVars) /\ Rest("storage", storeVars) /\ Rest("migration", migrationVars)
  /\ Rest("keys", keyVars) /\ Rest("custom", customVars) /\ Rest("config", configVars)
  /\ Rest("tasks", vars)
  /\ UNCHANGED component

StoresSpec == StoresInit /\ [][StoresNext]_storesVars
================================================================================
