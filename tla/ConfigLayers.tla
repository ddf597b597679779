---------------------------- MODULE ConfigLayers ----------------------------
(***************************************************************************)
(* core/config/manager.py: a key is looked up in the cache of the process, *)
(* the environment, the secret store and the YAML files of the tenant, its *)
(* groups and agents, and what is found stays in the cache.  Files change  *)
(* under it, other processes share the secret store, and a restart leaves  *)
(* only what was persisted.                                                *)
(***************************************************************************)
EXTENDS Integers, FiniteSets

CONSTANTS ConfigTenants,      \* tenants
          Values,       \* of the one key that is looked at
          FromEnv,      \* what the environment may have for it: values, or "none"
          MaxWrites     \* bound on changes of the layers

ASSUME ConfigAssumption == "none" \notin Values /\ MaxWrites \in Nat

VARIABLES
  cached,    \* ConfigManager.cache, by tenant
  env,       \* os.environ: one for all tenants, fixed while the process lives
  secretOf,  \* FileSecretStore: one for all tenants
  yamlOf,    \* tenant.yaml of each tenant
  told,      \* what the subscribers were told last, by tenant; "*" after a clear
  given,     \* history: the values a tenant was ever given, in any layer of its own
  persisted, \* history: the last value set with persist, "none" once a set without it
             \* or a persist of another tenant came after
  writes

configVars == <<cached, env, secretOf, yamlOf, told, given, persisted, writes>>

ConfigInit ==
  /\ cached = [t \in ConfigTenants |-> "none"] /\ env \in FromEnv
  /\ secretOf = "none" /\ yamlOf = [t \in ConfigTenants |-> "none"]
  /\ told = [t \in ConfigTenants |-> "*"]
  /\ given = [t \in ConfigTenants |-> {}] /\ persisted = [t \in ConfigTenants |-> "none"]
  /\ writes = 0

\* layers 2 to 4 of ConfigManager.get: _env_key names no tenant
Below(t) ==
  IF env # "none" THEN env ELSE IF secretOf # "none" THEN secretOf ELSE yamlOf[t]

\* ConfigManager.get without its effect; "none" stands for the caller's default
Answer(t) == IF cached[t] # "none" THEN cached[t] ELSE Below(t)

\* Mutant: _cache_key forgets the tenant
CacheForAll(t, v) == cached' = [u \in ConfigTenants |-> v]

CacheIt(t, v) == cached' = [cached EXCEPT ![t] = v]

\* ConfigManager.get
GetKey(t) ==
  /\ cached[t] = "none"
  /\ CacheIt(t, Below(t))
  /\ UNCHANGED <<env, secretOf, yamlOf, told, given, persisted, writes>>

\* _notify when the cache held something else
Notify(t, v, keep) == IF cached[t] # v THEN [told EXCEPT ![t] = v] ELSE told

\* FileSecretStore.set, for all tenants
Persist(v, keep) == secretOf' = IF keep THEN v ELSE secretOf

\* ConfigManager.set
SetKey(t, v, keep) ==
  /\ writes < MaxWrites /\ writes' = writes + 1
  /\ CacheIt(t, v)
  /\ Persist(v, keep)
  /\ told' = Notify(t, v, keep)
  /\ given' = [u \in ConfigTenants |-> IF u = t \/ keep THEN given[u] \cup {v} ELSE given[u]]
  /\ persisted' = IF keep THEN [u \in ConfigTenants |-> IF u = t THEN v ELSE "none"]
                  ELSE [persisted EXCEPT ![t] = "none"]
  /\ UNCHANGED <<env, yamlOf>>

\* ConfigManager.clear_cache
ClearCache ==
  /\ cached' = [t \in ConfigTenants |-> "none"]
  /\ told' = [t \in ConfigTenants |-> "*"]
  /\ UNCHANGED <<env, secretOf, yamlOf, given, persisted, writes>>

\* The process ends and starts again, perhaps in another environment.
RestartConfig == \E e \in FromEnv :
  /\ writes < MaxWrites /\ writes' = writes + 1
  /\ env' = e
  /\ cached' = [t \in ConfigTenants |-> "none"]
  /\ told' = [t \in ConfigTenants |-> "*"]
  /\ UNCHANGED <<secretOf, yamlOf, given, persisted>>

\* FileConfigStore.get reads the file anew each time: somebody edits it.
EditFile(t, v) ==
  /\ writes < MaxWrites /\ writes' = writes + 1
  /\ yamlOf' = [yamlOf EXCEPT ![t] = v]
  /\ given' = [given EXCEPT ![t] = @ \cup ({v} \ {"none"})]
  /\ UNCHANGED <<cached, env, secretOf, told, persisted>>

ConfigNext ==
  \/ \E t \in ConfigTenants : GetKey(t)
  \/ \E t \in ConfigTenants, v \in Values, keep \in BOOLEAN : SetKey(t, v, keep)
  \/ ClearCache \/ RestartConfig
  \/ \E t \in ConfigTenants, v \in Values \cup {"none"} : EditFile(t, v)

ConfigSpec == ConfigInit /\ [][ConfigNext]_configVars

(***************************************************************************)
(* Properties                                                              *)
(***************************************************************************)
\* A tenant is never answered what only another tenant was given: neither from the
\* other's file nor from a set that was not persisted.  (What is persisted is shared:
\* the secret store's key has no tenant.)
TenantsConfigured == \A t \in ConfigTenants :
  Answer(t) \in given[t] \cup FromEnv \cup {"none"}

\* What a tenant last set with persist is what it is answered, through restarts, clears
\* and edits of its file, unless the environment of a later process has the key.
PersistedAnswered == \A t \in ConfigTenants :
  persisted[t] # "none" /\ env = "none" => Answer(t) = persisted[t]

\* The subscribers know what a tenant is answered, since they were last told to read
\* everything again, whenever it was set: a value told is the value answered.
SubscribersKnow == \A t \in ConfigTenants : told[t] # "*" => Answer(t) = told[t]

\* Tenants, subscribers and later processes are answered what was set for them.
ValuesAnswered == TenantsConfigured /\ PersistedAnswered /\ SubscribersKnow
=============================================================================
