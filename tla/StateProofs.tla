---------------------------- MODULE StateProofs ----------------------------
(*****************************************************************************)
(* What outlives a request: the layers of the configuration, custom agents   *)
(* and the keys that sign tokens.  For any tenants, values, definitions,     *)
(* replicas and generations of keys.                                         *)
(*****************************************************************************)
EXTENDS ConfigLayers, CustomAgents, KeyRotation, TaskListing, AuditQuery, GraphQueries,
        Positions, TLAPS, FiniteSetTheorems, WellFoundedInduction

------------------------------------------------------------------------------
(***************************************************************************)
(* ConfigManager answers each tenant its own values, for any tenants,      *)
(* values, environments and any number of changes and restarts.            *)
(*                                                                         *)
(* ValuesAnswered speaks of the next answer, which the layers below the    *)
(* cache give once the cache is cleared.  So the invariant has to say of   *)
(* every layer by itself what it may hold.                                 *)
(***************************************************************************)

\* A value the tenant may be answered with
Own(t) == given[t] \cup FromEnv \cup {"none"}

Typed ==
  /\ cached \in [ConfigTenants -> Values \cup FromEnv \cup {"none"}]
  /\ yamlOf \in [ConfigTenants -> Values \cup {"none"}]
  /\ told \in [ConfigTenants -> Values \cup {"*"}]
  /\ persisted \in [ConfigTenants -> Values \cup {"none"}]
  /\ given \in [ConfigTenants -> SUBSET Values]
  /\ env \in FromEnv
  /\ secretOf \in Values \cup {"none"}

\* The secret store has been given to all tenants, a file to its own.
LayersOwn == \A t \in ConfigTenants :
  cached[t] \in Own(t) /\ yamlOf[t] \in Own(t) /\ secretOf \in Own(t)

\* What a tenant persisted is in the store, and only an environment can have put
\* something else into the cache above it.
PersistedBelow == \A t \in ConfigTenants :
  persisted[t] # "none" =>
    secretOf = persisted[t] /\ (env = "none" => cached[t] \in {"none", persisted[t]})

ToldIsCached == \A t \in ConfigTenants : told[t] # "*" => cached[t] = told[t]

ConfigInv == Typed /\ LayersOwn /\ PersistedBelow /\ ToldIsCached

-----------------------------------------------------------------------------
\* The invariant gives the properties: an answer comes from the cache or from
\* the first layer below that has one.
LEMMA InvAnswers == ASSUME ConfigInv PROVE ValuesAnswered
<1> USE ConfigAssumption DEF ConfigInv, Answer, Below
<1>1. TenantsConfigured
  BY DEF TenantsConfigured, LayersOwn, Own, Typed
<1>2. PersistedAnswered
  BY DEF PersistedAnswered, PersistedBelow
<1>3. SubscribersKnow
  BY DEF SubscribersKnow, ToldIsCached, Typed
<1> QED
  BY <1>1, <1>2, <1>3 DEF ValuesAnswered

\* An answer put into the cache is one the tenant may have.
LEMMA GetKeyKeeps == ASSUME ConfigInv, NEW t \in ConfigTenants, GetKey(t) PROVE ConfigInv'
<1> USE ConfigAssumption DEF ConfigInv, GetKey, CacheIt, Below
<1>1. Typed'
  BY DEF Typed
<1>2. LayersOwn'
  BY DEF LayersOwn, Own, Typed
<1>3. PersistedBelow'
  BY DEF PersistedBelow, Typed
<1>4. ToldIsCached'
  BY DEF ToldIsCached, Typed
<1> QED
  BY <1>1, <1>2, <1>3, <1>4

\* A set changes the cache of its tenant and, with persist, what all are given.
LEMMA SetKeyKeeps ==
  ASSUME ConfigInv, NEW t \in ConfigTenants, NEW v \in Values, NEW keep \in BOOLEAN,
         SetKey(t, v, keep)
  PROVE  ConfigInv'
<1> USE ConfigAssumption DEF ConfigInv, SetKey, CacheIt, Persist, Notify
<1>1. Typed'
  BY DEF Typed
<1>2. LayersOwn'
  BY DEF LayersOwn, Own, Typed
<1>3. PersistedBelow'
  BY DEF PersistedBelow, Typed
<1>4. ToldIsCached'
  BY DEF ToldIsCached, Typed
<1> QED
  BY <1>1, <1>2, <1>3, <1>4

\* A clear empties the cache and tells the subscribers to read everything again;
\* the layers below stay, and after a restart so does a clear.
LEMMA ClearKeeps == ASSUME ConfigInv, ClearCache \/ RestartConfig PROVE ConfigInv'
<1> USE ConfigAssumption DEF ConfigInv, ClearCache, RestartConfig
<1>1. Typed'
  BY DEF Typed
<1>2. LayersOwn'
  BY DEF LayersOwn, Own, Typed
<1>3. PersistedBelow'
  BY DEF PersistedBelow, Typed
<1>4. ToldIsCached'
  BY DEF ToldIsCached, Typed
<1> QED
  BY <1>1, <1>2, <1>3, <1>4

\* An edit gives its tenant the value, and is below everything else.
LEMMA EditFileKeeps ==
  ASSUME ConfigInv, NEW t \in ConfigTenants, NEW v \in Values \cup {"none"}, EditFile(t, v)
  PROVE  ConfigInv'
<1> USE ConfigAssumption DEF ConfigInv, EditFile
<1>1. Typed'
  BY DEF Typed
<1>2. LayersOwn'
  BY DEF LayersOwn, Own, Typed
<1>3. PersistedBelow'
  BY DEF PersistedBelow
<1>4. ToldIsCached'
  BY DEF ToldIsCached
<1> QED
  BY <1>1, <1>2, <1>3, <1>4

-----------------------------------------------------------------------------
\* Tenants, subscribers and later processes are answered what was set for them, by
\* ConfigManager.get over its five layers.
THEOREM ConfigAnswers == ConfigSpec => []ValuesAnswered
<1>1. ConfigInit => ConfigInv
  BY ConfigAssumption DEF ConfigInit, ConfigInv, Typed, LayersOwn, Own, PersistedBelow, ToldIsCached
<1>2. ConfigInv /\ [ConfigNext]_configVars => ConfigInv'
  <2> SUFFICES ASSUME ConfigInv, [ConfigNext]_configVars PROVE ConfigInv'
    OBVIOUS
  <2>1. CASE ConfigNext
    BY <2>1, GetKeyKeeps, SetKeyKeeps, ClearKeeps, EditFileKeeps DEF ConfigNext
  <2>2. CASE UNCHANGED configVars
    BY <2>2 DEF configVars, ConfigInv, Typed, LayersOwn, Own, PersistedBelow, ToldIsCached
  <2> QED
    BY <2>1, <2>2
<1> QED
  BY <1>1, <1>2, InvAnswers, PTL DEF ConfigSpec

------------------------------------------------------------------------------
(***************************************************************************)
(* Memory, files and audit log of custom agents, for any definitions, any  *)
(* folder of them, and any number of failed changes and restarts.          *)
(*                                                                         *)
(* What memory holds after a restart comes from the files, so both have to *)
(* be no older than the last change answered with success; that the next   *)
(* number is above every earlier one is what orders them.                  *)
(***************************************************************************)

Trace == [started : Nat, final : Nat]

CustomTyped ==
  /\ configs \in [Definitions -> Nat] /\ agentFiles \in [Definitions -> Nat \cup {Torn}]
  /\ changes \in Nat /\ answered \in [Definitions -> Nat] /\ whole \in [Definitions -> BOOLEAN]
  /\ running \in [Definitions -> Nat] /\ cut \in [Definitions -> Nat]
  /\ traced \in [Definitions -> Trace] /\ faults \in Nat

\* A definition, wherever it is found, is of the last change answered or later.
UpToDate(d) ==
  /\ answered[d] <= changes
  /\ configs[d] # Nothing => configs[d] >= answered[d]
  /\ agentFiles[d] \notin {Nothing, Torn} => agentFiles[d] >= answered[d]

\* One definition of AnsweredIsKept, and one of RunsTraced
Kept(d) == whole[d] => agentFiles[d] = configs[d] /\ configs[d] \in {answered[d], Nothing}
Traced(d) == traced[d].started = traced[d].final + running[d] + cut[d]

CustomInv == CustomTyped /\ \A d \in Definitions : UpToDate(d) /\ Kept(d) /\ Traced(d)

-----------------------------------------------------------------------------
\* The invariant gives the three properties.
LEMMA InvKept == ASSUME CustomInv PROVE DefinitionsKept
BY DEF CustomInv, UpToDate, Kept, Traced, DefinitionsKept, AnsweredIsKept, NothingComesBack,
   RunsTraced

\* A change of one definition, answered or failed, has a number of its own.
LEMMA UploadKeeps == ASSUME CustomInv, NEW d \in Definitions, Upload(d) PROVE CustomInv'
<1> USE DEF CustomInv, Upload
<1>1. CASE Register(d)
  <2>1. CustomTyped'
    BY <1>1 DEF Register, Saved, CustomTyped
  <2>2. ASSUME NEW c \in Definitions PROVE UpToDate(c)' /\ Kept(c)' /\ Traced(c)'
    BY <1>1 DEF Register, Saved, CustomTyped, UpToDate, Kept, Traced, Torn, Nothing
  <2> QED
    BY <2>1, <2>2
<1>2. CASE RegisterFails(d)
  <2>1. CustomTyped'
    BY <1>2 DEF RegisterFails, CustomTyped
  <2>2. ASSUME NEW c \in Definitions PROVE UpToDate(c)' /\ Kept(c)' /\ Traced(c)'
    BY <1>2 DEF RegisterFails, CustomTyped, UpToDate, Kept, Traced, Torn, Nothing
  <2> QED
    BY <2>1, <2>2
<1> QED
  BY <1>1, <1>2

\* The definitions of a folder are numbered in its order, above all before them.
LEMMA LoadFolderKeeps == ASSUME CustomInv, LoadFolder PROVE CustomInv'
<1> DEFINE read == {i \in DOMAIN Folder : Folder[i].valid}
           last(d) == {i \in read : Folder[i].of = d /\ \A j \in read : Folder[j].of = d => j <= i}
           new(d) == NumberOf(CHOOSE i \in last(d) : TRUE)
<1>1. \A d \in Definitions : last(d) # {} =>
        new(d) \in Nat /\ changes < new(d) /\ new(d) <= changes + Len(Folder)
  <2> SUFFICES ASSUME NEW d \in Definitions, last(d) # {}
               PROVE  new(d) \in Nat /\ changes < new(d) /\ new(d) <= changes + Len(Folder)
    OBVIOUS
  <2>1. (CHOOSE i \in last(d) : TRUE) \in last(d)
    OBVIOUS
  <2>2. (CHOOSE i \in last(d) : TRUE) \in 1..Len(Folder)
    BY <2>1, CustomAgentsAssumption
  <2>3. changes \in Nat /\ Len(Folder) \in Nat
    BY CustomAgentsAssumption DEF CustomInv, CustomTyped
  <2> QED
    BY <2>2, <2>3 DEF NumberOf
<1>2. /\ changes' = changes + Len(Folder) /\ Len(Folder) \in Nat
      /\ configs' = [d \in Definitions |-> IF last(d) = {} THEN configs[d] ELSE new(d)]
      /\ agentFiles' = [d \in Definitions |-> IF last(d) = {} THEN agentFiles[d] ELSE new(d)]
      /\ answered' = [d \in Definitions |-> IF last(d) = {} THEN answered[d] ELSE new(d)]
      /\ whole' = [d \in Definitions |-> whole[d] \/ last(d) # {}]
      /\ UNCHANGED <<running, traced, cut, faults>>
  BY CustomAgentsAssumption DEF LoadFolder
<1> HIDE DEF last, new
<1>3. CustomTyped'
  BY <1>1, <1>2 DEF CustomInv, CustomTyped
<1>4. ASSUME NEW d \in Definitions PROVE UpToDate(d)' /\ Kept(d)' /\ Traced(d)'
  <2>1. CASE last(d) = {}
    BY <1>2, <2>1 DEF CustomInv, CustomTyped, UpToDate, Kept, Traced
  <2>2. CASE last(d) # {}
    BY <1>1, <1>2, <2>2 DEF CustomInv, CustomTyped, UpToDate, Kept, Traced
  <2> QED
    BY <2>1, <2>2
<1> QED
  BY <1>3, <1>4 DEF CustomInv

\* What was deleted is gone from memory, and from its file unless unlink raises.
LEMMA DeleteKeeps == ASSUME CustomInv, NEW d \in Definitions, Delete(d) PROVE CustomInv'
<1> USE DEF CustomInv, Delete, RemoveFile
<1>a. configs' \in [Definitions -> Nat] /\ changes' \in Nat
  BY DEF CustomTyped, Nothing
<1>b. agentFiles' \in [Definitions -> Nat \cup {Torn}]
  BY DEF CustomTyped, Nothing
<1>c. answered' \in [Definitions -> Nat] /\ faults' \in Nat
  BY DEF CustomTyped
<1>d. whole' \in [Definitions -> BOOLEAN]
  <2>1. PICK b \in BOOLEAN : whole' = [whole EXCEPT ![d] = b]
    OBVIOUS
  <2>2. whole \in [Definitions -> BOOLEAN]
    BY DEF CustomTyped
  <2> QED
    BY <2>1, <2>2
<1>1. CustomTyped'
  BY <1>a, <1>b, <1>c, <1>d DEF CustomTyped
<1>2. ASSUME NEW c \in Definitions PROVE UpToDate(c)' /\ Kept(c)' /\ Traced(c)'
  BY DEF CustomTyped, UpToDate, Kept, Traced, Nothing, Torn
<1> QED
  BY <1>1, <1>2

\* After a restart memory holds the files that parse; the runs of before are cut.
LEMMA RestartKeeps == ASSUME CustomInv, Restart PROVE CustomInv'
<1> USE DEF CustomInv
<1>1. /\ configs' = [d \in Definitions |-> IF agentFiles'[d] = Torn THEN Nothing ELSE agentFiles'[d]]
      /\ cut' = [d \in Definitions |-> cut[d] + running[d]]
      /\ running' = [d \in Definitions |-> 0] /\ faults' = faults + 1
      /\ UNCHANGED <<answered, traced>>
  BY DEF Restart, Loaded, Each
<1>2. \/ UNCHANGED <<agentFiles, changes, whole>>
      \/ \E d \in Definitions :
           /\ changes' = changes + 1
           /\ \E left \in {Torn, changes + 1} : agentFiles' = [agentFiles EXCEPT ![d] = left]
           /\ whole' = [whole EXCEPT ![d] = FALSE]
  BY DEF Restart
<1>3. /\ agentFiles' \in [Definitions -> Nat \cup {Torn}] /\ changes' \in Nat
      /\ whole' \in [Definitions -> BOOLEAN]
  <2>1. CASE UNCHANGED <<agentFiles, changes, whole>>
    BY <2>1 DEF CustomTyped
  <2>2. ASSUME NEW d \in Definitions, NEW left \in {Torn, changes + 1},
               changes' = changes + 1, agentFiles' = [agentFiles EXCEPT ![d] = left],
               whole' = [whole EXCEPT ![d] = FALSE]
        PROVE  /\ agentFiles' \in [Definitions -> Nat \cup {Torn}] /\ changes' \in Nat
               /\ whole' \in [Definitions -> BOOLEAN]
    BY <2>2 DEF CustomTyped
  <2> QED
    BY <1>2, <2>1, <2>2
<1>4. CustomTyped'
  BY <1>1, <1>3 DEF CustomTyped, Nothing
<1>5. ASSUME NEW d \in Definitions PROVE UpToDate(d)' /\ Kept(d)' /\ Traced(d)'
  <2>1. \/ agentFiles'[d] = agentFiles[d] /\ whole'[d] = whole[d] /\ changes' >= changes
        \/ agentFiles'[d] \in {Torn, changes + 1} /\ whole'[d] = FALSE /\ changes' = changes + 1
    BY <1>2 DEF CustomTyped
  <2>2. UpToDate(d)' /\ Kept(d)'
    BY <1>1, <1>3, <2>1 DEF CustomTyped, UpToDate, Kept, Torn, Nothing
  <2>3. Traced(d)'
    BY <1>1 DEF CustomTyped, Trace, Traced
  <2> QED
    BY <2>2, <2>3
<1> QED
  BY <1>4, <1>5

\* An entry of a run, at its start and at its end
LEMMA RunKeeps ==
  ASSUME CustomInv, NEW d \in Definitions, StartRun(d) \/ EndRun(d) PROVE CustomInv'
<1> USE DEF CustomInv
<1>a. traced[d] \in Trace
  BY DEF CustomTyped
<1>1. UNCHANGED <<configs, agentFiles, changes, answered, whole, cut, faults>>
  BY DEF StartRun, EndRun
<1>2. CASE StartRun(d)
  <2>1. traced' = [traced EXCEPT ![d] = [traced[d] EXCEPT !.started = traced[d].started + 1]]
        /\ running' = [running EXCEPT ![d] = running[d] + 1]
    BY <1>2 DEF StartRun
  <2>2. [traced[d] EXCEPT !.started = traced[d].started + 1] =
          [started |-> traced[d].started + 1, final |-> traced[d].final]
    BY <1>a DEF Trace
  <2>3. traced' = [traced EXCEPT ![d] = [started |-> traced[d].started + 1,
                                         final |-> traced[d].final]]
    BY <2>1, <2>2
  <2>4. CustomTyped'
    BY <1>1, <1>a, <2>1, <2>3 DEF CustomTyped, Trace
  <2>5. ASSUME NEW c \in Definitions PROVE UpToDate(c)' /\ Kept(c)' /\ Traced(c)'
    BY <1>1, <1>a, <2>1, <2>3 DEF CustomTyped, Trace, UpToDate, Kept, Traced
  <2> QED
    BY <2>4, <2>5
<1>3. CASE EndRun(d)
  <2>1. traced' = [traced EXCEPT ![d] = [traced[d] EXCEPT !.final = traced[d].final + 1]]
        /\ running' = [running EXCEPT ![d] = running[d] - 1] /\ running[d] > 0
    BY <1>3 DEF EndRun
  <2>2. [traced[d] EXCEPT !.final = traced[d].final + 1] =
          [started |-> traced[d].started, final |-> traced[d].final + 1]
    BY <1>a DEF Trace
  <2>3. traced' = [traced EXCEPT ![d] = [started |-> traced[d].started,
                                         final |-> traced[d].final + 1]]
    BY <2>1, <2>2
  <2>4. CustomTyped'
    BY <1>1, <1>a, <2>1, <2>3 DEF CustomTyped, Trace
  <2>5. ASSUME NEW c \in Definitions PROVE UpToDate(c)' /\ Kept(c)' /\ Traced(c)'
    BY <1>1, <1>a, <2>1, <2>3 DEF CustomTyped, Trace, UpToDate, Kept, Traced
  <2> QED
    BY <2>4, <2>5
<1> QED
  BY <1>2, <1>3

-----------------------------------------------------------------------------
\* Memory and file agree on what was answered, nothing replaced or deleted comes back,
\* and every run has its entries, over failed changes and restarts.
THEOREM CustomKept == CustomSpec => []DefinitionsKept
<1>1. CustomInit => CustomInv
  BY CustomAgentsAssumption
     DEF CustomInit, CustomInv, CustomTyped, Trace, Each, UpToDate, Kept, Traced, Nothing, Torn
<1>2. ASSUME CustomInv, CustomNext PROVE CustomInv'
  BY <1>2, UploadKeeps, LoadFolderKeeps, DeleteKeeps, RestartKeeps, RunKeeps DEF CustomNext
<1>3. ASSUME CustomInv, UNCHANGED customVars PROVE CustomInv'
  BY <1>3 DEF customVars, CustomInv, CustomTyped, UpToDate, Kept, Traced
<1> QED
  BY <1>1, <1>2, <1>3, InvKept, PTL DEF CustomSpec

------------------------------------------------------------------------------
------------------------------------------------------------------------------
(*****************************************************************************)
(* KeyRotation, where every key has a kid of its own.                        *)
(*                                                                           *)
(* In every phase of a rollout the replicas run with settings of this phase or *)
(* of the one before, and both list every key that may sign.  A key is taken off *)
(* the list once the tokens it signed have run out.                          *)
(*****************************************************************************)

\* A key under its own kid, the kids a service knows, and a ring of one or two
\* keys each under its own kid
Entry(g) == [kid |-> g, material |-> g]
Knows(s) == {s.verify[i].kid : i \in DOMAIN s.verify}
RingOf(ring) ==
  /\ DOMAIN ring = {1} \/ DOMAIN ring = {1, 2}
  /\ \A i \in DOMAIN ring : ring[i] = Entry(ring[i].kid)

\* A service that signs with a key of its ring
Sound(s, alg) == s.alg = alg /\ s.kid = s.material /\ RingOf(s.verify) /\ s.kid \in Knows(s)

\* What the operator publishes in a phase of the rollout
Env(alg, p, keys) == [alg |-> alg, private |-> p, kid |-> p, listed |-> keys]

\* What the operator publishes in a phase of the rollout
Published(posted, phase) ==
  LET p == posted.private
  IN  /\ posted.alg \in {"RS256", "HS256"} /\ p \in Nat \ {0}
      /\ posted = Env(posted.alg, p, posted.listed)
      /\ phase \in {"steady", "announced", "promoted"}
      /\ phase = "steady" =>
           \/ posted.listed = <<Entry(p)>>
           \/ posted.alg = "RS256" /\ p = 1 /\ posted.listed = <<RemoteEntry>>
      /\ phase = "announced" => posted.listed = <<Entry(p), Entry(p + 1)>>
      /\ phase = "promoted" => p > 1 /\ posted.listed = <<Entry(p), Entry(p - 1)>>

\* The keys that may still sign
Signers == IF rollout = "promoted" THEN {settings.private - 1, settings.private}
                                   ELSE {settings.private}

Minted == [alg : {"RS256", "HS256"}, kid : Nat, material : Nat, left : 0..TokenTtl]

\* The typing
KeyTyped ==
  /\ rollout \in {"none", "steady", "announced", "promoted"}
  /\ sinceRolled \in 0..TokenTtl
  /\ tokens \subseteq Minted
  /\ \E D : service \in [AuthReplicas -> D]

\* All services are built from what was published, and know every key that
\* may sign.
Running ==
  IF rollout = "none" THEN tokens = {} /\ sinceRolled = 0 /\ \A r \in AuthReplicas : service[r] = NoService
  ELSE /\ Published(settings, rollout)
       /\ \A r \in AuthReplicas :
            Sound(service[r], settings.alg) /\ service[r].kid \in Signers /\ Signers \subseteq Knows(service[r])

\* Tokens of the key before leave while everybody signs with the new one
Leaving ==
  /\ \A t \in tokens : t.left > 0 =>
       t.alg = settings.alg /\ t.kid = t.material /\ t.kid \in Signers
  /\ rollout # "none" /\ ~Rolled => sinceRolled = 0
  /\ rollout = "promoted" =>
       \A t \in tokens : t.kid = settings.private - 1 => t.left <= TokenTtl - sinceRolled

\* The invariant
KeyInv == KeyTyped /\ Running /\ Leaving

\* The JWKS keeps a ring whose kids differ.
LEMMA RingKept ==
  ASSUME NEW n \in Nat, NEW D, NEW ring \in [1..n -> D],
         \A i, j \in 1..n : i # j => ring[i].kid # ring[j].kid
  PROVE  PublicRing(ring) = ring
<1> DEFINE firsts == FirstsOf(ring)
<1>1. firsts = 1..n
  BY DEF FirstsOf
<1>2. Cardinality(firsts) = n
  BY <1>1, FS_Interval
<1>3. ASSUME NEW i \in 1..n PROVE Cardinality(firsts \cap 1..i) = i
  <2>1. firsts \cap 1..i = 1..i
    BY <1>1
  <2>2. Cardinality(1..i) = i
    <3>1. i \in Int /\ 1 \in Int /\ ~(1 > i) /\ i - 1 + 1 = i
      OBVIOUS
    <3>2. Cardinality(1..i) = IF 1 > i THEN 0 ELSE i - 1 + 1
      BY <3>1, FS_Interval
    <3> QED
      BY <3>1, <3>2
  <2> QED
    BY <2>1, <2>2
<1> HIDE DEF firsts
<1>4. ASSUME NEW k \in 1..n
      PROVE  (CHOOSE i \in firsts : Cardinality(firsts \cap 1..i) = k) = k
  BY <1>1, <1>3
<1>5. [k \in 1..n |-> ring[CHOOSE i \in firsts : Cardinality(firsts \cap 1..i) = k]] = ring
  BY <1>4
<1> QED
  BY <1>2, <1>5 DEF PublicRing, Picked, firsts

\* A service built from a ring
Served(alg, p, ring) == [alg |-> alg, kid |-> p, material |-> p, verify |-> ring]

\* The fields of a key
LEMMA EntryFields ==
  \A g \in Nat : Entry(g).kid = g /\ Entry(g).material = g /\ Entry(g).kid # Unnamed
BY DEF Entry, Unnamed

\* What a service reads from one listed key, from two, and from another issuer
LEMMA BuildOne ==
  ASSUME NEW alg \in {"RS256", "HS256"}, NEW p \in Nat
  PROVE  Build(Env(alg, p, <<Entry(p)>>)) = Served(alg, p, <<Entry(p)>>)
<1> PICK ring : ring = <<Entry(p)>>
  OBVIOUS
<1>1. /\ ring \in [1..1 -> {Entry(p)}] /\ ring[1] = Entry(p) /\ DOMAIN ring = {1}
  OBVIOUS
<1>2. PublicRing(ring) = ring
  <2>1. \A i, j \in 1..1 : i # j => ring[i].kid # ring[j].kid
    OBVIOUS
  <2>2. PICK D : D = {Entry(p)}
    OBVIOUS
  <2>3. ring \in [1..1 -> D] /\ 1 \in Nat
    BY <1>1, <2>2
  <2> QED
    BY <2>1, <2>3, RingKept
<1>3. WithDerived(ring, p, p) = ring
  BY <1>1, EntryFields DEF WithDerived
<1>4. ParseSecrets(ring) = ring
  BY <1>1, EntryFields DEF ParseSecrets
<1> QED
  BY <1>1, <1>2, <1>3, <1>4, EntryFields DEF Build, Env, Served

\* The same with two listed keys
LEMMA BuildTwo ==
  ASSUME NEW alg \in {"RS256", "HS256"}, NEW p \in Nat, NEW q \in Nat, p # q
  PROVE  Build(Env(alg, p, <<Entry(p), Entry(q)>>)) = Served(alg, p, <<Entry(p), Entry(q)>>)
<1> PICK ring : ring = <<Entry(p), Entry(q)>>
  OBVIOUS
<1>1. /\ ring \in [1..2 -> {Entry(p), Entry(q)}] /\ ring[1] = Entry(p) /\ ring[2] = Entry(q)
      /\ DOMAIN ring = {1, 2}
  OBVIOUS
<1>2. PublicRing(ring) = ring
  <2>1. \A i, j \in 1..2 : i # j => ring[i].kid # ring[j].kid
    BY <1>1, EntryFields
  <2>2. PICK D : D = {Entry(p), Entry(q)}
    OBVIOUS
  <2>3. ring \in [1..2 -> D] /\ 2 \in Nat
    BY <1>1, <2>2
  <2> QED
    BY <2>1, <2>3, RingKept
<1>3. WithDerived(ring, p, p) = ring
  BY <1>1, EntryFields DEF WithDerived
<1>4. ParseSecrets(ring) = ring
  BY <1>1, EntryFields DEF ParseSecrets
<1> QED
  BY <1>1, <1>2, <1>3, <1>4, EntryFields DEF Build, Env, Served

\* The same with the key of another issuer, and its own key added
LEMMA BuildRemote ==
  Build(Env("RS256", 1, <<RemoteEntry>>)) = Served("RS256", 1, <<RemoteEntry, Entry(1)>>)
<1> PICK ring : ring = <<RemoteEntry>>
  OBVIOUS
<1>1. /\ ring \in [1..1 -> {RemoteEntry}] /\ ring[1] = RemoteEntry /\ DOMAIN ring = {1}
  OBVIOUS
<1>2. PublicRing(ring) = ring
  <2>1. \A i, j \in 1..1 : i # j => ring[i].kid # ring[j].kid
    OBVIOUS
  <2> QED
    BY <1>1, <2>1, RingKept
<1>3. WithDerived(ring, 1, 1) = <<RemoteEntry, Entry(1)>>
  <2>1. RemoteEntry.kid # 1
    BY DEF RemoteEntry
  <2>2. WithDerived(ring, 1, 1) = Append(ring, Entry(1))
    BY <1>1, <2>1 DEF WithDerived, Entry
  <2> QED
    BY <2>2
<1> QED
  BY <1>2, <1>3 DEF Build, Env, Served

\* The published settings build a service that knows what it signs with
LEMMA BuildKnows ==
  ASSUME NEW posted, NEW phase, Published(posted, phase)
  PROVE  /\ Sound(Build(posted), posted.alg) /\ Build(posted).kid = posted.private
         /\ Build(posted) # NoService
         /\ phase = "announced" => Knows(Build(posted)) = {posted.private, posted.private + 1}
         /\ phase = "promoted" => Knows(Build(posted)) = {posted.private, posted.private - 1}
         /\ posted.private \in Knows(Build(posted))
<1> PICK p \in Nat \ {0} : p = posted.private
  BY DEF Published
<1> PICK alg \in {"RS256", "HS256"} : alg = posted.alg
  BY DEF Published
<1>1. \A ring : /\ Served(alg, p, ring).alg = alg /\ Served(alg, p, ring).kid = p
                /\ Served(alg, p, ring).material = p /\ Served(alg, p, ring).verify = ring
  BY DEF Served
<1>2. ASSUME NEW q \in Nat, q # p, posted.listed = <<Entry(p), Entry(q)>>
      PROVE  /\ Sound(Build(posted), alg) /\ Build(posted).kid = p /\ Build(posted).alg = alg
             /\ Knows(Build(posted)) = {p, q}
  <2> PICK ring : ring = <<Entry(p), Entry(q)>>
    OBVIOUS
  <2>1. DOMAIN ring = {1, 2} /\ ring[1] = Entry(p) /\ ring[2] = Entry(q)
    OBVIOUS
  <2>2. Build(posted) = Served(alg, p, ring)
    BY <1>2, BuildTwo DEF Published
  <2>3. RingOf(ring) /\ {ring[i].kid : i \in DOMAIN ring} = {p, q}
    BY <2>1, EntryFields DEF RingOf
  <2>4. Knows(Build(posted)) = {p, q}
    BY <1>1, <2>2, <2>3 DEF Knows
  <2> QED
    BY <1>1, <2>2, <2>3, <2>4 DEF Sound
<1>3. ASSUME posted.listed = <<Entry(p)>>
      PROVE  /\ Sound(Build(posted), alg) /\ Build(posted).kid = p /\ Build(posted).alg = alg
             /\ Knows(Build(posted)) = {p}
  <2> PICK ring : ring = <<Entry(p)>>
    OBVIOUS
  <2>1. DOMAIN ring = {1} /\ ring[1] = Entry(p)
    OBVIOUS
  <2>2. Build(posted) = Served(alg, p, ring)
    BY <1>3, BuildOne DEF Published
  <2>3. RingOf(ring) /\ {ring[i].kid : i \in DOMAIN ring} = {p}
    BY <2>1, EntryFields DEF RingOf
  <2>4. Knows(Build(posted)) = {p}
    BY <1>1, <2>2, <2>3 DEF Knows
  <2> QED
    BY <1>1, <2>2, <2>3, <2>4 DEF Sound
<1>4. ASSUME alg = "RS256", p = 1, posted.listed = <<RemoteEntry>>
      PROVE  /\ Sound(Build(posted), alg) /\ Build(posted).kid = p /\ Build(posted).alg = alg
             /\ p \in Knows(Build(posted))
  <2> PICK ring : ring = <<RemoteEntry, Entry(1)>>
    OBVIOUS
  <2>1. DOMAIN ring = {1, 2} /\ ring[1] = RemoteEntry /\ ring[2] = Entry(1)
    OBVIOUS
  <2>2. Build(posted) = Served(alg, p, ring)
    BY <1>4, BuildRemote DEF Published
  <2>3. RingOf(ring) /\ 1 \in {ring[i].kid : i \in DOMAIN ring}
    BY <2>1, EntryFields DEF RingOf, RemoteEntry, Entry
  <2>4. p \in Knows(Build(posted))
    BY <1>1, <1>4, <2>2, <2>3 DEF Knows
  <2> QED
    BY <1>1, <2>2, <2>3, <2>4 DEF Sound
<1>5. alg # "none"
  OBVIOUS
<1>6. \A s : s = NoService => s.alg = "none"
  BY DEF NoService
<1>7. CASE phase = "announced"
  <2>1. p + 1 \in Nat /\ p + 1 # p
    OBVIOUS
  <2>2. /\ Sound(Build(posted), alg) /\ Build(posted).kid = p /\ Build(posted).alg = alg
        /\ Knows(Build(posted)) = {p, p + 1}
    BY <1>2, <1>7, <2>1 DEF Published
  <2> QED
    BY <1>5, <1>6, <1>7, <2>2
<1>8. CASE phase = "promoted"
  <2>1. p - 1 \in Nat /\ p - 1 # p
    BY <1>8 DEF Published
  <2>2. /\ Sound(Build(posted), alg) /\ Build(posted).kid = p /\ Build(posted).alg = alg
        /\ Knows(Build(posted)) = {p, p - 1}
    BY <1>2, <1>8, <2>1 DEF Published
  <2> QED
    BY <1>5, <1>6, <1>8, <2>2
<1>9. CASE phase = "steady"
  <2>1. /\ Sound(Build(posted), alg) /\ Build(posted).kid = p /\ Build(posted).alg = alg
        /\ p \in Knows(Build(posted))
    BY <1>3, <1>4, <1>9 DEF Published
  <2> QED
    BY <1>5, <1>6, <1>9, <2>1
<1> QED
  BY <1>7, <1>8, <1>9 DEF Published

\* A token whose kid is known is accepted, inside and outside.
LEMMA KnownAccepted ==
  ASSUME NEW s, NEW t, NEW alg, Sound(s, alg), t.left > 0, t.alg = alg, t.kid = t.material,
         t.kid \in Knows(s)
  PROVE  /\ Accepts(s, t)
         /\ alg = "RS256" => AcceptsOutside(Jwks(s), t)
<1> DEFINE ring == s.verify
           named == {i \in DOMAIN ring : ring[i].kid = t.kid}
<1>1. /\ DOMAIN ring = {1} \/ DOMAIN ring = {1, 2}
      /\ \A i \in DOMAIN ring : ring[i] = Entry(ring[i].kid)
      /\ s.alg = alg
  BY DEF Sound, RingOf
<1>2. PICK k \in named : k = 1 \/ (k = 2 /\ ring[1].kid # t.kid)
  BY <1>1 DEF Knows
<1>3. \A j \in named : k <= j
  BY <1>1, <1>2
<1>4. \A i \in named : ring[i] = Entry(t.kid) /\ ring[i].material = t.material
  BY <1>1 DEF Entry
<1>5. named # {} /\ named = {i \in DOMAIN s.verify : s.verify[i].kid = t.kid}
  BY <1>2
<1>6. Resolve(s, t.kid) = t.material
  <2> HIDE DEF named
  <2>1. (CHOOSE i \in named : \A j \in named : i <= j) \in named
    BY <1>3
  <2>2. Resolve(s, t.kid) = s.verify[CHOOSE i \in named : \A j \in named : i <= j].material
    BY <1>5 DEF Resolve
  <2> QED
    BY <1>4, <2>1, <2>2
<1>7. Accepts(s, t)
  BY <1>1, <1>6 DEF Accepts
<1>8. ASSUME alg = "RS256" PROVE AcceptsOutside(Jwks(s), t)
  <2>1. k \in FirstsOf(ring)
    BY <1>1, <1>2 DEF FirstsOf
  <2>2. ring[k] = [kid |-> t.kid, material |-> t.material]
    BY <1>4 DEF Entry
  <2>3. [kid |-> t.kid, material |-> t.material] \in Jwks(s)
    BY <1>1, <1>8, <2>1, <2>2 DEF Jwks
  <2> QED
    BY <1>8, <2>3 DEF AcceptsOutside
<1> QED
  BY <1>7, <1>8

\* Nothing is installed at first.
LEMMA KeyInitial == KeyInit => KeyInv
<1> SUFFICES ASSUME KeyInit PROVE KeyInv
  OBVIOUS
<1>1. service = [r \in AuthReplicas |-> NoService]
  BY DEF KeyInit
<1>2. \E D : service \in [AuthReplicas -> D]
  <2>1. service \in [AuthReplicas -> {NoService}]
    BY <1>1
  <2> QED
    BY <2>1
<1>3. KeyTyped
  BY <1>2, KeyAssumption DEF KeyInit, KeyTyped
<1>4. Running
  BY <1>1 DEF KeyInit, Running
<1>5. Leaving
  BY DEF KeyInit, Leaving
<1> QED
  BY <1>3, <1>4, <1>5 DEF KeyInv

\* The invariant gives the property.
LEMMA KeyInvSays == KeyInv => KeysHonoured
<1> SUFFICES ASSUME KeyInv PROVE KeysHonoured
  OBVIOUS
<1>1. ASSUME NEW t \in tokens, NEW r \in AuthReplicas, t.left > 0
      PROVE  /\ Accepts(service[r], t)
             /\ service[r].alg = "RS256" => AcceptsOutside(Jwks(service[r]), t)
  <2>1. rollout # "none"
    BY DEF KeyInv, Running
  <2>2. /\ Sound(service[r], settings.alg) /\ Signers \subseteq Knows(service[r])
        /\ t.alg = settings.alg /\ t.kid = t.material /\ t.kid \in Signers
    BY <1>1, <2>1 DEF KeyInv, Running, Leaving
  <2>3. service[r].alg = settings.alg
    BY <2>2 DEF Sound
  <2> QED
    BY <1>1, <2>2, <2>3, KnownAccepted
<1>2. TokensHonoured
  BY <1>1 DEF TokensHonoured
<1>3. OutsideAgrees
  BY <1>1 DEF OutsideAgrees, Accepts, AcceptsOutside
<1>4. ASSUME NEW r \in AuthReplicas, service[r] # NoService
      PROVE  Accepts(service[r], TokenOf(service[r], TokenTtl))
  <2>1. Sound(service[r], settings.alg)
    BY <1>4 DEF KeyInv, Running
  <2> PICK t : t = TokenOf(service[r], TokenTtl)
    OBVIOUS
  <2>2. t.alg = settings.alg /\ t.kid = t.material /\ t.kid \in Knows(service[r]) /\ t.left > 0
    BY <2>1, KeyAssumption DEF Sound, TokenOf
  <2> QED
    BY <2>1, <2>2, KnownAccepted
<1>5. FreshAccepted
  BY <1>4 DEF FreshAccepted
<1> QED
  BY <1>2, <1>3, <1>5 DEF KeysHonoured

\* The first settings are published and every replica starts with them.
LEMMA InstallStep ==
  ASSUME KeyInv, KidPolicy = "renamed", NEW alg \in {"RS256", "HS256"}, NEW own \in BOOLEAN,
         Install(alg, own)
  PROVE  KeyInv'
<1>1. /\ rollout = "none" /\ rollout' = "steady" /\ (alg = "HS256" => own)
      /\ settings' = [alg |-> alg, private |-> 1, kid |-> SigningKid(1),
                      listed |-> <<IF own THEN NewEntry(alg, 1) ELSE RemoteEntry>>]
      /\ service' = [r \in AuthReplicas |-> Build(settings')]
      /\ UNCHANGED <<tokens, sinceRolled>>
  BY DEF Install
<1>2. tokens = {} /\ sinceRolled = 0
  BY <1>1 DEF KeyInv, Running
<1>3. SigningKid(1) = 1 /\ NewEntry(alg, 1) = Entry(1)
  BY DEF SigningKid, NewEntry, Entry
<1>4. /\ settings'.alg = alg /\ settings'.private = 1
      /\ settings'.listed = <<IF own THEN Entry(1) ELSE RemoteEntry>>
      /\ settings' = Env(alg, 1, settings'.listed)
  BY <1>1, <1>3 DEF Env
<1>5. Published(settings', "steady")
  BY <1>1, <1>4 DEF Published
<1>6. /\ Sound(Build(settings'), alg) /\ Build(settings').kid = 1 /\ 1 \in Knows(Build(settings'))
  BY <1>4, <1>5, BuildKnows
<1>7. Signers' = {1}
  BY <1>1, <1>4 DEF Signers
<1>8. KeyTyped'
  <2>1. service' \in [AuthReplicas -> {Build(settings')}]
    BY <1>1
  <2>2. 0 \in 0..TokenTtl
    BY KeyAssumption
  <2> QED
    BY <1>1, <1>2, <2>1, <2>2 DEF KeyTyped
<1>9. Running'
  BY <1>1, <1>4, <1>5, <1>6, <1>7 DEF Running
<1>10. Leaving'
  BY <1>1, <1>2 DEF Leaving
<1> QED
  BY <1>8, <1>9, <1>10 DEF KeyInv

\* What the invariant says once there are settings
LEMMA Afoot ==
  ASSUME KeyInv, rollout # "none"
  PROVE  /\ Published(settings, rollout) /\ settings.private \in Nat \ {0}
         /\ settings = Env(settings.alg, settings.private, settings.listed)
         /\ settings.alg \in {"RS256", "HS256"}
         /\ \A r \in AuthReplicas : /\ Sound(service[r], settings.alg)
                                    /\ service[r].kid \in Signers /\ Signers \subseteq Knows(service[r])
         /\ KeyTyped /\ Leaving
BY DEF KeyInv, Running, Published

\* The next key is listed, before anything is signed with it.
LEMMA AnnounceStep ==
  ASSUME KeyInv, KidPolicy = "renamed", Announce
  PROVE  KeyInv'
<1> PICK p \in Nat \ {0} : p = settings.private
  BY Afoot DEF Announce
<1>1. /\ rollout = "steady" /\ rollout' = "announced" /\ sinceRolled' = 0
      /\ settings' = [settings EXCEPT !.listed = <<NewEntry(settings.alg, p), NewEntry(settings.alg, p + 1)>>]
      /\ UNCHANGED <<service, tokens>>
  BY DEF Announce
<1>2. /\ settings = Env(settings.alg, p, settings.listed) /\ settings.alg \in {"RS256", "HS256"}
      /\ KeyTyped /\ Leaving
  BY <1>1, Afoot
<1>3. \A g : NewEntry(settings.alg, g) = Entry(g)
  BY DEF NewEntry, Entry
<1>4. /\ settings'.alg = settings.alg /\ settings'.private = p
      /\ settings'.listed = <<Entry(p), Entry(p + 1)>>
      /\ settings' = Env(settings.alg, p, settings'.listed)
  BY <1>1, <1>2, <1>3 DEF Env
<1>5. Published(settings', "announced")
  BY <1>2, <1>4 DEF Published
<1>6. Signers' = Signers
  BY <1>1, <1>4 DEF Signers
<1>7. KeyTyped'
  <2>1. 0 \in 0..TokenTtl
    BY KeyAssumption
  <2> QED
    BY <1>1, <1>2, <2>1 DEF KeyTyped
<1>8. Running'
  BY <1>1, <1>4, <1>5, <1>6, Afoot DEF Running
<1>9. Leaving'
  BY <1>1, <1>2, <1>4, <1>6 DEF Leaving
<1> QED
  BY <1>7, <1>8, <1>9 DEF KeyInv

\* The next key signs; the one before stays listed.
LEMMA PromoteStep ==
  ASSUME KeyInv, KidPolicy = "renamed", Promote
  PROVE  KeyInv'
<1> PICK p \in Nat \ {0} : p = settings.private
  BY Afoot DEF Promote
<1>1. /\ rollout = "announced" /\ rollout' = "promoted" /\ sinceRolled' = 0 /\ Rolled
      /\ settings' = [settings EXCEPT !.private = @ + 1, !.kid = SigningKid(p + 1),
                                      !.listed = Reverse(@)]
      /\ UNCHANGED <<service, tokens>>
  BY DEF Promote
<1>2. /\ settings = Env(settings.alg, p, settings.listed) /\ settings.alg \in {"RS256", "HS256"}
      /\ settings.listed = <<Entry(p), Entry(p + 1)>> /\ Published(settings, rollout)
      /\ KeyTyped /\ Leaving
  BY <1>1, Afoot DEF Published
<1> PICK q \in Nat : q = p + 1
  OBVIOUS
<1>3. SigningKid(q) = q /\ Reverse(settings.listed) = <<Entry(q), Entry(p)>>
  BY <1>2 DEF SigningKid, Reverse
<1>4. /\ settings'.alg = settings.alg /\ settings'.private = q
      /\ settings'.listed = <<Entry(q), Entry(p)>>
      /\ settings' = Env(settings.alg, q, settings'.listed)
  BY <1>1, <1>2, <1>3 DEF Env
<1>5. Published(settings', "promoted")
  <2>1. q - 1 = p /\ q \in Nat \ {0} /\ q > 1
    OBVIOUS
  <2> QED
    BY <1>2, <1>4, <2>1 DEF Published
<1>6. Signers' = {p, q} /\ Signers = {p}
  <2>1. q - 1 = p
    OBVIOUS
  <2> QED
    BY <1>1, <1>4, <2>1 DEF Signers
<1>7. \A r \in AuthReplicas : /\ Sound(service[r], settings.alg) /\ service[r].kid = p
                              /\ Knows(service[r]) = {p, q}
  BY <1>1, <1>2, BuildKnows DEF Rolled
<1>8. KeyTyped'
  <2>1. 0 \in 0..TokenTtl
    BY KeyAssumption
  <2> QED
    BY <1>1, <1>2, <2>1 DEF KeyTyped
<1>9. Running'
  BY <1>1, <1>4, <1>5, <1>6, <1>7 DEF Running
<1>10. Leaving'
  BY <1>1, <1>2, <1>4, <1>6, KeyAssumption DEF Leaving, KeyTyped, Minted
<1> QED
  BY <1>8, <1>9, <1>10 DEF KeyInv

\* The one before is taken off, when its last token has run out.
LEMMA RetireStep ==
  ASSUME KeyInv, KidPolicy = "renamed", Retire
  PROVE  KeyInv'
<1> PICK p \in Nat \ {0} : p = settings.private
  BY Afoot DEF Retire
<1>1. /\ rollout = "promoted" /\ rollout' = "steady" /\ sinceRolled = TokenTtl /\ sinceRolled' = 0
      /\ Rolled /\ settings' = [settings EXCEPT !.listed = <<settings.listed[1]>>]
      /\ UNCHANGED <<service, tokens>>
  BY DEF Retire
<1>2. /\ settings = Env(settings.alg, p, settings.listed) /\ settings.alg \in {"RS256", "HS256"}
      /\ settings.listed = <<Entry(p), Entry(p - 1)>> /\ Published(settings, rollout)
      /\ KeyTyped /\ Leaving
  BY <1>1, Afoot DEF Published
<1>3. settings.listed[1] = Entry(p)
  BY <1>2
<1>4. /\ settings'.alg = settings.alg /\ settings'.private = p /\ settings'.listed = <<Entry(p)>>
      /\ settings' = Env(settings.alg, p, settings'.listed)
  BY <1>1, <1>2, <1>3 DEF Env
<1>5. Published(settings', "steady")
  BY <1>2, <1>4 DEF Published
<1>6. Signers' = {p} /\ Signers = {p - 1, p}
  BY <1>1, <1>4 DEF Signers
<1>7. \A r \in AuthReplicas : /\ Sound(service[r], settings.alg) /\ service[r].kid = p
                              /\ p \in Knows(service[r])
  BY <1>1, <1>2, BuildKnows DEF Rolled
<1>8. KeyTyped'
  <2>1. 0 \in 0..TokenTtl
    BY KeyAssumption
  <2> QED
    BY <1>1, <1>2, <2>1 DEF KeyTyped
<1>9. Running'
  BY <1>1, <1>4, <1>5, <1>6, <1>7 DEF Running
<1>10. \A t \in tokens : t.left > 0 => t.kid # p - 1
  BY <1>1, <1>2, KeyAssumption DEF Leaving, KeyTyped, Minted
<1>11. Leaving'
  BY <1>1, <1>2, <1>4, <1>6, <1>10 DEF Leaving
<1> QED
  BY <1>8, <1>9, <1>11 DEF KeyInv

\* A replica restarts and reads what is published.
LEMMA RollStep ==
  ASSUME KeyInv, NEW r \in AuthReplicas, Roll(r)
  PROVE  KeyInv'
<1>1. /\ rollout # "none" /\ service[r] # Build(settings)
      /\ service' = [service EXCEPT ![r] = Build(settings)]
      /\ UNCHANGED <<settings, rollout, tokens, sinceRolled>>
  BY DEF Roll
<1>2. PICK D : service \in [AuthReplicas -> D]
  BY DEF KeyInv, KeyTyped
<1>3. /\ service' \in [AuthReplicas -> D \cup {Build(settings)}] /\ service'[r] = Build(settings)
      /\ \A x \in AuthReplicas \ {r} : service'[x] = service[x]
  BY <1>1, <1>2
<1>4. /\ Sound(Build(settings), settings.alg) /\ Build(settings).kid \in Signers
      /\ Signers \subseteq Knows(Build(settings))
  BY <1>1, Afoot, BuildKnows DEF Signers
<1>5. ~Rolled
  BY <1>1 DEF Rolled
<1>6. sinceRolled = 0
  BY <1>1, <1>5 DEF KeyInv, Leaving
<1>7. Signers' = Signers
  BY <1>1 DEF Signers
<1>8. KeyTyped'
  BY <1>1, <1>3 DEF KeyInv, KeyTyped
<1>9. Running'
  BY <1>1, <1>3, <1>4, <1>7, Afoot DEF Running
<1>10. Leaving'
  BY <1>1, <1>6, <1>7 DEF KeyInv, Leaving
<1> QED
  BY <1>8, <1>9, <1>10 DEF KeyInv

\* A replica signs a token.
LEMMA IssueStep ==
  ASSUME KeyInv, NEW r \in AuthReplicas, NEW ttl \in 0..TokenTtl, Issue(r, ttl)
  PROVE  KeyInv'
<1> PICK t : t = TokenOf(service[r], IF ttl = 0 THEN TokenTtl ELSE ttl)
  OBVIOUS
<1>1. /\ service[r] # NoService /\ tokens' = tokens \cup {t}
      /\ UNCHANGED <<settings, rollout, service, sinceRolled>>
  BY DEF Issue
<1>2. rollout # "none"
  BY <1>1 DEF KeyInv, Running
<1>3. /\ Sound(service[r], settings.alg) /\ service[r].kid \in Signers
      /\ KeyTyped /\ Leaving /\ Published(settings, rollout)
  BY <1>2, Afoot
<1>4. /\ t.alg = settings.alg /\ t.kid = t.material /\ t.kid = service[r].kid
      /\ t.left \in 1..TokenTtl
  BY <1>3, KeyAssumption DEF Sound, TokenOf
<1>5. KeyTyped'
  <2>1. /\ settings.alg \in {"RS256", "HS256"} /\ t.kid \in Nat /\ t.left \in 0..TokenTtl
    <3>1. settings.private \in Nat \ {0} /\ settings.alg \in {"RS256", "HS256"}
      BY <1>3 DEF Published
    <3> QED
      BY <1>3, <1>4, <3>1 DEF Signers
  <2>2. t \in Minted
    BY <1>4, <2>1 DEF Minted, TokenOf
  <2> QED
    BY <1>1, <1>3, <2>2 DEF KeyTyped
<1>6. Signers' = Signers /\ Rolled' = Rolled
  BY <1>1 DEF Signers, Rolled
<1>7. Running'
  BY <1>1, <1>2, <1>6 DEF KeyInv, Running
<1>8. ASSUME rollout = "promoted", t.kid = settings.private - 1
      PROVE  t.left <= TokenTtl - sinceRolled
  <2>1. Build(settings).kid = settings.private
    BY <1>3, BuildKnows
  <2>2. settings.private \in Nat
    BY <1>3 DEF Published
  <2>3. service[r] # Build(settings)
    <3>1. settings.private - 1 # settings.private
      BY <2>2
    <3> QED
      BY <1>4, <1>8, <2>1, <3>1
  <2>a. ~Rolled
    BY <2>3 DEF Rolled
  <2>4. sinceRolled = 0
    BY <1>3, <1>8, <2>a DEF Leaving
  <2> QED
    BY <1>4, <2>4, KeyAssumption
<1>9. Leaving'
  BY <1>1, <1>3, <1>4, <1>6, <1>8 DEF Leaving
<1> QED
  BY <1>5, <1>7, <1>9 DEF KeyInv

\* The time: tokens run out, and the promotion gets older.
LEMMA KeyTickStep ==
  ASSUME KeyInv, KeyTick
  PROVE  KeyInv'
<1>1. /\ rollout # "none" /\ UNCHANGED <<settings, rollout, service>>
      /\ tokens' = {[t EXCEPT !.left = @ - 1] : t \in {u \in tokens : u.left > 0}}
      /\ sinceRolled' = IF Rolled /\ sinceRolled < TokenTtl THEN sinceRolled + 1 ELSE sinceRolled
  BY DEF KeyTick
<1>2. KeyTyped /\ Leaving
  BY <1>1, Afoot
<1>3. Signers' = Signers /\ Rolled' = Rolled
  BY <1>1 DEF Signers, Rolled
<1>4. sinceRolled' \in 0..TokenTtl
  BY <1>1, <1>2, KeyAssumption DEF KeyTyped
<1>5. ASSUME NEW t \in tokens'
      PROVE  \E u \in tokens : /\ u.left > 0 /\ t \in Minted /\ t.left = u.left - 1
                               /\ t.alg = u.alg /\ t.kid = u.kid /\ t.material = u.material
                               /\ u.left \in 0..TokenTtl
  <2>1. PICK u \in tokens : u.left > 0 /\ t = [u EXCEPT !.left = @ - 1]
    BY <1>1
  <2>2. u \in Minted
    BY <1>2 DEF KeyTyped
  <2>3. PICK n \in 0..TokenTtl : n = u.left - 1
    BY <2>1, <2>2, KeyAssumption DEF Minted
  <2>4. t = [u EXCEPT !.left = n]
    BY <2>1, <2>3
  <2>5. /\ t \in Minted /\ t.left = u.left - 1 /\ t.alg = u.alg /\ t.kid = u.kid
        /\ t.material = u.material /\ u.left \in 0..TokenTtl
    BY <2>2, <2>3, <2>4 DEF Minted
  <2> QED
    BY <2>1, <2>5
<1>6. KeyTyped'
  BY <1>1, <1>2, <1>4, <1>5 DEF KeyTyped
<1>7. Running'
  BY <1>1, <1>3 DEF KeyInv, Running
<1>8. ASSUME NEW t \in tokens', t.left > 0
      PROVE  t.alg = settings.alg /\ t.kid = t.material /\ t.kid \in Signers
  BY <1>2, <1>5 DEF Leaving
<1>9. ASSUME NEW t \in tokens', rollout = "promoted", t.kid = settings.private - 1
      PROVE  t.left <= TokenTtl - sinceRolled'
  <2>1. PICK u \in tokens : u.left > 0 /\ t.left = u.left - 1 /\ u.kid = t.kid /\ u.left \in 0..TokenTtl
    BY <1>5
  <2>2. u.left <= TokenTtl - sinceRolled
    BY <1>2, <1>9, <2>1 DEF Leaving
  <2>3. sinceRolled' <= sinceRolled + 1 /\ sinceRolled \in Nat /\ sinceRolled' \in Nat
    BY <1>1, <1>2, <1>4, KeyAssumption DEF KeyTyped
  <2> QED
    BY <2>1, <2>2, <2>3, KeyAssumption
<1>10. Leaving'
  BY <1>1, <1>2, <1>3, <1>8, <1>9 DEF Leaving
<1> QED
  BY <1>6, <1>7, <1>10 DEF KeyInv

\* Every step keeps the invariant.
LEMMA KeyStep ==
  ASSUME KidPolicy = "renamed"
  PROVE  KeyInv /\ [KeyNext]_keyVars => KeyInv'
<1> SUFFICES ASSUME KeyInv, [KeyNext]_keyVars PROVE KeyInv'
  OBVIOUS
<1>1. ASSUME NEW alg \in {"RS256", "HS256"}, NEW own \in BOOLEAN, Install(alg, own)
      PROVE  KeyInv'
  BY <1>1, InstallStep
<1>2. ASSUME NEW r \in AuthReplicas, Roll(r) PROVE KeyInv'
  BY <1>2, RollStep
<1>3. ASSUME NEW r \in AuthReplicas, NEW ttl \in 0..TokenTtl, Issue(r, ttl) PROVE KeyInv'
  BY <1>3, IssueStep
<1>4. ASSUME UNCHANGED keyVars PROVE KeyInv'
  BY <1>4 DEF keyVars, KeyInv, KeyTyped, Running, Leaving, Signers, Rolled
<1> QED
  BY <1>1, <1>2, <1>3, <1>4, AnnounceStep, PromoteStep, RetireStep, KeyTickStep DEF KeyNext

\* core/auth/jwt.py: through restarts in any order and rotations, every replica and
\* every outsider that reads the JWKS accepts what any replica signs while it
\* lasts, where every key has a kid of its own.
THEOREM KeysHonouredHolds ==
  ASSUME KidPolicy = "renamed"
  PROVE  KeySpec => []KeysHonoured
<1>1. KeyInit => KeyInv
  BY KeyInitial
<1>2. KeyInv /\ [KeyNext]_keyVars => KeyInv'
  BY KeyStep
<1>3. KeyInv => KeysHonoured
  BY KeyInvSays
<1> QED
  BY <1>1, <1>2, <1>3, PTL DEF KeySpec

------------------------------------------------------------------------------
(***************************************************************************)
(* The first of some positions in an order, which is how a list is cut.    *)
(***************************************************************************)

\* What comes before p
Before(P, order, p) == {q \in P : <<q, p>> \in order}

\* order is a strict total order of P
Orders(order, P) ==
  /\ \A p \in P : <<p, p>> \notin order
  /\ \A p, q \in P : p = q \/ <<p, q>> \in order \/ <<q, p>> \in order
  /\ \A p, q, r \in P : <<p, q>> \in order /\ <<q, r>> \in order => <<p, r>> \in order

\* Finitely many entries come before an entry.
LEMMA BeforeFinite ==
  ASSUME NEW P, IsFiniteSet(P), NEW order, NEW p
  PROVE  IsFiniteSet(Before(P, order, p)) /\ Cardinality(Before(P, order, p)) \in Nat
<1>1. Before(P, order, p) \subseteq P
  BY DEF Before
<1> QED
  BY <1>1, FS_Subset, FS_CardinalityType

\* An entry is among the first n exactly when fewer than n come before it.
LEMMA FirstOfSays ==
  ASSUME NEW n, NEW P, NEW order
  PROVE  /\ FirstOf(n, P, order) \subseteq P
         /\ \A p \in P : p \in FirstOf(n, P, order) <=> Cardinality(Before(P, order, p)) < n
BY DEF FirstOf, Before

\* What comes earlier has fewer before it.
LEMMA RankRises ==
  ASSUME NEW P, IsFiniteSet(P), NEW order, Orders(order, P), NEW p \in P, NEW q \in P,
         <<q, p>> \in order
  PROVE  Cardinality(Before(P, order, q)) < Cardinality(Before(P, order, p))
<1> DEFINE A == Before(P, order, q)  B == Before(P, order, p)
<1>1. A \subseteq B /\ q \in B /\ q \notin A
  BY DEF Before, Orders
<1>2. IsFiniteSet(A) /\ IsFiniteSet(B) /\ Cardinality(A) \in Nat /\ Cardinality(B) \in Nat
  BY BeforeFinite
<1> HIDE DEF A, B
<1>3. Cardinality(A) <= Cardinality(B) /\ (Cardinality(B) = Cardinality(A) => B = A)
  BY <1>1, <1>2, FS_Subset
<1>4. Cardinality(A) < Cardinality(B)
  BY <1>1, <1>2, <1>3
<1> QED
  BY <1>4 DEF A, B

\* What comes before one of the first is one of them, and what comes after one that is
\* not is not.
LEMMA FirstOfLower ==
  ASSUME NEW P, IsFiniteSet(P), NEW order, Orders(order, P), NEW n \in Int,
         NEW p \in FirstOf(n, P, order), NEW q \in P
  PROVE  /\ <<q, p>> \in order => q \in FirstOf(n, P, order)
         /\ q \notin FirstOf(n, P, order) => <<p, q>> \in order
<1>1. p \in P /\ Cardinality(Before(P, order, p)) < n
  BY FirstOfSays
<1>2. <<q, p>> \in order => q \in FirstOf(n, P, order)
  <2>1. Cardinality(Before(P, order, q)) \in Nat /\ Cardinality(Before(P, order, p)) \in Nat
    BY BeforeFinite
  <2> QED
    BY <1>1, <2>1, RankRises, FirstOfSays
<1> QED
  BY <1>1, <1>2 DEF Orders

\* A set of numbers has a least one.
LEMMA LeastNumber == ASSUME NEW S \in SUBSET Nat, S # {} PROVE \E m \in S : \A k \in S : m <= k
<1> DEFINE R == OpToRel(<, Nat)
<1>1. IsWellFoundedOn(R, Nat)
  BY NatLessThanWellFounded
<1>2. PICK m \in S : \A y \in S : ~ (<<y, m>> \in R)
  BY <1>1, WFMin
<1>3. \A y \in S : ~ (y < m)
  BY <1>2 DEF OpToRel
<1> QED
  BY <1>3

\* Of several, one is the earliest.
LEMMA Earliest ==
  ASSUME NEW P, IsFiniteSet(P), NEW order, Orders(order, P), NEW S \in SUBSET P, S # {}
  PROVE  \E p \in S : \A q \in S : q = p \/ <<p, q>> \in order
<1> DEFINE rank(q) == Cardinality(Before(P, order, q))
           ranks == {rank(q) : q \in S}
<1>1. \A q \in S : rank(q) \in Nat
  BY BeforeFinite
<1>2. \A p, q \in S : <<q, p>> \in order => rank(q) < rank(p)
  BY RankRises
<1> HIDE DEF rank
<1>3. ranks \in SUBSET Nat /\ ranks # {}
  BY <1>1
<1>4. PICK m \in ranks : \A k \in ranks : m <= k
  BY <1>3, LeastNumber
<1>5. PICK p \in S : rank(p) = m
  OBVIOUS
<1>6. ASSUME NEW q \in S PROVE q = p \/ <<p, q>> \in order
  <2>1. rank(p) <= rank(q)
    BY <1>4, <1>5
  <2>2. <<q, p>> \notin order
    BY <1>1, <1>2, <2>1
  <2> QED
    BY <2>2 DEF Orders
<1> QED
  BY <1>6

\* The first n are n, unless there are fewer: then they are all.
LEMMA FirstOfCount ==
  ASSUME NEW P, IsFiniteSet(P), NEW order, Orders(order, P), NEW n \in Nat
  PROVE  /\ Cardinality(P) \in Nat
         /\ Cardinality(P) <= n => FirstOf(n, P, order) = P
         /\ Cardinality(P) >= n => Cardinality(FirstOf(n, P, order)) = n
<1> DEFINE F == FirstOf(n, P, order)
           rank == [p \in F |-> Cardinality(Before(P, order, p))]
<1>1. Cardinality(P) \in Nat /\ F \subseteq P /\ IsFiniteSet(F) /\ Cardinality(F) \in Nat
  <2>1. F \subseteq P
    BY FirstOfSays
  <2> QED
    BY <2>1, FS_CardinalityType, FS_Subset
<1>2. \A p \in F : rank[p] \in 0..(n - 1)
  <2> SUFFICES ASSUME NEW p \in F PROVE rank[p] \in 0..(n - 1)
    OBVIOUS
  <2>1. Cardinality(Before(P, order, p)) < n
    BY <1>1, FirstOfSays
  <2>2. Cardinality(Before(P, order, p)) \in Nat
    BY BeforeFinite
  <2> QED
    BY <2>1, <2>2
<1>3. \A p, q \in F : rank[p] = rank[q] => p = q
  <2> SUFFICES ASSUME NEW p \in F, NEW q \in F, rank[p] = rank[q], p # q PROVE FALSE
    OBVIOUS
  <2>1. <<p, q>> \in order \/ <<q, p>> \in order
    BY <1>1 DEF Orders
  <2>2. rank[p] < rank[q] \/ rank[q] < rank[p]
    BY <1>1, <2>1, RankRises
  <2>3. rank[p] \in Int /\ rank[q] \in Int
    BY <1>2
  <2> QED
    BY <2>2, <2>3
<1>4. rank \in Injection(F, 0..(n - 1))
  BY <1>2, <1>3 DEF Injection, IsInjective
<1>5. IsFiniteSet(0..(n - 1)) /\ Cardinality(0..(n - 1)) = n
  BY FS_Interval
<1> HIDE DEF F, rank
<1>6. Cardinality(F) <= n
  BY <1>4, <1>5, FS_Injection
<1>7. CASE F = P
  BY <1>1, <1>6, <1>7 DEF F
<1>8. CASE F # P
  <2>1. PICK p \in P \ F : \A q \in P \ F : q = p \/ <<p, q>> \in order
    <3>1. PICK rest : rest = P \ F
      OBVIOUS
    <3>2. rest \in SUBSET P /\ rest # {}
      BY <1>1, <1>8, <3>1
    <3>3. \E p \in rest : \A q \in rest : q = p \/ <<p, q>> \in order
      BY <3>2, Earliest
    <3> QED
      BY <3>1, <3>3
  <2>2. Before(P, order, p) \subseteq F
    BY <2>1 DEF Before, Orders
  <2>3. Cardinality(Before(P, order, p)) <= Cardinality(F)
    BY <1>1, <2>2, FS_Subset
  <2>4. ~(Cardinality(Before(P, order, p)) < n)
    BY <2>1, FirstOfSays DEF F
  <2>5. Cardinality(Before(P, order, p)) \in Nat
    BY BeforeFinite
  <2>6. Cardinality(F) = n
    BY <1>1, <1>6, <2>3, <2>4, <2>5
  <2>7. Cardinality(F) # Cardinality(P)  /\ Cardinality(F) <= Cardinality(P)
    BY <1>1, <1>8, FS_Subset
  <2> QED
    BY <1>1, <2>6, <2>7 DEF F
<1> QED
  BY <1>7, <1>8

------------------------------------------------------------------------------
(***************************************************************************)
(* TaskListing.                                                            *)
(***************************************************************************)
Task == [tenant : {u.tenant : u \in Users}, owner : {u.id : u \in Users},
         status : TaskStatuses, space : {Private} \cup TaskSpaces]

ListingTyped == listed \in Seq(Task)

\* Tasks are finitely many, and each of the two orders is an order of them.
LEMMA TasksFinite ==
  ASSUME ListingTyped
  PROVE  /\ Len(listed) \in Nat /\ DOMAIN listed = 1..Len(listed)
         /\ \A P \in SUBSET (DOMAIN listed) :
              IsFiniteSet(P) /\ Orders(NewestFirst, P) /\ Orders(OldestFirst, P)
<1>1. Len(listed) \in Nat /\ DOMAIN listed = 1..Len(listed)
  BY DEF ListingTyped
<1>2. ASSUME NEW P \in SUBSET (DOMAIN listed)
      PROVE  IsFiniteSet(P) /\ Orders(NewestFirst, P) /\ Orders(OldestFirst, P)
  <2>1. IsFiniteSet(P)
    <3>1. IsFiniteSet(1..Len(listed))
      BY <1>1, FS_Interval
    <3> QED
      BY <1>1, <3>1, FS_Subset
  <2>2. \A p, q \in P : /\ <<p, q>> \in NewestFirst <=> p > q
                        /\ <<p, q>> \in OldestFirst <=> p < q
    BY DEF NewestFirst, OldestFirst
  <2>3. \A p \in P : p \in Int
    BY <1>1
  <2>4. Orders(NewestFirst, P)
    BY <2>2, <2>3 DEF Orders
  <2>5. Orders(OldestFirst, P)
    BY <2>2, <2>3 DEF Orders
  <2> QED
    BY <2>1, <2>4, <2>5
<1> QED
  BY <1>1, <1>2

\* What the store answers to a reader who asks from offset on, and what of it the reader
\* may see
Listed(u, st, offset) == StoreList(u.tenant, st, PageSize + offset)
Shown(u, st, offset) == {i \in Listed(u, st, offset) : CanRead(u, listed[i])}

\* The store answers with as many as were asked for at most, and an answer holds a task
\* exactly when fewer than that are newer.
LEMMA AnswerSays ==
  ASSUME ListingTyped, NEW u, NEW st, NEW offset \in Nat
  PROVE  LET S == Listed(u, st, offset)  M == Filtered(u.tenant, st)
         IN  /\ S \subseteq M /\ M \subseteq DOMAIN listed
             /\ IsFiniteSet(S) /\ Cardinality(S) \in Nat /\ Cardinality(S) <= PageSize + offset
             /\ \A i \in M : /\ i \in S <=> Cardinality(NewerThan(i, u, st)) < PageSize + offset
                             /\ i \in S => NewerThan(i, u, st) \subseteq S
             /\ Page(u, st, offset) =
                  FirstOf(offset + PageSize, Shown(u, st, offset), OldestFirst)
                    \ FirstOf(offset, Shown(u, st, offset), OldestFirst)
<1> DEFINE S == Listed(u, st, offset)
           M == Filtered(u.tenant, st)
           n == PageSize + offset
<1>1. n \in Nat
  BY ListingAssumption
<1>2. M \subseteq DOMAIN listed
  BY DEF Filtered
<1>3. IsFiniteSet(M) /\ Orders(NewestFirst, M)
  BY <1>2, TasksFinite
<1>4. S = FirstOf(n, M, NewestFirst)
  BY DEF Listed, StoreList
<1>5. Page(u, st, offset) =
        FirstOf(offset + PageSize, Shown(u, st, offset), OldestFirst)
          \ FirstOf(offset, Shown(u, st, offset), OldestFirst)
  BY DEF Page, Shown, Listed
<1>6. ASSUME NEW i \in M PROVE NewerThan(i, u, st) = Before(M, NewestFirst, i)
  BY <1>2 DEF NewerThan, Before, NewestFirst
<1> HIDE DEF S, M, n
<1>7. S \subseteq M /\ \A i \in M : i \in S <=> Cardinality(NewerThan(i, u, st)) < n
  BY <1>4, <1>6, FirstOfSays
<1>8. IsFiniteSet(S) /\ Cardinality(S) \in Nat
  BY <1>3, <1>7, FS_Subset, FS_CardinalityType
<1>9. Cardinality(S) <= n
  <2>1. /\ Cardinality(M) \in Nat
        /\ Cardinality(M) <= n => S = M
        /\ Cardinality(M) >= n => Cardinality(S) = n
    BY <1>1, <1>3, <1>4, FirstOfCount
  <2> QED
    BY <1>1, <1>8, <2>1
<1>10. ASSUME NEW i \in M, i \in S PROVE NewerThan(i, u, st) \subseteq S
  <2> SUFFICES ASSUME NEW j \in NewerThan(i, u, st) PROVE j \in S
    OBVIOUS
  <2>1. j \in M /\ <<j, i>> \in NewestFirst
    BY <1>6 DEF Before
  <2>2. i \in FirstOf(n, M, NewestFirst) /\ n \in Int
    BY <1>1, <1>4, <1>10
  <2>3. j \in FirstOf(n, M, NewestFirst)
    BY ONLY <1>3, <2>1, <2>2, FirstOfLower
  <2> QED
    BY <1>4, <2>3
<1> QED
  BY <1>2, <1>5, <1>7, <1>8, <1>9, <1>10 DEF S, M, n

\* The first page shows what the reader may see of the store's answer.
LEMMA FirstPage ==
  ASSUME ListingTyped, NEW u, NEW st
  PROVE  Page(u, st, 0) = Shown(u, st, 0)
<1> DEFINE S == Listed(u, st, 0)
           V == Shown(u, st, 0)
<1>1. PageSize \in Nat
  BY ListingAssumption
<1>2. /\ S \subseteq DOMAIN listed /\ IsFiniteSet(S) /\ Cardinality(S) \in Nat
      /\ Cardinality(S) <= PageSize
      /\ Page(u, st, 0) = FirstOf(0 + PageSize, V, OldestFirst) \ FirstOf(0, V, OldestFirst)
  BY <1>1, AnswerSays
<1>3. V \subseteq S
  BY DEF Shown
<1> HIDE DEF S, V
<1>4. V \subseteq DOMAIN listed /\ IsFiniteSet(V) /\ Cardinality(V) \in Nat /\ Cardinality(V) <= PageSize
  BY <1>1, <1>2, <1>3, FS_Subset, FS_CardinalityType
<1>5. FirstOf(PageSize, V, OldestFirst) = V
  BY <1>1, <1>4, TasksFinite, FirstOfCount
<1>6. FirstOf(0, V, OldestFirst) = {}
  <2> SUFFICES ASSUME NEW p \in FirstOf(0, V, OldestFirst) PROVE FALSE
    OBVIOUS
  <2>1. Cardinality(Before(V, OldestFirst, p)) < 0
    BY FirstOfSays
  <2>2. Cardinality(Before(V, OldestFirst, p)) \in Nat
    BY <1>4, BeforeFinite
  <2> QED
    BY <2>1, <2>2
<1>7. 0 + PageSize = PageSize
  BY <1>1
<1> QED
  BY <1>2, <1>5, <1>6, <1>7 DEF V

\* A page is a number of tasks.
LEMMA PageNatural == PageSize \in Nat /\ PageSize + 0 = PageSize
<1>1. PageSize \in Nat
  BY ListingAssumption
<1> QED
  BY <1>1

\* What the first page shows.
LEMMA RecentSaid == ASSUME ListingTyped PROVE RecentShown
<1> SUFFICES ASSUME NEW u \in Users, NEW st \in Filters, NEW i \in DOMAIN listed, u.tenant # ""
             PROVE  i \in Page(u, st, 0) <=>
                      /\ listed[i].tenant = u.tenant /\ st \in {"", listed[i].status}
                      /\ CanRead(u, listed[i])
                      /\ Cardinality(NewerThan(i, u, st)) < PageSize
  BY DEF RecentShown
<1>1. PageSize + 0 = PageSize
  BY PageNatural
<1>2. i \in Filtered(u.tenant, st) <=>
        listed[i].tenant = u.tenant /\ st \in {"", listed[i].status}
  BY DEF Filtered
<1>3. i \in Page(u, st, 0) <=> i \in Listed(u, st, 0) /\ CanRead(u, listed[i])
  BY FirstPage DEF Shown
<1>4. /\ Listed(u, st, 0) \subseteq Filtered(u.tenant, st)
      /\ \A j \in Filtered(u.tenant, st) :
           j \in Listed(u, st, 0) <=> Cardinality(NewerThan(j, u, st)) < PageSize + 0
  BY AnswerSays
<1>5. i \in Listed(u, st, 0) <=>
        i \in Filtered(u.tenant, st) /\ Cardinality(NewerThan(i, u, st)) < PageSize
  BY <1>1, <1>4
<1> QED
  BY <1>2, <1>3, <1>5

\* A task on a page has at least as many older ones in the store's answer as the offset
\* cut off, so less than a page of newer ones: it is on the first page.
LEMMA WithinSaid == ASSUME ListingTyped PROVE PagesWithinFirst
<1> SUFFICES ASSUME NEW u \in Users, NEW st \in Filters, NEW offset \in 1..MaxListed,
                    NEW p \in Page(u, st, offset)
             PROVE  p \in Page(u, st, 0)
  BY DEF PagesWithinFirst
<1> DEFINE S == Listed(u, st, offset)
           V == Shown(u, st, offset)
           older == Before(V, OldestFirst, p)
           newer == NewerThan(p, u, st)
<1>1. offset \in Nat /\ PageSize \in Nat
  BY ListingAssumption
<1>2. /\ S \subseteq Filtered(u.tenant, st) /\ Filtered(u.tenant, st) \subseteq DOMAIN listed
      /\ IsFiniteSet(S) /\ Cardinality(S) \in Nat /\ Cardinality(S) <= PageSize + offset
      /\ \A i \in Filtered(u.tenant, st) : i \in S => NewerThan(i, u, st) \subseteq S
      /\ Page(u, st, offset) =
           FirstOf(offset + PageSize, V, OldestFirst) \ FirstOf(offset, V, OldestFirst)
  BY <1>1, AnswerSays
<1>3. V \subseteq S /\ \A i \in V : CanRead(u, listed[i])
  BY DEF Shown
<1>4. \A q \in newer : q > p
  BY DEF NewerThan
<1>5. \A q \in older : q \in V /\ q < p
  BY DEF Before, OldestFirst
<1> HIDE DEF S, V
<1>6. p \in V /\ p \notin FirstOf(offset, V, OldestFirst)
  BY <1>2, FirstOfSays
<1>7. p \in S /\ p \in DOMAIN listed /\ p \in Filtered(u.tenant, st) /\ CanRead(u, listed[p])
  BY <1>2, <1>3, <1>6
<1>8. ~ (Cardinality(older) < offset)
  BY <1>6, FirstOfSays
<1> HIDE DEF older, newer
<1>9. older \subseteq S /\ newer \subseteq S
  BY <1>2, <1>3, <1>5, <1>7 DEF newer
<1>10. \A q \in S : q \in Int
  BY <1>2, TasksFinite
<1>11. p \notin older /\ p \notin newer /\ older \cap newer = {}
  BY <1>4, <1>5, <1>7, <1>9, <1>10
<1>12. Cardinality(newer) \in Nat /\ Cardinality(newer) < PageSize
  <2>1. IsFiniteSet(older) /\ IsFiniteSet(newer) /\ Cardinality(older) \in Nat /\ Cardinality(newer) \in Nat
    BY <1>2, <1>9, FS_Subset, FS_CardinalityType
  <2>2. PICK both : both = older \cup newer
    OBVIOUS
  <2>3. IsFiniteSet(both) /\ Cardinality(both) = Cardinality(older) + Cardinality(newer)
    <3>1. Cardinality(older \cap newer) = 0
      BY <1>11, FS_EmptySet
    <3>2. /\ IsFiniteSet(older \cup newer)
          /\ Cardinality(older \cup newer) =
               Cardinality(older) + Cardinality(newer) - Cardinality(older \cap newer)
      BY <2>1, FS_Union
    <3> QED
      BY <2>1, <2>2, <3>1, <3>2
  <2>4. p \notin both /\ both \cup {p} \subseteq S
    BY <1>7, <1>9, <1>11, <2>2
  <2>5. Cardinality(both \cup {p}) = Cardinality(both) + 1
    BY <2>3, <2>4, FS_AddElement
  <2>6. Cardinality(both \cup {p}) <= Cardinality(S)
    BY <1>2, <2>4, FS_Subset
  <2>7. Cardinality(older) + Cardinality(newer) + 1 <= PageSize + offset
    BY <1>1, <1>2, <2>1, <2>3, <2>5, <2>6
  <2> QED
    BY <1>1, <1>8, <2>1, <2>7
<1>13. p \in Listed(u, st, 0)
  <2>1. Cardinality(NewerThan(p, u, st)) < PageSize + 0
    BY <1>1, <1>12 DEF newer
  <2> QED
    BY <1>7, <2>1, AnswerSays
<1> QED
  BY <1>7, <1>13, FirstPage DEF Shown

\* core/access_control.py, api/routes/tasks.py list_tasks, storage/task_store.py
\* InMemoryTaskStore: for any users, spaces, page size and number of tasks, submitted
\* again under their ids or not, the first page shows exactly the tasks of the tenant
\* that are recent enough and readable, and no other page shows more.
THEOREM ListsRightHolds == ListingSpec => []ListsRight
<1>1. ListingInit => ListingTyped
  BY DEF ListingInit, ListingTyped
<1>2. ListingTyped /\ [ListingNext]_listingVars => ListingTyped'
  <2> SUFFICES ASSUME ListingTyped, [ListingNext]_listingVars PROVE ListingTyped'
    OBVIOUS
  <2>1. ASSUME NEW u \in Users, NEW i, NEW st \in TaskStatuses, SaveTask(u, i, st)
        PROVE  ListingTyped'
    <3>1. PICK record : record = [tenant |-> u.tenant, owner |-> u.id, status |-> st, space |-> Private]
      OBVIOUS
    <3>2. record \in Task
      BY <3>1 DEF Task
    <3>3. listed' = IF i \in DOMAIN listed THEN [listed EXCEPT ![i] = record] ELSE Append(listed, record)
      BY <2>1, <3>1 DEF SaveTask
    <3> QED
      BY <3>2, <3>3 DEF ListingTyped
  <2>2. ASSUME NEW i \in DOMAIN listed, NEW st \in TaskStatuses, NEW s \in TaskSpaces,
               UpdateTask(i, st, s)
        PROVE  ListingTyped'
    <3>1. PICK record : record = [listed[i] EXCEPT !.status = st, !.space = s]
      OBVIOUS
    <3>2. listed[i] \in Task
      BY DEF ListingTyped
    <3>3. record \in Task
      BY <3>1, <3>2 DEF Task
    <3>4. listed' = [listed EXCEPT ![i] = record]
      BY <2>2, <3>1, <3>2 DEF UpdateTask, ListingTyped, Task
    <3> QED
      BY <3>3, <3>4 DEF ListingTyped
  <2>3. CASE UNCHANGED listingVars
    BY <2>3 DEF listingVars, ListingTyped
  <2> QED
    BY <2>1, <2>2, <2>3 DEF ListingNext
<1>3. ListingTyped => ListsRight
  BY RecentSaid, WithinSaid DEF ListsRight
<1> QED
  BY <1>1, <1>2, <1>3, PTL DEF ListingSpec

------------------------------------------------------------------------------
(***************************************************************************)
(* AuditQuery.                                                             *)
(***************************************************************************)
AuditLine == [user : AuditUsers, kind : AuditKinds, at : Nat, zoned : BOOLEAN]

\* A file holds entries dated its day.
FilesTyped ==
  /\ instant \in 0..MaxInstant
  /\ dayFiles \in [Days -> Seq(AuditLine \cup {TornLine})]
  /\ kept \in [Days -> Seq(AuditLine)]
  /\ unended \subseteq Days /\ split \subseteq Days
  /\ legible \in [Days -> Int]
  /\ \A d \in Days : \A i \in DOMAIN dayFiles[d] :
       dayFiles[d][i] # TornLine => DayOf(dayFiles[d][i].at) = d

\* A file has a line for every entry that was kept, and another while it is unended.
LinesAccounted == \A d \in Days :
  Len(kept[d]) + (IF d \in unended THEN 1 ELSE 0) <= Len(dayFiles[d])

QueryInv == FilesTyped /\ LinesAccounted

\* Days are finitely many naturals, and every instant has its day.
LEMMA DaysAre ==
  /\ Days \subseteq Nat /\ IsFiniteSet(Days)
  /\ \A t \in 0..MaxInstant : DayOf(t) \in Days
<1>1. DayLength \in Nat \ {0} /\ MaxInstant \in Nat
  BY AuditQueryAssumption
<1>2. \A t \in Nat : t \div DayLength \in Nat /\ t % DayLength \in 0..(DayLength - 1)
                       /\ t = DayLength * (t \div DayLength) + (t % DayLength)
  BY <1>1, Z3
<1>3. ASSUME NEW t \in 0..MaxInstant PROVE t \div DayLength <= MaxInstant \div DayLength
  <2> DEFINE a == t \div DayLength  b == MaxInstant \div DayLength
  <2>1. a \in Nat /\ b \in Nat /\ t < DayLength * a + DayLength /\ DayLength * a <= t
          /\ MaxInstant < DayLength * b + DayLength /\ DayLength * b <= MaxInstant
    <3>1. t \in Nat
      BY <1>1
    <3> QED
      BY <1>1, <1>2, <3>1, SMTT(30)
  <2> HIDE DEF a, b
  <2> SUFFICES ASSUME a >= b + 1 PROVE FALSE
    BY <2>1 DEF a, b
  <2>2. DayLength * a >= DayLength * (b + 1) /\ DayLength * (b + 1) = DayLength * b + DayLength
    BY <1>1, <2>1, SMTT(30)
  <2> QED
    BY <1>1, <2>1, <2>2
<1>4. MaxInstant \div DayLength \in Nat
  BY <1>1, <1>2
<1>5. Days \subseteq Nat /\ IsFiniteSet(Days)
  BY <1>4, FS_Interval DEF Days
<1>6. ASSUME NEW t \in 0..MaxInstant PROVE DayOf(t) \in Days
  BY <1>1, <1>2, <1>3, <1>4 DEF DayOf, Days
<1> QED
  BY <1>5, <1>6

\* A place is a day and a position in that day's file, and places are finitely many.
LEMMA PlacesAre ==
  ASSUME NEW D, NEW files \in [Days -> Seq(D)]
  PROVE  /\ IsFiniteSet(Places(files))
         /\ \A p \in Places(files) : /\ p = <<p[1], p[2]>> /\ p[1] \in Days /\ p[1] \in Nat
                                     /\ p[2] \in DOMAIN files[p[1]] /\ p[2] \in Nat
                                     /\ files[p[1]][p[2]] \in D
<1> DEFINE F(d) == {d} \X (DOMAIN files[d])
           parts == {F(d) : d \in Days}
<1>1. Places(files) = UNION parts
  BY DEF Places
<1>2. ASSUME NEW d \in Days PROVE IsFiniteSet(F(d)) /\ DOMAIN files[d] = 1..Len(files[d])
  <2>1. DOMAIN files[d] = 1..Len(files[d]) /\ Len(files[d]) \in Nat
    OBVIOUS
  <2>2. IsFiniteSet(DOMAIN files[d])
    <3>1. IsFiniteSet(1..Len(files[d]))
      BY <2>1, FS_Interval
    <3> QED
      BY <2>1, <3>1
  <2>3. IsFiniteSet({d})
    BY FS_Singleton
  <2> QED
    BY <2>1, <2>2, <2>3, FS_Product
<1>3. ASSUME NEW p \in Places(files)
      PROVE  /\ p = <<p[1], p[2]>> /\ p[1] \in Days /\ p[1] \in Nat
             /\ p[2] \in DOMAIN files[p[1]] /\ p[2] \in Nat
             /\ files[p[1]][p[2]] \in D
  <2>1. PICK d \in Days : p \in F(d)
    BY <1>1
  <2>2. p = <<p[1], p[2]>> /\ p[1] = d /\ p[2] \in DOMAIN files[d]
    BY <2>1
  <2>3. files[d] \in Seq(D) /\ d \in Nat
    BY DaysAre
  <2> QED
    BY <1>2, <2>2, <2>3
<1> HIDE DEF F
<1>4. IsFiniteSet(parts)
  <2> DEFINE f == [d \in Days |-> F(d)]
  <2>1. f \in Surjection(Days, parts)
    BY DEF Surjection
  <2> HIDE DEF f
  <2> QED
    BY <2>1, DaysAre, FS_Surjection
<1>5. \A T \in parts : IsFiniteSet(T)
  BY <1>2
<1> HIDE DEF parts
<1>6. IsFiniteSet(UNION parts)
  BY <1>4, <1>5, FS_UNION
<1> QED
  BY <1>1, <1>3, <1>6

\* Readable places hold lines of the day whose file they are in, and are finitely many.
LEMMA ReadableAre ==
  ASSUME QueryInv
  PROVE  /\ IsFiniteSet(Readable)
         /\ \A p \in Readable : /\ p = <<p[1], p[2]>> /\ p[1] \in Days /\ p[1] \in Nat /\ p[2] \in Nat
                                /\ LineAt(p) \in AuditLine /\ DayOf(LineAt(p).at) = p[1]
<1>1. dayFiles \in [Days -> Seq(AuditLine \cup {TornLine})]
  BY DEF QueryInv, FilesTyped
<1>2. Readable \subseteq Places(dayFiles)
  BY DEF Readable
<1>3. IsFiniteSet(Places(dayFiles))
  BY <1>1, PlacesAre
<1>4. IsFiniteSet(Readable)
  BY <1>2, <1>3, FS_Subset
<1>5. ASSUME NEW p \in Readable
      PROVE  /\ p = <<p[1], p[2]>> /\ p[1] \in Days /\ p[1] \in Nat /\ p[2] \in Nat
             /\ LineAt(p) \in AuditLine /\ DayOf(LineAt(p).at) = p[1]
  <2>1. /\ p = <<p[1], p[2]>> /\ p[1] \in Days /\ p[1] \in Nat /\ p[2] \in Nat
        /\ p[2] \in DOMAIN dayFiles[p[1]] /\ dayFiles[p[1]][p[2]] \in AuditLine \cup {TornLine}
    BY <1>1, <1>2, PlacesAre
  <2>2. LineAt(p) # TornLine
    BY DEF Readable
  <2> QED
    BY <2>1, <2>2 DEF LineAt, QueryInv, FilesTyped
<1> QED
  BY <1>4, <1>5

\* Each of the two orders of the files is an order of the readable places.
LEMMA FilesOrdered ==
  ASSUME QueryInv, NEW P \in SUBSET Readable
  PROVE  IsFiniteSet(P) /\ Orders(NewFilesFirst, P) /\ Orders(OldFilesFirst, P)
<1>1. IsFiniteSet(P)
  BY ReadableAre, FS_Subset
<1>2. \A p, q \in P : /\ <<p, q>> \in NewFilesFirst <=> p[1] > q[1] \/ (p[1] = q[1] /\ p[2] < q[2])
                      /\ <<p, q>> \in OldFilesFirst <=> p[1] < q[1] \/ (p[1] = q[1] /\ p[2] < q[2])
  BY DEF NewFilesFirst, OldFilesFirst
<1>3. \A p \in P : p = <<p[1], p[2]>> /\ p[1] \in Int /\ p[2] \in Int
  BY ReadableAre
<1>4. \A p, q \in P : p[1] = q[1] /\ p[2] = q[2] => p = q
  BY <1>3
<1>5. Orders(NewFilesFirst, P)
  BY <1>2, <1>3, <1>4 DEF Orders
<1>6. Orders(OldFilesFirst, P)
  BY <1>2, <1>3, <1>4 DEF Orders
<1> QED
  BY <1>1, <1>5, <1>6

\* The limit of a query is a positive natural.
LEMMA LimitNatural == QueryLimit \in Nat /\ QueryLimit > 0
BY AuditQueryAssumption

\* Within the limit nothing is cut.
LEMMA AllRead ==
  ASSUME QueryInv, NEW since
  PROVE  /\ AllEntries(since) \subseteq Since(since) /\ IsFiniteSet(Since(since))
         /\ Cardinality(Since(since)) <= QueryLimit => AllEntries(since) = Since(since)
<1>1. Since(since) \in SUBSET Readable
  BY DEF Since
<1>2. IsFiniteSet(Since(since)) /\ Orders(NewFilesFirst, Since(since))
  BY <1>1, FilesOrdered
<1> QED
  BY <1>2, LimitNatural, FirstOfSays, FirstOfCount DEF AllEntries

\* The invariant says that a rule fires exactly when its window holds as many events as it takes.
LEMMA AlertsSaid == ASSUME QueryInv PROVE AlertsExact
<1> SUFFICES ASSUME NEW rule \in AlertRules, NEW o \in Overrides, NEW since
             PROVE  LET found == QueryKind({rule.kind}, since)
                    IN  /\ Cardinality(found) >= rule.threshold =>
                             Cardinality(Matching(rule, since)) >= rule.threshold
                        /\ Cardinality(Matching(rule, since)) >= rule.threshold
                             /\ Cardinality(Since(since)) <= QueryLimit
                           => Cardinality(found) >= rule.threshold
  BY DEF AlertsExact, Fired
<1> DEFINE found == QueryKind({rule.kind}, since)  all == Matching(rule, since)
<1>1. found \subseteq all /\ all \subseteq Since(since)
  BY AllRead DEF QueryKind, Matching
<1>2. Cardinality(Since(since)) <= QueryLimit => found = all
  BY AllRead DEF QueryKind, Matching
<1>3. IsFiniteSet(all)
  BY <1>1, AllRead, FS_Subset
<1>4. rule.threshold \in Int
  BY AuditQueryAssumption DEF AlertRules
<1>5. Cardinality(found) <= Cardinality(all) /\ Cardinality(found) \in Nat /\ Cardinality(all) \in Nat
  BY <1>1, <1>3, FS_Subset, FS_CardinalityType
<1> HIDE DEF found, all
<1>6. Cardinality(found) >= rule.threshold => Cardinality(all) >= rule.threshold
  BY <1>4, <1>5
<1> QED
  BY <1>2, <1>6 DEF found, all

\* The invariant says that a query of the disk is full, and leaves out no earlier day.
LEMMA DiskSaid == ASSUME QueryInv PROVE DiskQueryFull
<1> SUFFICES ASSUME NEW u \in AuditUsers, NEW first \in Days, NEW last \in Days
             PROVE  LET found == FromDisk(u, first, last, QueryLimit)
                        all   == {p \in Readable : LineAt(p).user = u /\ DayOf(LineAt(p).at) \in first..last}
                    IN  /\ found \subseteq all
                        /\ Cardinality(found) = IF Cardinality(all) > QueryLimit THEN QueryLimit
                                                ELSE Cardinality(all)
                        /\ \A p \in found, q \in all \ found : DayOf(LineAt(p).at) <= DayOf(LineAt(q).at)
  BY DEF DiskQueryFull
<1> DEFINE found == FromDisk(u, first, last, QueryLimit)
           all   == {p \in Readable : LineAt(p).user = u /\ DayOf(LineAt(p).at) \in first..last}
<1>1. Wanted(u, first, last) = all
  BY ReadableAre DEF Wanted
<1>2. all \in SUBSET Readable /\ found = FirstOf(QueryLimit, all, OldFilesFirst)
  BY <1>1 DEF FromDisk
<1>3. \A p \in all : DayOf(LineAt(p).at) = p[1] /\ p[1] \in Nat
  BY ReadableAre
<1> HIDE DEF all, found
<1>4. IsFiniteSet(all) /\ Orders(OldFilesFirst, all)
  BY <1>2, FilesOrdered
<1>5. found \subseteq all
  BY <1>2, FirstOfSays
<1>6. Cardinality(found) = IF Cardinality(all) > QueryLimit THEN QueryLimit ELSE Cardinality(all)
  BY <1>2, <1>4, LimitNatural, FirstOfCount
<1>7. ASSUME NEW p \in found, NEW q \in all \ found PROVE DayOf(LineAt(p).at) <= DayOf(LineAt(q).at)
  <2>1. QueryLimit \in Int /\ p \in FirstOf(QueryLimit, all, OldFilesFirst) /\ q \in all
          /\ q \notin FirstOf(QueryLimit, all, OldFilesFirst)
    BY <1>2, LimitNatural
  <2>2. <<p, q>> \in OldFilesFirst
    BY <1>4, <2>1, FirstOfLower
  <2>3. p[1] <= q[1]
    BY <1>3, <1>5, <2>2 DEF OldFilesFirst
  <2> QED
    BY <1>3, <1>5, <2>3
<1> QED
  BY <1>5, <1>6, <1>7 DEF all, found

\* The disk query finds all that is readable in a day's file.
LEMMA FoundAll == ASSUME QueryInv, NEW d \in Days PROVE FoundOn(d) = {p \in Readable : p[1] = d}
<1> DEFINE n == Cardinality(Places(dayFiles))
<1>1. IsFiniteSet(Places(dayFiles)) /\ n \in Nat
  <2>1. IsFiniteSet(Places(dayFiles))
    BY PlacesAre DEF QueryInv, FilesTyped
  <2> QED
    BY <2>1, FS_CardinalityType
<1>2. ASSUME NEW u \in AuditUsers PROVE FromDisk(u, d, d, n) = Wanted(u, d, d)
  <2> DEFINE W == Wanted(u, d, d)
  <2>1. FromDisk(u, d, d, n) = FirstOf(n, W, OldFilesFirst)
    BY DEF FromDisk
  <2>2. W \in SUBSET Readable /\ W \subseteq Places(dayFiles)
    BY DEF Wanted, Readable
  <2> HIDE DEF W, n
  <2>3. IsFiniteSet(W) /\ Orders(OldFilesFirst, W)
    BY <2>2, FilesOrdered
  <2>4. Cardinality(W) <= n
    BY <1>1, <2>2, FS_Subset DEF n
  <2>5. FirstOf(n, W, OldFilesFirst) = W
    BY <1>1, <2>3, <2>4, FirstOfCount
  <2> QED
    BY <2>1, <2>5 DEF W
<1>3. ASSUME NEW u \in AuditUsers
      PROVE  Wanted(u, d, d) = {p \in Readable : LineAt(p).user = u /\ p[1] = d}
  <2>1. \A p \in Readable : p[1] \in d..d <=> p[1] = d
    BY ReadableAre, DaysAre
  <2> QED
    BY <2>1 DEF Wanted
<1>4. \A p \in Readable : LineAt(p).user \in AuditUsers
  BY ReadableAre DEF AuditLine
<1>5. FoundOn(d) = UNION {Wanted(u, d, d) : u \in AuditUsers}
  BY <1>2 DEF FoundOn
<1> QED
  BY <1>3, <1>4, <1>5

\* The invariant says that a torn line hides one entry beside its own at most.
LEMMA TornSaid == ASSUME QueryInv PROVE TornLinesHideOne
<1> SUFFICES ASSUME NEW d \in Days, legible[d] = Whole
             PROVE  Len(kept[d]) <= Cardinality(FoundOn(d))
                               + Cardinality({i \in DOMAIN dayFiles[d] : dayFiles[d][i] = TornLine})
  BY DEF TornLinesHideOne
<1> DEFINE A == {i \in DOMAIN dayFiles[d] : dayFiles[d][i] # TornLine}
           B == {i \in DOMAIN dayFiles[d] : dayFiles[d][i] = TornLine}
           E == FoundOn(d)
<1>1. PICK m \in Nat : m = Len(kept[d])
  BY DEF QueryInv, FilesTyped
<1>2. PICK n \in Nat : n = Len(dayFiles[d]) /\ DOMAIN dayFiles[d] = 1..n
  BY DEF QueryInv, FilesTyped
<1>3. m <= n
  <2>1. m + (IF d \in unended THEN 1 ELSE 0) <= n
    BY <1>1, <1>2 DEF QueryInv, LinesAccounted
  <2> QED
    BY <2>1
<1>4. A \cup B = 1..n /\ A \cap B = {}
  BY <1>2
<1>5. IsFiniteSet(1..n) /\ Cardinality(1..n) = n
  BY FS_Interval
<1>6. ASSUME NEW i \in A PROVE <<d, i>> \in E
  <2>1. <<d, i>> \in Places(dayFiles)
    BY DEF Places
  <2>2. <<d, i>> \in Readable
    BY <2>1 DEF Readable, LineAt
  <2> QED
    BY <2>2, FoundAll
<1>7. IsFiniteSet(E)
  <2>1. FoundOn(d) \subseteq Readable
    BY FoundAll
  <2> QED
    BY <2>1, ReadableAre, FS_Subset
<1> HIDE DEF A, B, E
<1>8. IsFiniteSet(A) /\ IsFiniteSet(B)
  <2>1. A \subseteq 1..n /\ B \subseteq 1..n
    BY <1>4
  <2> QED
    BY <1>5, <2>1, FS_Subset
<1>9. Cardinality(A) <= Cardinality(E)
  <2> DEFINE f == [i \in A |-> <<d, i>>]
  <2>1. f \in Injection(A, E)
    BY <1>6 DEF Injection, IsInjective
  <2> HIDE DEF f
  <2> QED
    BY <1>7, <2>1, FS_Injection
<1>10. Cardinality(A \cup B) = Cardinality(A) + Cardinality(B) - Cardinality(A \cap B)
  BY <1>8, FS_Union
<1>11. Cardinality(A \cap B) = 0 /\ Cardinality(A \cup B) = n
  BY <1>4, <1>5, FS_EmptySet
<1>12. Cardinality(A) \in Nat /\ Cardinality(B) \in Nat /\ Cardinality(E) \in Nat
  BY <1>7, <1>8, FS_CardinalityType
<1>13. m <= Cardinality(E) + Cardinality(B)
  BY <1>3, <1>9, <1>10, <1>11, <1>12
<1> QED
  BY <1>1, <1>13 DEF B, E

\* The invariant says all that the queries promise.
LEMMA QueryInvSays == ASSUME QueryInv PROVE QueriesExact
<1>1. UsersFound
  BY AllRead DEF UsersFound, QueryByUser, Since
<1> QED
  BY <1>1, AlertsSaid, DiskSaid, TornSaid DEF QueriesExact

\* An empty log has the invariant.
LEMMA QueryBegins == ASSUME AuditQueryInit PROVE QueryInv
<1>1. \A D : <<>> \in Seq(D)
  OBVIOUS
<1>2. FilesTyped
  BY <1>1, AuditQueryAssumption DEF AuditQueryInit, FilesTyped, Whole
<1>3. LinesAccounted
  BY DEF AuditQueryInit, LinesAccounted
<1> QED
  BY <1>2, <1>3 DEF QueryInv

\* An entry is a line of its own day, and it is not the torn line.
LEMMA EntryDated ==
  ASSUME QueryInv, NEW e \in AuditEntries
  PROVE  e \in AuditLine /\ DayOf(e.at) \in Days /\ e # TornLine
<1>1. e.at \in 0..instant /\ e.user \in AuditUsers /\ e.kind \in AuditKinds /\ e \in AuditLine
  BY DEF AuditEntries, AuditLine
<1>2. e.at \in 0..MaxInstant
  <2>1. instant \in 0..MaxInstant /\ MaxInstant \in Nat
    BY AuditQueryAssumption DEF QueryInv, FilesTyped
  <2> QED
    BY <1>1, <2>1
<1>3. e # TornLine
  <2>1. e.at >= 0 /\ TornLine.at = -1
    BY <1>1 DEF TornLine, AuditLine
  <2> QED
    BY <2>1
<1> QED
  BY <1>1, <1>2, <1>3, DaysAre

\* A line more at the end of a day's file
LEMMA LineAdded ==
  ASSUME QueryInv, NEW d \in Days, NEW l \in AuditLine \cup {TornLine}, l # TornLine => DayOf(l.at) = d
  PROVE  LET files == [dayFiles EXCEPT ![d] = Append(@, l)]
         IN  /\ files \in [Days -> Seq(AuditLine \cup {TornLine})]
             /\ \A c \in Days : \A i \in DOMAIN files[c] :
                  files[c][i] # TornLine => DayOf(files[c][i].at) = c
             /\ Len(files[d]) = Len(dayFiles[d]) + 1
             /\ \A c \in Days \ {d} : files[c] = dayFiles[c]
<1> DEFINE files == [dayFiles EXCEPT ![d] = Append(@, l)]
<1>1. dayFiles \in [Days -> Seq(AuditLine \cup {TornLine})] /\ dayFiles[d] \in Seq(AuditLine \cup {TornLine})
  BY DEF QueryInv, FilesTyped
<1>2. PICK longer : longer = Append(dayFiles[d], l)
  OBVIOUS
<1>3. /\ longer \in Seq(AuditLine \cup {TornLine}) /\ Len(longer) = Len(dayFiles[d]) + 1
      /\ DOMAIN longer = 1..(Len(dayFiles[d]) + 1) /\ Len(dayFiles[d]) \in Nat
      /\ DOMAIN dayFiles[d] = 1..Len(dayFiles[d])
      /\ \A i \in 1..Len(dayFiles[d]) : longer[i] = dayFiles[d][i]
      /\ longer[Len(dayFiles[d]) + 1] = l
  BY <1>1, <1>2
<1>4. files = [dayFiles EXCEPT ![d] = longer]
  BY <1>2
<1>5. /\ files \in [Days -> Seq(AuditLine \cup {TornLine})] /\ files[d] = longer
      /\ \A c \in Days \ {d} : files[c] = dayFiles[c]
  BY <1>1, <1>3, <1>4
<1> HIDE DEF files
<1>6. ASSUME NEW c \in Days, NEW i \in DOMAIN files[c], files[c][i] # TornLine
      PROVE  DayOf(files[c][i].at) = c
  <2>1. \A b \in Days : \A j \in DOMAIN dayFiles[b] :
          dayFiles[b][j] # TornLine => DayOf(dayFiles[b][j].at) = b
    BY DEF QueryInv, FilesTyped
  <2>2. CASE c # d
    BY <1>5, <1>6, <2>1, <2>2
  <2>3. CASE c = d /\ i \in 1..Len(dayFiles[d])
    BY <1>3, <1>5, <1>6, <2>1, <2>3
  <2>4. CASE c = d /\ i = Len(dayFiles[d]) + 1
    BY <1>3, <1>5, <1>6, <2>4
  <2> QED
    BY <1>3, <1>5, <1>6, <2>2, <2>3, <2>4
<1> QED
  BY <1>3, <1>5, <1>6 DEF files

\* Where decoding of a file ends stays a number.
LEMMA LegibleTyped ==
  ASSUME QueryInv, NEW d \in Days, NEW line, WriteLine(d, line) PROVE legible' \in [Days -> Int]
<1>1. legible \in [Days -> Int] /\ Len(dayFiles[d]) \in Nat
  BY DEF QueryInv, FilesTyped
<1>2. CASE d \in split /\ legible[d] = Whole
  <2>1. PICK n \in 0..(Len(dayFiles[d]) - 1) : legible' = [legible EXCEPT ![d] = n]
    BY <1>2 DEF WriteLine
  <2>2. n \in Int
    BY <1>1
  <2> QED
    BY <1>1, <2>1, <2>2
<1>3. CASE ~ (d \in split /\ legible[d] = Whole)
  BY <1>1, <1>3 DEF WriteLine
<1> QED
  BY <1>2, <1>3

\* A line appended to its day's file keeps the invariant.
LEMMA AppendEntryStep == ASSUME QueryInv, NEW e \in AuditEntries, AppendEntry(e) PROVE QueryInv'
<1> DEFINE d == DayOf(e.at)
<1>1. e \in AuditLine /\ d \in Days /\ e # TornLine
  BY EntryDated
<1>2. /\ kept' = [kept EXCEPT ![d] = Append(@, e)] /\ unended' = unended \ {d}
      /\ dayFiles' = IF d \in unended THEN dayFiles ELSE [dayFiles EXCEPT ![d] = Append(@, e)]
      /\ instant' = instant /\ split' = split \ {d} /\ WriteLine(d, e)
  BY DEF AppendEntry, WriteLine
<1>3. kept \in [Days -> Seq(AuditLine)] /\ \A c \in Days : Len(dayFiles[c]) \in Nat
  BY DEF QueryInv, FilesTyped
<1>4. /\ kept' \in [Days -> Seq(AuditLine)] /\ Len(kept'[d]) = Len(kept[d]) + 1
      /\ \A c \in Days \ {d} : kept'[c] = kept[c]
      /\ \A c \in Days : Len(kept[c]) \in Nat
  <2>1. PICK longer : longer = Append(kept[d], e)
    OBVIOUS
  <2>2. longer \in Seq(AuditLine) /\ Len(longer) = Len(kept[d]) + 1
    BY <1>1, <1>3, <2>1
  <2>3. kept' = [kept EXCEPT ![d] = longer]
    BY <1>2, <2>1
  <2> QED
    BY <1>1, <1>3, <2>2, <2>3
<1> HIDE DEF d
<1>5. /\ dayFiles' \in [Days -> Seq(AuditLine \cup {TornLine})]
      /\ \A c \in Days : \A i \in DOMAIN dayFiles'[c] :
           dayFiles'[c][i] # TornLine => DayOf(dayFiles'[c][i].at) = c
      /\ Len(dayFiles'[d]) = Len(dayFiles[d]) + (IF d \in unended THEN 0 ELSE 1)
      /\ \A c \in Days \ {d} : dayFiles'[c] = dayFiles[c]
  <2>1. CASE d \in unended
    BY <1>1, <1>2, <1>3, <2>1 DEF QueryInv, FilesTyped
  <2>2. CASE d \notin unended
    BY <1>1, <1>2, <2>2, LineAdded DEF d
  <2> QED
    BY <2>1, <2>2
<1>6. FilesTyped'
  <2>1. legible' \in [Days -> Int]
    BY <1>1, <1>2, LegibleTyped
  <2> QED
    BY <1>2, <1>4, <1>5, <2>1 DEF QueryInv, FilesTyped, Days
<1>7. ASSUME NEW c \in Days
      PROVE  Len(kept'[c]) + (IF c \in unended' THEN 1 ELSE 0) <= Len(dayFiles'[c])
  <2>1. Len(kept[c]) + (IF c \in unended THEN 1 ELSE 0) <= Len(dayFiles[c])
    BY DEF QueryInv, LinesAccounted
  <2>2. CASE c = d
    BY <1>2, <1>3, <1>4, <1>5, <2>1, <2>2
  <2>3. CASE c # d
    BY <1>2, <1>3, <1>4, <1>5, <2>1, <2>3
  <2> QED
    BY <2>2, <2>3
<1> QED
  BY <1>6, <1>7 DEF QueryInv, LinesAccounted

\* A line torn by a full disk or the end of the process keeps the invariant.
LEMMA TearEntryStep ==
  ASSUME QueryInv, NEW e \in AuditEntries, NEW inside \in BOOLEAN, TearEntry(e, inside)
  PROVE  QueryInv'
<1> DEFINE d == DayOf(e.at)
<1>1. d \in Days
  BY EntryDated
<1>2. /\ kept' = kept /\ unended' = unended \cup {d} /\ instant' = instant
      /\ split' \subseteq split \cup {d} /\ WriteLine(d, TornLine)
      /\ dayFiles' = IF d \in unended THEN dayFiles ELSE [dayFiles EXCEPT ![d] = Append(@, TornLine)]
  BY DEF TearEntry, WriteLine
<1>3. \A c \in Days : Len(dayFiles[c]) \in Nat /\ Len(kept[c]) \in Nat
  BY DEF QueryInv, FilesTyped
<1> HIDE DEF d
<1>5. /\ dayFiles' \in [Days -> Seq(AuditLine \cup {TornLine})]
      /\ \A c \in Days : \A i \in DOMAIN dayFiles'[c] :
           dayFiles'[c][i] # TornLine => DayOf(dayFiles'[c][i].at) = c
      /\ Len(dayFiles'[d]) = Len(dayFiles[d]) + (IF d \in unended THEN 0 ELSE 1)
      /\ \A c \in Days \ {d} : dayFiles'[c] = dayFiles[c]
  <2>1. CASE d \in unended
    BY <1>1, <1>2, <1>3, <2>1 DEF QueryInv, FilesTyped
  <2>2. CASE d \notin unended
    BY <1>1, <1>2, <2>2, LineAdded
  <2> QED
    BY <2>1, <2>2
<1>6. FilesTyped'
  <2>1. legible' \in [Days -> Int]
    BY <1>1, <1>2, LegibleTyped
  <2> QED
    BY <1>1, <1>2, <1>5, <2>1 DEF QueryInv, FilesTyped, Days
<1>7. ASSUME NEW c \in Days
      PROVE  Len(kept'[c]) + (IF c \in unended' THEN 1 ELSE 0) <= Len(dayFiles'[c])
  <2>1. Len(kept[c]) + (IF c \in unended THEN 1 ELSE 0) <= Len(dayFiles[c])
    BY DEF QueryInv, LinesAccounted
  <2>2. CASE c = d
    <3>1. d \in unended' /\ kept'[d] = kept[d]
      BY <1>2
    <3>2. CASE d \in unended
      BY <1>1, <1>3, <1>5, <2>1, <2>2, <3>1, <3>2
    <3>3. CASE d \notin unended
      BY <1>1, <1>3, <1>5, <2>1, <2>2, <3>1, <3>3
    <3> QED
      BY <3>2, <3>3
  <2>3. CASE c # d
    BY <1>2, <1>3, <1>5, <2>1, <2>3
  <2> QED
    BY <2>2, <2>3
<1> QED
  BY <1>6, <1>7 DEF QueryInv, LinesAccounted

\* core/audit/query.py and audit_logger.py query_from_disk: for any users, kinds,
\* limits, thresholds, entries, torn lines and files that cannot be decoded to their
\* end, what is asked of the files is answered as their legible entries say, and a
\* torn line costs one entry more at most where it was not cut inside a character.
THEOREM QueriesExactHolds == QuerySpecification => []QueriesExact
<1>1. AuditQueryInit => QueryInv
  BY QueryBegins
<1>2. QueryInv /\ [AuditQueryNext]_auditQueryVars => QueryInv'
  <2> SUFFICES ASSUME QueryInv, [AuditQueryNext]_auditQueryVars PROVE QueryInv'
    OBVIOUS
  <2>1. ASSUME NEW e \in AuditEntries, AppendEntry(e) PROVE QueryInv'
    BY <2>1, AppendEntryStep
  <2>2. ASSUME NEW e \in AuditEntries, NEW inside \in BOOLEAN, TearEntry(e, inside) PROVE QueryInv'
    BY <2>2, TearEntryStep
  <2>3. CASE PassTime
    <3>1. instant' = instant + 1 /\ instant < MaxInstant /\ UNCHANGED <<dayFiles, unended, split, legible, kept>>
      BY <2>3 DEF PassTime
    <3>2. instant' \in 0..MaxInstant
      BY <3>1, AuditQueryAssumption DEF QueryInv, FilesTyped
    <3> QED
      BY <3>1, <3>2 DEF QueryInv, FilesTyped, LinesAccounted
  <2>4. CASE UNCHANGED auditQueryVars
    BY <2>4 DEF auditQueryVars, QueryInv, FilesTyped, LinesAccounted
  <2> QED
    BY <2>1, <2>2, <2>3, <2>4 DEF AuditQueryNext
<1>3. QueryInv => QueriesExact
  BY QueryInvSays
<1> QED
  BY <1>1, <1>2, <1>3, PTL DEF QuerySpecification

------------------------------------------------------------------------------
(***************************************************************************)
(* GraphQueries.                                                           *)
(***************************************************************************)

\* What the links of E lead to from n, and from a set
Linked(E, n) == {m \in QueryNodes : <<n, m>> \in E \/ <<m, n>> \in E}
Around(E, S) == {m \in QueryNodes : \E x \in S : {<<x, m>>, <<m, x>>} \cap E # {}}

\* A walk of k steps, each along a link of E or none, and where it may end
Walk(E, w, n, k) ==
  /\ w \in [0..k -> QueryNodes] /\ w[0] = n
  /\ \A i \in 1..k : w[i] = w[i - 1] \/ w[i] \in Linked(E, w[i - 1])
Walked(E, n, k) == {m \in QueryNodes : \E w \in [0..k -> QueryNodes] : Walk(E, w, n, k) /\ w[k] = m}

\* The nodes around a set are those linked to a node of it.
LEMMA AroundIs == \A E, S : Around(E, S) = {m \in QueryNodes : \E x \in S : m \in Linked(E, x)}
BY DEF Around, Linked

\* No hop from a node reaches only the node.
LEMMA WalkedNone == ASSUME NEW E, NEW n \in QueryNodes PROVE Walked(E, n, 0) = {n}
<1>1. ASSUME NEW m \in Walked(E, n, 0) PROVE m = n
  BY DEF Walked, Walk
<1>2. n \in Walked(E, n, 0)
  <2> DEFINE w == [i \in 0..0 |-> n]
  <2>1. w \in [0..0 -> QueryNodes] /\ Walk(E, w, n, 0) /\ w[0] = n
    BY DEF Walk
  <2> HIDE DEF w
  <2> QED
    BY <2>1 DEF Walked
<1> QED
  BY <1>1, <1>2

\* One hop more reaches the nodes around those already reached.
LEMMA WalkedOn ==
  ASSUME NEW E, NEW n \in QueryNodes, NEW k \in Nat
  PROVE  Walked(E, n, k + 1) = Walked(E, n, k) \cup Around(E, Walked(E, n, k))
<1>1. ASSUME NEW m \in Walked(E, n, k + 1) PROVE m \in Walked(E, n, k) \cup Around(E, Walked(E, n, k))
  <2>1. PICK w \in [0..(k + 1) -> QueryNodes] : Walk(E, w, n, k + 1) /\ w[k + 1] = m
    BY DEF Walked
  <2> DEFINE v == [i \in 0..k |-> w[i]]
  <2>2. v \in [0..k -> QueryNodes] /\ Walk(E, v, n, k) /\ v[k] = w[k]
    BY <2>1 DEF Walk
  <2> HIDE DEF v
  <2>3. w[k] \in Walked(E, n, k)
    BY <2>1, <2>2 DEF Walked
  <2>4. m = w[k] \/ m \in Linked(E, w[k])
    <3>1. k + 1 \in 1..(k + 1) /\ (k + 1) - 1 = k
      OBVIOUS
    <3> QED
      BY <2>1, <3>1 DEF Walk
  <2> QED
    BY <2>3, <2>4, AroundIs DEF Walked, Linked
<1>2. ASSUME NEW x \in Walked(E, n, k), NEW m \in QueryNodes, m = x \/ m \in Linked(E, x)
      PROVE  m \in Walked(E, n, k + 1)
  <2>1. PICK w \in [0..k -> QueryNodes] : Walk(E, w, n, k) /\ w[k] = x
    BY DEF Walked
  <2> DEFINE v == [i \in 0..(k + 1) |-> IF i <= k THEN w[i] ELSE m]
  <2>2. v \in [0..(k + 1) -> QueryNodes] /\ v[0] = n /\ v[k + 1] = m
    BY <2>1 DEF Walk
  <2>3. ASSUME NEW i \in 1..(k + 1) PROVE v[i] = v[i - 1] \/ v[i] \in Linked(E, v[i - 1])
    <3>1. CASE i \in 1..k
      <4>1. v[i] = w[i] /\ v[i - 1] = w[i - 1]
        BY <3>1
      <4> QED
        BY <2>1, <3>1, <4>1 DEF Walk
    <3>2. CASE i = k + 1
      <4>1. v[i] = m /\ v[i - 1] = x
        BY <2>1, <3>2
      <4> QED
        BY <1>2, <4>1
    <3> QED
      BY <3>1, <3>2
  <2> HIDE DEF v
  <2>4. Walk(E, v, n, k + 1)
    BY <2>2, <2>3 DEF Walk
  <2> QED
    BY <2>2, <2>4 DEF Walked
<1>3. ASSUME NEW m \in Walked(E, n, k) \cup Around(E, Walked(E, n, k)) PROVE m \in Walked(E, n, k + 1)
  <2>1. m \in QueryNodes /\ \E x \in Walked(E, n, k) : m = x \/ m \in Linked(E, x)
    BY AroundIs DEF Walked
  <2> QED
    BY <1>2, <2>1
<1> QED
  BY <1>1, <1>3

\* The balls of Within are the ends of walks: the walks show that there are such balls,
\* and nothing else satisfies their equation.
LEMMA WithinWalked ==
  ASSUME NEW n \in QueryNodes, NEW k \in Nat
  PROVE  Within(n, k) = Walked(edges, n, k)
<1> DEFINE Next(f, i) == IF i = 0 THEN {n} ELSE f[i - 1] \cup Around(edges, f[i - 1])
           Ball(f) == f = [i \in 0..k |-> Next(f, i)]
           walked == [i \in 0..k |-> Walked(edges, n, i)]
           ball == CHOOSE f : Ball(f)
<1>1. Within(n, k) = ball[k]
  BY DEF Within, Around
<1>2. Ball(walked)
  <2>1. ASSUME NEW i \in 0..k PROVE walked[i] = Next(walked, i)
    <3>1. CASE i = 0
      BY <3>1, WalkedNone
    <3>2. CASE i # 0
      <4>1. i - 1 \in Nat /\ i - 1 \in 0..k /\ (i - 1) + 1 = i
        BY <3>2
      <4>2. Walked(edges, n, i) = Walked(edges, n, i - 1) \cup Around(edges, Walked(edges, n, i - 1))
        BY <4>1, WalkedOn
      <4> QED
        BY <3>2, <4>1, <4>2
    <3> QED
      BY <3>1, <3>2
  <2> QED
    BY <2>1
<1>3. Ball(ball)
  BY <1>2
<1> HIDE DEF ball
<1>4. \A i \in 0..k : ball[i] = Next(ball, i)
  BY <1>3
<1>5. \A i \in 0..k : ball[i] = Walked(edges, n, i)
  <2> DEFINE wrong == {i \in 0..k : ball[i] # Walked(edges, n, i)}
  <2> SUFFICES ASSUME wrong # {} PROVE FALSE
    OBVIOUS
  <2>1. wrong \in SUBSET Nat
    OBVIOUS
  <2>2. PICK i \in wrong : \A j \in wrong : i <= j
    BY <2>1, LeastNumber
  <2>3. i # 0
    BY <1>4, <2>2, WalkedNone
  <2>4. i - 1 \in 0..k /\ i - 1 \in Nat /\ (i - 1) + 1 = i /\ i - 1 \notin wrong
    BY <2>2, <2>3
  <2>5. ball[i - 1] = Walked(edges, n, i - 1)
    BY <2>4
  <2>6. ball[i] = ball[i - 1] \cup Around(edges, ball[i - 1])
    BY <1>4, <2>2, <2>3
  <2>7. Walked(edges, n, i) = Walked(edges, n, i - 1) \cup Around(edges, Walked(edges, n, i - 1))
    BY <2>4, WalkedOn
  <2> QED
    BY <2>2, <2>5, <2>6, <2>7
<1> QED
  BY <1>1, <1>5

\* m is d links from n, and no fewer.
Level(E, n, m, d) == m \in Walked(E, n, d) /\ (d = 0 \/ m \notin Walked(E, n, d - 1))

\* More hops reach no fewer nodes.
LEMMA WalkedGrows ==
  ASSUME NEW E, NEW n \in QueryNodes, NEW i \in Nat, NEW j \in Nat, i <= j
  PROVE  Walked(E, n, i) \subseteq Walked(E, n, j)
<1> DEFINE wrong == {k \in Nat : i <= k /\ ~(Walked(E, n, i) \subseteq Walked(E, n, k))}
<1> SUFFICES ASSUME wrong # {} PROVE FALSE
  OBVIOUS
<1>1. wrong \in SUBSET Nat
  OBVIOUS
<1>2. PICK k \in wrong : \A l \in wrong : k <= l
  BY <1>1, LeastNumber
<1>3. k - 1 \in Nat /\ k - 1 \notin wrong /\ i <= k - 1 /\ (k - 1) + 1 = k
  BY <1>2
<1>4. Walked(E, n, k) = Walked(E, n, k - 1) \cup Around(E, Walked(E, n, k - 1))
  BY <1>3, WalkedOn
<1> QED
  BY <1>2, <1>3, <1>4

\* The level of a node is no later than any number of hops that reaches it.
LEMMA LevelOne ==
  ASSUME NEW E, NEW n \in QueryNodes, NEW m, NEW i \in Nat, NEW j \in Nat,
         Level(E, n, m, i), m \in Walked(E, n, j)
  PROVE  i <= j
<1> SUFFICES ASSUME ~(i <= j) PROVE FALSE
  OBVIOUS
<1>1. i - 1 \in Nat /\ j <= i - 1 /\ i # 0
  OBVIOUS
<1>2. Walked(E, n, j) \subseteq Walked(E, n, i - 1)
  BY <1>1, WalkedGrows
<1> QED
  BY <1>1, <1>2 DEF Level

\* A node has one level.
LEMMA LevelUnique ==
  ASSUME NEW E, NEW n \in QueryNodes, NEW m, NEW i \in Nat, NEW j \in Nat,
         Level(E, n, m, i), Level(E, n, m, j)
  PROVE  i = j
<1>1. m \in Walked(E, n, i) /\ m \in Walked(E, n, j)
  BY DEF Level
<1>2. i <= j /\ j <= i
  BY <1>1, LevelOne
<1> QED
  BY <1>2

\* A node reached within k hops has a level of at most k.
LEMMA LevelThere ==
  ASSUME NEW E, NEW n \in QueryNodes, NEW m, NEW k \in Nat, m \in Walked(E, n, k)
  PROVE  \E d \in 0..k : Level(E, n, m, d)
<1> DEFINE near == {i \in Nat : m \in Walked(E, n, i)}
<1>1. near \in SUBSET Nat /\ near # {}
  OBVIOUS
<1>2. PICK d \in near : \A i \in near : d <= i
  BY <1>1, LeastNumber
<1>3. d \in Nat /\ d <= k
  BY <1>2
<1>4. d = 0 \/ m \notin Walked(E, n, d - 1)
  <2>1. CASE d # 0
    <3>1. d - 1 \in Nat /\ ~(d <= d - 1)
      BY <1>3, <2>1
    <3> QED
      BY <1>2, <3>1
  <2> QED
    BY <2>1
<1> QED
  BY <1>2, <1>3, <1>4 DEF Level

\* A walk that reaches nothing new goes no further.
LEMMA WalkedStops ==
  ASSUME NEW E, NEW n \in QueryNodes, NEW i \in Nat, NEW j \in Nat, i <= j,
         Walked(E, n, i + 1) = Walked(E, n, i)
  PROVE  Walked(E, n, j) = Walked(E, n, i)
<1> DEFINE wrong == {k \in Nat : i <= k /\ Walked(E, n, k) # Walked(E, n, i)}
<1> SUFFICES ASSUME wrong # {} PROVE FALSE
  OBVIOUS
<1>1. wrong \in SUBSET Nat
  OBVIOUS
<1>2. PICK k \in wrong : \A l \in wrong : k <= l
  BY <1>1, LeastNumber
<1>3. k - 1 \in Nat /\ k - 1 \notin wrong /\ i <= k - 1 /\ (k - 1) + 1 = k
  BY <1>2
<1>4. Walked(E, n, k - 1) = Walked(E, n, i)
  BY <1>3
<1>5. Walked(E, n, k) = Walked(E, n, k - 1) \cup Around(E, Walked(E, n, k - 1))
  BY <1>3, WalkedOn
<1>6. Walked(E, n, i + 1) = Walked(E, n, i) \cup Around(E, Walked(E, n, i))
  BY WalkedOn
<1> QED
  BY <1>2, <1>4, <1>5, <1>6

\* No node is further than there are nodes: every level up to its own has one.
LEMMA LevelBounded ==
  ASSUME IsFiniteSet(QueryNodes), NEW E, NEW n \in QueryNodes, NEW m, NEW d \in Nat,
         Level(E, n, m, d)
  PROVE  d <= Cardinality(QueryNodes)
<1>1. ASSUME NEW i \in 0..d PROVE \E x \in QueryNodes : Level(E, n, x, i)
  <2>1. CASE i = 0
    <3>1. n \in Walked(E, n, 0)
      BY WalkedNone
    <3> QED
      BY <2>1, <3>1 DEF Level
  <2>2. CASE i # 0
    <3>1. i - 1 \in Nat /\ d - 1 \in Nat /\ i - 1 <= d - 1 /\ i - 1 <= d /\ (i - 1) + 1 = i /\ d # 0
      BY <2>2
    <3>2. Walked(E, n, i - 1) \subseteq Walked(E, n, i)
      BY <3>1, WalkedGrows
    <3>3. Walked(E, n, i) # Walked(E, n, i - 1)
      <4> SUFFICES ASSUME Walked(E, n, i) = Walked(E, n, i - 1) PROVE FALSE
        OBVIOUS
      <4>1. Walked(E, n, d) = Walked(E, n, i - 1) /\ Walked(E, n, d - 1) = Walked(E, n, i - 1)
        BY <3>1, WalkedStops
      <4> QED
        BY <3>1, <4>1 DEF Level
    <3>4. PICK x : x \in Walked(E, n, i) /\ x \notin Walked(E, n, i - 1)
      BY <3>2, <3>3
    <3>5. x \in QueryNodes
      BY <3>4 DEF Walked
    <3> QED
      BY <3>4, <3>5 DEF Level
  <2> QED
    BY <2>1, <2>2
<1> DEFINE one == [i \in 0..d |-> CHOOSE x \in QueryNodes : Level(E, n, x, i)]
<1>2. \A i \in 0..d : one[i] \in QueryNodes /\ Level(E, n, one[i], i)
  BY <1>1
<1>3. one \in [0..d -> QueryNodes] /\ DOMAIN one = 0..d
  BY <1>2
<1> HIDE DEF one
<1>4. \A i, j \in 0..d : one[i] = one[j] => i = j
  <2> SUFFICES ASSUME NEW i \in 0..d, NEW j \in 0..d, one[i] = one[j] PROVE i = j
    OBVIOUS
  <2>1. i \in Nat /\ j \in Nat /\ Level(E, n, one[i], i) /\ Level(E, n, one[i], j)
    BY <1>2
  <2> QED
    BY <2>1, LevelUnique
<1>5. one \in Injection(0..d, QueryNodes)
  BY <1>3, <1>4 DEF Injection, IsInjective
<1>6. IsFiniteSet(0..d) /\ Cardinality(0..d) = d + 1
  BY FS_Interval
<1>7. Cardinality(0..d) <= Cardinality(QueryNodes)
  BY <1>5, FS_Injection
<1>8. Cardinality(QueryNodes) \in Nat
  BY FS_CardinalityType
<1> QED
  BY <1>6, <1>7, <1>8

\* Distance, counted along the walks
LEMMA DistanceIs ==
  ASSUME IsFiniteSet(QueryNodes), NEW n \in QueryNodes, NEW m
  PROVE  /\ \A d \in Nat : Level(edges, n, m, d) => Distance(n, m) = d
         /\ (\A k \in Nat : m \notin Walked(edges, n, k)) => Distance(n, m) = -1
<1> DEFINE near == {k \in 0..Cardinality(QueryNodes) : m \in Within(n, k)}
<1>1. Cardinality(QueryNodes) \in Nat
  BY FS_CardinalityType
<1>2. near = {k \in 0..Cardinality(QueryNodes) : m \in Walked(edges, n, k)}
  BY <1>1, WithinWalked
<1>3. Distance(n, m) = IF near = {} THEN -1 ELSE CHOOSE k \in near : \A j \in near : k <= j
  BY DEF Distance
<1> HIDE DEF near
<1>4. ASSUME NEW d \in Nat, Level(edges, n, m, d) PROVE Distance(n, m) = d
  <2>1. d \in near
    BY <1>1, <1>2, <1>4, LevelBounded DEF Level
  <2>2. \A j \in near : j \in Nat /\ d <= j
    BY <1>1, <1>2, <1>4, LevelOne
  <2>3. PICK first : first = CHOOSE k \in near : \A j \in near : k <= j
    OBVIOUS
  <2>4. first \in near /\ first <= d
    BY <2>1, <2>2, <2>3
  <2>5. first \in Nat /\ d <= first
    BY <2>2, <2>4
  <2>6. first = d
    BY <2>4, <2>5
  <2> QED
    BY <1>3, <2>1, <2>3, <2>6
<1>5. ASSUME \A k \in Nat : m \notin Walked(edges, n, k) PROVE Distance(n, m) = -1
  BY <1>1, <1>2, <1>3, <1>5
<1> QED
  BY <1>4, <1>5

\* SetToSeq lists a set, each element once.
LEMMA SetToSeqLists ==
  ASSUME NEW S, IsFiniteSet(S)
  PROVE  /\ SetToSeq(S) \in Seq(S)
         /\ \A i \in 1..Len(SetToSeq(S)) : SetToSeq(S)[i] \in S
         /\ \A x \in S : \E i \in 1..Len(SetToSeq(S)) : SetToSeq(S)[i] = x
<1> DEFINE Lists(f) == f \in [1..Cardinality(S) -> S] /\ IsInjective(f)
           list == CHOOSE f \in [1..Cardinality(S) -> S] : IsInjective(f)
<1>1. Cardinality(S) \in Nat
  BY FS_CardinalityType
<1>2. PICK c \in Nat : c = Cardinality(S)
  BY <1>1
<1>3. PICK k \in Nat : ExistsBijection(1..k, S)
  BY FS_NatBijection
<1>4. k = c
  BY <1>2, <1>3, FS_CountingElements
<1>5. PICK f : f \in Bijection(1..c, S)
  BY <1>3, <1>4 DEF ExistsBijection
<1>6. Lists(f)
  BY <1>2, <1>5 DEF Bijection, Injection
<1>7. SetToSeq(S) = list /\ Lists(list)
  BY <1>6 DEF SetToSeq
<1> HIDE DEF list
<1>8. list \in Injection(1..c, S)
  BY <1>2, <1>7 DEF Injection
<1>9. IsFiniteSet(1..c) /\ Cardinality(1..c) = c
  BY FS_Interval
<1>10. list \in Surjection(1..c, S)
  BY <1>2, <1>8, <1>9, FS_Injection
<1>11. list \in [1..c -> S] /\ Len(list) = c /\ list \in Seq(S)
  BY <1>8 DEF Injection
<1>12. \A x \in S : \E i \in 1..c : list[i] = x
  BY <1>10 DEF Surjection
<1> QED
  BY <1>7, <1>11, <1>12

Searches == [state : {"run", "done", "error"}, kind : {"neighbors", "path"},
             source : QueryNodes, target : QueryNodes, depth : 0..3,
             queue : Seq(QueryNodes \X Nat), visited : SUBSET QueryNodes,
             found : SUBSET (QueryNodes \X Nat)]

Waiting(s, x) == \E i \in DOMAIN s.queue : s.queue[i][1] = x

\* The queue goes out from the source level by level: everything nearer than its head has
\* been visited.
QueueByLevel(E, s) ==
  /\ \A i \in DOMAIN s.queue :
       /\ s.queue[i][1] \in s.visited /\ Level(E, s.source, s.queue[i][1], s.queue[i][2])
       /\ s.kind = "neighbors" => s.queue[i][2] < s.depth
  /\ \A i, j \in DOMAIN s.queue :
       i <= j => s.queue[i][2] <= s.queue[j][2] /\ s.queue[j][2] <= s.queue[i][2] + 1
  /\ s.queue # <<>> => Walked(E, s.source, Head(s.queue)[2]) \subseteq s.visited

\* What was visited can be reached, and was expanded unless it waits or is the last step
\* asked for.
Reached(E, s) ==
  /\ s.source \in s.visited
  /\ \A x \in s.visited :
       /\ \E d \in Nat : Level(E, s.source, x, d) /\ (s.kind = "neighbors" => d <= s.depth)
       /\ \/ Waiting(s, x) \/ Linked(E, x) \subseteq s.visited
          \/ s.kind = "neighbors" /\ Level(E, s.source, x, s.depth)

\* What was found so far
FoundSoFar(E, P, s) ==
  /\ s.kind = "neighbors" =>
       \A m \in QueryNodes, d \in Nat : <<m, d>> \in s.found <=>
         m \in s.visited /\ m \in P /\ m # s.source /\ Level(E, s.source, m, d)
  /\ s.kind = "path" => s.found = {} /\ s.target \notin s.visited

\* The answer, with levels for distances
Answered(E, P, s) ==
  /\ s.kind = "neighbors" =>
       \A m \in QueryNodes, d \in Nat : <<m, d>> \in s.found <=>
         /\ m \in Walked(E, s.source, s.depth) /\ m \in P /\ m # s.source
         /\ Level(E, s.source, m, d)
  /\ s.kind = "path" /\ Cardinality(s.visited) <= MaxVisited =>
       \/ \E d \in Nat : Level(E, s.source, s.target, d) /\ s.found = {<<s.target, d>>}
       \/ s.found = {} /\ \A k \in Nat : s.target \notin Walked(E, s.source, k)

SearchSound(E, P, s) ==
  /\ s \in Searches
  /\ s.kind = "neighbors" => s.depth >= 1
  /\ s.kind = "path" => s.target # s.source
  /\ s.state = "run" => QueueByLevel(E, s) /\ Reached(E, s) /\ FoundSoFar(E, P, s)
  /\ s.state = "done" => Answered(E, P, s)

\* A search begins with its source in the queue.
LEMMA SearchBegins ==
  ASSUME NEW E, NEW P, NEW s \in Searches, s.state = "run", s.queue = <<<<s.source, 0>>>>,
         s.visited = {s.source}, s.found = {}, s.kind = "neighbors" => s.depth >= 1,
         s.kind = "path" => s.target # s.source
  PROVE  SearchSound(E, P, s)
<1>1. s.source \in QueryNodes /\ s.depth \in Nat
  BY DEF Searches
<1>2. Walked(E, s.source, 0) = {s.source} /\ Level(E, s.source, s.source, 0)
  BY <1>1, WalkedNone DEF Level
<1>3. /\ DOMAIN s.queue = {1} /\ s.queue[1] = <<s.source, 0>> /\ Head(s.queue) = <<s.source, 0>>
      /\ s.queue[1][1] = s.source /\ s.queue[1][2] = 0 /\ Head(s.queue)[2] = 0
  OBVIOUS
<1>4. QueueByLevel(E, s)
  BY <1>1, <1>2, <1>3 DEF QueueByLevel
<1>5. Waiting(s, s.source)
  BY <1>3 DEF Waiting
<1>6. Reached(E, s)
  BY <1>1, <1>2, <1>5 DEF Reached
<1>7. ASSUME NEW m \in QueryNodes, NEW d \in Nat
      PROVE  <<m, d>> \in s.found <=>
         m \in s.visited /\ m \in P /\ m # s.source /\ Level(E, s.source, m, d)
  OBVIOUS
<1>8. FoundSoFar(E, P, s)
  BY <1>7 DEF FoundSoFar
<1> QED
  BY <1>4, <1>6, <1>8 DEF SearchSound

\* What a sequence with another behind it has
LEMMA Concatenated ==
  ASSUME NEW S, NEW a \in Seq(S), NEW b \in Seq(S), NEW u, u = a \o b
  PROVE  /\ u \in Seq(S) /\ Len(a) \in Nat /\ Len(b) \in Nat
         /\ DOMAIN a = 1..Len(a) /\ DOMAIN b = 1..Len(b) /\ DOMAIN u = 1..(Len(a) + Len(b))
         /\ \A i \in DOMAIN a : i \in DOMAIN u /\ u[i] = a[i]
         /\ \A i \in DOMAIN b : i + Len(a) \in DOMAIN u /\ u[i + Len(a)] = b[i]
<1>1. PICK k \in Nat : k = Len(a)
  OBVIOUS
<1>2. PICK l \in Nat : l = Len(b)
  OBVIOUS
<1>3. DOMAIN a = 1..k /\ DOMAIN b = 1..l
  BY <1>1, <1>2
<1>4. u \in Seq(S) /\ Len(u) = k + l /\ DOMAIN u = 1..(k + l)
  BY <1>1, <1>2
<1>5. \A i \in 1..k : i \in 1..(k + l) /\ u[i] = a[i]
  BY <1>1, <1>2
<1>6. \A i \in 1..l : i + k \in 1..(k + l) /\ u[i + k] = b[i]
  BY <1>1, <1>2
<1> QED
  BY <1>1, <1>2, <1>3, <1>4, <1>5, <1>6

\* A round: the head <<x, h>> leaves the queue, and what it newly leads to enters at the
\* next level, unless the search goes no further.
Round(E, s, x, h, fresh, new, r) ==
  /\ s \in Searches /\ QueueByLevel(E, s) /\ Reached(E, s)
  /\ s.queue # <<>> /\ Head(s.queue) = <<x, h>> /\ fresh = Linked(E, x) \ s.visited
  /\ new \in Seq(QueryNodes \X Nat) /\ \A i \in DOMAIN new : new[i][1] \in fresh /\ new[i][2] = h + 1
  /\ r \in Searches /\ r.source = s.source /\ r.kind = s.kind /\ r.depth = s.depth
  /\ r.visited = s.visited \cup fresh /\ r.queue = Tail(s.queue) \o new
  /\ s.kind = "neighbors" /\ new # <<>> => h + 1 < s.depth
  /\ \A f \in fresh :
       (\E i \in DOMAIN new : new[i][1] = f) \/ (s.kind = "neighbors" /\ h + 1 >= s.depth)

\* A round of a search keeps its queue in the order of levels and what it visited reached.
LEMMA RoundKeeps ==
  ASSUME NEW E, NEW s, NEW x, NEW h, NEW fresh, NEW new, NEW r, Round(E, s, x, h, fresh, new, r)
  PROVE  /\ QueueByLevel(E, r) /\ Reached(E, r)
         /\ x \in QueryNodes /\ h \in Nat /\ fresh \subseteq QueryNodes
         /\ \A f \in fresh : Level(E, s.source, f, h + 1)
<1> USE DEF Round
<1> DEFINE n == s.source  q == s.queue
<1>0. PICK t : t = Tail(q)
  OBVIOUS
<1>1. /\ n \in QueryNodes /\ q \in Seq(QueryNodes \X Nat) /\ s.depth \in Nat /\ q # <<>>
      /\ s.visited \subseteq QueryNodes /\ fresh \subseteq QueryNodes
  <2>1. n \in QueryNodes /\ q \in Seq(QueryNodes \X Nat) /\ s.depth \in 0..3 /\ s.visited \in SUBSET QueryNodes
    BY DEF Searches
  <2>2. fresh \subseteq QueryNodes
    BY DEF Linked
  <2> QED
    BY <2>1, <2>2
<1>2. /\ Len(q) \in Nat /\ 1 \in DOMAIN q /\ q[1] = <<x, h>> /\ DOMAIN q = 1..Len(q)
      /\ t \in Seq(QueryNodes \X Nat) /\ Len(t) = Len(q) - 1
      /\ \A i \in 1..Len(t) : t[i] = q[i + 1] /\ i + 1 \in 1..Len(q)
  <2>1. q \in Seq(QueryNodes \X Nat) /\ q # <<>> /\ Head(q) = <<x, h>>
    BY <1>1
  <2>2. PICK S : S = QueryNodes \X Nat
    OBVIOUS
  <2>3. PICK p \in Seq(S) : p = q
    BY <2>1, <2>2
  <2>4. /\ Len(p) \in Nat /\ Len(p) > 0 /\ p[1] = Head(p) /\ DOMAIN p = 1..Len(p)
        /\ Tail(p) \in Seq(S) /\ Len(Tail(p)) = Len(p) - 1
        /\ \A i \in 1..Len(Tail(p)) : Tail(p)[i] = p[i + 1]
    BY ONLY <2>1, <2>3
  <2>5. \A i \in 1..Len(Tail(p)) : i + 1 \in 1..Len(p)
    BY ONLY <2>4
  <2>6. 1 \in DOMAIN p
    BY ONLY <2>4
  <2> QED
    BY ONLY <1>0, <2>1, <2>2, <2>3, <2>4, <2>5, <2>6
<1>3. /\ x \in QueryNodes /\ h \in Nat /\ Level(E, n, x, h) /\ x \in s.visited
      /\ s.kind = "neighbors" => h < s.depth
  <2>1. q[1] \in QueryNodes \X Nat
    BY <1>1, <1>2
  <2>2. q[1][1] = x /\ q[1][2] = h /\ x \in QueryNodes /\ h \in Nat
    BY <1>2, <2>1
  <2> QED
    BY <1>2, <2>2 DEF QueueByLevel
<1>4. Walked(E, n, h) \subseteq s.visited
  BY <1>1, <1>2, <1>3 DEF QueueByLevel
<1>5. ASSUME NEW f \in fresh PROVE Level(E, n, f, h + 1)
  <2>1. f \in Around(E, Walked(E, n, h))
    BY <1>1, <1>3, AroundIs DEF Level
  <2>2. f \in Walked(E, n, h + 1)
    BY <1>1, <1>3, <2>1, WalkedOn
  <2>3. f \notin Walked(E, n, h) /\ (h + 1) - 1 = h
    BY <1>3, <1>4
  <2> QED
    BY <2>2, <2>3 DEF Level
<1>6. PICK u : u = r.queue /\ u = t \o new
  BY <1>0
<1>7. /\ u = t \o new /\ u \in Seq(QueryNodes \X Nat) /\ Len(new) \in Nat /\ Len(t) \in Nat
      /\ DOMAIN u = 1..(Len(t) + Len(new)) /\ DOMAIN t = 1..Len(t) /\ DOMAIN new = 1..Len(new)
      /\ \A i \in DOMAIN t : i \in DOMAIN u /\ u[i] = t[i]
      /\ \A i \in DOMAIN new : i + Len(t) \in DOMAIN u /\ u[i + Len(t)] = new[i]
  <2>1. t \in Seq(QueryNodes \X Nat) /\ u = t \o new /\ new \in Seq(QueryNodes \X Nat)
    BY <1>2, <1>6
  <2>2. PICK S : S = QueryNodes \X Nat
    OBVIOUS
  <2>3. t \in Seq(S) /\ new \in Seq(S)
    BY ONLY <2>1, <2>2
  <2> QED
    BY ONLY <2>1, <2>2, <2>3, Concatenated, SMTT(30)
\* Every entry of the queue is one that was there, or new.
<1>8. ASSUME NEW i \in DOMAIN u
      PROVE  \/ i <= Len(t) /\ i + 1 \in DOMAIN q /\ u[i] = q[i + 1]
             \/ i > Len(t) /\ u[i][1] \in fresh /\ u[i][2] = h + 1 /\ new # <<>>
  <2>1. CASE i <= Len(t)
    <3>1. i \in 1..Len(t) /\ u[i] = t[i]
      BY <1>7, <2>1
    <3> QED
      BY <1>2, <2>1, <3>1
  <2>2. CASE ~(i <= Len(t))
    <3>1. i - Len(t) \in DOMAIN new /\ (i - Len(t)) + Len(t) = i
      <4>1. PICK k \in Nat, l \in Nat : k = Len(t) /\ l = Len(new)
        BY <1>7
      <4>2. i \in 1..(k + l) /\ ~(i <= k) /\ DOMAIN new = 1..l
        BY <1>7, <2>2, <4>1
      <4>3. i - k \in 1..l /\ (i - k) + k = i
        BY <4>2
      <4> QED
        BY <4>1, <4>2, <4>3
    <3>2. PICK k \in DOMAIN new : k = i - Len(t)
      BY <3>1
    <3>3. u[i] = new[k] /\ new # <<>> /\ i > Len(t)
      BY <1>7, <2>2, <3>1, <3>2, SMTT(30)
    <3>4. new[k][1] \in fresh /\ new[k][2] = h + 1
      OBVIOUS
    <3> QED
      BY <3>3, <3>4
  <2> QED
    BY <2>1, <2>2
<1>9. \A i \in DOMAIN q : q[i][2] \in Nat /\ h <= q[i][2] /\ q[i][2] <= h + 1
  <2> SUFFICES ASSUME NEW i \in DOMAIN q PROVE q[i][2] \in Nat /\ h <= q[i][2] /\ q[i][2] <= h + 1
    OBVIOUS
  <2>1. q[i] \in QueryNodes \X Nat /\ 1 <= i /\ q[1][2] = h
    BY <1>1, <1>2
  <2> QED
    BY <1>2, <2>1 DEF QueueByLevel
<1>10. ASSUME NEW i \in DOMAIN u
       PROVE  u[i][2] \in Nat /\ h <= u[i][2] /\ u[i][2] <= h + 1
  <2>1. CASE i + 1 \in DOMAIN q /\ u[i] = q[i + 1]
    BY ONLY <1>9, <2>1
  <2>2. CASE u[i][2] = h + 1
    BY ONLY <1>3, <2>2
  <2> QED
    BY ONLY <1>8, <1>10, <2>1, <2>2
<1>11. ASSUME NEW i \in DOMAIN u
       PROVE  /\ u[i][1] \in r.visited /\ Level(E, n, u[i][1], u[i][2])
              /\ r.kind = "neighbors" => u[i][2] < r.depth
  BY <1>5, <1>8 DEF QueueByLevel
<1>12. ASSUME NEW i \in DOMAIN u, NEW j \in DOMAIN u, i <= j
       PROVE  u[i][2] <= u[j][2] /\ u[j][2] <= u[i][2] + 1
  <2>1. CASE j <= Len(t)
    <3>1. i \in Nat /\ j \in Nat /\ Len(t) \in Nat
      BY <1>7
    <3>2. i <= Len(t) /\ i + 1 <= j + 1
      BY <1>12, <2>1, <3>1
    <3>3. i + 1 \in DOMAIN q /\ u[i] = q[i + 1] /\ j + 1 \in DOMAIN q /\ u[j] = q[j + 1]
      BY <1>8, <2>1, <3>1, <3>2
    <3> QED
      BY <3>2, <3>3 DEF QueueByLevel
  <2>2. CASE ~(j <= Len(t))
    <3>1. u[j][2] = h + 1
      BY <1>8, <2>2
    <3>2. u[i][2] \in Nat /\ h <= u[i][2] /\ u[i][2] <= h + 1
      BY <1>10
    <3> QED
      BY <1>3, <3>1, <3>2
  <2> QED
    BY <2>1, <2>2
\* Everything of the head's level is expanded when the next level comes to the head.
<1>13. ASSUME NEW y \in s.visited
       PROVE  Waiting(r, y) \/ Linked(E, y) \subseteq r.visited
              \/ (r.kind = "neighbors" /\ Level(E, n, y, r.depth))
  <2>1. CASE y = x
    BY <2>1
  <2>2. CASE y # x /\ Waiting(s, y)
    <3>1. PICK i \in DOMAIN q : q[i][1] = y
      BY <2>2 DEF Waiting
    <3>2. i # 1
      BY <1>2, <2>2, <3>1
    <3>3. i - 1 \in DOMAIN t /\ t[i - 1] = q[i]
      <4>1. i \in 1..Len(q) /\ i - 1 \in 1..Len(t) /\ (i - 1) + 1 = i
        BY <1>2, <3>1, <3>2, SMTT(30)
      <4> QED
        BY <1>2, <1>7, <4>1
    <3>4. i - 1 \in DOMAIN u /\ u[i - 1][1] = y
      BY <1>7, <3>1, <3>3
    <3> QED
      BY <1>6, <3>4 DEF Waiting
  <2>3. CASE ~Waiting(s, y)
    BY <2>3 DEF Reached
  <2> QED
    BY <2>1, <2>2, <2>3
<1>14. ASSUME u # <<>> PROVE Walked(E, n, Head(u)[2]) \subseteq r.visited
  <2>1. 1 \in DOMAIN u /\ Head(u) = u[1]
    <3>1. u \in Seq(QueryNodes \X Nat)
      BY <1>7
    <3> QED
      BY <1>14, <3>1
  <2>2. PICK g : g = u[1][2]
    OBVIOUS
  <2>3. g = h \/ g = h + 1
    BY <1>3, <1>8, <1>9, <2>1, <2>2
  <2>4. CASE g = h
    BY <1>4, <2>1, <2>2, <2>4
  <2>5. CASE g = h + 1
    <3> SUFFICES ASSUME NEW m \in Walked(E, n, h + 1), m \notin r.visited PROVE FALSE
      BY <2>1, <2>2, <2>5
    <3>1. m \notin Walked(E, n, h)
      BY <1>4
    <3>2. PICK y \in Walked(E, n, h) : m \in Linked(E, y)
      BY <1>1, <1>3, <3>1, WalkedOn, AroundIs
    <3>3. y \in s.visited /\ ~(Linked(E, y) \subseteq r.visited)
      BY <1>4, <3>2
    <3>4. CASE Waiting(r, y)
      <4>1. PICK i \in DOMAIN u : u[i][1] = y
        BY <1>6, <3>4 DEF Waiting
      <4>2. Level(E, n, y, u[i][2]) /\ u[1][2] <= u[i][2] /\ u[i][2] \in Nat
        <5>1. 1 <= i
          BY <1>7
        <5>2. u[i][2] \in Nat
          BY <1>10
        <5> QED
          BY <1>11, <1>12, <2>1, <4>1, <5>1, <5>2
      <4>3. u[i][2] <= h
        BY <1>1, <1>3, <3>2, <4>2, LevelOne
      <4> QED
        BY <1>3, <2>2, <2>5, <4>2, <4>3
    <3>5. CASE r.kind = "neighbors" /\ Level(E, n, y, r.depth)
      <4>1. r.depth <= h
        BY <1>1, <1>3, <3>2, <3>5, LevelOne
      <4> QED
        BY <1>1, <1>3, <3>5, <4>1
    <3> QED
      BY <1>13, <3>3, <3>4, <3>5
  <2> QED
    BY <2>3, <2>4, <2>5
<1>15. QueueByLevel(E, r)
  BY <1>6, <1>11, <1>12, <1>14 DEF QueueByLevel
<1>16. ASSUME NEW y \in r.visited
       PROVE  /\ \E d \in Nat : Level(E, n, y, d) /\ (r.kind = "neighbors" => d <= r.depth)
              /\ \/ Waiting(r, y) \/ Linked(E, y) \subseteq r.visited
                 \/ r.kind = "neighbors" /\ Level(E, n, y, r.depth)
  <2>1. CASE y \in s.visited
    BY <1>13, <2>1 DEF Reached
  <2>2. CASE y \in fresh
    <3>1. Level(E, n, y, h + 1) /\ h + 1 \in Nat /\ (r.kind = "neighbors" => h + 1 <= r.depth)
      <4>1. Level(E, n, y, h + 1)
        BY <1>5, <2>2
      <4>2. h + 1 \in Nat /\ (s.kind = "neighbors" => h < s.depth) /\ s.depth \in Nat
        BY ONLY <1>1, <1>3
      <4>3. r.kind = s.kind /\ r.depth = s.depth
        OBVIOUS
      <4> QED
        BY ONLY <1>3, <4>1, <4>2, <4>3
    <3>2. ASSUME NEW i \in DOMAIN new, new[i][1] = y PROVE Waiting(r, y)
      <4>1. i + Len(t) \in DOMAIN u /\ u[i + Len(t)][1] = y
        BY <1>7, <3>2
      <4> QED
        BY <1>6, <4>1 DEF Waiting
    <3>3. ASSUME s.kind = "neighbors", h + 1 >= s.depth PROVE h + 1 = s.depth
      BY <1>1, <1>3, <3>3
    <3> QED
      BY <2>2, <3>1, <3>2, <3>3
  <2> QED
    BY <2>1, <2>2
<1>17. Reached(E, r)
  BY <1>16 DEF Reached
<1> QED
  BY <1>1, <1>3, <1>5, <1>15, <1>17

\* The nodes of a round with their level, and listed
Labelled(F, d) == {<<m, d>> : m \in F}

Lists(new, F, d) ==
  /\ new \in Seq(QueryNodes \X Nat)
  /\ \A i \in DOMAIN new : new[i][1] \in F /\ new[i][2] = d
  /\ \A f \in F : \E i \in DOMAIN new : new[i][1] = f

\* The nodes a round finds, listed with their level, are all there and nothing else is.
LEMMA FreshListed ==
  ASSUME IsFiniteSet(QueryNodes), NEW F \in SUBSET QueryNodes, NEW d \in Nat
  PROVE  Lists(SetToSeq(Labelled(F, d)), F, d)
<1>0. PICK new : new = SetToSeq(Labelled(F, d))
  OBVIOUS
<1>1. PICK T : T = Labelled(F, d) /\ T = {<<m, d>> : m \in F}
  BY DEF Labelled
<1>2. IsFiniteSet(T)
  <2>1. IsFiniteSet(F)
    BY FS_Subset
  <2> DEFINE f == [m \in F |-> <<m, d>>]
  <2>2. f \in Surjection(F, T)
    BY <1>1 DEF Surjection
  <2> QED
    BY <2>1, <2>2, FS_Surjection
<1>3. new = SetToSeq(T)
  BY <1>0, <1>1
<1>4. /\ new \in Seq(T)
      /\ \A i \in 1..Len(new) : new[i] \in T
      /\ \A x \in T : \E i \in 1..Len(new) : new[i] = x
  BY <1>2, <1>3, SetToSeqLists
<1>5. DOMAIN new = 1..Len(new) /\ T \subseteq QueryNodes \X Nat
  BY <1>1, <1>4
<1>6. new \in Seq(QueryNodes \X Nat)
  BY <1>4, <1>5
<1>7. \A i \in DOMAIN new : new[i][1] \in F /\ new[i][2] = d
  BY <1>1, <1>4, <1>5
<1>8. ASSUME NEW f \in F PROVE \E i \in DOMAIN new : new[i][1] = f
  <2>1. <<f, d>> \in T
    BY <1>1
  <2>2. PICK i \in 1..Len(new) : new[i] = <<f, d>>
    BY <1>4, <2>1
  <2>3. i \in DOMAIN new /\ new[i][1] = f
    BY <1>5, <2>2
  <2> QED
    BY <2>3
<1> QED
  BY <1>0, <1>6, <1>7, <1>8 DEF Lists

\* What the answer gains in a round
Gains(E, P, s, fresh, h, r) ==
  /\ s \in Searches /\ FoundSoFar(E, P, s) /\ Reached(E, s) /\ s.kind = "neighbors"
  /\ fresh \in SUBSET QueryNodes /\ fresh \cap s.visited = {} /\ h \in Nat
  /\ \A f \in fresh : Level(E, s.source, f, h + 1)
  /\ r \in Searches /\ r.source = s.source /\ r.kind = s.kind
  /\ r.visited = s.visited \cup fresh
  /\ r.found = s.found \cup Labelled(fresh \cap P, h + 1)

\* What was found of a round is what is there of it, at its level.
LEMMA FoundGrows ==
  ASSUME NEW E, NEW P, NEW s, NEW fresh, NEW h, NEW r, Gains(E, P, s, fresh, h, r)
  PROVE  FoundSoFar(E, P, r)
<1> USE DEF Gains
<1>1. s.source \in QueryNodes /\ s.source \in s.visited
  BY DEF Searches, Reached
<1>2. ASSUME NEW m \in QueryNodes, NEW d \in Nat
      PROVE  <<m, d>> \in r.found <=>
         m \in r.visited /\ m \in P /\ m # r.source /\ Level(E, r.source, m, d)
  <2>1. <<m, d>> \in s.found <=>
          m \in s.visited /\ m \in P /\ m # s.source /\ Level(E, s.source, m, d)
    BY DEF FoundSoFar
  <2>2. <<m, d>> \in r.found <=> <<m, d>> \in s.found \/ (m \in fresh /\ m \in P /\ d = h + 1)
    BY DEF Labelled
  <2>3. CASE m \in fresh
    <3>1. Level(E, s.source, m, d) <=> d = h + 1
      BY <1>1, <2>3, LevelUnique
    <3> QED
      BY <1>1, <2>1, <2>2, <2>3, <3>1
  <2>4. CASE m \notin fresh
    BY <2>1, <2>2, <2>4
  <2> QED
    BY <2>3, <2>4
<1> QED
  BY <1>2 DEF FoundSoFar

\* One round of neighbors, of a head at level h
NeighborsGo(P, s, fresh, h) ==
  IF h >= s.depth THEN [s EXCEPT !.queue = Tail(@)]
  ELSE [s EXCEPT !.visited = @ \cup fresh,
                 !.found = @ \cup {<<m, h + 1>> : m \in fresh \cap P},
                 !.queue = Tail(@) \o
                   (IF h + 1 < s.depth THEN SetToSeq({<<m, h + 1>> : m \in fresh}) ELSE <<>>)]

\* A round of the search for neighbours keeps the search sound.
LEMMA NeighborsRound ==
  ASSUME IsFiniteSet(QueryNodes), NEW E, NEW P, NEW s, SearchSound(E, P, s), s.state = "run",
         s.kind = "neighbors", s.queue # <<>>, NEW x, NEW h, Head(s.queue)[1] = x, Head(s.queue)[2] = h,
         NEW fresh, fresh = Linked(E, x) \ s.visited
  PROVE  SearchSound(E, P, NeighborsGo(P, s, fresh, h))
<1>1. /\ s \in Searches /\ QueueByLevel(E, s) /\ Reached(E, s) /\ FoundSoFar(E, P, s)
      /\ s.depth >= 1
  BY DEF SearchSound
<1>2. /\ s.queue \in Seq(QueryNodes \X Nat) /\ s.visited \in SUBSET QueryNodes
      /\ s.found \in SUBSET (QueryNodes \X Nat) /\ s.depth \in 0..3
  BY <1>1 DEF Searches
<1>3. Head(s.queue) \in QueryNodes \X Nat /\ Tail(s.queue) \in Seq(QueryNodes \X Nat)
      /\ 1 \in DOMAIN s.queue /\ Head(s.queue) = s.queue[1]
  BY <1>2
<1>4. Head(s.queue) = <<x, h>> /\ x \in QueryNodes /\ h \in Nat
  BY <1>3
<1>5. h < s.depth
  BY <1>1, <1>3 DEF QueueByLevel
<1>6. fresh \in SUBSET QueryNodes /\ fresh \cap s.visited = {}
  BY DEF Linked
<1>7. PICK new : new = IF h + 1 < s.depth THEN SetToSeq({<<m, h + 1>> : m \in fresh}) ELSE <<>>
  OBVIOUS
<1>8. /\ new \in Seq(QueryNodes \X Nat)
      /\ \A i \in DOMAIN new : new[i][1] \in fresh /\ new[i][2] = h + 1
      /\ new # <<>> => h + 1 < s.depth
      /\ \A f \in fresh : (\E i \in DOMAIN new : new[i][1] = f) \/ h + 1 >= s.depth
  <2>1. CASE h + 1 < s.depth
    <3>1. PICK d \in Nat : d = h + 1
      BY <1>4
    <3>2. new = SetToSeq(Labelled(fresh, d))
      BY <1>7, <2>1, <3>1 DEF Labelled
    <3>3. /\ new \in Seq(QueryNodes \X Nat)
          /\ \A i \in DOMAIN new : new[i][1] \in fresh /\ new[i][2] = d
          /\ \A f \in fresh : \E i \in DOMAIN new : new[i][1] = f
      <4>1. Lists(SetToSeq(Labelled(fresh, d)), fresh, d)
        BY <1>6, FreshListed
      <4>2. Lists(new, fresh, d)
        BY <3>2, <4>1
      <4> QED
        BY <4>2 DEF Lists
    <3> QED
      BY <2>1, <3>1, <3>3
  <2>2. CASE ~(h + 1 < s.depth)
    <3>1. new = <<>> /\ h + 1 >= s.depth
      BY <1>2, <1>4, <1>7, <2>2
    <3>2. <<>> \in Seq(QueryNodes \X Nat) /\ DOMAIN <<>> = {}
      OBVIOUS
    <3> QED
      BY <3>1, <3>2
  <2> QED
    BY <2>1, <2>2
<1>9. PICK visited \in SUBSET QueryNodes : visited = s.visited \cup fresh
  BY <1>2, <1>6
<1>10. PICK found \in SUBSET (QueryNodes \X Nat) :
         found = s.found \cup {<<m, h + 1>> : m \in fresh \cap P}
  <2>1. PICK found : found = s.found \cup {<<m, h + 1>> : m \in fresh \cap P}
    OBVIOUS
  <2>2. ASSUME NEW z \in found PROVE z \in QueryNodes \X Nat
    BY <1>2, <1>4, <1>6, <2>1
  <2> QED
    BY <2>1, <2>2
<1>11. PICK queue \in Seq(QueryNodes \X Nat) : queue = Tail(s.queue) \o new
  <2>1. PICK queue : queue = Tail(s.queue) \o new
    OBVIOUS
  <2>2. queue \in Seq(QueryNodes \X Nat)
    BY <1>3, <1>8, <2>1, Concatenated
  <2> QED
    BY <2>1, <2>2
<1> SUFFICES SearchSound(E, P, [s EXCEPT !.visited = visited, !.found = found, !.queue = queue])
  BY <1>2, <1>4, <1>5, <1>7, <1>9, <1>10, <1>11 DEF NeighborsGo
<1>12. PICK r : r = [s EXCEPT !.visited = visited, !.found = found, !.queue = queue]
  OBVIOUS
<1>13. /\ r \in Searches /\ r.state = "run" /\ r.kind = s.kind /\ r.source = s.source
       /\ r.depth = s.depth /\ r.visited = visited /\ r.found = found /\ r.queue = queue
  BY <1>1, <1>12 DEF Searches
<1>14. /\ QueueByLevel(E, r) /\ Reached(E, r) /\ \A f \in fresh : Level(E, s.source, f, h + 1)
  <2>1. r.visited = s.visited \cup fresh /\ r.queue = Tail(s.queue) \o new
    BY <1>9, <1>11, <1>13
  <2>2. /\ s.kind = "neighbors" /\ new # <<>> => h + 1 < s.depth
        /\ \A f \in fresh : (\E i \in DOMAIN new : new[i][1] = f)
                           \/ (s.kind = "neighbors" /\ h + 1 >= s.depth)
    BY <1>8
  <2>3. /\ s \in Searches /\ QueueByLevel(E, s) /\ Reached(E, s) /\ Head(s.queue) = <<x, h>>
        /\ new \in Seq(QueryNodes \X Nat)
        /\ \A i \in DOMAIN new : new[i][1] \in fresh /\ new[i][2] = h + 1
        /\ r \in Searches /\ r.source = s.source /\ r.kind = s.kind /\ r.depth = s.depth
    BY <1>1, <1>4, <1>8, <1>13
  <2>4. Round(E, s, x, h, fresh, new, r)
    BY <2>1, <2>2, <2>3 DEF Round
  <2> QED
    BY <2>4, RoundKeeps
<1>15. FoundSoFar(E, P, r)
  <2>1. /\ r.visited = s.visited \cup fresh
        /\ r.found = s.found \cup Labelled(fresh \cap P, h + 1)
        /\ s \in Searches /\ FoundSoFar(E, P, s) /\ Reached(E, s)
        /\ h \in Nat /\ \A f \in fresh : Level(E, s.source, f, h + 1)
        /\ r \in Searches /\ r.source = s.source /\ r.kind = s.kind
    BY <1>1, <1>4, <1>9, <1>10, <1>13, <1>14 DEF Labelled
  <2>2. Gains(E, P, s, fresh, h, r)
    BY <1>6, <2>1 DEF Gains
  <2> QED
    BY <2>2, FoundGrows
<1> QED
  BY <1>1, <1>12, <1>13, <1>14, <1>15 DEF SearchSound

\* One round of path, of a head at level h
PathGo(s, fresh, h, r) ==
  \/ r = [s EXCEPT !.state = "error"]
  \/ /\ s.target \in fresh
     /\ r = [s EXCEPT !.state = "done", !.found = {<<s.target, h + 1>>}]
  \/ /\ s.target \notin fresh
     /\ r = [s EXCEPT !.visited = @ \cup fresh,
               !.queue = Tail(@) \o SetToSeq({<<m, h + 1>> : m \in fresh}),
               !.state = IF Cardinality(s.visited \cup fresh) > MaxVisited THEN "done" ELSE @]

\* A round of the search for a path keeps the search sound, also at the limit of visited nodes.
LEMMA PathRound ==
  ASSUME IsFiniteSet(QueryNodes), MaxVisited \in Nat,
         NEW E, NEW P, NEW s, SearchSound(E, P, s), s.state = "run",
         s.kind = "path", s.queue # <<>>, NEW x, NEW h, Head(s.queue)[1] = x, Head(s.queue)[2] = h,
         NEW fresh, fresh = Linked(E, x) \ s.visited
  PROVE  \A r : PathGo(s, fresh, h, r) => SearchSound(E, P, r)
<1>1. /\ s \in Searches /\ QueueByLevel(E, s) /\ Reached(E, s) /\ FoundSoFar(E, P, s)
      /\ s.target # s.source
  BY DEF SearchSound
<1>2. /\ s.queue \in Seq(QueryNodes \X Nat) /\ s.visited \in SUBSET QueryNodes
      /\ s.target \in QueryNodes /\ s.found = {} /\ s.target \notin s.visited
  BY <1>1 DEF Searches, FoundSoFar
<1>3. Head(s.queue) \in QueryNodes \X Nat /\ Tail(s.queue) \in Seq(QueryNodes \X Nat)
  BY <1>2
<1>4. Head(s.queue) = <<x, h>> /\ x \in QueryNodes /\ h \in Nat /\ h + 1 \in Nat
  BY <1>3
<1>5. fresh \in SUBSET QueryNodes
  BY DEF Linked
<1>6. PICK new : new = SetToSeq({<<m, h + 1>> : m \in fresh})
  OBVIOUS
<1>7. /\ new \in Seq(QueryNodes \X Nat)
      /\ \A i \in DOMAIN new : new[i][1] \in fresh /\ new[i][2] = h + 1
      /\ \A f \in fresh : \E i \in DOMAIN new : new[i][1] = f
  <2>1. PICK d \in Nat : d = h + 1
    BY <1>4
  <2>2. new = SetToSeq(Labelled(fresh, d))
    BY <1>6, <2>1 DEF Labelled
  <2>3. /\ new \in Seq(QueryNodes \X Nat)
        /\ \A i \in DOMAIN new : new[i][1] \in fresh /\ new[i][2] = d
        /\ \A f \in fresh : \E i \in DOMAIN new : new[i][1] = f
    <3>1. Lists(SetToSeq(Labelled(fresh, d)), fresh, d)
      BY <1>5, FreshListed
    <3>2. Lists(new, fresh, d)
      BY <2>2, <3>1
    <3> QED
      BY <3>2 DEF Lists
  <2> QED
    BY <2>1, <2>3
<1>8. PICK visited \in SUBSET QueryNodes : visited = s.visited \cup fresh
  BY <1>2, <1>5
<1>9. PICK queue \in Seq(QueryNodes \X Nat) : queue = Tail(s.queue) \o new
  <2>1. PICK queue : queue = Tail(s.queue) \o new
    OBVIOUS
  <2>2. queue \in Seq(QueryNodes \X Nat)
    BY <1>3, <1>7, <2>1, Concatenated
  <2> QED
    BY <2>1, <2>2
\* Wherever the search goes on
<1>10. ASSUME NEW state \in {"run", "done"},
             NEW g, g = [s EXCEPT !.visited = visited, !.queue = queue, !.state = state]
       PROVE  /\ g \in Searches /\ g.state = state /\ g.kind = "path" /\ g.source = s.source
              /\ g.target = s.target /\ g.visited = visited /\ g.found = {}
              /\ QueueByLevel(E, g) /\ Reached(E, g) /\ \A f \in fresh : Level(E, s.source, f, h + 1)
  <2>1. /\ g \in Searches /\ g.state = state /\ g.kind = "path" /\ g.source = s.source
        /\ g.target = s.target /\ g.visited = visited /\ g.found = {} /\ g.depth = s.depth
        /\ g.queue = queue
    BY <1>1, <1>2, <1>10 DEF Searches
  <2>2. QueueByLevel(E, g) /\ Reached(E, g) /\ \A f \in fresh : Level(E, s.source, f, h + 1)
    <3>1. g.visited = s.visited \cup fresh /\ g.queue = Tail(s.queue) \o new
      BY <1>8, <1>9, <2>1
    <3>2. /\ s.kind = "neighbors" /\ new # <<>> => h + 1 < s.depth
          /\ \A f \in fresh : (\E i \in DOMAIN new : new[i][1] = f)
                             \/ (s.kind = "neighbors" /\ h + 1 >= s.depth)
      BY <1>7
    <3>3. /\ s \in Searches /\ QueueByLevel(E, s) /\ Reached(E, s) /\ Head(s.queue) = <<x, h>>
          /\ new \in Seq(QueryNodes \X Nat)
          /\ \A i \in DOMAIN new : new[i][1] \in fresh /\ new[i][2] = h + 1
          /\ g \in Searches /\ g.source = s.source /\ g.kind = s.kind /\ g.depth = s.depth
      BY <1>1, <1>4, <1>7, <2>1
    <3>4. Round(E, s, x, h, fresh, new, g)
      BY <3>1, <3>2, <3>3 DEF Round
    <3> QED
      BY <3>4, RoundKeeps
  <2> QED
    BY <2>1, <2>2
<1> TAKE r
<1>11. CASE r = [s EXCEPT !.state = "error"]
  <2>1. r \in Searches /\ r.state = "error" /\ r.kind = "path" /\ r.target # r.source
    BY <1>1, <1>11 DEF Searches
  <2> QED
    BY <2>1 DEF SearchSound
<1>12. CASE /\ s.target \in fresh
            /\ r = [s EXCEPT !.state = "done", !.found = {<<s.target, h + 1>>}]
  <2>1. PICK found \in SUBSET (QueryNodes \X Nat) : found = {<<s.target, h + 1>>}
    <3>1. <<s.target, h + 1>> \in QueryNodes \X Nat
      BY <1>2, <1>4
    <3>2. {<<s.target, h + 1>>} \in SUBSET (QueryNodes \X Nat)
      BY <3>1
    <3> QED
      BY <3>2
  <2>2. /\ r \in Searches /\ r.state = "done" /\ r.kind = "path" /\ r.source = s.source
        /\ r.target = s.target /\ r.found = {<<r.target, h + 1>>}
    BY <1>1, <1>12, <2>1 DEF Searches
  <2>3. \A f \in fresh : Level(E, s.source, f, h + 1)
    BY <1>10
  <2>4. Level(E, r.source, r.target, h + 1)
    BY <1>12, <2>2, <2>3
  <2>5. Answered(E, P, r)
    BY <1>4, <2>2, <2>4 DEF Answered
  <2> QED
    BY <1>1, <2>2, <2>5 DEF SearchSound
<1>13. CASE /\ s.target \notin fresh
            /\ r = [s EXCEPT !.visited = @ \cup fresh,
                      !.queue = Tail(@) \o SetToSeq({<<m, h + 1>> : m \in fresh}),
                      !.state = IF Cardinality(s.visited \cup fresh) > MaxVisited THEN "done" ELSE @]
  <2>1. PICK state \in {"run", "done"} :
          state = IF Cardinality(s.visited \cup fresh) > MaxVisited THEN "done" ELSE s.state
    OBVIOUS
  <2>2. r = [s EXCEPT !.visited = visited, !.queue = queue, !.state = state]
    BY <1>6, <1>8, <1>9, <1>13, <2>1
  <2>3. /\ r \in Searches /\ r.state = state /\ r.kind = "path" /\ r.source = s.source
        /\ r.target = s.target /\ r.visited = visited /\ r.found = {}
        /\ QueueByLevel(E, r) /\ Reached(E, r)
    BY <1>10, <2>2
  <2>4. FoundSoFar(E, P, r)
    BY <1>2, <1>8, <1>13, <2>3 DEF FoundSoFar
  <2>5. r.state = "done" => Cardinality(r.visited) > MaxVisited
    BY <1>8, <2>1, <2>3
  <2>6. Cardinality(r.visited) \in Nat
    <3>1. IsFiniteSet(r.visited)
      BY <2>3, <1>8, FS_Subset
    <3> QED
      BY <3>1, FS_CardinalityType
  <2>7. r.state = "done" => Answered(E, P, r)
    BY <2>3, <2>5, <2>6 DEF Answered
  <2> QED
    BY <1>1, <2>3, <2>4, <2>7 DEF SearchSound
<1> QED
  BY <1>11, <1>12, <1>13 DEF PathGo

\* With nothing left in the queue, everything that can be reached has been.
LEMMA SearchEnds ==
  ASSUME NEW E, NEW P, NEW s, SearchSound(E, P, s), s.state = "run", s.queue = <<>>,
         NEW r, r = [s EXCEPT !.state = "done"]
  PROVE  SearchSound(E, P, r)
<1>1. /\ s \in Searches /\ Reached(E, s) /\ FoundSoFar(E, P, s)
      /\ s.kind = "neighbors" => s.depth >= 1
      /\ s.kind = "path" => s.target # s.source
  BY DEF SearchSound
<1>2. s.source \in QueryNodes /\ s.depth \in Nat /\ s.kind \in {"neighbors", "path"}
      /\ s.target \in QueryNodes
  BY <1>1 DEF Searches
<1>3. /\ r \in Searches /\ r.state = "done" /\ r.kind = s.kind /\ r.source = s.source
      /\ r.target = s.target /\ r.depth = s.depth /\ r.visited = s.visited /\ r.found = s.found
  BY <1>1 DEF Searches
<1>4. \A x : ~Waiting(s, x)
  BY DEF Waiting
<1>5. ASSUME NEW k \in Nat, s.kind = "neighbors" => k <= s.depth
      PROVE  Walked(E, s.source, k) \subseteq s.visited
  <2> DEFINE wrong == {l \in 0..k : ~(Walked(E, s.source, l) \subseteq s.visited)}
  <2> SUFFICES ASSUME wrong # {} PROVE FALSE
    OBVIOUS
  <2>1. wrong \in SUBSET Nat
    OBVIOUS
  <2>2. PICK l \in wrong : \A j \in wrong : l <= j
    BY <2>1, LeastNumber
  <2>3. l # 0
    BY <1>1, <1>2, <2>2, WalkedNone DEF Reached
  <2>4. l - 1 \in Nat /\ l - 1 \in 0..k /\ l - 1 \notin wrong /\ (l - 1) + 1 = l
    BY <2>2, <2>3
  <2>5. PICK m \in Walked(E, s.source, l) : m \notin s.visited
    BY <2>2
  <2>6. Walked(E, s.source, l - 1) \subseteq s.visited
    BY <2>4
  <2>7. Walked(E, s.source, l) = Walked(E, s.source, l - 1) \cup Around(E, Walked(E, s.source, l - 1))
    BY <1>2, <2>4, WalkedOn
  <2>8. PICK y \in Walked(E, s.source, l - 1) : m \in Linked(E, y)
    BY <2>5, <2>6, <2>7, AroundIs
  <2>9. s.kind = "neighbors" /\ Level(E, s.source, y, s.depth)
    BY <1>1, <1>4, <2>5, <2>6, <2>8 DEF Reached
  <2>10. s.depth <= l - 1
    BY <1>2, <2>4, <2>8, <2>9, LevelOne
  <2> QED
    BY <1>2, <1>5, <2>2, <2>9, <2>10
<1>6. ASSUME s.kind = "neighbors" PROVE s.visited = Walked(E, s.source, s.depth)
  <2>1. Walked(E, s.source, s.depth) \subseteq s.visited
    BY <1>2, <1>5
  <2>2. ASSUME NEW x \in s.visited PROVE x \in Walked(E, s.source, s.depth)
    <3>1. PICK d \in Nat : Level(E, s.source, x, d) /\ d <= s.depth
      BY <1>1, <1>6 DEF Reached
    <3>2. x \in Walked(E, s.source, d)
      BY <3>1 DEF Level
    <3> QED
      BY <1>2, <3>1, <3>2, WalkedGrows
  <2> QED
    BY <2>1, <2>2
<1>7. ASSUME s.kind = "path"
      PROVE  s.found = {} /\ \A k \in Nat : s.target \notin Walked(E, s.source, k)
  BY <1>1, <1>5, <1>7 DEF FoundSoFar
<1>8. Answered(E, P, r)
  <2>1. CASE s.kind = "neighbors"
    BY <1>1, <1>3, <1>6, <2>1 DEF Answered, FoundSoFar
  <2>2. CASE s.kind = "path"
    BY <1>3, <1>7, <2>2 DEF Answered
  <2> QED
    BY <1>2, <2>1, <2>2
<1> QED
  BY <1>1, <1>3, <1>8 DEF SearchSound
\* The first rows in an order leave out none that comes before them.
TopKept(st, chosen, stmt, rows) ==
  /\ rows \subseteq chosen
  /\ Cardinality(rows) = IF Cardinality(chosen) < stmt.limit THEN Cardinality(chosen) ELSE stmt.limit
  /\ SortsRows(stmt) => \A n \in rows, m \in chosen \ rows :
       LET below(a, b) == st[a] # 0 /\ (st[b] = 0 \/ st[a] < st[b])
       IN  IF stmt.desc THEN ~below(n, m) ELSE ~below(m, n)

AnswersInv ==
  /\ present \subseteq QueryNodes
  /\ status \in [QueryNodes -> Nat]
  /\ search = NoSearch \/ SearchSound(edges, present, search)
  /\ \/ query = NoQuery
     \/ /\ search.state # "run"
        /\ TopKept(status, Chosen(query.stmt), query.stmt, query.rows)

\* ORDER BY and the candidates' places order the rows.
LEMMA RowsOrdered ==
  ASSUME status \in [QueryNodes -> Nat], present \subseteq QueryNodes, NEW stmt, NEW place \in Orderings
  PROVE  Orders(RowsInOrder(stmt, place), Chosen(stmt))
<1> DEFINE A(n, m) == Ahead(n, m, stmt)
           R == RowsInOrder(stmt, place)
<1>1. /\ \A n \in present : place[n] \in Int
      /\ \A n, m \in present : n # m => place[n] # place[m]
  BY DEF Orderings
<1>2. \A n \in present : status[n] \in Nat
  OBVIOUS
<1>3. /\ \A n \in present : ~A(n, n)
      /\ \A n, m \in present : A(n, m) => ~A(m, n)
      /\ \A n, m, k \in present : A(n, m) /\ A(m, k) => A(n, k)
      /\ \A n, m, k \in present : ~A(n, m) /\ ~A(m, k) => ~A(n, k)
  BY <1>2 DEF Ahead, Lower
<1>4. \A n, m \in present : <<n, m>> \in R <=> A(n, m) \/ (~A(m, n) /\ place[n] < place[m])
  BY DEF RowsInOrder
<1>5. Chosen(stmt) \subseteq present
  BY DEF Chosen
<1> HIDE DEF A, R
<1>6. \A n \in present : <<n, n>> \notin R
  BY <1>1, <1>3, <1>4
<1>7. \A n, m \in present : n = m \/ <<n, m>> \in R \/ <<m, n>> \in R
  <2> SUFFICES ASSUME NEW n \in present, NEW m \in present, n # m
               PROVE  <<n, m>> \in R \/ <<m, n>> \in R
    OBVIOUS
  <2>1. place[n] < place[m] \/ place[m] < place[n]
    BY <1>1
  <2> QED
    BY <1>4, <2>1
<1>8. \A n, m, k \in present : <<n, m>> \in R /\ <<m, k>> \in R => <<n, k>> \in R
  <2> SUFFICES ASSUME NEW n \in present, NEW m \in present, NEW k \in present,
                      <<n, m>> \in R, <<m, k>> \in R
               PROVE  <<n, k>> \in R
    OBVIOUS
  <2>1. /\ A(n, m) \/ (~A(m, n) /\ place[n] < place[m])
        /\ A(m, k) \/ (~A(k, m) /\ place[m] < place[k])
    BY <1>4
  <2>2. A(n, k) \/ (~A(k, n) /\ place[n] < place[k])
    <3>1. place[n] < place[m] /\ place[m] < place[k] => place[n] < place[k]
      BY <1>1
    <3>2. ~A(m, n) /\ ~A(k, m) => ~A(k, n)
      BY <1>3
    <3>3. A(n, m) /\ ~A(k, m) => A(n, k)
      BY <1>3
    <3>4. ~A(m, n) /\ A(m, k) => A(n, k)
      BY <1>3
    <3>5. A(n, m) /\ A(m, k) => A(n, k)
      BY <1>3
    <3> QED
      BY <2>1, <3>1, <3>2, <3>3, <3>4, <3>5
  <2> QED
    BY <1>4, <2>2
<1>9. Orders(R, present)
  BY <1>6, <1>7, <1>8 DEF Orders
<1> QED
  BY <1>5, <1>9 DEF Orders, R

\* What Execute returns
LEMMA ExecuteKeepsTop ==
  ASSUME IsFiniteSet(QueryNodes), status \in [QueryNodes -> Nat], present \subseteq QueryNodes,
         NEW stmt, stmt.limit \in Nat, NEW place \in Orderings
  PROVE  TopKept(status, Chosen(stmt), stmt, Execute(stmt, place))
<1>1. PICK C : C = Chosen(stmt)
  OBVIOUS
<1>2. PICK order : order = RowsInOrder(stmt, place)
  OBVIOUS
<1>3. PICK rows : rows = Execute(stmt, place)
  OBVIOUS
<1>4. IsFiniteSet(C) /\ C \subseteq present
  <2>1. C \subseteq present
    BY <1>1 DEF Chosen
  <2> QED
    BY <2>1, FS_Subset
<1>5. Orders(order, C) /\ rows = FirstOf(stmt.limit, C, order) /\ rows \subseteq C
  <2>1. rows = FirstOf(stmt.limit, C, order)
    BY <1>1, <1>2, <1>3 DEF Execute
  <2> QED
    BY <1>1, <1>2, <2>1, RowsOrdered, FirstOfSays
<1>6. Cardinality(rows) = IF Cardinality(C) < stmt.limit THEN Cardinality(C) ELSE stmt.limit
  <2>1. /\ Cardinality(C) \in Nat
        /\ Cardinality(C) <= stmt.limit => rows = C
        /\ Cardinality(C) >= stmt.limit => Cardinality(rows) = stmt.limit
    BY <1>4, <1>5, FirstOfCount
  <2> QED
    BY <2>1
<1>7. ASSUME SortsRows(stmt), NEW n \in rows, NEW m \in C, m \notin rows
      PROVE  ~Ahead(m, n, stmt)
  <2>1. <<n, m>> \in order
    <3>1. stmt.limit \in Int /\ n \in FirstOf(stmt.limit, C, order) /\ m \notin FirstOf(stmt.limit, C, order)
      BY <1>5, <1>7
    <3> QED
      BY <1>4, <1>5, <3>1, FirstOfLower
  <2>2. Ahead(n, m, stmt) \/ ~Ahead(m, n, stmt)
    BY <1>2, <2>1 DEF RowsInOrder
  <2>3. status[n] \in Nat /\ status[m] \in Nat
    BY <1>4, <1>5
  <2>4. ~(Ahead(n, m, stmt) /\ Ahead(m, n, stmt))
    BY <2>3 DEF Ahead, Lower
  <2> QED
    BY <2>2, <2>4
<1>8. ASSUME SortsRows(stmt), NEW n \in rows, NEW m \in C \ rows
      PROVE  IF stmt.desc THEN ~Lower(n, m) ELSE ~Lower(m, n)
  BY <1>7, <1>8 DEF Ahead
<1> QED
  BY <1>1, <1>3, <1>5, <1>6, <1>8 DEF TopKept, Lower

\* Every step of the queries keeps the invariant of the answers.
LEMMA AnswersStep == AnswersInv /\ QueryNext => AnswersInv'
<1> SUFFICES ASSUME AnswersInv, QueryNext PROVE AnswersInv'
  OBVIOUS
<1>0. /\ IsFiniteSet(QueryNodes) /\ MaxVisited \in Nat /\ Statuses \subseteq Nat
      /\ RowLimits \subseteq Nat /\ Cardinality(QueryNodes) \in Nat
  BY QueryAssumption, FS_CardinalityType
<1>1. PICK E : E = edges
  OBVIOUS
<1>2. PICK P : P = present
  OBVIOUS
<1>3. PICK s : s = search
  OBVIOUS
<1>4. PICK r : r = search'
  OBVIOUS
\* A round of a search
<1>5. ASSUME SearchSound(E, P, r), UNCHANGED <<edges, present, status, query>>,
             search.state = "run" \/ query = NoQuery
      PROVE  AnswersInv'
  BY <1>1, <1>2, <1>4, <1>5 DEF AnswersInv, NoQuery
<1>6. ASSUME search.state = "run" PROVE SearchSound(E, P, s)
  BY <1>1, <1>2, <1>3, <1>6 DEF AnswersInv, NoSearch
<1>7. ASSUME NEW n \in QueryNodes, NEW m \in QueryNodes, AddEdge(n, m) PROVE AnswersInv'
  BY <1>7 DEF AddEdge, Building, AnswersInv
<1>8. ASSUME NEW n \in QueryNodes, NEW m \in QueryNodes, AskPath(n, m) PROVE AnswersInv'
  <2>1. /\ r = [state |-> "run", kind |-> "path", source |-> n, target |-> m,
                depth |-> 0, queue |-> <<<<n, 0>>>>, visited |-> {n}, found |-> {}]
        /\ n # m /\ query = NoQuery /\ UNCHANGED <<edges, present, status, query>>
    BY <1>4, <1>8 DEF AskPath, Building
  <2>2. <<<<n, 0>>>> \in Seq(QueryNodes \X Nat)
    OBVIOUS
  <2>3. r \in Searches
    BY <2>1, <2>2 DEF Searches
  <2>4. SearchSound(E, P, r)
    BY <2>1, <2>3, SearchBegins
  <2> QED
    BY <1>5, <2>1, <2>4
<1>9. ASSUME NEW n \in QueryNodes, Lose(n) PROVE AnswersInv'
  BY <1>9 DEF Lose, Building, AnswersInv
<1>10. ASSUME NEW n \in QueryNodes, NEW v \in Statuses, SetStatus(n, v) PROVE AnswersInv'
  <2>1. status' \in [QueryNodes -> Nat]
    BY <1>0, <1>10 DEF SetStatus, AnswersInv
  <2> QED
    BY <1>10, <2>1 DEF SetStatus, Building, AnswersInv
<1>11. ASSUME NEW n \in QueryNodes, NEW d \in 1..3, AskAround(n, d) PROVE AnswersInv'
  <2>1. /\ r = [state |-> "run", kind |-> "neighbors", source |-> n, target |-> n,
                depth |-> d, queue |-> <<<<n, 0>>>>, visited |-> {n}, found |-> {}]
        /\ query = NoQuery /\ UNCHANGED <<edges, present, status, query>>
    BY <1>4, <1>11 DEF AskAround, Building
  <2>2. <<<<n, 0>>>> \in Seq(QueryNodes \X Nat)
    OBVIOUS
  <2>3. r \in Searches
    BY <2>1, <2>2 DEF Searches
  <2>4. SearchSound(E, P, r)
    BY <2>1, <2>3, SearchBegins
  <2> QED
    BY <1>5, <2>1, <2>4
<1>12. PICK x : x = Popped[1]
  OBVIOUS
<1>13. PICK h : h = Popped[2]
  OBVIOUS
<1>14. PICK fresh : fresh = Fresh
  OBVIOUS
<1>15. /\ Head(s.queue)[1] = x /\ Head(s.queue)[2] = h
       /\ fresh = Linked(E, x) \ s.visited
  BY <1>1, <1>3, <1>12, <1>13, <1>14 DEF Popped, Fresh, Beside, Linked
<1>16. ASSUME Expand PROVE AnswersInv'
  <2>1. /\ s.state = "run" /\ s.kind = "neighbors" /\ s.queue # <<>>
        /\ UNCHANGED <<edges, present, status, query>>
    BY <1>3, <1>16 DEF Expand
  <2>2. r = NeighborsGo(P, s, fresh, h)
    BY <1>2, <1>3, <1>4, <1>13, <1>14, <1>16 DEF Expand, NeighborsGo
  <2>3. SearchSound(E, P, s)
    BY <1>3, <1>6, <2>1
  <2>4. SearchSound(E, P, r)
    BY <1>0, <1>15, <2>1, <2>2, <2>3, NeighborsRound
  <2> QED
    BY <1>3, <1>5, <2>1, <2>4
<1>17. ASSUME ExpandPath PROVE AnswersInv'
  <2>1. /\ s.state = "run" /\ s.kind = "path" /\ s.queue # <<>>
        /\ UNCHANGED <<edges, present, status, query>>
    BY <1>3, <1>17 DEF ExpandPath
  <2>2. PathGo(s, fresh, h, r)
    BY <1>2, <1>3, <1>4, <1>13, <1>14, <1>17 DEF ExpandPath, PathGo
  <2>3. SearchSound(E, P, s)
    BY <1>3, <1>6, <2>1
  <2>4. SearchSound(E, P, r)
    BY <1>0, <1>15, <2>1, <2>2, <2>3, PathRound
  <2> QED
    BY <1>3, <1>5, <2>1, <2>4
<1>18. ASSUME Exhausted PROVE AnswersInv'
  <2>1. /\ s.state = "run" /\ s.queue = <<>> /\ r = [s EXCEPT !.state = "done"]
        /\ UNCHANGED <<edges, present, status, query>>
    BY <1>3, <1>4, <1>18 DEF Exhausted
  <2>2. SearchSound(E, P, s)
    BY <1>3, <1>6, <2>1
  <2>3. SearchSound(E, P, r)
    BY <2>1, <2>2, SearchEnds
  <2> QED
    BY <1>3, <1>5, <2>1, <2>3
<1>19. ASSUME NEW place \in Orderings, NEW stmt, stmt.limit \in Nat, RunQuery(stmt, place)
       PROVE  AnswersInv'
  <2>1. /\ UNCHANGED <<edges, present, status, search>>
        /\ query' = [state |-> "done", stmt |-> stmt, rows |-> Execute(stmt, place),
                     count |-> CountOf(Chosen(stmt))]
        /\ search.state # "run"
    BY <1>19 DEF RunQuery, NoSearch
  <2>2. TopKept(status, Chosen(stmt), stmt, Execute(stmt, place))
    BY <1>0, <1>19, ExecuteKeepsTop DEF AnswersInv
  <2>3. query'.stmt = stmt /\ query'.rows = Execute(stmt, place)
    BY <2>1
  <2>4. Chosen(stmt)' = Chosen(stmt)
    BY <2>1 DEF Chosen, Matches, Compares
  <2>5. TopKept(status, Chosen(query.stmt), query.stmt, query.rows)'
    BY <2>1, <2>2, <2>3, <2>4
  <2> QED
    BY <2>1, <2>5 DEF AnswersInv
<1>20. ASSUME NEW place \in Orderings, NEW d \in 1..3, RunQuery(StepsStatement(d), place)
       PROVE  AnswersInv'
  <2>1. StepsStatement(d).limit \in Nat
    BY <1>0 DEF StepsStatement
  <2> QED
    BY <1>19, <1>20, <2>1
<1>21. ASSUME NEW place \in Orderings, NEW stmt \in Statements, RunQuery(stmt, place)
       PROVE  AnswersInv'
  <2>1. stmt.limit \in Nat
    BY <1>0 DEF Statements
  <2> QED
    BY <1>19, <1>21, <2>1
<1> QED
  BY <1>7, <1>8, <1>9, <1>10, <1>11, <1>16, <1>17, <1>18, <1>20, <1>21 DEF QueryNext

\* Nothing changes an answer.
LEMMA AnswersStay == AnswersInv /\ UNCHANGED queryVars => AnswersInv'
<1> SUFFICES ASSUME AnswersInv, UNCHANGED queryVars PROVE AnswersInv'
  OBVIOUS
<1>1. UNCHANGED <<edges, present, status, search, query>>
  BY DEF queryVars
<1>2. PICK stmt : stmt = query.stmt
  OBVIOUS
<1>3. query'.stmt = stmt /\ query'.rows = query.rows
  BY <1>1, <1>2
<1>4. Chosen(stmt)' = Chosen(stmt)
  BY <1>1 DEF Chosen, Matches, Compares
<1>5. TopKept(status, Chosen(query.stmt), query.stmt, query.rows)'
        <=> TopKept(status, Chosen(query.stmt), query.stmt, query.rows)
  BY <1>1, <1>2, <1>3, <1>4
<1> QED
  BY <1>1, <1>5 DEF AnswersInv, NoSearch, NoQuery

\* Levels are distances.
LEMMA AnswersFollow == AnswersInv => AnswersExact
<1> SUFFICES ASSUME AnswersInv PROVE AnswersExact
  OBVIOUS
<1>0. IsFiniteSet(QueryNodes)
  BY QueryAssumption
<1>1. PICK s : s = search
  OBVIOUS
<1>2. ASSUME s.state = "done"
      PROVE  s \in Searches /\ s.source \in QueryNodes /\ s.depth \in Nat /\ s.target \in QueryNodes
             /\ s.found \subseteq QueryNodes \X Nat /\ Answered(edges, present, s)
  <2>1. SearchSound(edges, present, s)
    BY <1>1, <1>2 DEF AnswersInv, NoSearch
  <2>2. s \in Searches /\ Answered(edges, present, s)
    BY <1>2, <2>1 DEF SearchSound
  <2> QED
    BY <2>2 DEF Searches
<1>3. NeighborsExact
  <2> SUFFICES ASSUME s.state = "done", s.kind = "neighbors"
               PROVE  s.found = {<<m, Distance(s.source, m)>> :
                        m \in {x \in present \ {s.source} : x \in Within(s.source, s.depth)}}
    BY <1>1 DEF NeighborsExact
  <2>1. \A m \in QueryNodes, d \in Nat : <<m, d>> \in s.found <=>
          /\ m \in Walked(edges, s.source, s.depth) /\ m \in present /\ m # s.source
          /\ Level(edges, s.source, m, d)
    BY <1>2 DEF Answered
  <2>2. Within(s.source, s.depth) = Walked(edges, s.source, s.depth)
    BY <1>2, WithinWalked
  <2>3. \A m, d : d \in Nat /\ Level(edges, s.source, m, d) => Distance(s.source, m) = d
    BY <1>0, <1>2, DistanceIs
  <2>4. ASSUME NEW z \in s.found
        PROVE  \E m \in {x \in present \ {s.source} : x \in Within(s.source, s.depth)} :
                 z = <<m, Distance(s.source, m)>>
    <3>1. z \in QueryNodes \X Nat
      BY <1>2
    <3>2. PICK m \in QueryNodes, d \in Nat : z = <<m, d>>
      BY <3>1
    <3>3. Distance(s.source, m) = d
      BY <2>1, <2>3, <2>4, <3>2
    <3> QED
      BY <2>1, <2>2, <2>4, <3>2, <3>3
  <2>5. ASSUME NEW m \in present, m # s.source, m \in Within(s.source, s.depth)
        PROVE  <<m, Distance(s.source, m)>> \in s.found
    <3>1. m \in QueryNodes /\ m \in Walked(edges, s.source, s.depth)
      BY <2>2, <2>5 DEF AnswersInv
    <3>2. PICK d \in 0..s.depth : Level(edges, s.source, m, d)
      BY <1>2, <3>1, LevelThere
    <3>3. d \in Nat /\ Distance(s.source, m) = d
      BY <1>2, <2>3, <3>2
    <3> QED
      BY <2>1, <2>5, <3>1, <3>2, <3>3
  <2> QED
    BY <2>4, <2>5
<1>4. PathShortest
  <2> SUFFICES ASSUME s.state = "done", s.kind = "path", Cardinality(s.visited) <= MaxVisited
               PROVE  s.found = IF Distance(s.source, s.target) = -1 THEN {}
                                ELSE {<<s.target, Distance(s.source, s.target)>>}
    BY <1>1 DEF PathShortest
  <2>1. \/ \E d \in Nat : Level(edges, s.source, s.target, d) /\ s.found = {<<s.target, d>>}
        \/ s.found = {} /\ \A k \in Nat : s.target \notin Walked(edges, s.source, k)
    BY <1>2 DEF Answered
  <2>2. /\ \A d \in Nat : Level(edges, s.source, s.target, d) => Distance(s.source, s.target) = d
        /\ (\A k \in Nat : s.target \notin Walked(edges, s.source, k))
             => Distance(s.source, s.target) = -1
    BY <1>0, <1>2, DistanceIs
  <2>3. ASSUME NEW d \in Nat, Level(edges, s.source, s.target, d), s.found = {<<s.target, d>>}
        PROVE  s.found = IF Distance(s.source, s.target) = -1 THEN {}
                         ELSE {<<s.target, Distance(s.source, s.target)>>}
    BY <2>2, <2>3
  <2> QED
    BY <2>1, <2>2, <2>3
<1>5. LimitKeepsTop
  <2> SUFFICES ASSUME query.state = "done"
               PROVE  TopKept(status, Chosen(query.stmt), query.stmt, query.rows)
    BY DEF LimitKeepsTop, TopRows, TopKept, Chosen, Lower
  <2> QED
    BY DEF AnswersInv, NoQuery
<1> QED
  BY <1>3, <1>4, <1>5 DEF AnswersExact

(* A search of the graph finds what is within the depth asked for, each node at its     *)
(* distance, a path is a shortest one, and what LIMIT leaves out of a query's rows does *)
(* not come before them where ORDER BY names the key of a column: neighbors and path of memory/graph.py and execute_query of     *)
(* core/dataview.py, for any graph.                                                     *)
THEOREM AnswersExactHolds == QuerySpec => []AnswersExact
<1>1. QueryInit => AnswersInv
  BY DEF QueryInit, AnswersInv
<1>2. AnswersInv /\ [QueryNext]_queryVars => AnswersInv'
  BY AnswersStep, AnswersStay
<1>3. AnswersInv => AnswersExact
  BY AnswersFollow
<1> QED
  BY <1>1, <1>2, <1>3, PTL DEF QuerySpec
==============================================================================
