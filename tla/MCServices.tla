------------------------------ MODULE MCServices ------------------------------
(***************************************************************************)
(* The components that answer or end something, each under its fairness:   *)
(* audit logger, model calls and streams, backup, webhook, resolver,       *)
(* request pipeline and event bus; and the Redis lock with prompt          *)
(* commands, of which nothing is asked to end.  They share no state here,  *)
(* so a behaviour moves one of them, chosen at the start: the states add   *)
(* up instead of multiplying.                                              *)
(***************************************************************************)
EXTENDS AuditLog, LLMRouter, LLMStream, Backup, Webhook, Resolver, RequestPipeline, EventBus,
        RedisLock

VARIABLE component  \* the one that moves

redisVars == vars  \* RedisLock has the plain names

servicesVars == <<component, auditVars, routerVars, streamVars, backupVars, hookVars,
                  resolverVars, pipelineVars, busVars, redisVars>>

Components ==
  {"audit", "router", "stream", "backup", "webhook", "resolver", "pipeline", "bus", "redis"}

MCConversations == {<<1, 2, 1, 1>>}

Asks(path, method, https, user, parts, secretIn, large) ==
  [path |-> path, method |-> method, https |-> https, user |-> user, parts |-> parts,
   secret |-> secretIn, large |-> large]

MCRequestKinds ==
  {Asks("health", "GET", FALSE, "nobody", 0, FALSE, FALSE),
   Asks("api", "GET", FALSE, "ann", 0, FALSE, FALSE),
   Asks("api", "POST", TRUE, "bob", 2, TRUE, FALSE),
   Asks("api", "POST", TRUE, "nobody", 1, FALSE, TRUE)}

MCPipelineSettings ==
  {[redirect |-> FALSE, hsts |-> TRUE, security |-> TRUE, sliding |-> TRUE],
   [redirect |-> TRUE, hsts |-> FALSE, security |-> TRUE, sliding |-> FALSE],
   [redirect |-> FALSE, hsts |-> FALSE, security |-> FALSE, sliding |-> TRUE]}

\* Two clients in one process, a third in another.
MCProcessOf == [c \in Clients |-> IF c = "a3" THEN "p2" ELSE "p1"]

MCWantedBy == [p \in Publications |-> Subscribers]

\* A component that does not move starts in one of its initial states only.
Parked ==
  /\ component # "resolver" => ~autogen /\ \A a \in Failing : kind[a] = "normal"
  /\ component # "pipeline" => setting = CHOOSE s \in PipelineSettings : TRUE
  /\ component # "bus" => bus = "EventBus"

ServicesInit ==
  /\ component \in Components
  /\ AuditInit /\ RouterInit /\ StreamInit /\ BackupInit /\ HookInit
  /\ ResolverInit /\ PipelineInit /\ BusInit /\ Init
  /\ Parked

Rest(c, variables) == IF component = c THEN TRUE ELSE UNCHANGED variables

ServicesNext ==
  /\ \/ component = "audit" /\ AuditNext
     \/ component = "router" /\ RouterNext
     \/ component = "stream" /\ StreamNext
     \/ component = "backup" /\ BackupNext
     \/ component = "webhook" /\ HookNext
     \/ component = "resolver" /\ ResolverNext
     \/ component = "pipeline" /\ PipelineNext
     \/ component = "bus" /\ BusNext
     \/ component = "redis" /\ Next
  /\ Rest("audit", auditVars) /\ Rest("router", routerVars) /\ Rest("stream", streamVars)
  /\ Rest("backup", backupVars) /\ Rest("webhook", hookVars)
  /\ Rest("resolver", resolverVars) /\ Rest("pipeline", pipelineVars) /\ Rest("bus", busVars)
  /\ Rest("redis", redisVars)
  /\ UNCHANGED component

\* The fairness of each component, where it is the one that moves.
ServicesFairness ==
  /\ WF_auditVars(component = "audit" /\ TimerFires)
  /\ \A f \in Writers : WF_auditVars(component = "audit" /\ (WriteDay(f) \/ WriteFails(f)))
  /\ WF_routerVars(component = "router" /\ RouterStep)
  /\ WF_streamVars(component = "stream" /\ StreamStep)
  /\ WF_backupVars(component = "backup" /\ BackupRun)
  /\ WF_backupVars(component = "backup" /\ NextDay)
  /\ \A d \in Deliveries : /\ WF_hookVars(component = "webhook" /\ StartReview(d))
                           /\ WF_hookVars(component = "webhook" /\ RunReview(d))
  /\ \A a \in Failing : WF_resolverVars(component = "resolver" /\ ResolverStep(a))
  /\ \A r \in Requests : WF_pipelineVars(component = "pipeline" /\ RequestStep(r))
  /\ \A p \in Publications : WF_busVars(component = "bus" /\ Dispatch(p))

ServicesSpec == ServicesInit /\ [][ServicesNext]_servicesVars /\ ServicesFairness

\* Whatever the components begin comes to an end, with failing calls, clients that
\* leave and steps that raise: calls and streams of models, requests, reviews,
\* repairs and publications; and backups go on after one that failed.
WorkEnds ==
  /\ CallsEnd
  /\ StreamsEnd
  /\ BackupsKeepComing
  /\ QueuedReviewsEnd
  /\ ResolutionsEnd
  /\ RequestsEnd
  /\ PublicationsEnd
================================================================================
