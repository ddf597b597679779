------------------------------ MODULE MCQueries ------------------------------
(***************************************************************************)
(* The components that answer questions about what others keep: the task   *)
(* list, the queries of the audit log and those of the graph; and the      *)
(* in-process lock.  They share no state, so a behaviour moves one of      *)
(* them, chosen at the start.                                              *)
(***************************************************************************)
EXTENDS TaskListing, AuditQuery, GraphQueries, ResourceLock

\* Readers of two tenants, one of the same id in both, an administrator of a tenant
\* and one of the platform without a tenant.
User(id, tenant, role, member) == [id |-> id, tenant |-> tenant, role |-> role, member |-> member]

MCUsers ==
  {User("ann", "acme", "user", {<<"group", "g">>}), User("ann", "beta", "user", {}),
   User("bob", "acme", "tenant_admin", {}),
   User("cyd", "acme", "user", {<<"group", "g">>, <<"project", "p">>}),
   User("root", "", "platform_admin", {})}

Space(visibility, to, shared) == [visibility |-> visibility, open |-> to, shared |-> shared]

MCTaskSpaces ==
  {Private, Space("private", {<<"group", "g">>}, {}), Space("group", {<<"group", "g">>}, {}),
   Space("external", {}, {"cyd"}), Space("tenant_public", {}, {})}

VARIABLE component  \* the one that moves

\* Every coroutine passes a holder id of its own.
MCOwnHolders == [c \in Coroutines |-> CASE c = "c1" -> "ann" [] c = "c2" -> "bob" [] OTHER -> "cid"]

questionVars == <<component, listingVars, auditQueryVars, queryVars, leaseVars>>

QueriesInit ==
  /\ component \in {"listing", "audit queries", "graph queries", "lock"}
  /\ ListingInit /\ AuditQueryInit /\ QueryInit /\ LeaseInit

QueriesNext ==
  /\ \/ component = "listing" /\ ListingNext
     \/ component = "audit queries" /\ AuditQueryNext
     \/ component = "graph queries" /\ QueryNext
     \/ component = "lock" /\ LeaseNext
  /\ component # "listing" => UNCHANGED listingVars
  /\ component # "audit queries" => UNCHANGED auditQueryVars
  /\ component # "graph queries" => UNCHANGED queryVars
  /\ component # "lock" => UNCHANGED leaseVars
  /\ UNCHANGED component

QueriesSpec == QueriesInit /\ [][QueriesNext]_questionVars
==============================================================================
