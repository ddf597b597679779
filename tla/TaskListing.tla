---------------------------- MODULE TaskListing ----------------------------
(***************************************************************************)
(* The task list of api/routes/tasks.py: it asks the store for its newest  *)
(* records of a tenant, keeps those core/access_control.py lets the reader *)
(* see, and cuts a page out.  The store is InMemoryTaskStore, to which     *)
(* PostgresTaskStore always falls back: it lists records in the order in   *)
(* which their ids were first submitted.                                   *)
(***************************************************************************)
EXTENDS Positions

CONSTANTS Users,          \* of several tenants
          TaskStatuses,   \* what a task can have come to
          TaskSpaces,     \* what a task may be opened to, private included
          PageSize,       \* the limit readers ask for
          MaxListed,      \* bound on the tasks
          MaxUpdates      \* bound on changes of a task

\* A membership is a pair <<space, group>>, space one of perm_group, group, project.
ASSUME ListingAssumption ==
  /\ \A u \in Users : {"id", "tenant", "role", "member"} = DOMAIN u
  /\ \A s \in TaskSpaces : {"visibility", "open", "shared"} = DOMAIN s
  /\ PageSize \in Nat \ {0} /\ MaxListed \in Nat /\ MaxUpdates \in Nat

VARIABLES
  listed,  \* the records of the store, in the order of its dictionary
  updates

listingVars == <<listed, updates>>

Private == [visibility |-> "private", open |-> {}, shared |-> {}]

ListingInit == listed = <<>> /\ updates = 0

(***************************************************************************)
(* AccessControl                                                           *)
(***************************************************************************)
\* _check_space_level
SpaceOpen(u, r) ==
  \/ \E g \in u.member : g[1] = r.space.visibility /\ g \in r.space.open
  \/ r.space.visibility = "external" /\ u.id \in r.space.shared

\* Rule 1, Tenant isolation
SameTenant(u, r) == r.tenant = u.tenant \/ u.role = "platform_admin"

\* Rules 2 and 3, admins and the owner
Full(u, r) == u.role \in {"platform_admin", "tenant_admin"} \/ r.owner = u.id

\* can_read
CanRead(u, r) ==
  /\ SameTenant(u, r)
  /\ \/ Full(u, r)
     \/ r.space.visibility = "tenant_public" \/ u.id \in r.space.shared
     \/ SpaceOpen(u, r)

(***************************************************************************)
(* The store and the list                                                  *)
(***************************************************************************)
NewestFirst == {p \in (DOMAIN listed) \X (DOMAIN listed) : p[1] > p[2]}
OldestFirst == {p \in (DOMAIN listed) \X (DOMAIN listed) : p[1] < p[2]}

\* The filters of the store, by position; an empty one lets everything pass
Filtered(tenant, status) ==
  {i \in DOMAIN listed : /\ tenant = "" \/ listed[i].tenant = tenant
                         /\ status = "" \/ listed[i].status = status}

\* Mutant: the limit is applied before the filters
StoreCutsFirst(tenant, status, asked) ==
  FirstOf(asked, DOMAIN listed, NewestFirst) \cap Filtered(tenant, status)

\* InMemoryTaskStore.list: the last of the records that match
StoreList(tenant, status, asked) == FirstOf(asked, Filtered(tenant, status), NewestFirst)

\* list_tasks: what the reader may see of the store's answer, oldest first, cut
Page(u, status, offset) ==
  LET visible == {i \in StoreList(u.tenant, status, PageSize + offset) : CanRead(u, listed[i])}
  IN  FirstOf(offset + PageSize, visible, OldestFirst) \ FirstOf(offset, visible, OldestFirst)

\* submit_task has run an agent: the record is saved, private and its owner's.  Under
\* an id the store has it replaces the other record, whoever's that was, in its place.
SaveTask(u, i, status) ==
  LET record == [tenant |-> u.tenant, owner |-> u.id, status |-> status, space |-> Private]
  IN  /\ i <= MaxListed
      /\ listed' = IF i \in DOMAIN listed THEN [listed EXCEPT ![i] = record]
                   ELSE Append(listed, record)
      /\ UNCHANGED updates

\* update_fields: a status by the gRPC run, visibility and metadata by an operator's
\* script; no route does
UpdateTask(i, status, s) ==
  /\ updates < MaxUpdates /\ updates' = updates + 1
  /\ listed' = [listed EXCEPT ![i].status = status, ![i].space = s]

ListingNext ==
  \/ \E u \in Users, i \in 1..(Len(listed) + 1), status \in TaskStatuses : SaveTask(u, i, status)
  \/ \E i \in DOMAIN listed, status \in TaskStatuses, s \in TaskSpaces : UpdateTask(i, status, s)

ListingSpec == ListingInit /\ [][ListingNext]_listingVars

(***************************************************************************)
(* Properties                                                              *)
(***************************************************************************)
\* What a reader may ask for, "" for any
Filters == {""} \cup TaskStatuses

\* What comes behind a task in the store and passes the reader's filters
NewerThan(i, u, status) == {j \in Filtered(u.tenant, status) : j > i}

\* The first page shows a task exactly when its reader may see it and fewer than a page
\* of tasks of the same tenant, and of the status asked for, have come after it.  What
\* other tenants submit, also under ids of this one's tasks, pushes nothing off and is
\* never shown; tasks of the own tenant that the reader may not see do push.
RecentShown == \A u \in Users, status \in Filters, i \in DOMAIN listed :
  u.tenant # "" =>
    (i \in Page(u, status, 0) <=>
       /\ listed[i].tenant = u.tenant /\ status \in {"", listed[i].status}
       /\ CanRead(u, listed[i])
       /\ Cardinality(NewerThan(i, u, status)) < PageSize)

\* No page shows what the first does not: with an offset the route asks the store for
\* as many records more as it then cuts off at the old end.  An offset can only take
\* away, and nothing but the newest PageSize can be had from the list.
PagesWithinFirst == \A u \in Users, status \in Filters, offset \in 1..MaxListed :
  Page(u, status, offset) \subseteq Page(u, status, 0)

\* What is listed, and what is not.
ListsRight == RecentShown /\ PagesWithinFirst

\* What tests/test_task_store_integration.py says of two pages, "first and second pages
\* (with limit=1) should return different items".  It asks only for their lengths, and
\* TLC shows that they are the same item.
PagesDiffer == \A u \in Users : Page(u, "", 0) \cap Page(u, "", PageSize) = {}
=============================================================================
