--------------------------- MODULE DataMigration ---------------------------
(***************************************************************************)
(* migration/engine.py: copies of the graph's nodes from one tenant or     *)
(* group to another.  No await of a run suspends it, so a run is one step  *)
(* of the event loop; what goes wrong is a node that cannot be copied.  A  *)
(* rollback deletes nothing (it is a log line), so runs are repeated over  *)
(* what earlier ones left.                                                 *)
(*                                                                         *)
(* A node's id is the sequence of prefixes put before its first name.      *)
(***************************************************************************)
EXTENDS Integers, Sequences, FiniteSets

CONSTANTS Names,          \* nodes of tenant "A"; one of them in group "g"
          BatchSize,
          MaxMigrated,    \* max_total_nodes
          MaxRuns,        \* bound on migrations
          MaxEdits,       \* bound on edits of a node's content
          MaxCopyFaults   \* bound on nodes that cannot be copied

ASSUME MigrationAssumption ==
  /\ IsFiniteSet(Names) /\ BatchSize \in 1..1000
  /\ {MaxMigrated, MaxRuns, MaxEdits, MaxCopyFaults} \subseteq Nat

VARIABLES
  stored,      \* the nodes of the graph
  outcome,     \* MigrationResult of the last run
  trail,       \* the engine's audit log: outcomes
  migrations, edits, copyFaults

migrationVars == <<stored, outcome, trail, migrations, edits, copyFaults>>

Tenants == {"A", "B"}
Groups == {"none", "g", "h"}
Original == <<>>
Node(name, group) ==
  [id |-> <<name>>, tenant |-> "A", group |-> group, content |-> 0, from |-> Original]
NoOutcome == [status |-> "pending", total |-> 0, processed |-> 0]

\* The runs asked for: a tenant to another, a group to another, a group away
Config(st, sg, tt, tg, dry, approved) ==
  [sourceTenant |-> st, sourceGroup |-> sg, targetTenant |-> tt, targetGroup |-> tg,
   dryRun |-> dry, approved |-> approved]
Asked ==
  {Config("A", sg, "B", tg, dry, TRUE) : sg \in {"none", "g"}, tg \in {"none", "h"},
                                         dry \in BOOLEAN}
    \cup {Config("A", "g", "A", tg, FALSE, TRUE) : tg \in {"none", "h"}}
    \cup {Config("A", "none", "B", "none", FALSE, FALSE), Config("B", "none", "A", "none", FALSE, TRUE)}

MigrationInit ==
  /\ stored = {Node(n, IF n = CHOOSE m \in Names : TRUE THEN "g" ELSE "none") : n \in Names}
  /\ outcome = NoOutcome
  /\ trail = <<>>
  /\ migrations = 0 /\ edits = 0 /\ copyFaults = 0

-----------------------------------------------------------------------------
\* pre_check
Permitted(c) ==
  /\ c.approved
  /\ ~(c.sourceTenant = c.targetTenant /\ c.targetGroup = "none")

\* Mutant: the tenant is not asked for
SelectedOfAll(nodes, c) == {n \in nodes : c.sourceGroup \in {"none", n.group}}

\* select_nodes
Selected(nodes, c) ==
  {n \in nodes : n.tenant = c.sourceTenant /\ c.sourceGroup \in {"none", n.group}}

\* the copy of copy_batch, under the target's prefix and tags
CopyOf(n, c) ==
  [n EXCEPT !.id = <<c.targetTenant>> \o @, !.tenant = c.targetTenant, !.from = n.id,
            !.group = IF c.targetGroup = "none" THEN @ ELSE c.targetGroup]

\* add_node: a node of that id is replaced
Added(nodes, copies) ==
  {n \in nodes : \A m \in copies : m.id # n.id} \cup copies

\* the selected nodes as a list
InOrder(S) ==
  CHOOSE q \in [1..Cardinality(S) -> S] : \A n \in S : \E i \in DOMAIN q : q[i] = n

\* the batches of run: range(0, len, batch_size)
Batched(S) ==
  LET q     == InOrder(S)
      total == Cardinality(S)
  IN  {{q[k] : k \in (i + 1)..(IF i + BatchSize < total THEN i + BatchSize ELSE total)} :
         i \in {j \in 0..(total - 1) : j % BatchSize = 0}}

\* What a run copies, but for the nodes that fail
CopiedBy(nodes, c, failing) ==
  {CopyOf(n, c) : n \in (UNION Batched(Selected(nodes, c))) \ failing}

Ends(status, total, processed) ==
  outcome' = [status |-> status, total |-> total, processed |-> processed]
Audited(what) == trail' = IF Len(trail) < MaxRuns THEN Append(trail, what) ELSE trail

\* "simple check - count match"
CountsMatch(processed, total) == processed >= total

\* run
Migrate(c) ==
  /\ migrations < MaxRuns
  /\ migrations' = migrations + 1
  /\ LET chosen == Selected(stored, c)
         total == Cardinality(chosen)
     IN  \/ /\ ~Permitted(c) \/ total > MaxMigrated
            /\ Ends("failed", 0, 0)
            /\ UNCHANGED <<stored, trail, copyFaults>>
         \/ /\ Permitted(c) /\ total <= MaxMigrated /\ c.dryRun
            /\ Ends("completed", total, 0) /\ Audited("dry_run")
            /\ UNCHANGED <<stored, copyFaults>>
         \/ /\ Permitted(c) /\ total <= MaxMigrated /\ ~c.dryRun
            /\ \E failing \in SUBSET chosen :
                 LET copies == CopiedBy(stored, c, failing)
                     processed == Cardinality(copies)
                     whole == CountsMatch(processed, total)
                 IN  /\ Cardinality(failing) + copyFaults <= MaxCopyFaults
                     /\ copyFaults' = copyFaults + Cardinality(failing)
                     /\ stored' = Added(stored, copies)
                     /\ Ends(IF whole THEN "completed" ELSE "rolled_back", total, processed)
                     /\ Audited(IF whole THEN "completed" ELSE "rollback")
  /\ UNCHANGED edits

\* somebody works on a node, original or copy
Edit(n) ==
  /\ edits < MaxEdits
  /\ edits' = edits + 1
  /\ stored' = (stored \ {n}) \cup {[n EXCEPT !.content = @ + 1]}
  /\ UNCHANGED <<outcome, trail, migrations, copyFaults>>

MigrationNext ==
  \/ \E c \in Asked : Migrate(c)
  \/ \E n \in stored : Edit(n)

MigrationSpec == MigrationInit /\ [][MigrationNext]_migrationVars

-----------------------------------------------------------------------------
(***************************************************************************)
(* The run can be repeated after a "rollback" that left copies behind: it  *)
(* ends as if it had gone through at once, and once more changes nothing.  *)
(* (Not so within one tenant without a source group, where the copies are  *)
(* selected again; no run above asks for that.  Nor is there anything to   *)
(* repeat of a run of more nodes than are allowed, which is refused.)      *)
(***************************************************************************)
RunsConverge ==
  migrations > 0 =>
    \A c \in Asked :
      LET full == Added(stored, CopiedBy(stored, c, {}))
      IN  Permitted(c) /\ Cardinality(Selected(stored, c)) <= MaxMigrated =>
            \A n \in Selected(stored, c) :
              LET left == Added(stored, CopiedBy(stored, c, {n}))
              IN  Added(left, CopiedBy(left, c, {})) = full

\* "Restore from snapshot (deletes target copies)" (the docstring of rollback,
\* migration/engine.py:188): a run that was rolled back leaves the graph as it found
\* it.  TLC shows that it leaves its copies; RunsConverge says what they come to.
RollbackRestores ==
  [][\A c \in Asked : Migrate(c) /\ outcome'.status = "rolled_back" => stored' = stored]_migrationVars
=============================================================================
