---------------------------- MODULE GraphStorage ----------------------------
(***************************************************************************)
(* The pluggable stores of the knowledge graph (memory/storage/): a file   *)
(* per node and appended link lines (json), or upserts in transactions     *)
(* (sqlite; postgres with foreign keys), behind StorageManager, and the    *)
(* command that migrates one into another while the owner of the source    *)
(* may go on writing.                                                      *)
(*                                                                         *)
(* A node's content is its version.  The owner writes with one thread and  *)
(* links only nodes that it has.                                           *)
(***************************************************************************)
EXTENDS Integers, FiniteSets

CONSTANTS StoreNodes,
          Versions,            \* contents of a node: 1..Versions
          MaxStoreFaults,      \* crashes of the owner, failed saves of the target
          MaxMigrations

VARIABLES source, target,  \* [kind, nodes, links]; 0 no node, -1 a torn file
          owner,           \* the node file being written or the node being deleted
          job,             \* the migration: what it listed, what is left, its report
          tally            \* faults, migrations, and whether the source changed since the first

storeVars == <<source, target, owner, job, tally>>

StoreLinks == {l \in StoreNodes \X StoreNodes : l[1] # l[2]}
EmptyStore(kind) == [kind |-> kind, nodes |-> [n \in StoreNodes |-> 0],
                     links |-> [l \in StoreLinks |-> 0]]
ReadableIn(s) == {n \in StoreNodes : s.nodes[n] > 0}
NoJob == [phase |-> "none"]
Idle == [phase |-> "idle"]

StoreInit ==
  /\ source = EmptyStore("none") /\ target = EmptyStore("none")
  /\ owner = Idle
  /\ job = NoJob
  /\ tally = [faults |-> 0, migrations |-> 0, quiet |-> TRUE]

\* get_storage: the backends named on the command line
Open(from, to) ==
  /\ source.kind = "none"
  /\ source' = EmptyStore(from) /\ target' = EmptyStore(to)
  /\ UNCHANGED <<owner, job, tally>>

Touched == tally' = [tally EXCEPT !.quiet = FALSE]
OwnerMay == source.kind # "none" /\ owner = Idle

\* save_node: in one transaction, or by truncating and writing the file
SaveNode(n, v) ==
  /\ OwnerMay /\ v > source.nodes[n]
  /\ IF source.kind = "json"
     THEN /\ source' = [source EXCEPT !.nodes[n] = -1]
          /\ owner' = [phase |-> "write", node |-> n, version |-> v]
     ELSE source' = [source EXCEPT !.nodes[n] = v] /\ UNCHANGED owner
  /\ Touched
  /\ UNCHANGED <<target, job>>

NodeWritten ==
  /\ owner.phase = "write"
  /\ source' = [source EXCEPT !.nodes[owner.node] = owner.version]
  /\ owner' = Idle
  /\ Touched
  /\ UNCHANGED <<target, job>>

\* save_link on a store: a line more, or an upsert
WithLink(s, l) == [s EXCEPT !.links[l] = IF s.kind = "json" THEN @ + 1 ELSE 1]

SaveStoreLink(l) ==
  /\ OwnerMay /\ {l[1], l[2]} \subseteq ReadableIn(source) /\ source.links[l] < 2
  /\ source' = WithLink(source, l)
  /\ Touched
  /\ UNCHANGED <<target, owner, job>>

\* Mutant: the row goes, its links stay
WithoutNodeOnly(s, n) == [s EXCEPT !.nodes[n] = 0]

WithoutNode(s, n) ==
  [s EXCEPT !.nodes[n] = 0,
            !.links = [l \in StoreLinks |-> IF n \in {l[1], l[2]} THEN 0 ELSE s.links[l]]]

\* delete_node: one transaction (or a cascade), or the file first and then the
\* lines of its links
DeleteStoreNode(n) ==
  /\ OwnerMay /\ source.nodes[n] > 0
  /\ IF source.kind = "json"
     THEN /\ source' = [source EXCEPT !.nodes[n] = 0]
          /\ owner' = [phase |-> "delete", node |-> n]
     ELSE source' = WithoutNode(source, n) /\ UNCHANGED owner
  /\ Touched
  /\ UNCHANGED <<target, job>>

\* delete_links_for_node rewrites the file of every month
LinksDeleted ==
  /\ owner.phase = "delete"
  /\ source' = WithoutNode(source, owner.node)
  /\ owner' = Idle
  /\ Touched
  /\ UNCHANGED <<target, job>>

OwnerCrashes ==
  /\ owner # Idle /\ tally.faults < MaxStoreFaults
  /\ owner' = Idle
  /\ tally' = [tally EXCEPT !.faults = @ + 1]
  /\ UNCHANGED <<source, target, job>>

\* migrate: list_nodes skips a file it cannot read, with a warning
MigrateStore ==
  /\ source.kind # "none" /\ job.phase \in {"none", "done"} /\ tally.migrations < MaxMigrations
  /\ job' = [phase |-> "nodes", listed |-> [n \in ReadableIn(source) |-> source.nodes[n]],
             left |-> ReadableIn(source), errors |-> FALSE, verified |-> FALSE]
  /\ tally' = [tally EXCEPT !.migrations = @ + 1, !.quiet = @ \/ tally.migrations = 0]
  /\ UNCHANGED <<source, target, owner>>

\* target.save_node, or an error that is reported
MigrateNode(n) ==
  /\ job.phase = "nodes" /\ n \in job.left
  /\ \/ /\ target' = [target EXCEPT !.nodes[n] = job.listed[n]]
        /\ job' = [job EXCEPT !.left = @ \ {n}]
        /\ UNCHANGED tally
     \/ /\ tally.faults < MaxStoreFaults
        /\ tally' = [tally EXCEPT !.faults = @ + 1]
        /\ job' = [job EXCEPT !.left = @ \ {n}, !.errors = TRUE]
        /\ UNCHANGED target
  /\ UNCHANGED <<source, owner>>

NodesMigrated ==
  /\ job.phase = "nodes" /\ job.left = {}
  /\ job' = [job EXCEPT !.phase = "links", !.left = DOMAIN job.listed]
  /\ UNCHANGED <<source, target, owner, tally>>

\* list_links(direction="out") of a listed node, each once (seen_link_keys)
LinksOf(n) == {l \in StoreLinks : l[1] = n /\ source.links[l] > 0}

\* A link to a node that is not there breaks a foreign key of postgres
Accepted(s, links) ==
  IF s.kind = "postgres" THEN {l \in links : {l[1], l[2]} \subseteq ReadableIn(s)} ELSE links

\* save_link of each
MigrateLinksOf(n) ==
  /\ job.phase = "links" /\ n \in job.left
  /\ LET fit == Accepted(target, LinksOf(n))
     IN /\ target' = [target EXCEPT !.links =
             [l \in StoreLinks |-> IF l \in fit THEN WithLink(target, l).links[l] ELSE @[l]]]
        /\ job' = [job EXCEPT !.left = @ \ {n}, !.errors = @ \/ fit # LinksOf(n)]
  /\ UNCHANGED <<source, owner, tally>>

\* The counts of nodes are compared
Verify ==
  /\ job.phase = "links" /\ job.left = {}
  /\ job' = [job EXCEPT !.phase = "done",
               !.verified = Cardinality(ReadableIn(target)) = Cardinality(DOMAIN job.listed)]
  /\ UNCHANGED <<source, target, owner, tally>>

\* load_graph: of equal link lines one is kept
Load(s) == [nodes |-> [n \in ReadableIn(s) |-> s.nodes[n]],
            links |-> [l \in StoreLinks |-> IF s.links[l] > 0 THEN 1 ELSE 0]]

StoreNext ==
  \/ \E from, to \in {"json", "sqlite", "postgres"} : Open(from, to)
  \/ \E n \in StoreNodes :
       \/ \E v \in 1..Versions : SaveNode(n, v)
       \/ DeleteStoreNode(n) \/ MigrateNode(n) \/ MigrateLinksOf(n)
  \/ \E l \in StoreLinks : SaveStoreLink(l)
  \/ NodeWritten \/ LinksDeleted \/ OwnerCrashes \/ MigrateStore \/ NodesMigrated \/ Verify

StoreSpec == StoreInit /\ [][StoreNext]_storeVars

-------------------------------------------------------------------------------
Dangling(s) == {l \in StoreLinks : s.links[l] > 0 /\ ~({l[1], l[2]} \subseteq ReadableIn(s))}

(* A migration that reports no error and equal counts, of a source nobody     *)
(* wrote to, gives a target that loads as the source does, also when it is    *)
(* run again over its own result.  Links of nodes that cannot be read stay    *)
(* behind: they are listed by their source node.                              *)
MigratedFaithfully ==
  job.phase = "done" /\ job.verified /\ ~job.errors /\ tally.quiet =>
    /\ Load(target).nodes = Load(source).nodes
    /\ \A l \in StoreLinks :
         Load(target).links[l] =
           IF source.links[l] > 0 /\ l[1] \in ReadableIn(source) THEN 1 ELSE 0

(* A stored link joins two stored nodes; with the databases always, with the  *)
(* files except while a node is written or deleted, or after a crash in it.   *)
LinksAnchored ==
  Dangling(source) # {} => source.kind = "json" /\ (owner # Idle \/ tally.faults > 0)

(* A store agrees with itself, and a migrated one with its source.            *)
StoresAgree == MigratedFaithfully /\ LinksAnchored
==============================================================================
