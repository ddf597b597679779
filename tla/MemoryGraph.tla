----------------------------- MODULE MemoryGraph -----------------------------
(***************************************************************************)
(* The knowledge graph: nodes and two-way links in memory                  *)
(* (memory/graph.py), what an execution records in it                      *)
(* (memory/experience.py), the files the records go to                     *)
(* (memory/persistence.py) and the start and stop of the process           *)
(* (api/server.py).                                                        *)
(*                                                                         *)
(* A recording is a list of steps on memory and on files.  Executions run  *)
(* in threads of the gRPC pool as well as on the loop, so their steps      *)
(* interleave; the process may crash between any two.  A node file is      *)
(* truncated when it is opened and complete when it is closed; a link line *)
(* cut short spoils the line that is appended after it.                    *)
(***************************************************************************)
EXTENDS Integers, Sequences, FiniteSets

CONSTANTS GraphTasks,
          MaxExecutions,   \* executions under the same task id
          MaxGraphFaults,  \* crashes and failed writes
          MaxRemovals,     \* nodes archived or deleted
          MaxStarts        \* runs of the process

ASSUME GraphAssumption ==
  /\ IsFiniteSet(GraphTasks) /\ "shutdown" \notin GraphTasks
  /\ MaxExecutions \in Nat

VARIABLES
  graph,     \* get_graph(): nodes, out and in, the links by number of copies
  files,     \* nodes/<type>/<id>.json: "none", "torn" or a content
  lines,     \* links.jsonl: the readable lines of a link
  tornTail,  \* the last line has no end
  todo,      \* what the recording of a task, or the shutdown, has still to do
  run        \* "up", "stopping", "down"; executions not yet recorded; counters

graphVars == <<graph, files, lines, tornTail, todo, run>>

Nodes == {"task", "output", "failure", "exp"} \X GraphTasks
LinkSet ==
  {[source |-> <<"task", t>>, target |-> <<k, t>>] : k \in {"output", "failure", "exp"},
                                                     t \in GraphTasks}
    \cup {[source |-> <<"failure", t>>, target |-> <<"exp", u>>] : t, u \in GraphTasks}
Recorders == GraphTasks \cup {"shutdown"}
EmptyGraph == [nodes |-> [n \in Nodes |-> "none"],
               out |-> [l \in LinkSet |-> 0], in |-> [l \in LinkSet |-> 0]]

GraphInit ==
  /\ graph = EmptyGraph
  /\ files = [n \in Nodes |-> "none"]
  /\ lines = [l \in LinkSet |-> 0]
  /\ tornTail = FALSE
  /\ todo = [r \in Recorders |-> <<>>]
  /\ run = [state |-> "up", left |-> [t \in GraphTasks |-> MaxExecutions],
            running |-> {}, faults |-> 0, removals |-> 0, starts |-> 1]

\* The steps: a node is put in memory and its file opened; the file is dumped;
\* links are registered and their lines appended, in any order
Store(n, content, dumped) ==
  <<[op |-> "store", node |-> n, content |-> content],
    [op |-> "dump", node |-> n, content |-> dumped]>>
JoinAll(links) == IF links = {} THEN <<>> ELSE <<[op |-> "join", links |-> links]>>
Join(s, t) == JoinAll({[source |-> s, target |-> t]})

\* record_task_start
Start(t) ==
  /\ run.state = "up" /\ run.left[t] > 0 /\ t \notin run.running /\ todo[t] = <<>>
  /\ todo' = [todo EXCEPT ![t] = Store(<<"task", t>>, "running", "running")]
  /\ run' = [run EXCEPT !.left[t] = @ - 1, !.running = @ \cup {t}]
  /\ UNCHANGED <<graph, files, lines, tornTail>>

\* Mutant: the node of the task is saved before its status is set
FinishedStale(t, status) ==
  IF graph.nodes[<<"task", t>>] = "none" THEN <<>>
  ELSE Store(<<"task", t>>, status, graph.nodes[<<"task", t>>])

\* the node of the task is changed in place, if it is there
Finished(t, status) ==
  IF graph.nodes[<<"task", t>>] = "none" THEN <<>> ELSE Store(<<"task", t>>, status, status)

\* record_task_complete and record_experience
Succeed(t) ==
  /\ t \in run.running /\ todo[t] = <<>>
  /\ todo' = [todo EXCEPT ![t] =
       Finished(t, "completed")
         \o Store(<<"output", t>>, "done", "done") \o Join(<<"task", t>>, <<"output", t>>)
         \o Store(<<"exp", t>>, "done", "done") \o Join(<<"task", t>>, <<"exp", t>>)]
  /\ run' = [run EXCEPT !.running = @ \ {t}]
  /\ UNCHANGED <<graph, files, lines, tornTail>>

\* record_task_failure: by the resolver when it escalates, and at the end; the
\* failure is linked to experiences that look similar
Fail(t, last, similar) ==
  /\ t \in run.running /\ todo[t] = <<>>
  /\ last \/ graph.nodes[<<"failure", t>>] = "none"
  /\ todo' = [todo EXCEPT ![t] =
       Finished(t, "failed")
         \o Store(<<"failure", t>>, "done", "done") \o Join(<<"task", t>>, <<"failure", t>>)
         \o JoinAll({[source |-> <<"failure", t>>, target |-> e] : e \in similar})]
  /\ run' = [run EXCEPT !.running = IF last THEN @ \ {t} ELSE @]
  /\ UNCHANGED <<graph, files, lines, tornTail>>

Next1(r) == Head(todo[r])
Done(r) == todo' = [todo EXCEPT ![r] = Tail(@)]

\* add_node, then save_node: open(..., "w") truncates
StoreNode(r) ==
  /\ todo[r] # <<>> /\ Next1(r).op = "store"
  /\ graph' = [graph EXCEPT !.nodes[Next1(r).node] = Next1(r).content]
  /\ files' = [files EXCEPT ![Next1(r).node] = "torn"]
  /\ Done(r)
  /\ UNCHANGED <<lines, tornTail, run>>

DumpNode(r) ==
  /\ todo[r] # <<>> /\ Next1(r).op = "dump"
  /\ files' = [files EXCEPT ![Next1(r).node] = Next1(r).content]
  /\ Done(r)
  /\ UNCHANGED <<graph, lines, tornTail, run>>

\* link: only between nodes that are there; the caller ignores the answer
Registered(g, l) ==
  IF g.nodes[l.source] # "none" /\ g.nodes[l.target] # "none"
  THEN [g EXCEPT !.out = [g.out EXCEPT ![l] = @ + 1],
               !.in = [g.in EXCEPT ![l] = @ + 1]]
  ELSE g

\* link, then save_link; after a line that has no end, both are unreadable
JoinNodes(r) ==
  /\ todo[r] # <<>> /\ Next1(r).op = "join"
  /\ \E l \in Next1(r).links :
       /\ graph' = Registered(graph, l)
       /\ lines' = [lines EXCEPT ![l] = IF tornTail THEN @ ELSE @ + 1]
       /\ todo' = [todo EXCEPT ![r] = JoinAll(Next1(r).links \ {l}) \o Tail(@)]
  /\ tornTail' = FALSE
  /\ UNCHANGED <<files, run>>

\* The links that save_graph has still to write, by number of copies
Appends(copies) ==
  IF \A l \in LinkSet : copies[l] = 0 THEN <<>> ELSE <<[op |-> "append", copies |-> copies]>>
AppendsWithout(r, l) == Appends([Next1(r).copies EXCEPT ![l] = @ - 1])

\* The disk is full: False is returned, the recording goes on
WriteFails(r) ==
  /\ todo[r] # <<>> /\ run.faults < MaxGraphFaults
  /\ \/ Next1(r).op = "dump" /\ Done(r) /\ UNCHANGED <<tornTail, graph>>
     \/ /\ Next1(r).op = "join"
        /\ \E l \in Next1(r).links :
             /\ graph' = Registered(graph, l)
             /\ todo' = [todo EXCEPT ![r] = JoinAll(Next1(r).links \ {l}) \o Tail(@)]
        /\ tornTail' \in {tornTail, TRUE}
     \/ /\ Next1(r).op = "append"
        /\ \E l \in LinkSet : Next1(r).copies[l] > 0 /\ todo' = [todo EXCEPT ![r] = AppendsWithout(r, l)]
        /\ tornTail' \in {tornTail, TRUE}
        /\ UNCHANGED graph
  /\ run' = [run EXCEPT !.faults = @ + 1]
  /\ UNCHANGED <<files, lines>>

\* lifespan: stop waits 25 seconds for what is in flight, then save_graph: every
\* node it lists, and every outgoing link once more
Shutdown ==
  /\ run.state = "up" /\ run.starts < MaxStarts
  /\ run' = [run EXCEPT !.state = "stopping"]
  /\ todo' = [todo EXCEPT !["shutdown"] =
       <<[op |-> "save", nodes |-> {n \in Nodes : graph.nodes[n] # "none"}]>>]
  /\ UNCHANGED <<graph, files, lines, tornTail>>

\* save_graph and a node of it, in the order of the dict; recordings may be
\* writing the same file
SaveGraphNode ==
  /\ todo["shutdown"] # <<>> /\ Next1("shutdown").op = "save" /\ Next1("shutdown").nodes # {}
  /\ LET n == CHOOSE n \in Next1("shutdown").nodes : TRUE
         rest == <<[op |-> "save", nodes |-> Next1("shutdown").nodes \ {n}]>> IN
       IF graph.nodes[n] = "none"
       THEN todo' = [todo EXCEPT !["shutdown"] = rest] /\ UNCHANGED files
       ELSE /\ files' = [files EXCEPT ![n] = "torn"]
            /\ todo' = [todo EXCEPT !["shutdown"] =
                 <<[op |-> "dump", node |-> n, content |-> graph.nodes[n]]>> \o rest]
  /\ UNCHANGED <<graph, lines, tornTail, run>>

\* The links are those that are there once the nodes are saved
NodesSaved ==
  /\ todo["shutdown"] # <<>> /\ Next1("shutdown").op = "save" /\ Next1("shutdown").nodes = {}
  /\ todo' = [todo EXCEPT !["shutdown"] = Appends(graph.out)]
  /\ UNCHANGED <<graph, files, lines, tornTail, run>>

SaveGraphLink ==
  /\ todo["shutdown"] # <<>> /\ Next1("shutdown").op = "append"
  /\ \E l \in LinkSet :
       /\ Next1("shutdown").copies[l] > 0
       /\ lines' = [lines EXCEPT ![l] = IF tornTail THEN @ ELSE @ + 1]
       /\ todo' = [todo EXCEPT !["shutdown"] = AppendsWithout("shutdown", l)]
  /\ tornTail' = FALSE
  /\ UNCHANGED <<graph, files, run>>

Down(faults) ==
  /\ run' = [run EXCEPT !.state = "down", !.running = {}, !.faults = @ + faults]
  /\ todo' = [r \in Recorders |-> <<>>]
  /\ graph' = EmptyGraph
  /\ UNCHANGED <<files, lines>>

\* The interpreter joins the pool's threads: recordings under way are finished
Stop ==
  /\ run.state = "stopping" /\ \A r \in Recorders : todo[r] = <<>>
  /\ Down(0)
  /\ UNCHANGED tornTail

Crash ==
  /\ run.state # "down" /\ run.faults < MaxGraphFaults
  /\ Down(1)
  /\ tornTail' \in {tornTail} \cup
       {TRUE : r \in {q \in Recorders : todo[q] # <<>> /\ Head(todo[q]).op \in {"join", "append"}}}

\* load_graph: every readable file and line
OnDisk ==
  [nodes |-> [n \in Nodes |-> IF files[n] = "torn" THEN "none" ELSE files[n]],
   out |-> lines, in |-> lines]

\* lifespan: load_graph returns OnDisk, which nobody keeps
Startup ==
  /\ run.state = "down" /\ run.starts < MaxStarts
  /\ run' = [run EXCEPT !.state = "up", !.starts = @ + 1]
  /\ UNCHANGED <<graph, files, lines, tornTail, todo>>

\* archive_node: the copy in nodes/ stays, the node and its links leave memory.
\* Only of a node without links (compact), and not of one that is being recorded
ArchiveNode(n) ==
  /\ run.state = "up" /\ run.removals < MaxRemovals /\ todo[n[2]] = <<>> /\ n[2] \notin run.running
  /\ graph.nodes[n] # "none"
  /\ \A l \in LinkSet : n \in {l.source, l.target} => graph.out[l] = 0
  /\ graph' = [graph EXCEPT !.nodes[n] = "none"]
  /\ run' = [run EXCEPT !.removals = @ + 1]
  /\ UNCHANGED <<files, lines, tornTail, todo>>

Without(g, n) == [g EXCEPT !.nodes[n] = "none",
  !.out = [l \in LinkSet |-> IF n \in {l.source, l.target} THEN 0 ELSE @[l]],
  !.in = [l \in LinkSet |-> IF n \in {l.source, l.target} THEN 0 ELSE @[l]]]

\* delete_node, from memory only
DeleteNode(n) ==
  /\ run.state = "up" /\ run.removals < MaxRemovals /\ graph.nodes[n] # "none"
  /\ graph' = Without(graph, n)
  /\ run' = [run EXCEPT !.removals = @ + 1]
  /\ UNCHANGED <<files, lines, tornTail, todo>>

GraphNext ==
  \/ \E t \in GraphTasks :
       \/ Start(t) \/ Succeed(t)
       \/ \E last \in BOOLEAN,
             similar \in SUBSET {n \in Nodes : n[1] = "exp" /\ graph.nodes[n] # "none"} :
            Fail(t, last, similar)
  \/ \E r \in Recorders :
       StoreNode(r) \/ DumpNode(r) \/ JoinNodes(r) \/ WriteFails(r)
  \/ Shutdown \/ SaveGraphNode \/ NodesSaved \/ SaveGraphLink \/ Stop \/ Crash \/ Startup
  \/ \E n \in Nodes : ArchiveNode(n) \/ DeleteNode(n)

GraphSpec == GraphInit /\ [][GraphNext]_graphVars

-------------------------------------------------------------------------------
(* Every link is registered at its source and at its target, and joins two    *)
(* nodes of the live graph, whatever was recorded, archived and deleted in    *)
(* between.                                                                   *)
LinksMirrored ==
  /\ graph.out = graph.in
  /\ \A l \in LinkSet : graph.out[l] > 0 =>
       graph.nodes[l.source] # "none" /\ graph.nodes[l.target] # "none"

(* Once the recordings of a run are through, the files hold the newest        *)
(* content of every node in memory and a line for every link, unless a write  *)
(* failed or a crash cut one short.  (The shutdown's save_graph may write an  *)
(* older content over a recording that goes on in a thread.)                  *)
RecordsReachDisk ==
  run.faults = 0 /\ run.state = "up" /\ (\A r \in Recorders : todo[r] = <<>>) =>
    /\ \A n \in Nodes : graph.nodes[n] \in {"none", OnDisk.nodes[n]}
    /\ \A l \in LinkSet : graph.out[l] <= lines[l]

(* A node file is unreadable only while somebody writes it, or because of a   *)
(* fault: at most one for every recording the faults cut short.               *)
TornOnlyByFaults ==
  Cardinality({n \in Nodes : files[n] = "torn"}) <=
    Cardinality({r \in Recorders : todo[r] # <<>> /\ Head(todo[r]).op = "dump"})
      + run.faults * Cardinality(Recorders)

(* server.py:75 "Load persisted graph on startup": a process that starts has  *)
(* in memory what its files hold.                                             *)
LoadedOnStartup == [][run.state = "down" /\ run'.state = "up" => graph' = OnDisk]_graphVars

(* The two directions of the links, the memory and the files agree.           *)
GraphSound == LinksMirrored /\ RecordsReachDisk /\ TornOnlyByFaults
==============================================================================
