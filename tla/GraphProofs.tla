---------------------------- MODULE GraphProofs ----------------------------
(*****************************************************************************)
(* The knowledge graph: what is in memory and in its files, its stores and   *)
(* the copies a migration makes.  For any tasks, executions, faults, nodes,  *)
(* links and batches.                                                        *)
(*****************************************************************************)
EXTENDS MemoryGraph, GraphStorage, DataMigration, TLAPS, FiniteSetTheorems

------------------------------------------------------------------------------
(***************************************************************************)
(* The knowledge graph in memory, the files its records go to and the save *)
(* of the whole at shutdown, for any tasks, executions, faults, starts and *)
(* removals.                                                               *)
(*                                                                         *)
(* What is on disk follows memory through the lists of steps the recorders *)
(* have still to do.  So the invariant says how those lists are ordered (a *)
(* dump comes straight after the store of the same content, and steps on   *)
(* the nodes of a task are in the list of that task alone), that a file    *)
(* holds what memory has unless the dump of it is next, and that a torn    *)
(* file is being dumped or was left by a fault.                            *)
(***************************************************************************)

Contents == {"running", "completed", "failed", "done"}
GraphType == [nodes : [Nodes -> Contents \cup {"none"}],
              out : [LinkSet -> Nat], in : [LinkSet -> Nat]]
RunType == [state : {"up", "stopping", "down"}, left : [GraphTasks -> Nat],
            running : SUBSET GraphTasks, faults : Nat, removals : Nat, starts : Nat]

\* The steps a recorder may have to do
NodeSteps == [op : {"store", "dump"}, node : Nodes, content : Contents]
JoinSteps == [op : {"join"}, links : SUBSET LinkSet]
SaveSteps == [op : {"save"}, nodes : SUBSET Nodes]
AppendSteps == [op : {"append"}, copies : [LinkSet -> Int]]
Steps == NodeSteps \cup JoinSteps \cup SaveSteps \cup AppendSteps

GraphTyped ==
  /\ graph \in GraphType
  /\ files \in [Nodes -> Contents \cup {"none", "torn"}]
  /\ lines \in [LinkSet -> Nat]
  /\ tornTail \in BOOLEAN
  /\ todo \in [Recorders -> Seq(Steps)]
  /\ run \in RunType

\* A recording stores nodes of its task only, and dumps what it has just stored.
RecordsInOrder(s, t) == \A i \in 1..Len(s) :
  /\ s[i].op \in {"store", "dump", "join"}
  /\ s[i].op # "join" => s[i].node[2] = t
  /\ s[i].op = "store" =>
       /\ i < Len(s) /\ s[i + 1].op = "dump"
       /\ s[i + 1].node = s[i].node /\ s[i + 1].content = s[i].content
  /\ s[i].op = "dump" => i = 1 \/ s[i - 1].op = "store"

\* It has not begun with a dump.
WholeRecords(s, t) == RecordsInOrder(s, t) /\ (s # <<>> => s[1].op # "dump")

\* What a step has depends on its operation.
LEMMA StepFields == ASSUME NEW s \in Steps
  PROVE  /\ s.op \in {"store", "dump"} => s.node \in Nodes /\ s.content \in Contents
         /\ s.op = "join" => s.links \in SUBSET LinkSet
         /\ s.op = "save" => s.nodes \in SUBSET Nodes
         /\ s.op = "append" => s.copies \in [LinkSet -> Int]
<1>1. CASE s \in NodeSteps
  BY <1>1 DEF NodeSteps
<1>2. CASE s \in JoinSteps
  BY <1>2 DEF JoinSteps
<1>3. CASE s \in SaveSteps
  BY <1>3 DEF SaveSteps
<1>4. CASE s \in AppendSteps
  BY <1>4 DEF AppendSteps
<1> QED
  BY <1>1, <1>2, <1>3, <1>4 DEF Steps

\* A node names the task that records it, and that task is a recorder other than shutdown.
LEMMA NodeFields == ASSUME NEW n \in Nodes
  PROVE  n[2] \in GraphTasks /\ n[2] \in Recorders /\ n[2] # "shutdown"
BY GraphAssumption DEF Nodes, Recorders

\* No steps left to take is a whole record.
LEMMA EmptyWhole == ASSUME NEW t PROVE <<>> \in Seq(Steps) /\ WholeRecords(<<>>, t)
BY DEF WholeRecords, RecordsInOrder

\* The pieces recordings are put together from, and the recordings.
LEMMA StoreWhole ==
  ASSUME NEW t, NEW n \in Nodes, n[2] = t, NEW c \in Contents
  PROVE  Store(n, c, c) \in Seq(Steps) /\ WholeRecords(Store(n, c, c), t)
<1> DEFINE a == [op |-> "store", node |-> n, content |-> c]
           b == [op |-> "dump", node |-> n, content |-> c]
<1>1. a \in Steps /\ b \in Steps
  BY DEF Steps, NodeSteps
<1>2. Store(n, c, c) = <<a, b>>
  BY DEF Store
<1>3. a.op = "store" /\ b.op = "dump" /\ a.node = n /\ b.node = n /\ a.content = c /\ b.content = c
  OBVIOUS
<1> HIDE DEF a, b
<1>4. Len(<<a, b>>) = 2 /\ <<a, b>>[1] = a /\ <<a, b>>[2] = b /\ <<a, b>> \in Seq(Steps)
  BY <1>1
<1>5. RecordsInOrder(<<a, b>>, t)
  <2> SUFFICES ASSUME NEW i \in 1..2
      PROVE  /\ <<a, b>>[i].op \in {"store", "dump", "join"}
             /\ <<a, b>>[i].op # "join" => <<a, b>>[i].node[2] = t
             /\ <<a, b>>[i].op = "store" =>
                  /\ i < 2 /\ <<a, b>>[i + 1].op = "dump"
                  /\ <<a, b>>[i + 1].node = <<a, b>>[i].node
                  /\ <<a, b>>[i + 1].content = <<a, b>>[i].content
             /\ <<a, b>>[i].op = "dump" => i = 1 \/ <<a, b>>[i - 1].op = "store"
    BY <1>4 DEF RecordsInOrder
  <2>1. CASE i = 1
    BY <2>1, <1>3, <1>4
  <2>2. CASE i = 2
    BY <2>2, <1>3, <1>4
  <2> QED
    BY <2>1, <2>2
<1> QED
  BY <1>2, <1>3, <1>4, <1>5 DEF WholeRecords

\* Joining any set of links is a whole record: it dumps nothing.
LEMMA JoinAllWhole ==
  ASSUME NEW t, NEW links \in SUBSET LinkSet
  PROVE  JoinAll(links) \in Seq(Steps) /\ WholeRecords(JoinAll(links), t)
<1>1. CASE links = {}
  BY <1>1, EmptyWhole DEF JoinAll
<1>2. CASE links # {}
  <2> DEFINE j == [op |-> "join", links |-> links]
  <2>1. j \in Steps /\ j.op = "join"
    BY DEF Steps, JoinSteps
  <2>2. JoinAll(links) = <<j>>
    BY <1>2 DEF JoinAll
  <2> HIDE DEF j
  <2>3. Len(<<j>>) = 1 /\ <<j>>[1] = j /\ <<j>> \in Seq(Steps)
    BY <2>1
  <2> QED
    BY <2>1, <2>2, <2>3 DEF WholeRecords, RecordsInOrder
<1> QED
  BY <1>1, <1>2

\* Two whole records, one after the other, are a whole record.
LEMMA ConcatWhole ==
  ASSUME NEW t, NEW a \in Seq(Steps), NEW b \in Seq(Steps), WholeRecords(a, t), WholeRecords(b, t)
  PROVE  a \o b \in Seq(Steps) /\ WholeRecords(a \o b, t)
<1> DEFINE s == a \o b
<1>1. s \in Seq(Steps) /\ Len(s) = Len(a) + Len(b) /\ Len(a) \in Nat /\ Len(b) \in Nat
  OBVIOUS
<1>2. \A i \in 1..Len(a) : s[i] = a[i]
  OBVIOUS
<1>3. \A i \in 1..Len(b) : s[Len(a) + i] = b[i]
  OBVIOUS
<1>4. ASSUME NEW i \in 1..Len(s)
      PROVE  /\ s[i].op \in {"store", "dump", "join"}
             /\ s[i].op # "join" => s[i].node[2] = t
             /\ s[i].op = "store" =>
                  /\ i < Len(s) /\ s[i + 1].op = "dump"
                  /\ s[i + 1].node = s[i].node /\ s[i + 1].content = s[i].content
             /\ s[i].op = "dump" => i = 1 \/ s[i - 1].op = "store"
  <2> HIDE DEF s
  <2>1. CASE i <= Len(a)
    <3>1. /\ i \in 1..Len(a) /\ s[i] = a[i]
          /\ i < Len(a) => s[i + 1] = a[i + 1]
          /\ i # 1 => s[i - 1] = a[i - 1]
      <4>1. i \in 1..Len(a)
        BY <2>1, <1>1
      <4>2. i < Len(a) => i + 1 \in 1..Len(a)
        BY <4>1
      <4>3. i # 1 => i - 1 \in 1..Len(a)
        BY <4>1
      <4> QED
        BY <4>1, <4>2, <4>3, <1>2
    <3>2. RecordsInOrder(a, t)
      BY DEF WholeRecords
    <3> QED
      BY <3>1, <3>2, <1>1 DEF RecordsInOrder
  <2>2. CASE i > Len(a)
    <3>1. PICK k \in 1..Len(b) : i = Len(a) + k
      <4>1. i - Len(a) \in 1..Len(b) /\ i = Len(a) + (i - Len(a))
        BY <2>2, <1>1
      <4> QED
        BY <4>1
    <3>2. s[i] = b[k]
      BY <3>1, <1>3
    <3>3. k < Len(b) => s[i + 1] = b[k + 1] /\ i < Len(s)
      <4> SUFFICES ASSUME k < Len(b) PROVE s[i + 1] = b[k + 1] /\ i < Len(s)
        OBVIOUS
      <4>1. k + 1 \in 1..Len(b) /\ i + 1 = Len(a) + (k + 1)
        BY <3>1, <1>1
      <4> QED
        BY <4>1, <1>1, <1>3, <3>1
    <3>4. k # 1 => s[i - 1] = b[k - 1]
      <4> SUFFICES ASSUME k # 1 PROVE s[i - 1] = b[k - 1]
        OBVIOUS
      <4>1. k - 1 \in 1..Len(b) /\ i - 1 = Len(a) + (k - 1)
        BY <3>1, <1>1
      <4> QED
        BY <4>1, <1>3
    <3>5. k = 1 => b[k].op # "dump"
      BY <1>1 DEF WholeRecords
    <3>6. RecordsInOrder(b, t)
      BY DEF WholeRecords
    <3> QED
      BY <3>2, <3>3, <3>4, <3>5, <3>6 DEF RecordsInOrder
  <2> QED
    BY <2>1, <2>2, <1>1
<1>5. RecordsInOrder(s, t)
  BY <1>4 DEF RecordsInOrder
<1>6. s # <<>> => s[1].op # "dump"
  <2> SUFFICES ASSUME s # <<>> PROVE s[1].op # "dump"
    OBVIOUS
  <2>1. CASE a # <<>>
    BY <2>1, <1>2 DEF WholeRecords
  <2>2. CASE a = <<>>
    <3>1. s = b
      BY <2>2
    <3> QED
      BY <3>1 DEF WholeRecords
  <2> QED
    BY <2>1, <2>2
<1> QED
  BY <1>1, <1>5, <1>6 DEF WholeRecords

\* Order outlasts the first step; only a store leaves a dump behind it.
LEMMA TailInOrder ==
  ASSUME NEW t, NEW s \in Seq(Steps), s # <<>>, RecordsInOrder(s, t)
  PROVE  /\ Tail(s) \in Seq(Steps) /\ RecordsInOrder(Tail(s), t)
         /\ Head(s) = s[1] /\ Head(s) \in Steps
         /\ Head(s).op \in {"store", "dump", "join"}
         /\ Head(s).op # "join" => Head(s).node[2] = t
         /\ Head(s).op # "store" => WholeRecords(Tail(s), t)
         /\ Head(s).op = "store" =>
              /\ Tail(s) # <<>> /\ Head(Tail(s)).op = "dump"
              /\ Head(Tail(s)).node = Head(s).node /\ Head(Tail(s)).content = Head(s).content
<1> DEFINE u == Tail(s)
<1>1. u \in Seq(Steps) /\ Len(u) = Len(s) - 1 /\ Len(s) \in Nat \ {0} /\ Head(s) = s[1] /\ s[1] \in Steps
  OBVIOUS
<1>2. \A i \in 1..Len(u) : u[i] = s[i + 1] /\ i + 1 \in 1..Len(s)
  OBVIOUS
<1>3. 1 \in 1..Len(s)
  BY <1>1
<1>4. u # <<>> => Head(u) = u[1] /\ 1 \in 1..Len(u) /\ u[1] = s[2] /\ 2 \in 1..Len(s)
  BY <1>1
<1> HIDE DEF u
<1>5. Len(s) > 1 => u # <<>>
  BY <1>1
<1>6. RecordsInOrder(u, t)
  <2> SUFFICES ASSUME NEW i \in 1..Len(u)
      PROVE  /\ u[i].op \in {"store", "dump", "join"}
             /\ u[i].op # "join" => u[i].node[2] = t
             /\ u[i].op = "store" =>
                  /\ i < Len(u) /\ u[i + 1].op = "dump"
                  /\ u[i + 1].node = u[i].node /\ u[i + 1].content = u[i].content
             /\ u[i].op = "dump" => i = 1 \/ u[i - 1].op = "store"
    BY DEF RecordsInOrder
  <2>1. PICK k \in 1..Len(s) : k = i + 1
    BY <1>2
  <2>2. u[i] = s[k] /\ k # 1 /\ (k < Len(s) => i < Len(u) /\ u[i + 1] = s[k + 1])
    BY <1>1, <1>2, <2>1
  <2>3. i # 1 => u[i - 1] = s[k - 1]
    <3> SUFFICES ASSUME i # 1 PROVE u[i - 1] = s[k - 1]
      OBVIOUS
    <3>1. i - 1 \in 1..Len(u) /\ (i - 1) + 1 = k - 1
      BY <2>1, <1>1
    <3> QED
      BY <3>1, <1>2
  <2> QED
    BY <2>2, <2>3 DEF RecordsInOrder
<1>7. /\ s[1].op \in {"store", "dump", "join"}
      /\ s[1].op # "join" => s[1].node[2] = t
      /\ s[1].op = "store" => /\ 1 < Len(s) /\ s[1 + 1].op = "dump"
                              /\ s[1 + 1].node = s[1].node /\ s[1 + 1].content = s[1].content
  BY <1>3 DEF RecordsInOrder
<1>8. s[1].op # "store" => WholeRecords(u, t)
  <2> SUFFICES ASSUME s[1].op # "store", u # <<>> PROVE u[1].op # "dump"
    BY <1>6 DEF WholeRecords
  <2>1. s[2].op = "dump" => s[2 - 1].op = "store"
    BY <1>4 DEF RecordsInOrder
  <2> QED
    BY <2>1, <1>4
<1> QED
  BY <1>1, <1>4, <1>5, <1>6, <1>7, <1>8 DEF u

AtDump(r) == todo[r] # <<>> /\ Head(todo[r]).op = "dump"

\* What the file of a node holds, once the recording of it that is under way is done
Held(n) ==
  IF AtDump(n[2]) /\ Head(todo[n[2]]).node = n THEN Head(todo[n[2]]).content ELSE files[n]

MirroredIn(g) ==
  /\ g.out = g.in
  /\ \A l \in LinkSet : g.out[l] > 0 =>
       g.nodes[l.source] # "none" /\ g.nodes[l.target] # "none"

TasksInOrder == \A t \in GraphTasks : RecordsInOrder(todo[t], t)

SavesApart == \A i \in 1..Len(todo["shutdown"]) :
  todo["shutdown"][i].op \in {"save", "dump", "append"}

\* A process that is up saves nothing, and one that is down holds nothing.
ProcessPhases ==
  /\ run.state = "up" => todo["shutdown"] = <<>>
  /\ run.state = "down" =>
       graph = EmptyGraph /\ run.running = {} /\ \A r \in Recorders : todo[r] = <<>>

RecordsKept == run.faults = 0 =>
  /\ ~tornTail
  /\ run.state = "up" =>
       /\ \A l \in LinkSet : graph.out[l] <= lines[l]
       /\ \A n \in Nodes : graph.nodes[n] \in {"none", Held(n)}

Dumpers == {r \in Recorders : AtDump(r)}
Dumped == {Head(todo[r]).node : r \in Dumpers}
TornNodes == {n \in Nodes : files[n] = "torn"}

\* A torn file that nobody is writing was left by a fault.
TornAccounted == Cardinality(TornNodes \ Dumped) <= run.faults * Cardinality(Recorders)

GraphInv ==
  /\ GraphTyped /\ MirroredIn(graph) /\ TasksInOrder /\ SavesApart /\ ProcessPhases
  /\ RecordsKept /\ TornAccounted

\* The recorders and the nodes are finitely many, and shutdown is one of the recorders.
LEMMA RecordersFinite ==
  /\ IsFiniteSet(Recorders) /\ Cardinality(Recorders) \in Nat /\ Cardinality(Recorders) >= 1
  /\ IsFiniteSet(Nodes) /\ "shutdown" \in Recorders
<1>1. IsFiniteSet({"shutdown"}) /\ IsFiniteSet(Recorders)
  BY GraphAssumption, FS_Singleton, FS_Union DEF Recorders
<1>2. "shutdown" \in Recorders
  BY DEF Recorders
<1>3. Cardinality(Recorders) # 0 /\ Cardinality(Recorders) \in Nat
  BY <1>1, <1>2, FS_EmptySet, FS_CardinalityType
<1>4. IsFiniteSet({"task", "output", "failure", "exp"})
  <2>1. IsFiniteSet({}) 
    BY FS_EmptySet
  <2>2. IsFiniteSet({} \cup {"task"})
    BY <2>1, FS_AddElement
  <2>3. IsFiniteSet(({} \cup {"task"}) \cup {"output"})
    BY <2>2, FS_AddElement
  <2>4. IsFiniteSet((({} \cup {"task"}) \cup {"output"}) \cup {"failure"})
    BY <2>3, FS_AddElement
  <2>5. IsFiniteSet(((({} \cup {"task"}) \cup {"output"}) \cup {"failure"}) \cup {"exp"})
    BY <2>4, FS_AddElement
  <2>6. ((({} \cup {"task"}) \cup {"output"}) \cup {"failure"}) \cup {"exp"}
          = {"task", "output", "failure", "exp"}
    OBVIOUS
  <2> QED
    BY <2>5, <2>6
<1>5. IsFiniteSet(Nodes)
  BY <1>4, GraphAssumption, FS_Product DEF Nodes
<1> QED
  BY <1>1, <1>2, <1>3, <1>5

\* No more nodes are being dumped than there are dumpers, nor more dumpers than recorders.
LEMMA DumpersBounded ==
  /\ IsFiniteSet(Dumpers) /\ Cardinality(Dumpers) <= Cardinality(Recorders)
  /\ IsFiniteSet(Dumped) /\ Cardinality(Dumped) <= Cardinality(Dumpers)
  /\ Cardinality(Dumped) \in Nat /\ Cardinality(Dumpers) \in Nat
<1>1. Dumpers \subseteq Recorders
  BY DEF Dumpers
<1>2. IsFiniteSet(Dumpers) /\ Cardinality(Dumpers) <= Cardinality(Recorders)
  BY <1>1, RecordersFinite, FS_Subset
<1> DEFINE f == [r \in Dumpers |-> Head(todo[r]).node]
<1>3. f \in Surjection(Dumpers, Dumped)
  BY DEF Surjection, Dumped
<1>4. IsFiniteSet(Dumped) /\ Cardinality(Dumped) <= Cardinality(Dumpers)
  BY <1>2, <1>3, FS_Surjection
<1> QED
  BY <1>2, <1>4, FS_CardinalityType

\* The torn files are those being dumped and those the faults account for.
LEMMA GraphInvSound == ASSUME GraphInv PROVE GraphSound
<1>1. LinksMirrored
  BY DEF GraphInv, MirroredIn, LinksMirrored
<1>2. RecordsReachDisk
  <2> SUFFICES ASSUME run.faults = 0, run.state = "up", \A r \in Recorders : todo[r] = <<>>
      PROVE  /\ \A n \in Nodes : graph.nodes[n] \in {"none", OnDisk.nodes[n]}
             /\ \A l \in LinkSet : graph.out[l] <= lines[l]
    BY DEF RecordsReachDisk
  <2>1. /\ \A l \in LinkSet : graph.out[l] <= lines[l]
        /\ \A n \in Nodes : graph.nodes[n] \in {"none", Held(n)}
    BY DEF GraphInv, RecordsKept
  <2>2. ASSUME NEW n \in Nodes PROVE graph.nodes[n] \in {"none", OnDisk.nodes[n]}
    <3>1. Held(n) = files[n]
      BY NodeFields DEF Held, AtDump
    <3>2. graph.nodes[n] \in Contents \cup {"none"}
      BY DEF GraphInv, GraphTyped, GraphType
    <3>3. OnDisk.nodes[n] = IF files[n] = "torn" THEN "none" ELSE files[n]
      BY DEF OnDisk
    <3> QED
      BY <2>1, <3>1, <3>2, <3>3 DEF Contents
  <2> QED
    BY <2>1, <2>2
<1>3. TornOnlyByFaults
  <2>1. IsFiniteSet(TornNodes \ Dumped) /\ IsFiniteSet(TornNodes)
    BY RecordersFinite, FS_Subset DEF TornNodes
  <2>2. Cardinality((TornNodes \ Dumped) \cup Dumped) <= Cardinality(TornNodes \ Dumped) + Cardinality(Dumped)
    <3>1. Cardinality((TornNodes \ Dumped) \cup Dumped) = Cardinality(TornNodes \ Dumped) + Cardinality(Dumped)
            - Cardinality((TornNodes \ Dumped) \cap Dumped)
      BY <2>1, DumpersBounded, FS_Union
    <3>2. (TornNodes \ Dumped) \cap Dumped = {}
      OBVIOUS
    <3>3. Cardinality(TornNodes \ Dumped) \in Nat
      BY <2>1, FS_CardinalityType
    <3>4. Cardinality((TornNodes \ Dumped) \cap Dumped) = 0
      BY <3>2, FS_EmptySet
    <3> QED
      BY <3>1, <3>3, <3>4, DumpersBounded
  <2>3. Cardinality(TornNodes) <= Cardinality((TornNodes \ Dumped) \cup Dumped)
    <3>1. TornNodes \subseteq (TornNodes \ Dumped) \cup Dumped
      OBVIOUS
    <3>2. IsFiniteSet((TornNodes \ Dumped) \cup Dumped)
      BY <2>1, DumpersBounded, FS_Union
    <3> QED
      BY <3>1, <3>2, FS_Subset
  <2>4. /\ Cardinality(TornNodes) \in Nat /\ Cardinality(TornNodes \ Dumped) \in Nat
        /\ Cardinality((TornNodes \ Dumped) \cup Dumped) \in Nat
    BY <2>1, DumpersBounded, FS_Union, FS_CardinalityType
  <2>5. run.faults * Cardinality(Recorders) \in Nat
    BY RecordersFinite DEF GraphInv, GraphTyped, RunType
  <2>6. Cardinality(TornNodes) <= Cardinality(Dumpers) + run.faults * Cardinality(Recorders)
    BY <2>2, <2>3, <2>4, <2>5, DumpersBounded DEF GraphInv, TornAccounted
  <2> QED
    BY <2>6 DEF TornOnlyByFaults, TornNodes, Dumpers, AtDump
<1> QED
  BY <1>1, <1>2, <1>3 DEF GraphSound

\* What a step does to the torn files: none more that nobody accounts for.
LEMMA AccountKept ==
  ASSUME GraphInv, GraphTyped', run'.faults \in {run.faults, run.faults + 1},
         TornNodes' \ Dumped' \subseteq TornNodes \ Dumped
  PROVE  TornAccounted'
<1>1. IsFiniteSet(TornNodes \ Dumped)
  BY RecordersFinite, FS_Subset DEF TornNodes
<1>2. Cardinality(TornNodes' \ Dumped') <= Cardinality(TornNodes \ Dumped)
  BY <1>1, FS_Subset
<1>3. Cardinality(TornNodes' \ Dumped') \in Nat /\ Cardinality(TornNodes \ Dumped) \in Nat
  BY <1>1, FS_Subset, FS_CardinalityType
<1>4. PICK c \in Nat : c = Cardinality(Recorders)
  BY RecordersFinite
<1>5. run.faults \in Nat /\ run.faults * c <= (run.faults + 1) * c /\ run.faults * c \in Nat
  BY DEF GraphInv, GraphTyped, RunType
<1>6. Cardinality(TornNodes \ Dumped) <= run.faults * c
  BY <1>4 DEF GraphInv, TornAccounted
<1>7. Cardinality(TornNodes' \ Dumped') <= run'.faults * c
  BY <1>2, <1>3, <1>5, <1>6
<1> QED
  BY <1>4, <1>7 DEF TornAccounted

\* A fault accounts for what was being dumped.
LEMMA AccountFault ==
  ASSUME GraphInv, GraphTyped', run'.faults = run.faults + 1, files' = files,
         NEW S, S \subseteq Dumped, IsFiniteSet(S), Cardinality(S) <= Cardinality(Recorders),
         TornNodes' \ Dumped' \subseteq (TornNodes \ Dumped) \cup S
  PROVE  TornAccounted'
<1>1. IsFiniteSet(TornNodes \ Dumped) /\ IsFiniteSet((TornNodes \ Dumped) \cup S)
  BY RecordersFinite, FS_Subset, FS_Union DEF TornNodes
<1>2. Cardinality(TornNodes' \ Dumped') <= Cardinality((TornNodes \ Dumped) \cup S)
        /\ IsFiniteSet(TornNodes' \ Dumped')
  BY <1>1, FS_Subset
<1>3. Cardinality((TornNodes \ Dumped) \cup S) = Cardinality(TornNodes \ Dumped) + Cardinality(S)
         - Cardinality((TornNodes \ Dumped) \cap S)
  BY <1>1, FS_Union
<1>4. /\ Cardinality(TornNodes' \ Dumped') \in Nat /\ Cardinality(TornNodes \ Dumped) \in Nat
      /\ Cardinality(S) \in Nat /\ Cardinality((TornNodes \ Dumped) \cup S) \in Nat
  BY <1>1, <1>2, FS_CardinalityType
<1>5. Cardinality((TornNodes \ Dumped) \cap S) = 0
  <2>1. (TornNodes \ Dumped) \cap S = {}
    OBVIOUS
  <2> QED
    BY <2>1, FS_EmptySet
<1>6. PICK c \in Nat : c = Cardinality(Recorders)
  BY RecordersFinite
<1>7. run.faults \in Nat /\ run.faults * c + c = (run.faults + 1) * c /\ run.faults * c \in Nat
  <2>1. \A f \in Nat : f * c + c = (f + 1) * c /\ f * c \in Nat
    OBVIOUS
  <2>2. run.faults \in Nat
    BY DEF GraphInv, GraphTyped, RunType
  <2> QED
    BY <2>1, <2>2
<1>8. Cardinality(TornNodes \ Dumped) <= run.faults * c
  BY <1>6 DEF GraphInv, TornAccounted
<1>9. Cardinality(TornNodes' \ Dumped') <= run.faults * c + c
  BY <1>2, <1>3, <1>4, <1>5, <1>6, <1>7, <1>8
<1>10. Cardinality(TornNodes' \ Dumped') <= run'.faults * c
  BY <1>7, <1>9
<1> QED
  BY <1>6, <1>10 DEF TornAccounted

\* Registering a link adds it in both directions, or not at all.
LEMMA RegisteredSound ==
  ASSUME NEW g \in GraphType, NEW l \in LinkSet, MirroredIn(g)
  PROVE  /\ Registered(g, l) \in GraphType /\ MirroredIn(Registered(g, l))
         /\ Registered(g, l).nodes = g.nodes
         /\ \A k \in LinkSet : Registered(g, l).out[k] <= g.out[k] + (IF k = l THEN 1 ELSE 0)
<1>1. g.out \in [LinkSet -> Nat] /\ g.in \in [LinkSet -> Nat]
  BY DEF GraphType
<1>2. CASE g.nodes[l.source] # "none" /\ g.nodes[l.target] # "none"
  <2> DEFINE h == [g EXCEPT !.out = [g.out EXCEPT ![l] = @ + 1],
               !.in = [g.in EXCEPT ![l] = @ + 1]]
  <2>1. Registered(g, l) = h
    BY <1>2 DEF Registered
  <2>2. h.nodes = g.nodes /\ h.out = [g.out EXCEPT ![l] = @ + 1] /\ h.in = [g.in EXCEPT ![l] = @ + 1]
    BY DEF GraphType
  <2>3. h \in GraphType
    <3> DEFINE out == [g.out EXCEPT ![l] = @ + 1]
               in == [g.in EXCEPT ![l] = @ + 1]
    <3>1. out \in [LinkSet -> Nat] /\ in \in [LinkSet -> Nat]
      BY <1>1
    <3>2. h = [g EXCEPT !.out = out, !.in = in]
      OBVIOUS
    <3> HIDE DEF out, in, h
    <3> QED
      BY <3>1, <3>2 DEF GraphType
  <2> HIDE DEF h
  <2>4. \A k \in LinkSet : h.out[k] = g.out[k] + (IF k = l THEN 1 ELSE 0)
    BY <2>2, <1>1
  <2>5. MirroredIn(h)
    <3>1. h.out = h.in
      BY <2>2 DEF MirroredIn
    <3>2. ASSUME NEW k \in LinkSet, h.out[k] > 0
          PROVE  h.nodes[k.source] # "none" /\ h.nodes[k.target] # "none"
      <4>1. CASE k = l
        BY <4>1, <1>2, <2>2
      <4>2. CASE k # l
        <5>1. g.out[k] > 0
          BY <4>2, <3>2, <2>2, <1>1
        <5> QED
          BY <5>1, <2>2 DEF MirroredIn
      <4> QED
        BY <4>1, <4>2
    <3> QED
      BY <3>1, <3>2 DEF MirroredIn
  <2>6. \A k \in LinkSet : h.out[k] <= g.out[k] + (IF k = l THEN 1 ELSE 0)
    BY <2>2, <1>1
  <2> QED
    BY <2>1, <2>2, <2>3, <2>5, <2>6
<1>3. CASE ~(g.nodes[l.source] # "none" /\ g.nodes[l.target] # "none")
  <2>1. Registered(g, l) = g
    BY <1>3 DEF Registered
  <2> QED
    BY <2>1, <1>1
<1> QED
  BY <1>2, <1>3

\* Nobody begins or ends a dump.
SameDumps == \A r \in Recorders :
  /\ AtDump(r)' <=> AtDump(r)
  /\ AtDump(r) => /\ Head(todo'[r]).node = Head(todo[r]).node
                  /\ Head(todo'[r]).content = Head(todo[r]).content

\* A step that leaves the files and the pending dumps alone changes neither the torn nodes nor the held ones.
LEMMA DumpsSame ==
  ASSUME SameDumps, files' = files
  PROVE  Dumped' = Dumped /\ TornNodes' = TornNodes /\ \A n \in Nodes : Held(n)' = Held(n)
<1>1. Dumpers' = Dumpers
  BY DEF SameDumps, Dumpers
<1>2. Dumped' = Dumped
  BY <1>1 DEF Dumped, Dumpers, SameDumps
<1>3. TornNodes' = TornNodes
  BY DEF TornNodes
<1>4. ASSUME NEW n \in Nodes PROVE Held(n)' = Held(n)
  <2>1. PICK t \in Recorders : t = n[2]
    BY NodeFields
  <2>2. /\ AtDump(t)' <=> AtDump(t)
        /\ AtDump(t) => /\ Head(todo'[t]).node = Head(todo[t]).node
                        /\ Head(todo'[t]).content = Head(todo[t]).content
    BY DEF SameDumps
  <2> QED
    BY <2>1, <2>2 DEF Held
<1> QED
  BY <1>2, <1>3, <1>4

\* What is left to append is at most one step, and an append.
LEMMA AppendsShape ==
  ASSUME NEW c \in [LinkSet -> Int]
  PROVE  /\ Appends(c) \in Seq(Steps)
         /\ \A i \in 1..Len(Appends(c)) : Appends(c)[i].op = "append"
<1>1. CASE Appends(c) = <<>>
  BY <1>1
<1>2. CASE Appends(c) # <<>>
  <2> DEFINE s == [op |-> "append", copies |-> c]
  <2>1. s \in Steps /\ s.op = "append" /\ Appends(c) = <<s>>
    BY <1>2 DEF Steps, AppendSteps, Appends
  <2> HIDE DEF s
  <2>2. <<s>> \in Seq(Steps) /\ Len(<<s>>) = 1 /\ <<s>>[1] = s
    BY <2>1
  <2> QED
    BY <2>1, <2>2
<1> QED
  BY <1>1, <1>2

\* A recorder that is not dumping goes on with steps that do not begin with a dump.
LEMMA OneGoesOn ==
  ASSUME GraphInv, NEW r \in Recorders, ~AtDump(r), NEW s \in Seq(Steps),
         todo' = [todo EXCEPT ![r] = s],
         \/ r \in GraphTasks /\ WholeRecords(s, r)
         \/ r = "shutdown" /\ \A i \in 1..Len(s) : s[i].op \in {"save", "append"}
  PROVE  SameDumps /\ TasksInOrder' /\ SavesApart' /\ todo' \in [Recorders -> Seq(Steps)]
<1>1. todo \in [Recorders -> Seq(Steps)]
  BY DEF GraphInv, GraphTyped
<1>2. todo' \in [Recorders -> Seq(Steps)] /\ todo'[r] = s
        /\ \A q \in Recorders \ {r} : todo'[q] = todo[q]
  BY <1>1
<1>3. s # <<>> => Head(s).op # "dump"
  <2> SUFFICES ASSUME s # <<>> PROVE Head(s).op # "dump"
    OBVIOUS
  <2>1. 1 \in 1..Len(s) /\ Head(s) = s[1]
    OBVIOUS
  <2> QED
    BY <2>1 DEF WholeRecords
<1>4. SameDumps
  BY <1>2, <1>3 DEF SameDumps, AtDump
<1>5. TasksInOrder'
  <2> SUFFICES ASSUME NEW t \in GraphTasks PROVE RecordsInOrder(todo'[t], t)
    BY DEF TasksInOrder
  <2>1. CASE t = r
    BY <2>1, <1>2, GraphAssumption DEF WholeRecords
  <2>2. CASE t # r
    BY <2>2, <1>2 DEF GraphInv, TasksInOrder, Recorders
  <2> QED
    BY <2>1, <2>2
<1>6. SavesApart'
  <2>1. CASE r = "shutdown"
    BY <2>1, <1>2, GraphAssumption DEF SavesApart
  <2>2. CASE r # "shutdown"
    BY <2>2, <1>2, RecordersFinite DEF SavesApart, GraphInv
  <2> QED
    BY <2>1, <2>2
<1> QED
  BY <1>2, <1>4, <1>5, <1>6

\* The empty graph of a first start has the invariant.
LEMMA InitInv == ASSUME GraphInit PROVE GraphInv
<1>1. GraphTyped
  <2>1. EmptyGraph \in GraphType
    BY DEF EmptyGraph, GraphType
  <2>2. run \in RunType
    BY GraphAssumption DEF GraphInit, RunType
  <2>3. files \in [Nodes -> Contents \cup {"none", "torn"}] /\ lines \in [LinkSet -> Nat]
          /\ tornTail \in BOOLEAN
    BY DEF GraphInit
  <2>4. todo \in [Recorders -> Seq(Steps)]
    <3>1. <<>> \in Seq(Steps)
      OBVIOUS
    <3> QED
      BY <3>1 DEF GraphInit
  <2> QED
    BY <2>1, <2>2, <2>3, <2>4 DEF GraphTyped, GraphInit
<1>2. MirroredIn(graph) /\ TasksInOrder /\ SavesApart /\ ProcessPhases
  BY RecordersFinite DEF GraphInit, MirroredIn, EmptyGraph, TasksInOrder, SavesApart, ProcessPhases, RecordsInOrder,
       Recorders
<1>3. RecordsKept
  BY DEF GraphInit, RecordsKept, EmptyGraph
<1>4. TornAccounted
  <2>1. TornNodes \ Dumped = {}
    BY DEF TornNodes, GraphInit
  <2>2. Cardinality(TornNodes \ Dumped) = 0
    BY <2>1, FS_EmptySet
  <2>3. run.faults = 0
    BY DEF GraphInit
  <2>4. PICK c \in Nat : c = Cardinality(Recorders)
    BY RecordersFinite
  <2>5. 0 <= 0 * c
    OBVIOUS
  <2> QED
    BY <2>2, <2>3, <2>4, <2>5 DEF TornAccounted
<1> QED
  BY <1>1, <1>2, <1>3, <1>4 DEF GraphInv

\* A step that leaves memory and disk alone, and nobody's dump.
LEMMA QuietStep ==
  ASSUME GraphInv, SameDumps, UNCHANGED <<files, lines, tornTail>>, graph' = graph,
         TasksInOrder', SavesApart', ProcessPhases', todo' \in [Recorders -> Seq(Steps)],
         run' \in RunType, run'.faults = run.faults, run'.state = "up" => run.state = "up"
  PROVE  GraphInv'
<1>1. GraphTyped'
  BY DEF GraphInv, GraphTyped
<1>2. MirroredIn(graph)'
  BY DEF GraphInv, MirroredIn
<1>3. RecordsKept'
  BY DumpsSame DEF GraphInv, RecordsKept
<1>4. TornAccounted'
  BY <1>1, DumpsSame, AccountKept
<1> QED
  BY <1>1, <1>2, <1>3, <1>4 DEF GraphInv

\* A task that is given a whole record to write while the process is up keeps the invariant.
LEMMA BeginRecording ==
  ASSUME GraphInv, NEW t \in GraphTasks, todo[t] = <<>>, run.state # "down",
         NEW s \in Seq(Steps), WholeRecords(s, t),
         todo' = [todo EXCEPT ![t] = s], UNCHANGED <<graph, files, lines, tornTail>>,
         run' \in RunType, run'.faults = run.faults, run'.state = run.state
  PROVE  GraphInv'
<1>1. t \in Recorders /\ ~AtDump(t) /\ t # "shutdown"
  BY GraphAssumption DEF AtDump, Recorders
<1>2. SameDumps /\ TasksInOrder' /\ SavesApart' /\ todo' \in [Recorders -> Seq(Steps)]
  BY <1>1, OneGoesOn
<1>3. todo'["shutdown"] = todo["shutdown"]
  BY <1>1, RecordersFinite DEF GraphInv, GraphTyped
<1>4. ProcessPhases'
  BY <1>3 DEF ProcessPhases, GraphInv
<1> QED
  BY <1>2, <1>4, QuietStep

\* record_task_start keeps the invariant.
LEMMA StartStep == ASSUME GraphInv, NEW t \in GraphTasks, Start(t) PROVE GraphInv'
<1>1. <<"task", t>> \in Nodes /\ <<"task", t>>[2] = t /\ "running" \in Contents
  BY DEF Nodes, Contents
<1>2. Store(<<"task", t>>, "running", "running") \in Seq(Steps)
        /\ WholeRecords(Store(<<"task", t>>, "running", "running"), t)
  BY <1>1, StoreWhole
<1>3. run \in RunType
  BY DEF GraphInv, GraphTyped
<1>4. run' \in RunType /\ run'.state = run.state /\ run'.faults = run.faults
  <2> DEFINE left == [run.left EXCEPT ![t] = @ - 1]
             started == run.running \cup {t}
  <2>1. left \in [GraphTasks -> Nat] /\ started \in SUBSET GraphTasks
    BY <1>3 DEF Start, RunType
  <2>2. run' = [run EXCEPT !.left = left, !.running = started]
    BY DEF Start
  <2> HIDE DEF left, started
  <2> QED
    BY <1>3, <2>1, <2>2 DEF RunType
<1> QED
  BY <1>2, <1>4, BeginRecording DEF Start

\* The record of a task's final status is whole.
LEMMA FinishedWhole ==
  ASSUME NEW t \in GraphTasks, NEW status \in Contents
  PROVE  Finished(t, status) \in Seq(Steps) /\ WholeRecords(Finished(t, status), t)
<1>1. <<"task", t>> \in Nodes /\ <<"task", t>>[2] = t
  BY DEF Nodes
<1> QED
  BY <1>1, StoreWhole, EmptyWhole DEF Finished

\* Recording the success of a task keeps the invariant.
LEMMA SucceedStep == ASSUME GraphInv, NEW t \in GraphTasks, Succeed(t) PROVE GraphInv'
<1>1. /\ <<"output", t>> \in Nodes /\ <<"output", t>>[2] = t
      /\ <<"exp", t>> \in Nodes /\ <<"exp", t>>[2] = t
      /\ {"done", "completed"} \subseteq Contents
  BY DEF Nodes, Contents
<1> DEFINE a == Finished(t, "completed")
           b == Store(<<"output", t>>, "done", "done")
           c == Join(<<"task", t>>, <<"output", t>>)
           d == Store(<<"exp", t>>, "done", "done")
           e == Join(<<"task", t>>, <<"exp", t>>)
<1>2. a \in Seq(Steps) /\ WholeRecords(a, t)
  BY <1>1, FinishedWhole
<1>3. b \in Seq(Steps) /\ WholeRecords(b, t) /\ d \in Seq(Steps) /\ WholeRecords(d, t)
  BY <1>1, StoreWhole
<1>4. c \in Seq(Steps) /\ WholeRecords(c, t) /\ e \in Seq(Steps) /\ WholeRecords(e, t)
  <2>1. /\ [source |-> <<"task", t>>, target |-> <<"output", t>>] \in LinkSet
        /\ [source |-> <<"task", t>>, target |-> <<"exp", t>>] \in LinkSet
    <3>1. ASSUME NEW k \in {"output", "exp"}
          PROVE  [source |-> <<"task", t>>, target |-> <<k, t>>] \in LinkSet
      BY DEF LinkSet
    <3> QED
      BY <3>1
  <2>2. ASSUME NEW l \in LinkSet PROVE JoinAll({l}) \in Seq(Steps) /\ WholeRecords(JoinAll({l}), t)
    BY JoinAllWhole
  <2> QED
    BY ONLY <2>1, <2>2 DEF Join
<1>5. todo' = [todo EXCEPT ![t] = a \o b \o c \o d \o e]
  BY DEF Succeed
<1>6. t \in run.running /\ todo[t] = <<>> /\ run \in RunType /\ run.state # "down"
  BY DEF Succeed, GraphInv, GraphTyped, ProcessPhases
<1>7. run' \in RunType /\ run'.state = run.state /\ run'.faults = run.faults
  BY <1>6 DEF Succeed, RunType
<1> HIDE DEF a, b, c, d, e
<1>8. (a \o b) \in Seq(Steps) /\ WholeRecords(a \o b, t)
  BY <1>2, <1>3, ConcatWhole
<1>9. (a \o b) \o c \in Seq(Steps) /\ WholeRecords((a \o b) \o c, t)
  BY <1>4, <1>8, ConcatWhole
<1>10. ((a \o b) \o c) \o d \in Seq(Steps) /\ WholeRecords(((a \o b) \o c) \o d, t)
  BY <1>3, <1>9, ConcatWhole
<1>11. (((a \o b) \o c) \o d) \o e \in Seq(Steps) /\ WholeRecords((((a \o b) \o c) \o d) \o e, t)
  BY <1>4, <1>10, ConcatWhole
<1>12. PICK s \in Seq(Steps) : s = (((a \o b) \o c) \o d) \o e
  BY <1>11
<1>13. todo' = [todo EXCEPT ![t] = s] /\ WholeRecords(s, t)
  BY <1>5, <1>11, <1>12
<1>14. UNCHANGED <<graph, files, lines, tornTail>>
  BY DEF Succeed
<1> QED
  BY <1>6, <1>7, <1>13, <1>14, BeginRecording

\* Recording a failure, linked to the experiences like it, keeps the invariant.
LEMMA FailStep ==
  ASSUME GraphInv, NEW t \in GraphTasks, NEW last \in BOOLEAN,
         NEW similar \in SUBSET {n \in Nodes : n[1] = "exp" /\ graph.nodes[n] # "none"},
         Fail(t, last, similar)
  PROVE  GraphInv'
<1>1. <<"failure", t>> \in Nodes /\ <<"failure", t>>[2] = t /\ {"done", "failed"} \subseteq Contents
  BY DEF Nodes, Contents
<1> DEFINE a == Finished(t, "failed")
           b == Store(<<"failure", t>>, "done", "done")
           c == Join(<<"task", t>>, <<"failure", t>>)
           d == JoinAll({[source |-> <<"failure", t>>, target |-> n] : n \in similar})
<1>2. a \in Seq(Steps) /\ WholeRecords(a, t) /\ b \in Seq(Steps) /\ WholeRecords(b, t)
  BY <1>1, FinishedWhole, StoreWhole
<1>3. c \in Seq(Steps) /\ WholeRecords(c, t)
  <2>1. {[source |-> <<"task", t>>, target |-> <<"failure", t>>]} \in SUBSET LinkSet
    BY DEF LinkSet
  <2> QED
    BY <2>1, JoinAllWhole DEF Join
<1>4. d \in Seq(Steps) /\ WholeRecords(d, t)
  <2>1. ASSUME NEW n \in similar PROVE [source |-> <<"failure", t>>, target |-> n] \in LinkSet
    <3>1. n \in Nodes /\ n[1] = "exp"
      OBVIOUS
    <3>2. PICK u \in GraphTasks : n = <<"exp", u>>
      BY <3>1 DEF Nodes
    <3>3. ASSUME NEW x \in GraphTasks, NEW y \in GraphTasks
          PROVE  [source |-> <<"failure", x>>, target |-> <<"exp", y>>] \in LinkSet
      <4> DEFINE Own == {[source |-> <<"task", v>>, target |-> <<k, v>>] :
                             k \in {"output", "failure", "exp"}, v \in GraphTasks}
                 Similar == {[source |-> <<"failure", v>>, target |-> <<"exp", w>>] :
                             v, w \in GraphTasks}
      <4>1. [source |-> <<"failure", x>>, target |-> <<"exp", y>>] \in Similar
        BY ONLY <3>3, SMTT(30)
      <4>2. LinkSet = Own \cup Similar
        BY ONLY SMTT(30) DEF LinkSet
      <4> HIDE DEF Own, Similar
      <4> QED
        BY ONLY <4>1, <4>2
    <3>4. [source |-> <<"failure", t>>, target |-> <<"exp", u>>] \in LinkSet
      BY <3>3
    <3> QED
      BY ONLY <3>2, <3>4
  <2>2. {[source |-> <<"failure", t>>, target |-> n] : n \in similar} \in SUBSET LinkSet
    BY <2>1
  <2> QED
    BY <2>2, JoinAllWhole
<1>5. todo' = [todo EXCEPT ![t] = a \o b \o c \o d]
  BY DEF Fail
<1>6. t \in run.running /\ todo[t] = <<>> /\ run \in RunType /\ run.state # "down"
  BY DEF Fail, GraphInv, GraphTyped, ProcessPhases
<1>7. run' \in RunType /\ run'.state = run.state /\ run'.faults = run.faults
  BY <1>6 DEF Fail, RunType
<1> HIDE DEF a, b, c, d
<1>8. (a \o b) \in Seq(Steps) /\ WholeRecords(a \o b, t)
  BY <1>2, ConcatWhole
<1>9. (a \o b) \o c \in Seq(Steps) /\ WholeRecords((a \o b) \o c, t)
  BY <1>3, <1>8, ConcatWhole
<1>10. ((a \o b) \o c) \o d \in Seq(Steps) /\ WholeRecords(((a \o b) \o c) \o d, t)
  BY <1>4, <1>9, ConcatWhole
<1>12. PICK s \in Seq(Steps) : s = ((a \o b) \o c) \o d
  BY <1>10
<1>13. todo' = [todo EXCEPT ![t] = s] /\ WholeRecords(s, t)
  BY <1>5, <1>10, <1>12
<1>14. UNCHANGED <<graph, files, lines, tornTail>>
  BY DEF Fail
<1> QED
  BY <1>6, <1>7, <1>13, <1>14, BeginRecording

\* The next step of a recorder, and what it leaves.
LEMMA HeadStep ==
  ASSUME GraphInv, NEW r \in Recorders, todo[r] # <<>>
  PROVE  /\ Head(todo[r]) \in Steps /\ Tail(todo[r]) \in Seq(Steps)
         /\ Head(todo[r]).op \in {"store", "join"} => r \in GraphTasks
         /\ Head(todo[r]).op \in {"save", "append"} => r = "shutdown"
         /\ r \in GraphTasks =>
              /\ RecordsInOrder(Tail(todo[r]), r)
              /\ Head(todo[r]).op # "join" => Head(todo[r]).node[2] = r
              /\ Head(todo[r]).op # "store" => WholeRecords(Tail(todo[r]), r)
              /\ Head(todo[r]).op = "store" =>
                   /\ Tail(todo[r]) # <<>> /\ Head(Tail(todo[r])).op = "dump"
                   /\ Head(Tail(todo[r])).node = Head(todo[r]).node
                   /\ Head(Tail(todo[r])).content = Head(todo[r]).content
         /\ r = "shutdown" =>
              \A i \in 1..Len(Tail(todo[r])) : Tail(todo[r])[i].op \in {"save", "dump", "append"}
<1>1. todo[r] \in Seq(Steps)
  BY DEF GraphInv, GraphTyped
<1>2. PICK s \in Seq(Steps) : s = todo[r]
  BY <1>1
<1>3. s # <<>> /\ Head(s) \in Steps /\ Tail(s) \in Seq(Steps) /\ Head(s) = s[1] /\ 1 \in 1..Len(s)
  BY <1>2
<1>4. CASE r \in GraphTasks
  <2>1. RecordsInOrder(s, r)
    BY <1>2, <1>4 DEF GraphInv, TasksInOrder
  <2>2. r # "shutdown"
    BY <1>4, GraphAssumption
  <2>3. /\ Head(s).op \in {"store", "dump", "join"} /\ RecordsInOrder(Tail(s), r)
        /\ Head(s).op # "join" => Head(s).node[2] = r
        /\ Head(s).op # "store" => WholeRecords(Tail(s), r)
        /\ Head(s).op = "store" =>
             /\ Tail(s) # <<>> /\ Head(Tail(s)).op = "dump"
             /\ Head(Tail(s)).node = Head(s).node /\ Head(Tail(s)).content = Head(s).content
    BY <1>3, <2>1, TailInOrder
  <2>4. Head(s).op \notin {"save", "append"}
    BY ONLY <2>3
  <2> QED
    BY ONLY <1>2, <1>3, <1>4, <2>2, <2>3, <2>4
<1>5. CASE r = "shutdown"
  <2>1. \A i \in 1..Len(s) : s[i].op \in {"save", "dump", "append"}
    BY <1>2, <1>5 DEF GraphInv, SavesApart
  <2>2. Head(s).op \in {"save", "dump", "append"}
    BY <2>1, <1>3
  <2>3. ASSUME NEW i \in 1..Len(Tail(s)) PROVE Tail(s)[i].op \in {"save", "dump", "append"}
    <3>1. Tail(s)[i] = s[i + 1] /\ i + 1 \in 1..Len(s)
      BY <1>3
    <3> QED
      BY <3>1, <2>1
  <2>4. r \notin GraphTasks
    BY <1>5, GraphAssumption
  <2> QED
    BY <1>2, <1>3, <1>5, <2>2, <2>3, <2>4
<1> QED
  BY <1>4, <1>5 DEF Recorders

\* A recorder that goes on to its next step leaves every other recorder's steps in order.
LEMMA TailsKept ==
  ASSUME GraphInv, NEW r \in Recorders, todo[r] # <<>>, todo' = [todo EXCEPT ![r] = Tail(@)]
  PROVE  /\ todo' \in [Recorders -> Seq(Steps)] /\ TasksInOrder' /\ SavesApart'
         /\ todo'[r] = Tail(todo[r]) /\ \A q \in Recorders \ {r} : todo'[q] = todo[q]
<1>1. todo \in [Recorders -> Seq(Steps)] /\ Tail(todo[r]) \in Seq(Steps)
  BY HeadStep DEF GraphInv, GraphTyped
<1>2. /\ todo' \in [Recorders -> Seq(Steps)]
      /\ todo'[r] = Tail(todo[r]) /\ \A q \in Recorders \ {r} : todo'[q] = todo[q]
  BY <1>1
<1>3. TasksInOrder'
  <2> SUFFICES ASSUME NEW t \in GraphTasks PROVE RecordsInOrder(todo'[t], t)
    BY DEF TasksInOrder
  <2>1. CASE t = r
    BY <2>1, <1>2, HeadStep
  <2>2. CASE t # r
    BY <2>2, <1>2 DEF GraphInv, TasksInOrder, Recorders
  <2> QED
    BY <2>1, <2>2
<1>4. SavesApart'
  <2>1. CASE r = "shutdown"
    BY <2>1, <1>2, HeadStep DEF SavesApart
  <2>2. CASE r # "shutdown"
    BY <2>2, <1>2, RecordersFinite DEF SavesApart, GraphInv
  <2> QED
    BY <2>1, <2>2
<1> QED
  BY <1>2, <1>3, <1>4

\* Somebody with something to do: the process is not down, and up only for a task.
LEMMA AtWork ==
  ASSUME GraphInv, NEW r \in Recorders, todo[r] # <<>>
  PROVE  run.state # "down" /\ (run.state = "up" => r \in GraphTasks)
BY DEF GraphInv, ProcessPhases, Recorders

\* Putting a node in the graph in memory keeps the invariant.
LEMMA StoreNodeStep == ASSUME GraphInv, NEW r \in Recorders, StoreNode(r) PROVE GraphInv'
<1>1. /\ todo[r] # <<>> /\ Head(todo[r]).op = "store"
      /\ todo' = [todo EXCEPT ![r] = Tail(@)] /\ UNCHANGED <<lines, tornTail, run>>
  BY DEF StoreNode, Next1, Done
<1>2. r \in GraphTasks /\ r # "shutdown" /\ run.state # "down"
  BY <1>1, HeadStep, AtWork, GraphAssumption
<1>3. PICK n \in Nodes, c \in Contents : n = Head(todo[r]).node /\ c = Head(todo[r]).content
  BY <1>1, HeadStep, StepFields
<1>4. n[2] = r
  BY <1>1, <1>2, <1>3, HeadStep
<1>5. graph' = [graph EXCEPT !.nodes[n] = c] /\ files' = [files EXCEPT ![n] = "torn"]
  BY <1>3 DEF StoreNode, Next1
<1>6. /\ todo' \in [Recorders -> Seq(Steps)] /\ TasksInOrder' /\ SavesApart'
      /\ todo'[r] = Tail(todo[r]) /\ \A q \in Recorders \ {r} : todo'[q] = todo[q]
  BY <1>1, TailsKept
<1>7. todo'[r] # <<>> /\ Head(todo'[r]).op = "dump" /\ Head(todo'[r]).node = n
        /\ Head(todo'[r]).content = c
  BY <1>1, <1>2, <1>3, <1>6, HeadStep
<1>8. graph \in GraphType /\ files \in [Nodes -> Contents \cup {"none", "torn"}]
  BY DEF GraphInv, GraphTyped
<1>9. /\ graph'.nodes = [graph.nodes EXCEPT ![n] = c] /\ graph'.out = graph.out
      /\ graph'.in = graph.in /\ graph' \in GraphType
  <2> DEFINE nodes == [graph.nodes EXCEPT ![n] = c]
  <2>1. nodes \in [Nodes -> Contents \cup {"none"}]
    BY <1>8 DEF GraphType
  <2>2. graph' = [graph EXCEPT !.nodes = nodes]
    BY <1>5
  <2> HIDE DEF nodes
  <2>3. graph' \in GraphType /\ graph'.nodes = nodes /\ graph'.out = graph.out /\ graph'.in = graph.in
    BY <2>1, <2>2, <1>8 DEF GraphType
  <2> QED
    BY <2>3 DEF nodes
<1>10. GraphTyped'
  BY <1>1, <1>5, <1>6, <1>8, <1>9 DEF GraphInv, GraphTyped
<1>11. MirroredIn(graph)'
  <2>1. \A m \in Nodes : graph.nodes[m] # "none" => graph'.nodes[m] # "none"
    BY <1>9, <1>8 DEF Contents, GraphType
  <2>2. \A l \in LinkSet : l.source \in Nodes /\ l.target \in Nodes
    BY DEF LinkSet, Nodes
  <2>3. MirroredIn(graph)
    BY DEF GraphInv
  <2> QED
    BY <1>9, <2>1, <2>2, <2>3 DEF MirroredIn
<1>12. ProcessPhases'
  BY <1>1, <1>2, <1>6, RecordersFinite DEF GraphInv, ProcessPhases
<1>13. RecordsKept'
  <2> SUFFICES ASSUME run.faults = 0
      PROVE  /\ ~tornTail
             /\ run.state = "up" =>
                  /\ \A l \in LinkSet : graph'.out[l] <= lines[l]
                  /\ \A m \in Nodes : graph'.nodes[m] \in {"none", Held(m)'}
    BY <1>1 DEF RecordsKept
  <2>1. ~tornTail /\ (run.state = "up" => \A l \in LinkSet : graph'.out[l] <= lines[l])
    BY <1>9 DEF GraphInv, RecordsKept
  <2>2. ASSUME run.state = "up", NEW m \in Nodes PROVE graph'.nodes[m] \in {"none", Held(m)'}
    <3>1. graph.nodes[m] \in {"none", Held(m)}
      BY <2>2 DEF GraphInv, RecordsKept
    <3>2. PICK q \in Recorders : q = m[2]
      BY NodeFields
    <3>3. CASE m = n
      <4>1. Held(m)' = c
        BY <3>2, <3>3, <1>4, <1>7 DEF Held, AtDump
      <4> QED
        BY <4>1, <3>3, <1>8, <1>9 DEF GraphType
    <3>4. CASE m # n /\ q = r
      <4>1. Held(m) = files[m]
        BY <3>2, <3>4, <1>1 DEF Held, AtDump
      <4>2. Held(m)' = files'[m]
        BY <3>2, <3>4, <1>7 DEF Held
      <4> QED
        BY <3>1, <3>4, <4>1, <4>2, <1>5, <1>8, <1>9 DEF GraphType
    <3>5. CASE m # n /\ q # r
      <4>1. todo'[q] = todo[q] /\ files'[m] = files[m]
        BY <3>5, <1>5, <1>6, <1>8
      <4>2. Held(m)' = Held(m)
        BY <3>2, <4>1 DEF Held, AtDump
      <4> QED
        BY <3>1, <3>5, <4>2, <1>8, <1>9 DEF GraphType
    <3> QED
      BY <3>3, <3>4, <3>5
  <2> QED
    BY <2>1, <2>2
<1>14. TornAccounted'
  <2>1. n \in Dumped'
    BY <1>6, <1>7 DEF Dumped, Dumpers, AtDump
  <2>2. ASSUME NEW m, m \in Dumped PROVE m \in Dumped'
    <3>1. PICK q \in Recorders : AtDump(q) /\ m = Head(todo[q]).node
      BY <2>2 DEF Dumped, Dumpers
    <3>2. q # r
      BY <3>1, <1>1 DEF AtDump
    <3>3. todo'[q] = todo[q]
      BY <3>2, <1>6
    <3> QED
      BY <3>1, <3>3 DEF Dumped, Dumpers, AtDump
  <2>3. TornNodes' \subseteq TornNodes \cup {n}
    BY <1>5, <1>8 DEF TornNodes
  <2>4. TornNodes' \ Dumped' \subseteq TornNodes \ Dumped
    BY <2>1, <2>2, <2>3
  <2> QED
    BY <2>4, <1>1, <1>10, AccountKept
<1> QED
  BY <1>6, <1>10, <1>11, <1>12, <1>13, <1>14 DEF GraphInv

\* Writing a node's file keeps the invariant.
LEMMA DumpNodeStep == ASSUME GraphInv, NEW r \in Recorders, DumpNode(r) PROVE GraphInv'
<1>1. /\ todo[r] # <<>> /\ Head(todo[r]).op = "dump"
      /\ todo' = [todo EXCEPT ![r] = Tail(@)] /\ UNCHANGED <<graph, lines, tornTail, run>>
  BY DEF DumpNode, Next1, Done
<1>2. PICK n \in Nodes, c \in Contents : n = Head(todo[r]).node /\ c = Head(todo[r]).content
  BY <1>1, HeadStep, StepFields
<1>3. files' = [files EXCEPT ![n] = c]
  BY <1>2 DEF DumpNode, Next1
<1>4. /\ todo' \in [Recorders -> Seq(Steps)] /\ TasksInOrder' /\ SavesApart'
      /\ todo'[r] = Tail(todo[r]) /\ \A q \in Recorders \ {r} : todo'[q] = todo[q]
  BY <1>1, TailsKept
<1>5. graph \in GraphType /\ files \in [Nodes -> Contents \cup {"none", "torn"}]
  BY DEF GraphInv, GraphTyped
<1>6. GraphTyped'
  BY <1>1, <1>3, <1>4, <1>5 DEF GraphInv, GraphTyped
<1>7. MirroredIn(graph)'
  BY <1>1 DEF GraphInv, MirroredIn
<1>8. ProcessPhases'
  <2>1. run.state # "down" /\ (run.state = "up" => r # "shutdown")
    BY <1>1, AtWork, GraphAssumption
  <2> QED
    BY <1>1, <1>4, <2>1, RecordersFinite DEF GraphInv, ProcessPhases
<1>9. RecordsKept'
  <2> SUFFICES ASSUME run.faults = 0
      PROVE  /\ ~tornTail
             /\ run.state = "up" =>
                  /\ \A l \in LinkSet : graph.out[l] <= lines[l]
                  /\ \A m \in Nodes : graph.nodes[m] \in {"none", Held(m)'}
    BY <1>1 DEF RecordsKept
  <2>1. ~tornTail /\ (run.state = "up" => \A l \in LinkSet : graph.out[l] <= lines[l])
    BY DEF GraphInv, RecordsKept
  <2>2. ASSUME run.state = "up", NEW m \in Nodes PROVE graph.nodes[m] \in {"none", Held(m)'}
    <3>1. graph.nodes[m] \in {"none", Held(m)}
      BY <2>2 DEF GraphInv, RecordsKept
    <3>2. PICK q \in Recorders : q = m[2]
      BY NodeFields
    <3>3. r \in GraphTasks /\ n[2] = r /\ WholeRecords(Tail(todo[r]), r)
      BY <2>2, <1>1, <1>2, AtWork, HeadStep
    <3>4. CASE q = r
      <4>1. todo'[r] # <<>> => Head(todo'[r]).op # "dump"
        <5> SUFFICES ASSUME todo'[r] # <<>> PROVE Head(todo'[r]).op # "dump"
          OBVIOUS
        <5>1. Head(todo'[r]) = todo'[r][1]
          BY <1>4
        <5> QED
          BY <5>1, <1>4, <3>3 DEF WholeRecords
      <4>2. Held(m)' = files'[m]
        BY <3>2, <3>4, <4>1 DEF Held, AtDump
      <4>3. Held(m) = IF m = n THEN c ELSE files[m]
        BY <3>2, <3>4, <1>1, <1>2 DEF Held, AtDump
      <4> QED
        BY <3>1, <4>2, <4>3, <1>3, <1>5
    <3>5. CASE q # r
      <4>1. m # n
        BY <3>5, <3>2, <3>3
      <4>2. todo'[q] = todo[q] /\ files'[m] = files[m]
        BY <3>5, <4>1, <1>3, <1>4, <1>5
      <4>3. Held(m)' = Held(m)
        BY <3>2, <4>2 DEF Held, AtDump
      <4> QED
        BY <3>1, <4>3
    <3> QED
      BY <3>4, <3>5
  <2> QED
    BY <2>1, <2>2
<1>10. TornAccounted'
  <2>1. n \notin TornNodes' /\ TornNodes' \subseteq TornNodes
    BY <1>3, <1>5 DEF TornNodes, Contents
  <2>2. ASSUME NEW m, m \in Dumped, m # n PROVE m \in Dumped'
    <3>1. PICK q \in Recorders : AtDump(q) /\ m = Head(todo[q]).node
      BY <2>2 DEF Dumped, Dumpers
    <3>2. q # r
      BY <3>1, <2>2, <1>2
    <3>3. todo'[q] = todo[q]
      BY <3>2, <1>4
    <3> QED
      BY <3>1, <3>3 DEF Dumped, Dumpers, AtDump
  <2>3. TornNodes' \ Dumped' \subseteq TornNodes \ Dumped
    BY <2>1, <2>2
  <2> QED
    BY <2>3, <1>1, <1>6, AccountKept
<1> QED
  BY <1>4, <1>6, <1>7, <1>8, <1>9, <1>10 DEF GraphInv

\* A link of the step is taken off it and registered.
LEMMA LinkTaken ==
  ASSUME GraphInv, NEW r \in Recorders, todo[r] # <<>>, Head(todo[r]).op = "join",
         NEW l \in Head(todo[r]).links, graph' = Registered(graph, l),
         todo' = [todo EXCEPT ![r] = JoinAll(Head(todo[r]).links \ {l}) \o Tail(@)]
  PROVE  /\ r \in GraphTasks /\ l \in LinkSet /\ SameDumps
         /\ TasksInOrder' /\ SavesApart' /\ todo' \in [Recorders -> Seq(Steps)]
         /\ todo'["shutdown"] = todo["shutdown"]
         /\ graph' \in GraphType /\ MirroredIn(graph)' /\ graph'.nodes = graph.nodes
         /\ \A k \in LinkSet : graph'.out[k] <= graph.out[k] + (IF k = l THEN 1 ELSE 0)
<1>1. r \in GraphTasks /\ r # "shutdown"
  BY HeadStep, GraphAssumption
<1>2. Head(todo[r]).links \in SUBSET LinkSet
  BY HeadStep, StepFields
<1> DEFINE a == JoinAll(Head(todo[r]).links \ {l})
           b == Tail(todo[r])
<1>3. a \in Seq(Steps) /\ WholeRecords(a, r)
  BY <1>2, JoinAllWhole
<1>4. b \in Seq(Steps) /\ WholeRecords(b, r)
  BY <1>1, HeadStep
<1>5. a \o b \in Seq(Steps) /\ WholeRecords(a \o b, r)
  BY <1>3, <1>4, ConcatWhole
<1>6. todo' = [todo EXCEPT ![r] = a \o b]
  OBVIOUS
<1> HIDE DEF a, b
<1>7. PICK s \in Seq(Steps) : s = a \o b
  BY <1>5
<1>8. ~AtDump(r)
  BY DEF AtDump
<1>9. SameDumps /\ TasksInOrder' /\ SavesApart' /\ todo' \in [Recorders -> Seq(Steps)]
  BY <1>1, <1>5, <1>6, <1>7, <1>8, OneGoesOn
<1>10. todo'["shutdown"] = todo["shutdown"]
  BY <1>1, <1>6, RecordersFinite DEF GraphInv, GraphTyped
<1>11. l \in LinkSet /\ graph \in GraphType /\ MirroredIn(graph)
  BY <1>2 DEF GraphInv, GraphTyped
<1>12. MirroredIn(Registered(graph, l)) => MirroredIn(graph)'
  BY DEF MirroredIn
<1> QED
  BY <1>1, <1>9, <1>10, <1>11, <1>12, RegisteredSound

\* Registering and appending a link keeps the invariant.
LEMMA JoinNodesStep == ASSUME GraphInv, NEW r \in Recorders, JoinNodes(r) PROVE GraphInv'
<1>1. /\ todo[r] # <<>> /\ Head(todo[r]).op = "join" /\ tornTail' = FALSE
      /\ UNCHANGED <<files, run>>
  BY DEF JoinNodes, Next1
<1>2. PICK l \in Head(todo[r]).links :
        /\ graph' = Registered(graph, l)
        /\ lines' = [lines EXCEPT ![l] = IF tornTail THEN @ ELSE @ + 1]
        /\ todo' = [todo EXCEPT ![r] = JoinAll(Head(todo[r]).links \ {l}) \o Tail(@)]
  BY DEF JoinNodes, Next1
<1>3. /\ r \in GraphTasks /\ l \in LinkSet /\ SameDumps
      /\ TasksInOrder' /\ SavesApart' /\ todo' \in [Recorders -> Seq(Steps)]
      /\ todo'["shutdown"] = todo["shutdown"]
      /\ graph' \in GraphType /\ MirroredIn(graph)' /\ graph'.nodes = graph.nodes
      /\ \A k \in LinkSet : graph'.out[k] <= graph.out[k] + (IF k = l THEN 1 ELSE 0)
  BY <1>1, <1>2, LinkTaken
<1>4. GraphTyped'
  <2>1. lines' \in [LinkSet -> Nat]
    BY <1>2, <1>3 DEF GraphInv, GraphTyped
  <2> QED
    BY <1>1, <1>3, <2>1 DEF GraphInv, GraphTyped
<1>5. ProcessPhases'
  <2>1. run.state # "down"
    BY <1>1, AtWork
  <2> QED
    BY <1>1, <1>3, <2>1 DEF GraphInv, ProcessPhases
<1>6. RecordsKept'
  <2> SUFFICES ASSUME run.faults = 0, run.state = "up"
      PROVE  /\ \A k \in LinkSet : graph'.out[k] <= lines'[k]
             /\ \A m \in Nodes : graph'.nodes[m] \in {"none", Held(m)'}
    BY <1>1 DEF RecordsKept
  <2>1. \A m \in Nodes : graph'.nodes[m] \in {"none", Held(m)'}
    BY <1>1, <1>3, DumpsSame DEF GraphInv, RecordsKept
  <2>2. ASSUME NEW k \in LinkSet PROVE graph'.out[k] <= lines'[k]
    <3>1. graph.out[k] <= lines[k] /\ ~tornTail
      BY DEF GraphInv, RecordsKept
    <3>2. lines \in [LinkSet -> Nat] /\ graph.out[k] \in Nat /\ graph'.out[k] \in Nat
      BY <1>3 DEF GraphInv, GraphTyped, GraphType
    <3>3. lines'[k] = lines[k] + (IF k = l THEN 1 ELSE 0)
      BY <1>2, <1>3, <3>1, <3>2
    <3> QED
      BY <1>3, <3>1, <3>2, <3>3
  <2> QED
    BY <2>1, <2>2
<1>7. TornAccounted'
  BY <1>1, <1>3, <1>4, DumpsSame, AccountKept
<1> QED
  BY <1>3, <1>4, <1>5, <1>6, <1>7 DEF GraphInv

\* A fault adds one to the count of faults and changes nothing else of the run.
LEMMA FaultCounted ==
  ASSUME GraphInv, run' = [run EXCEPT !.faults = @ + 1]
  PROVE  run' \in RunType /\ run'.faults = run.faults + 1 /\ run'.state = run.state
         /\ run'.running = run.running /\ run'.faults # 0
<1>1. run \in RunType /\ run.faults \in Nat
  BY DEF GraphInv, GraphTyped, RunType
<1>2. PICK f \in Nat : f = run.faults + 1 /\ f # 0
  BY <1>1
<1>3. run' = [run EXCEPT !.faults = f]
  BY <1>2
<1> QED
  BY <1>1, <1>2, <1>3 DEF RunType

\* A write that fails, and the steps it skips, keep the invariant.
LEMMA WriteFailsStep == ASSUME GraphInv, NEW r \in Recorders, WriteFails(r) PROVE GraphInv'
<1>1. todo[r] # <<>> /\ run' = [run EXCEPT !.faults = @ + 1] /\ UNCHANGED <<files, lines>>
  BY DEF WriteFails
<1>2. /\ run' \in RunType /\ run'.faults = run.faults + 1 /\ run'.state = run.state
      /\ run'.running = run.running /\ run'.faults # 0 /\ run.state # "down"
      /\ run.state = "up" => r \in GraphTasks /\ r # "shutdown"
  BY <1>1, FaultCounted, AtWork, GraphAssumption
<1>3. RecordsKept'
  BY <1>2 DEF RecordsKept
<1>4. CASE Head(todo[r]).op = "dump" /\ Done(r) /\ UNCHANGED <<tornTail, graph>>
  <2>1. todo' = [todo EXCEPT ![r] = Tail(@)]
    BY <1>4 DEF Done
  <2>2. /\ todo' \in [Recorders -> Seq(Steps)] /\ TasksInOrder' /\ SavesApart'
        /\ todo'[r] = Tail(todo[r]) /\ \A q \in Recorders \ {r} : todo'[q] = todo[q]
    BY <1>1, <2>1, TailsKept
  <2>3. GraphTyped' /\ MirroredIn(graph)'
    BY <1>1, <1>2, <1>4, <2>2 DEF GraphInv, GraphTyped, MirroredIn
  <2>4. ProcessPhases'
    BY <1>2, <2>2, RecordersFinite DEF GraphInv, ProcessPhases
  <2>5. TornAccounted'
    <3> DEFINE n == Head(todo[r]).node
    <3>1. {n} \subseteq Dumped
      BY <1>1, <1>4 DEF Dumped, Dumpers, AtDump
    <3>2. IsFiniteSet({n}) /\ Cardinality({n}) <= Cardinality(Recorders)
      BY FS_Singleton, RecordersFinite
    <3> HIDE DEF n
    <3>3. ASSUME NEW m, m \in Dumped, m # n PROVE m \in Dumped'
      <4>1. PICK q \in Recorders : AtDump(q) /\ m = Head(todo[q]).node
        BY <3>3 DEF Dumped, Dumpers
      <4>2. q # r
        BY <4>1, <3>3 DEF n
      <4>3. todo'[q] = todo[q]
        BY <4>2, <2>2
      <4> QED
        BY <4>1, <4>3 DEF Dumped, Dumpers, AtDump
    <3>4. TornNodes' = TornNodes
      BY <1>1 DEF TornNodes
    <3>5. TornNodes' \ Dumped' \subseteq (TornNodes \ Dumped) \cup {n}
      BY <3>3, <3>4
    <3> QED
      BY <1>1, <1>2, <2>3, <3>1, <3>2, <3>5, AccountFault
  <2> QED
    BY <1>3, <2>2, <2>3, <2>4, <2>5 DEF GraphInv
<1>5. CASE /\ Head(todo[r]).op = "join"
           /\ \E l \in Head(todo[r]).links :
                /\ graph' = Registered(graph, l)
                /\ todo' = [todo EXCEPT ![r] = JoinAll(Head(todo[r]).links \ {l}) \o Tail(@)]
           /\ tornTail' \in {tornTail, TRUE}
  <2>1. PICK l \in Head(todo[r]).links :
          /\ graph' = Registered(graph, l)
          /\ todo' = [todo EXCEPT ![r] = JoinAll(Head(todo[r]).links \ {l}) \o Tail(@)]
    BY <1>5
  <2>2. /\ SameDumps /\ TasksInOrder' /\ SavesApart' /\ todo' \in [Recorders -> Seq(Steps)]
        /\ todo'["shutdown"] = todo["shutdown"] /\ graph' \in GraphType /\ MirroredIn(graph)'
    BY <1>1, <1>5, <2>1, LinkTaken
  <2>3. GraphTyped'
    BY <1>1, <1>2, <1>5, <2>2 DEF GraphInv, GraphTyped
  <2>4. ProcessPhases'
    BY <1>2, <2>2 DEF GraphInv, ProcessPhases
  <2>5. TornAccounted'
    BY <1>1, <1>2, <2>2, <2>3, DumpsSame, AccountKept
  <2> QED
    BY <1>3, <2>2, <2>3, <2>4, <2>5 DEF GraphInv
<1>6. CASE /\ Head(todo[r]).op = "append"
           /\ \E l \in LinkSet :
                Head(todo[r]).copies[l] > 0 /\ todo' = [todo EXCEPT ![r] = AppendsWithout(r, l)]
           /\ tornTail' \in {tornTail, TRUE}
           /\ UNCHANGED graph
  <2>1. PICK l \in LinkSet : todo' = [todo EXCEPT ![r] = AppendsWithout(r, l)]
    BY <1>6
  <2>2. r = "shutdown" /\ Head(todo[r]).copies \in [LinkSet -> Int]
    BY <1>1, <1>6, HeadStep, StepFields
  <2>3. [Head(todo[r]).copies EXCEPT ![l] = @ - 1] \in [LinkSet -> Int]
    BY <2>2
  <2>4. /\ AppendsWithout(r, l) \in Seq(Steps)
        /\ \A i \in 1..Len(AppendsWithout(r, l)) : AppendsWithout(r, l)[i].op = "append"
    BY <2>3, AppendsShape DEF AppendsWithout, Next1
  <2>5. ~AtDump(r)
    BY <1>6 DEF AtDump
  <2>6. SameDumps /\ TasksInOrder' /\ SavesApart' /\ todo' \in [Recorders -> Seq(Steps)]
    BY <2>1, <2>2, <2>4, <2>5, OneGoesOn
  <2>7. GraphTyped' /\ MirroredIn(graph)'
    BY <1>1, <1>2, <1>6, <2>6 DEF GraphInv, GraphTyped, MirroredIn
  <2>8. ProcessPhases'
    BY <1>2, <2>2, GraphAssumption DEF GraphInv, ProcessPhases
  <2>9. TornAccounted'
    BY <1>1, <1>2, <2>6, <2>7, DumpsSame, AccountKept
  <2> QED
    BY <1>3, <2>6, <2>7, <2>8, <2>9 DEF GraphInv
<1> QED
  BY <1>4, <1>5, <1>6 DEF WriteFails, Next1

\* The shutdown that begins to save the graph keeps the invariant.
LEMMA ShutdownStep == ASSUME GraphInv, Shutdown PROVE GraphInv'
<1> DEFINE s == <<[op |-> "save", nodes |-> {n \in Nodes : graph.nodes[n] # "none"}]>>
<1>1. s \in Seq(Steps) /\ \A i \in 1..Len(s) : s[i].op \in {"save", "append"}
  <2> DEFINE a == [op |-> "save", nodes |-> {n \in Nodes : graph.nodes[n] # "none"}]
  <2>1. a \in Steps /\ a.op = "save"
    BY DEF Steps, SaveSteps
  <2> HIDE DEF a
  <2>2. <<a>> \in Seq(Steps) /\ Len(<<a>>) = 1 /\ <<a>>[1] = a
    BY <2>1
  <2> QED
    BY <2>1, <2>2 DEF a
<1>2. todo' = [todo EXCEPT !["shutdown"] = s] /\ run.state = "up"
        /\ UNCHANGED <<graph, files, lines, tornTail>>
  BY DEF Shutdown
<1>3. run' \in RunType /\ run'.faults = run.faults /\ run'.state = "stopping"
  BY DEF Shutdown, GraphInv, GraphTyped, RunType
<1>4. ~AtDump("shutdown") /\ "shutdown" \in Recorders
  BY <1>2, RecordersFinite DEF AtDump, GraphInv, ProcessPhases
<1> HIDE DEF s
<1>5. SameDumps /\ TasksInOrder' /\ SavesApart' /\ todo' \in [Recorders -> Seq(Steps)]
  BY <1>1, <1>2, <1>4, OneGoesOn
<1>6. ProcessPhases'
  BY <1>3 DEF ProcessPhases
<1> QED
  BY <1>2, <1>3, <1>5, <1>6, QuietStep

\* While the shutdown is at work the process is stopping.
LEMMA Saving ==
  ASSUME GraphInv, todo["shutdown"] # <<>>
  PROVE  "shutdown" \in Recorders /\ "shutdown" \notin GraphTasks /\ run.state = "stopping"
BY RecordersFinite, GraphAssumption, AtWork DEF GraphInv, GraphTyped, RunType, ProcessPhases

\* The save of the graph that is done with its nodes and goes on to the links keeps the invariant.
LEMMA NodesSavedStep == ASSUME GraphInv, NodesSaved PROVE GraphInv'
<1>1. /\ todo["shutdown"] # <<>> /\ Head(todo["shutdown"]).op = "save"
      /\ todo' = [todo EXCEPT !["shutdown"] = Appends(graph.out)]
      /\ UNCHANGED <<graph, files, lines, tornTail, run>>
  BY DEF NodesSaved, Next1
<1>2. "shutdown" \in Recorders /\ run.state = "stopping" /\ ~AtDump("shutdown")
  BY <1>1, Saving DEF AtDump
<1>3. graph.out \in [LinkSet -> Int]
  <2>1. graph.out \in [LinkSet -> Nat]
    BY DEF GraphInv, GraphTyped, GraphType
  <2> QED
    BY <2>1
<1>4. PICK s \in Seq(Steps) : s = Appends(graph.out) /\ \A i \in 1..Len(s) : s[i].op = "append"
  BY <1>3, AppendsShape
<1>5. SameDumps /\ TasksInOrder' /\ SavesApart' /\ todo' \in [Recorders -> Seq(Steps)]
  BY <1>1, <1>2, <1>4, OneGoesOn
<1>6. ProcessPhases' /\ run' \in RunType
  BY <1>1, <1>2 DEF ProcessPhases, GraphInv, GraphTyped
<1> QED
  BY <1>1, <1>2, <1>5, <1>6, QuietStep

\* Saving one link at shutdown keeps the invariant.
LEMMA SaveGraphLinkStep == ASSUME GraphInv, SaveGraphLink PROVE GraphInv'
<1>1. /\ todo["shutdown"] # <<>> /\ Head(todo["shutdown"]).op = "append"
      /\ tornTail' = FALSE /\ UNCHANGED <<graph, files, run>>
  BY DEF SaveGraphLink, Next1
<1>2. PICK l \in LinkSet :
        /\ lines' = [lines EXCEPT ![l] = IF tornTail THEN @ ELSE @ + 1]
        /\ todo' = [todo EXCEPT !["shutdown"] = AppendsWithout("shutdown", l)]
  BY DEF SaveGraphLink
<1>3. "shutdown" \in Recorders /\ run.state = "stopping" /\ ~AtDump("shutdown")
  BY <1>1, Saving DEF AtDump
<1>4. Head(todo["shutdown"]).copies \in [LinkSet -> Int]
  BY <1>1, <1>3, HeadStep, StepFields
<1>5. [Head(todo["shutdown"]).copies EXCEPT ![l] = @ - 1] \in [LinkSet -> Int]
  BY <1>4
<1>6. PICK s \in Seq(Steps) : /\ s = AppendsWithout("shutdown", l)
                              /\ \A i \in 1..Len(s) : s[i].op = "append"
  BY <1>5, AppendsShape DEF AppendsWithout, Next1
<1>7. SameDumps /\ TasksInOrder' /\ SavesApart' /\ todo' \in [Recorders -> Seq(Steps)]
  BY <1>2, <1>3, <1>6, OneGoesOn
<1>8. GraphTyped' /\ MirroredIn(graph)'
  <2>1. lines' \in [LinkSet -> Nat]
    BY <1>2 DEF GraphInv, GraphTyped
  <2> QED
    BY <1>1, <1>7, <2>1 DEF GraphInv, GraphTyped, MirroredIn
<1>9. ProcessPhases' /\ RecordsKept'
  BY <1>1, <1>3 DEF ProcessPhases, RecordsKept
<1>10. TornAccounted'
  BY <1>1, <1>7, <1>8, DumpsSame, AccountKept
<1> QED
  BY <1>7, <1>8, <1>9, <1>10 DEF GraphInv

\* Saving one node at shutdown keeps the invariant.
LEMMA SaveGraphNodeStep == ASSUME GraphInv, SaveGraphNode PROVE GraphInv'
<1>1. /\ todo["shutdown"] # <<>> /\ Head(todo["shutdown"]).op = "save"
      /\ Head(todo["shutdown"]).nodes # {} /\ UNCHANGED <<graph, lines, tornTail, run>>
  BY DEF SaveGraphNode, Next1
<1>2. "shutdown" \in Recorders /\ run.state = "stopping" /\ ~AtDump("shutdown")
        /\ "shutdown" \notin GraphTasks
  BY <1>1, Saving DEF AtDump
<1>3. Head(todo["shutdown"]).nodes \in SUBSET Nodes
  BY <1>1, <1>2, HeadStep, StepFields
<1> DEFINE n == CHOOSE k \in Head(todo["shutdown"]).nodes : TRUE
           a == [op |-> "save", nodes |-> Head(todo["shutdown"]).nodes \ {n}]
           d == [op |-> "dump", node |-> n, content |-> graph.nodes[n]]
<1>4. n \in Nodes
  BY <1>1, <1>3
<1>5. a \in Steps /\ a.op = "save"
  BY <1>3 DEF Steps, SaveSteps
<1>6. IF graph.nodes[n] = "none"
      THEN todo' = [todo EXCEPT !["shutdown"] = <<a>>] /\ UNCHANGED files
      ELSE /\ files' = [files EXCEPT ![n] = "torn"]
           /\ todo' = [todo EXCEPT !["shutdown"] = <<d>> \o <<a>>]
  BY DEF SaveGraphNode, Next1
<1>7. graph \in GraphType /\ files \in [Nodes -> Contents \cup {"none", "torn"}]
        /\ todo \in [Recorders -> Seq(Steps)]
  BY DEF GraphInv, GraphTyped
<1>8. graph.nodes[n] # "none" => d \in Steps /\ d.op = "dump" /\ d.node = n
  BY <1>4, <1>7 DEF GraphType, Steps, NodeSteps
<1> HIDE DEF n, a, d
<1>9. <<a>> \in Seq(Steps) /\ \A i \in 1..Len(<<a>>) : <<a>>[i].op \in {"save", "append"}
  <2>1. <<a>> \in Seq(Steps) /\ Len(<<a>>) = 1 /\ <<a>>[1] = a
    BY <1>5
  <2> QED
    BY <2>1, <1>5
<1>10. ProcessPhases' /\ RecordsKept' /\ MirroredIn(graph)'
  <2>1. run.faults = 0 => ~tornTail
    BY DEF GraphInv, RecordsKept
  <2> QED
    BY <1>1, <1>2, <2>1 DEF ProcessPhases, RecordsKept, GraphInv, MirroredIn
<1>11. CASE graph.nodes[n] = "none"
  <2>1. PICK s \in Seq(Steps) : s = <<a>> /\ \A i \in 1..Len(s) : s[i].op \in {"save", "append"}
    BY <1>9
  <2>2. todo' = [todo EXCEPT !["shutdown"] = s] /\ files' = files
    BY <2>1, <1>6, <1>11
  <2>3. SameDumps /\ TasksInOrder' /\ SavesApart' /\ todo' \in [Recorders -> Seq(Steps)]
    BY <2>1, <2>2, <1>2, OneGoesOn
  <2>4. run' \in RunType
    BY <1>1 DEF GraphInv, GraphTyped
  <2> QED
    BY <1>1, <1>10, <2>2, <2>3, <2>4, QuietStep
<1>12. CASE graph.nodes[n] # "none"
  <2>1. /\ <<d>> \o <<a>> \in Seq(Steps) /\ Len(<<d>> \o <<a>>) = 2
        /\ (<<d>> \o <<a>>)[1] = d /\ (<<d>> \o <<a>>)[2] = a
    BY <1>5, <1>8, <1>12
  <2>2. PICK s \in Seq(Steps) : s = <<d>> \o <<a>>
    BY <2>1
  <2>3. Len(s) = 2 /\ s[1] = d /\ s[2] = a
    BY <2>1, <2>2
  <2>4. files' = [files EXCEPT ![n] = "torn"] /\ todo' = [todo EXCEPT !["shutdown"] = s]
    BY <2>2, <1>6, <1>12
  <2>5. /\ todo' \in [Recorders -> Seq(Steps)] /\ todo'["shutdown"] = s
        /\ \A q \in Recorders \ {"shutdown"} : todo'[q] = todo[q]
    BY <2>4, <1>2, <1>7
  <2>6. TasksInOrder'
    BY <2>5, <1>2 DEF GraphInv, TasksInOrder, Recorders
  <2>7. SavesApart'
    <3> SUFFICES ASSUME NEW i \in 1..Len(s) PROVE s[i].op \in {"save", "dump", "append"}
      BY <2>5 DEF SavesApart
    <3>1. i = 1 \/ i = 2
      BY <2>3
    <3> QED
      BY <3>1, <2>3, <1>5, <1>8, <1>12
  <2>8. GraphTyped'
    BY <1>1, <1>7, <2>4, <2>5 DEF GraphInv, GraphTyped
  <2>9. TornAccounted'
    <3>1. n \in Dumped'
      <4>1. todo'["shutdown"] # <<>> /\ Head(todo'["shutdown"]) = d
        BY <2>3, <2>5, SMTT(30)
      <4> QED
        BY <4>1, <1>2, <1>8, <1>12 DEF Dumped, Dumpers, AtDump
    <3>2. ASSUME NEW m, m \in Dumped PROVE m \in Dumped'
      <4>1. PICK q \in Recorders : AtDump(q) /\ m = Head(todo[q]).node
        BY <3>2 DEF Dumped, Dumpers
      <4>2. q # "shutdown"
        BY <4>1, <1>2
      <4>3. todo'[q] = todo[q]
        BY <4>2, <2>5
      <4> QED
        BY <4>1, <4>3 DEF Dumped, Dumpers, AtDump
    <3>3. TornNodes' \subseteq TornNodes \cup {n}
      BY <2>4, <1>7 DEF TornNodes
    <3>4. TornNodes' \ Dumped' \subseteq TornNodes \ Dumped
      BY <3>1, <3>2, <3>3
    <3> QED
      BY <3>4, <1>1, <2>8, AccountKept
  <2> QED
    BY <1>10, <2>5, <2>6, <2>7, <2>8, <2>9 DEF GraphInv
<1> QED
  BY <1>11, <1>12

\* The empty graph is typed, and its links are mirrored.
LEMMA EmptyGraphTyped == EmptyGraph \in GraphType /\ MirroredIn(EmptyGraph)
BY DEF EmptyGraph, GraphType, MirroredIn

\* The process is gone, and with it what it had in memory and still to do.
LEMMA DownKept ==
  ASSUME GraphInv, NEW f \in {0, 1}, Down(f), tornTail' \in BOOLEAN
  PROVE  /\ GraphTyped' /\ MirroredIn(graph)' /\ TasksInOrder' /\ SavesApart' /\ ProcessPhases'
         /\ run'.faults = run.faults + f /\ run'.state = "down" /\ files' = files
         /\ TornNodes' = TornNodes
<1>1. run \in RunType /\ run.faults \in Nat
  BY DEF GraphInv, GraphTyped, RunType
<1>2. PICK g \in Nat : g = run.faults + f
  BY <1>1
<1>3. run' = [run EXCEPT !.state = "down", !.running = {}, !.faults = g]
  BY <1>2 DEF Down
<1>4. run' \in RunType /\ run'.faults = g /\ run'.state = "down" /\ run'.running = {}
  BY <1>1, <1>3 DEF RunType
<1>5. todo' = [r \in Recorders |-> <<>>] /\ graph' = EmptyGraph /\ files' = files /\ lines' = lines
  BY DEF Down
<1>6. <<>> \in Seq(Steps)
  OBVIOUS
<1>7. todo' \in [Recorders -> Seq(Steps)]
  BY <1>5, <1>6
<1>8. GraphTyped'
  BY <1>4, <1>5, <1>7, EmptyGraphTyped DEF GraphInv, GraphTyped
<1>9. MirroredIn(graph)'
  BY <1>5, EmptyGraphTyped DEF MirroredIn
<1>10. TasksInOrder' /\ SavesApart'
  BY <1>5, RecordersFinite DEF TasksInOrder, SavesApart, RecordsInOrder, Recorders
<1>11. ProcessPhases'
  BY <1>4, <1>5 DEF ProcessPhases
<1>12. TornNodes' = TornNodes
  BY <1>5 DEF TornNodes
<1> QED
  BY <1>2, <1>4, <1>5, <1>8, <1>9, <1>10, <1>11, <1>12

\* The end of a shutdown keeps the invariant.
LEMMA StopStep == ASSUME GraphInv, Stop PROVE GraphInv'
<1>1. Down(0) /\ tornTail' = tornTail /\ \A r \in Recorders : todo[r] = <<>>
  BY DEF Stop
<1>2. tornTail \in BOOLEAN /\ run.faults \in Nat
  BY DEF GraphInv, GraphTyped, RunType
<1>3. /\ GraphTyped' /\ MirroredIn(graph)' /\ TasksInOrder' /\ SavesApart' /\ ProcessPhases'
      /\ run'.faults = run.faults + 0 /\ run'.state = "down" /\ files' = files
      /\ TornNodes' = TornNodes
  BY <1>1, <1>2, DownKept
<1>4. RecordsKept'
  <2>1. run.faults = 0 => ~tornTail
    BY DEF GraphInv, RecordsKept
  <2> QED
    BY <1>1, <1>2, <1>3, <2>1 DEF RecordsKept
<1>5. TornAccounted'
  <2>1. Dumped = {}
    BY <1>1 DEF Dumped, Dumpers, AtDump
  <2>2. TornNodes' \ Dumped' \subseteq TornNodes \ Dumped
    BY <1>3, <2>1
  <2> QED
    BY <1>2, <1>3, <2>2, AccountKept
<1> QED
  BY <1>3, <1>4, <1>5 DEF GraphInv

\* A crash, which loses the memory and keeps the files, keeps the invariant.
LEMMA ProcessCrashStep == ASSUME GraphInv, Crash PROVE GraphInv'
<1>1. Down(1) /\ tornTail' \in {tornTail, TRUE}
  BY DEF Crash
<1>2. tornTail \in BOOLEAN /\ run.faults \in Nat
  BY DEF GraphInv, GraphTyped, RunType
<1>3. /\ GraphTyped' /\ MirroredIn(graph)' /\ TasksInOrder' /\ SavesApart' /\ ProcessPhases'
      /\ run'.faults = run.faults + 1 /\ run'.state = "down" /\ files' = files
      /\ TornNodes' = TornNodes
  <2>1. tornTail' \in BOOLEAN
    BY <1>1, <1>2
  <2> QED
    BY <1>1, <2>1, DownKept
<1>4. RecordsKept'
  BY <1>2, <1>3 DEF RecordsKept
<1>5. TornAccounted'
  <2>1. TornNodes' \ Dumped' \subseteq (TornNodes \ Dumped) \cup Dumped
    BY <1>3
  <2>2. IsFiniteSet(Dumped) /\ Cardinality(Dumped) <= Cardinality(Recorders)
    BY DumpersBounded, RecordersFinite
  <2> QED
    BY <1>3, <2>1, <2>2, AccountFault
<1> QED
  BY <1>3, <1>4, <1>5 DEF GraphInv

\* With nothing in memory there is nothing a file could lack.
LEMMA StartupStep == ASSUME GraphInv, Startup PROVE GraphInv'
<1>1. run.state = "down" /\ UNCHANGED <<graph, files, lines, tornTail, todo>>
  BY DEF Startup
<1>2. graph = EmptyGraph /\ todo["shutdown"] = <<>>
  BY <1>1, RecordersFinite DEF GraphInv, ProcessPhases
<1>3. run \in RunType
  BY DEF GraphInv, GraphTyped
<1>4. run' \in RunType /\ run'.faults = run.faults /\ run'.state = "up"
  <2>1. PICK s \in Nat : s = run.starts + 1
    BY <1>3 DEF RunType
  <2>2. run' = [run EXCEPT !.state = "up", !.starts = s]
    BY <2>1 DEF Startup
  <2> QED
    BY <1>3, <2>2 DEF RunType
<1>5. GraphTyped' /\ MirroredIn(graph)' /\ TasksInOrder' /\ SavesApart'
  BY <1>1, <1>4 DEF GraphInv, GraphTyped, MirroredIn, TasksInOrder, SavesApart
<1>6. ProcessPhases'
  BY <1>1, <1>2, <1>4 DEF ProcessPhases
<1>7. RecordsKept'
  <2>1. run.faults = 0 => ~tornTail
    BY DEF GraphInv, RecordsKept
  <2>2. lines \in [LinkSet -> Nat]
    BY DEF GraphInv, GraphTyped
  <2>3. \A l \in LinkSet : graph'.out[l] <= lines'[l]
    BY <1>1, <1>2, <2>2 DEF EmptyGraph
  <2>4. \A n \in Nodes : graph'.nodes[n] = "none"
    BY <1>1, <1>2 DEF EmptyGraph
  <2> QED
    BY <1>1, <1>4, <2>1, <2>3, <2>4 DEF RecordsKept
<1>8. TornAccounted'
  <2>1. SameDumps
    BY <1>1 DEF SameDumps, AtDump
  <2> QED
    BY <1>1, <1>4, <1>5, <2>1, DumpsSame, AccountKept
<1> QED
  BY <1>5, <1>6, <1>7, <1>8 DEF GraphInv

\* A node leaves the memory of a process that is up, and no link still has it.
LEMMA NodeRemoved ==
  ASSUME GraphInv, run.state = "up", UNCHANGED <<files, lines, tornTail, todo>>,
         run' = [run EXCEPT !.removals = @ + 1],
         graph' \in GraphType, MirroredIn(graph)',
         \A n \in Nodes : graph'.nodes[n] \in {"none", graph.nodes[n]},
         \A l \in LinkSet : graph'.out[l] \in {0, graph.out[l]}
  PROVE  GraphInv'
<1>1. run' \in RunType /\ run'.faults = run.faults /\ run'.state = "up"
  <2>1. run \in RunType
    BY DEF GraphInv, GraphTyped
  <2>2. PICK s \in Nat : s = run.removals + 1
    BY <2>1 DEF RunType
  <2>3. run' = [run EXCEPT !.removals = s]
    BY <2>2
  <2> QED
    BY <2>1, <2>3 DEF RunType
<1>2. GraphTyped' /\ TasksInOrder' /\ SavesApart' /\ ProcessPhases'
  BY <1>1 DEF GraphInv, GraphTyped, TasksInOrder, SavesApart, ProcessPhases
<1>3. SameDumps
  BY DEF SameDumps, AtDump
<1>4. RecordsKept'
  <2> SUFFICES ASSUME run.faults = 0
      PROVE  /\ ~tornTail
             /\ \A l \in LinkSet : graph'.out[l] <= lines[l]
             /\ \A n \in Nodes : graph'.nodes[n] \in {"none", Held(n)'}
    BY <1>1 DEF RecordsKept
  <2>1. /\ ~tornTail
        /\ \A l \in LinkSet : graph.out[l] <= lines[l]
        /\ \A n \in Nodes : graph.nodes[n] \in {"none", Held(n)}
    BY DEF GraphInv, RecordsKept
  <2>2. lines \in [LinkSet -> Nat]
    BY DEF GraphInv, GraphTyped
  <2>3. \A l \in LinkSet : graph'.out[l] <= lines[l]
    BY <2>1, <2>2
  <2>4. \A n \in Nodes : graph'.nodes[n] \in {"none", Held(n)'}
    <3> TAKE n \in Nodes
    <3>1. Held(n)' = Held(n)
      BY <1>3, DumpsSame
    <3> QED
      BY <2>1, <3>1
  <2> QED
    BY <2>1, <2>3, <2>4
<1>5. TornAccounted'
  BY <1>1, <1>2, <1>3, DumpsSame, AccountKept
<1> QED
  BY <1>2, <1>4, <1>5 DEF GraphInv

\* Archiving a node keeps the invariant.
LEMMA ArchiveNodeStep == ASSUME GraphInv, NEW n \in Nodes, ArchiveNode(n) PROVE GraphInv'
<1>1. graph \in GraphType /\ MirroredIn(graph)
  BY DEF GraphInv, GraphTyped
<1>2. \A l \in LinkSet : n \in {l.source, l.target} => graph.out[l] = 0
  BY DEF ArchiveNode
<1> DEFINE nodes == [graph.nodes EXCEPT ![n] = "none"]
<1>3. graph' = [graph EXCEPT !.nodes = nodes]
  BY DEF ArchiveNode
<1>4. nodes \in [Nodes -> Contents \cup {"none"}]
  BY <1>1 DEF GraphType
<1>5. /\ \A m \in Nodes : nodes[m] \in {"none", graph.nodes[m]}
      /\ \A m \in Nodes : m # n => nodes[m] = graph.nodes[m]
  BY <1>1 DEF GraphType
<1> HIDE DEF nodes
<1>6. /\ graph' \in GraphType /\ graph'.nodes = nodes /\ graph'.out = graph.out
      /\ graph'.in = graph.in
  BY <1>1, <1>3, <1>4 DEF GraphType
<1>7. MirroredIn(graph)'
  <2>1. graph'.out = graph'.in
    BY <1>1, <1>6 DEF MirroredIn
  <2>2. ASSUME NEW l \in LinkSet, graph'.out[l] > 0
        PROVE  graph'.nodes[l.source] # "none" /\ graph'.nodes[l.target] # "none"
    <3>1. n \notin {l.source, l.target}
      BY <1>2, <1>6, <2>2
    <3>2. l.source \in Nodes /\ l.target \in Nodes
      BY DEF LinkSet, Nodes
    <3>3. graph.nodes[l.source] # "none" /\ graph.nodes[l.target] # "none"
      BY <1>1, <1>6, <2>2 DEF MirroredIn
    <3> QED
      BY <1>5, <1>6, <3>1, <3>2, <3>3
  <2> QED
    BY <2>1, <2>2 DEF MirroredIn
<1>8. run.state = "up" /\ UNCHANGED <<files, lines, tornTail, todo>>
        /\ run' = [run EXCEPT !.removals = @ + 1]
  BY DEF ArchiveNode
<1>9. /\ \A m \in Nodes : graph'.nodes[m] \in {"none", graph.nodes[m]}
      /\ \A l \in LinkSet : graph'.out[l] \in {0, graph.out[l]}
  BY <1>5, <1>6
<1> QED
  BY <1>6, <1>7, <1>8, <1>9, NodeRemoved

\* Deleting a node with its links keeps the invariant.
LEMMA DeleteNodeStep == ASSUME GraphInv, NEW n \in Nodes, DeleteNode(n) PROVE GraphInv'
<1>1. graph \in GraphType /\ MirroredIn(graph)
  BY DEF GraphInv, GraphTyped
<1> DEFINE nodes == [graph.nodes EXCEPT ![n] = "none"]
           out == [l \in LinkSet |-> IF n \in {l.source, l.target} THEN 0 ELSE graph.out[l]]
           in == [l \in LinkSet |-> IF n \in {l.source, l.target} THEN 0 ELSE graph.in[l]]
<1>3. graph' = [graph EXCEPT !.nodes = nodes, !.out = out, !.in = in]
  BY DEF DeleteNode, Without
<1>4. /\ nodes \in [Nodes -> Contents \cup {"none"}]
      /\ out \in [LinkSet -> Nat] /\ in \in [LinkSet -> Nat]
  BY <1>1 DEF GraphType
<1>5. /\ \A m \in Nodes : nodes[m] \in {"none", graph.nodes[m]}
      /\ \A m \in Nodes : m # n => nodes[m] = graph.nodes[m]
      /\ \A l \in LinkSet : out[l] \in {0, graph.out[l]}
      /\ \A l \in LinkSet : out[l] > 0 => n \notin {l.source, l.target} /\ out[l] = graph.out[l]
  BY <1>1 DEF GraphType
<1>6. out = in
  BY <1>1 DEF MirroredIn
<1> HIDE DEF nodes, out, in
<1>7. /\ graph' \in GraphType /\ graph'.nodes = nodes /\ graph'.out = out /\ graph'.in = in
  BY <1>1, <1>3, <1>4 DEF GraphType
<1>8. MirroredIn(graph)'
  <2>1. graph'.out = graph'.in
    BY <1>6, <1>7
  <2>2. ASSUME NEW l \in LinkSet, graph'.out[l] > 0
        PROVE  graph'.nodes[l.source] # "none" /\ graph'.nodes[l.target] # "none"
    <3>1. n \notin {l.source, l.target} /\ graph.out[l] > 0
      BY <1>5, <1>7, <2>2
    <3>2. l.source \in Nodes /\ l.target \in Nodes
      BY DEF LinkSet, Nodes
    <3>3. graph.nodes[l.source] # "none" /\ graph.nodes[l.target] # "none"
      BY <1>1, <3>1 DEF MirroredIn
    <3> QED
      BY <1>5, <1>7, <3>1, <3>2, <3>3
  <2> QED
    BY <2>1, <2>2 DEF MirroredIn
<1>9. run.state = "up" /\ UNCHANGED <<files, lines, tornTail, todo>>
        /\ run' = [run EXCEPT !.removals = @ + 1]
  BY DEF DeleteNode
<1>10. /\ \A m \in Nodes : graph'.nodes[m] \in {"none", graph.nodes[m]}
       /\ \A l \in LinkSet : graph'.out[l] \in {0, graph.out[l]}
  BY <1>5, <1>7
<1> QED
  BY <1>7, <1>8, <1>9, <1>10, NodeRemoved

\* A step that moves nothing of the graph keeps the invariant.
LEMMA GraphUnmoved == ASSUME GraphInv, UNCHANGED graphVars PROVE GraphInv'
<1>1. UNCHANGED <<graph, files, lines, tornTail, todo, run>>
  BY DEF graphVars
<1>2. SameDumps
  BY <1>1 DEF SameDumps, AtDump
<1>3. TasksInOrder' /\ SavesApart' /\ ProcessPhases' /\ todo' \in [Recorders -> Seq(Steps)]
        /\ run' \in RunType
  BY <1>1 DEF GraphInv, GraphTyped, TasksInOrder, SavesApart, ProcessPhases
<1> QED
  BY <1>1, <1>2, <1>3, QuietStep

\* memory/graph.py, memory/experience.py, memory/persistence.py: whatever recordings
\* run side by side with each other and with the save at shutdown, whatever fails,
\* crashes, is archived or deleted: both directions of the links agree and join
\* nodes that are there, what a run without faults has recorded is on disk, and no
\* more files are torn than are being written or the faults cut short.
THEOREM GraphSoundHolds == GraphSpec => []GraphSound
<1>1. GraphInit => GraphInv
  BY InitInv
<1>2. GraphInv /\ [GraphNext]_graphVars => GraphInv'
  <2> SUFFICES ASSUME GraphInv, [GraphNext]_graphVars PROVE GraphInv'
    OBVIOUS
  <2>1. ASSUME NEW t \in GraphTasks, Start(t) PROVE GraphInv'
    BY <2>1, StartStep
  <2>2. ASSUME NEW t \in GraphTasks, Succeed(t) PROVE GraphInv'
    BY <2>2, SucceedStep
  <2>3. ASSUME NEW t \in GraphTasks, NEW last \in BOOLEAN,
               NEW similar \in SUBSET {n \in Nodes : n[1] = "exp" /\ graph.nodes[n] # "none"},
               Fail(t, last, similar)
        PROVE  GraphInv'
    BY <2>3, FailStep
  <2>4. ASSUME NEW r \in Recorders, StoreNode(r) PROVE GraphInv'
    BY <2>4, StoreNodeStep
  <2>5. ASSUME NEW r \in Recorders, DumpNode(r) PROVE GraphInv'
    BY <2>5, DumpNodeStep
  <2>6. ASSUME NEW r \in Recorders, JoinNodes(r) PROVE GraphInv'
    BY <2>6, JoinNodesStep
  <2>7. ASSUME NEW r \in Recorders, WriteFails(r) PROVE GraphInv'
    BY <2>7, WriteFailsStep
  <2>8. CASE Shutdown
    BY <2>8, ShutdownStep
  <2>9. CASE SaveGraphNode
    BY <2>9, SaveGraphNodeStep
  <2>10. CASE NodesSaved
    BY <2>10, NodesSavedStep
  <2>11. CASE SaveGraphLink
    BY <2>11, SaveGraphLinkStep
  <2>12. CASE Stop
    BY <2>12, StopStep
  <2>13. CASE Crash
    BY <2>13, ProcessCrashStep
  <2>14. CASE Startup
    BY <2>14, StartupStep
  <2>15. ASSUME NEW n \in Nodes, ArchiveNode(n) \/ DeleteNode(n) PROVE GraphInv'
    BY <2>15, ArchiveNodeStep, DeleteNodeStep
  <2>16. CASE UNCHANGED graphVars
    BY <2>16, GraphUnmoved
  <2> QED
    BY <2>1, <2>2, <2>3, <2>4, <2>5, <2>6, <2>7, <2>8, <2>9, <2>10, <2>11, <2>12, <2>13, <2>14,
       <2>15, <2>16 DEF GraphNext
<1>3. GraphInv => GraphSound
  BY GraphInvSound
<1> QED
  BY <1>1, <1>2, <1>3, PTL DEF GraphSpec


(*****************************************************************************)
(* GraphStorage.                                                             *)
(*                                                                           *)
(* A link whose end cannot be read needs a write under way or a crash in one. *)
(* What a migration has copied is related to its source by what it has still to *)
(* do, as long as nobody writes to the source.                               *)
(*****************************************************************************)

\* The values of the variables
Kinds == {"none", "json", "sqlite", "postgres"}
Stores == [kind : Kinds, nodes : [StoreNodes -> Int], links : [StoreLinks -> Nat]]
Listings == UNION {[D -> Int] : D \in SUBSET StoreNodes}
Jobs == [phase : {"nodes", "links", "done"}, listed : Listings, left : SUBSET StoreNodes,
         errors : BOOLEAN, verified : BOOLEAN]
Tallies == [faults : Nat, migrations : Nat, quiet : BOOLEAN]

\* The typing
StoreTyped ==
  /\ source \in Stores /\ target \in Stores /\ tally \in Tallies
  /\ job = NoJob \/ (job \in Jobs /\ job.left \subseteq DOMAIN job.listed)
  /\ \/ owner = Idle
     \/ owner.phase = "write" /\ owner.node \in StoreNodes /\ owner.version \in Int /\ owner.version > 0
     \/ owner.phase = "delete" /\ owner.node \in StoreNodes

\* Who an end of a link may be that cannot be read: with files, the node in
\* hand or, after a crash, any
Anchored ==
  \A l \in StoreLinks, n \in StoreNodes :
    source.links[l] > 0 /\ n \in {l[1], l[2]} /\ ~(source.nodes[n] > 0) =>
      source.kind = "json" /\ (tally.faults > 0 \/ (owner # Idle /\ n = owner.node))

\* Before a store is opened, and before it is migrated
Blank ==
  /\ source.kind = "none" => job = NoJob /\ owner = Idle
  /\ job = NoJob =>
       /\ tally.migrations = 0
       /\ \A n \in StoreNodes : target.nodes[n] = 0
       /\ \A l \in StoreLinks : target.links[l] = 0
  /\ job # NoJob => tally.migrations > 0

\* While nobody writes to the source the target holds nothing else, and what
\* the job has been through
Copied ==
  tally.quiet /\ job # NoJob =>
    /\ job.listed = [n \in ReadableIn(source) |-> source.nodes[n]]
    /\ \A n \in StoreNodes : target.nodes[n] > 0 =>
         n \in ReadableIn(source) /\ target.nodes[n] = source.nodes[n]
    /\ \A l \in StoreLinks : target.links[l] > 0 =>
         source.links[l] > 0 /\ l[1] \in ReadableIn(source)
    /\ ~job.errors =>
         /\ \A n \in ReadableIn(source) :
              job.phase # "nodes" \/ n \notin job.left => target.nodes[n] = source.nodes[n]
         /\ \A l \in StoreLinks :
              /\ job.phase = "done" \/ (job.phase = "links" /\ l[1] \notin job.left)
              /\ l[1] \in ReadableIn(source) /\ source.links[l] > 0
              => target.links[l] > 0

\* The invariant
StoreInv == StoreTyped /\ Anchored /\ Blank /\ Copied

\* The ends of a link are nodes.
LEMMA LinkEnds == \A l \in StoreLinks : l[1] \in StoreNodes /\ l[2] \in StoreNodes
BY DEF StoreLinks

\* An empty store
LEMMA EmptyTyped ==
  ASSUME NEW k \in Kinds
  PROVE  /\ EmptyStore(k) \in Stores /\ EmptyStore(k).kind = k
         /\ \A n \in StoreNodes : EmptyStore(k).nodes[n] = 0
         /\ \A l \in StoreLinks : EmptyStore(k).links[l] = 0
BY DEF EmptyStore, Stores

\* No store is open at first.
LEMMA StoreInitial == StoreInit => StoreInv
<1> SUFFICES ASSUME StoreInit PROVE StoreInv
  OBVIOUS
<1>1. "none" \in Kinds
  BY DEF Kinds
<1>2. StoreTyped
  BY <1>1, EmptyTyped DEF StoreInit, StoreTyped, Tallies
<1>3. Anchored
  BY <1>1, EmptyTyped DEF StoreInit, Anchored
<1>4. Blank
  BY <1>1, EmptyTyped DEF StoreInit, Blank
<1>5. Copied
  BY DEF StoreInit, Copied
<1> QED
  BY <1>2, <1>3, <1>4, <1>5 DEF StoreInv

\* A graph is opened on a source, and a target is prepared.
LEMMA OpenStep ==
  ASSUME StoreInv, NEW from \in {"json", "sqlite", "postgres"}, NEW to \in {"json", "sqlite", "postgres"},
         Open(from, to)
  PROVE  StoreInv'
<1>1. /\ source.kind = "none" /\ source' = EmptyStore(from) /\ target' = EmptyStore(to)
      /\ UNCHANGED <<owner, job, tally>> /\ job = NoJob
  BY DEF Open, StoreInv, Blank
<1>2. from \in Kinds /\ to \in Kinds /\ from # "none"
  BY DEF Kinds
<1>3. /\ source' \in Stores /\ target' \in Stores /\ source'.kind # "none"
      /\ \A n \in StoreNodes : source'.nodes[n] = 0 /\ target'.nodes[n] = 0
      /\ \A l \in StoreLinks : source'.links[l] = 0 /\ target'.links[l] = 0
  BY <1>1, <1>2, EmptyTyped
<1>4. StoreTyped'
  BY <1>1, <1>3 DEF StoreInv, StoreTyped
<1>5. Anchored'
  BY <1>3 DEF Anchored
<1>6. Blank'
  BY <1>1, <1>3 DEF StoreInv, Blank
<1>7. Copied'
  BY <1>1 DEF Copied
<1> QED
  BY <1>4, <1>5, <1>6, <1>7 DEF StoreInv

\* What the owner's steps leave to show: it is known that the source changed
LEMMA OwnerStep ==
  ASSUME StoreInv, source.kind # "none", source' \in Stores, source'.kind = source.kind,
         Touched, UNCHANGED <<target, job>>, Anchored',
         \/ owner' = Idle
         \/ /\ owner'.phase = "write" /\ owner'.node \in StoreNodes
            /\ owner'.version \in Int /\ owner'.version > 0
         \/ owner'.phase = "delete" /\ owner'.node \in StoreNodes
  PROVE  StoreInv'
<1>1. /\ tally' \in Tallies /\ tally'.quiet = FALSE /\ tally'.migrations = tally.migrations
  BY DEF Touched, Tallies, StoreInv, StoreTyped
<1>2. StoreTyped'
  BY <1>1 DEF StoreInv, StoreTyped
<1>3. Blank'
  BY <1>1 DEF StoreInv, Blank
<1>4. Copied'
  BY <1>1 DEF Copied
<1> QED
  BY <1>2, <1>3, <1>4 DEF StoreInv

\* Writing to the source is no fault.
LEMMA TouchedFaults ==
  ASSUME StoreInv, Touched PROVE tally'.faults = tally.faults
BY DEF StoreInv, StoreTyped, Touched, Tallies

\* save_node(): the databases write it at once, the files in two steps.
LEMMA SaveNodeStep ==
  ASSUME StoreInv, NEW n \in StoreNodes, NEW v \in Nat, v > 0, SaveNode(n, v)
  PROVE  StoreInv'
<1>1. /\ source.kind # "none" /\ owner = Idle /\ v > source.nodes[n]
      /\ Touched /\ UNCHANGED <<target, job>>
  BY DEF SaveNode, OwnerMay
<1>2. source \in Stores /\ tally'.faults = tally.faults
  BY <1>1, TouchedFaults DEF StoreInv, StoreTyped
<1>3. CASE source.kind = "json"
  <2>1. /\ source' = [source EXCEPT !.nodes[n] = -1]
        /\ owner' = [phase |-> "write", node |-> n, version |-> v]
    BY <1>3 DEF SaveNode
  <2>2. /\ source' \in Stores /\ source'.kind = source.kind /\ source'.links = source.links
        /\ \A m \in StoreNodes : m # n => source'.nodes[m] = source.nodes[m]
    BY <1>2, <2>1 DEF Stores
  <2>3. owner'.phase = "write" /\ owner'.node = n /\ owner'.version = v /\ owner' # Idle
    BY <2>1 DEF Idle
  <2>4. Anchored'
    BY <1>1, <1>2, <1>3, <2>2, <2>3 DEF StoreInv, Anchored
  <2> QED
    BY <1>1, <2>2, <2>3, <2>4, OwnerStep
<1>4. CASE source.kind # "json"
  <2>1. source' = [source EXCEPT !.nodes[n] = v] /\ owner' = owner
    BY <1>4 DEF SaveNode
  <2>2. /\ source' \in Stores /\ source'.kind = source.kind /\ source'.links = source.links
        /\ \A m \in StoreNodes : source'.nodes[m] = IF m = n THEN v ELSE source.nodes[m]
    BY <1>2, <2>1 DEF Stores
  <2>3. Anchored'
    BY <1>1, <1>2, <1>4, <2>1, <2>2 DEF StoreInv, Anchored
  <2> QED
    BY <1>1, <2>1, <2>2, <2>3, OwnerStep
<1> QED BY <1>3, <1>4

\* The file of the node is complete.
LEMMA NodeWrittenStep ==
  ASSUME StoreInv, NodeWritten
  PROVE  StoreInv'
<1>1. /\ owner.phase = "write" /\ owner' = Idle /\ Touched /\ UNCHANGED <<target, job>>
      /\ source' = [source EXCEPT !.nodes[owner.node] = owner.version]
  BY DEF NodeWritten
<1>2. owner # Idle /\ owner.node \in StoreNodes /\ owner.version \in Int /\ owner.version > 0
  BY <1>1 DEF StoreInv, StoreTyped, Idle
<1>3. source \in Stores /\ tally'.faults = tally.faults
  BY <1>1, TouchedFaults DEF StoreInv, StoreTyped
<1>4. /\ source' \in Stores /\ source'.kind = source.kind /\ source'.links = source.links
      /\ \A m \in StoreNodes : source'.nodes[m] = IF m = owner.node THEN owner.version ELSE source.nodes[m]
  BY <1>1, <1>2, <1>3 DEF Stores
<1>5. Anchored'
  BY <1>2, <1>3, <1>4 DEF StoreInv, Anchored
<1>6. source.kind # "none"
  BY <1>2 DEF StoreInv, StoreTyped, Blank, Idle
<1> QED
  BY <1>1, <1>4, <1>5, <1>6, OwnerStep

\* save_link() needs both ends where the databases check them.
LEMMA SaveLinkStep ==
  ASSUME StoreInv, NEW l \in StoreLinks, SaveStoreLink(l)
  PROVE  StoreInv'
<1>1. /\ source.kind # "none" /\ owner = Idle /\ owner' = owner
      /\ {l[1], l[2]} \subseteq ReadableIn(source)
      /\ Touched /\ UNCHANGED <<target, job>>
  BY DEF SaveStoreLink, OwnerMay
<1>2. source' = [source EXCEPT !.links[l] = IF source.kind = "json" THEN @ + 1 ELSE 1]
  BY DEF SaveStoreLink, WithLink
<1>3. source \in Stores /\ tally'.faults = tally.faults
  BY <1>1, TouchedFaults DEF StoreInv, StoreTyped
<1>4. /\ source' \in Stores /\ source'.kind = source.kind /\ source'.nodes = source.nodes
      /\ \A m \in StoreLinks : m # l => source'.links[m] = source.links[m]
  BY <1>2, <1>3 DEF Stores
<1>5. source.nodes[l[1]] > 0 /\ source.nodes[l[2]] > 0
  BY <1>1 DEF ReadableIn
<1>6. Anchored'
  BY <1>1, <1>3, <1>4, <1>5 DEF StoreInv, Anchored
<1> QED
  BY <1>1, <1>4, <1>6, OwnerStep

\* A node and its links are gone
LEMMA WithoutIt ==
  ASSUME NEW s \in Stores, NEW n \in StoreNodes
  PROVE  /\ WithoutNode(s, n) \in Stores /\ WithoutNode(s, n).kind = s.kind
         /\ \A m \in StoreNodes : WithoutNode(s, n).nodes[m] = IF m = n THEN 0 ELSE s.nodes[m]
         /\ \A l \in StoreLinks :
              WithoutNode(s, n).links[l] = IF n \in {l[1], l[2]} THEN 0 ELSE s.links[l]
<1> DEFINE g == [l \in StoreLinks |-> IF n \in {l[1], l[2]} THEN 0 ELSE s.links[l]]
<1>1. g \in [StoreLinks -> Nat]
  BY DEF Stores
<1> DEFINE h == [s.nodes EXCEPT ![n] = 0]
<1>a. /\ h \in [StoreNodes -> Int]
      /\ \A m \in StoreNodes : h[m] = IF m = n THEN 0 ELSE s.nodes[m]
  BY DEF Stores
<1>2. WithoutNode(s, n) = [s EXCEPT !.nodes = h, !.links = g]
  BY DEF WithoutNode, Stores
<1>3. \A l \in StoreLinks : g[l] = IF n \in {l[1], l[2]} THEN 0 ELSE s.links[l]
  OBVIOUS
<1> HIDE DEF g, h
<1>4. /\ WithoutNode(s, n) \in Stores /\ WithoutNode(s, n).kind = s.kind
      /\ WithoutNode(s, n).links = g
      /\ \A m \in StoreNodes : WithoutNode(s, n).nodes[m] = IF m = n THEN 0 ELSE s.nodes[m]
  BY <1>1, <1>2, <1>a DEF Stores
<1> QED
  BY <1>3, <1>4

\* delete_node() takes node and links at once in the databases; in files the node
\* goes first.
LEMMA DeleteStep ==
  ASSUME StoreInv, NEW n \in StoreNodes, DeleteStoreNode(n)
  PROVE  StoreInv'
<1>1. /\ source.kind # "none" /\ owner = Idle /\ Touched /\ UNCHANGED <<target, job>>
  BY DEF DeleteStoreNode, OwnerMay
<1>2. source \in Stores /\ tally'.faults = tally.faults
  BY <1>1, TouchedFaults DEF StoreInv, StoreTyped
<1>3. CASE source.kind = "json"
  <2>1. source' = [source EXCEPT !.nodes[n] = 0] /\ owner' = [phase |-> "delete", node |-> n]
    BY <1>3 DEF DeleteStoreNode
  <2>2. /\ source' \in Stores /\ source'.kind = source.kind /\ source'.links = source.links
        /\ \A m \in StoreNodes : m # n => source'.nodes[m] = source.nodes[m]
    BY <1>2, <2>1 DEF Stores
  <2>3. owner'.phase = "delete" /\ owner'.node = n /\ owner' # Idle
    BY <2>1 DEF Idle
  <2>4. Anchored'
    BY <1>1, <1>2, <1>3, <2>2, <2>3 DEF StoreInv, Anchored
  <2> QED
    BY <1>1, <2>2, <2>3, <2>4, OwnerStep
<1>4. CASE source.kind # "json"
  <2>1. source' = WithoutNode(source, n) /\ owner' = owner
    BY <1>4 DEF DeleteStoreNode
  <2>2. Anchored'
    BY <1>1, <1>2, <1>4, <2>1, WithoutIt DEF StoreInv, Anchored
  <2> QED
    BY <1>1, <1>2, <2>1, <2>2, WithoutIt, OwnerStep
<1> QED BY <1>3, <1>4

\* The links of the deleted node are gone too.
LEMMA LinksDeletedStep ==
  ASSUME StoreInv, LinksDeleted
  PROVE  StoreInv'
<1>1. /\ owner.phase = "delete" /\ owner' = Idle /\ Touched /\ UNCHANGED <<target, job>>
      /\ source' = WithoutNode(source, owner.node)
  BY DEF LinksDeleted
<1>2. owner # Idle /\ owner.node \in StoreNodes
  BY <1>1 DEF StoreInv, StoreTyped, Idle
<1>3. source \in Stores /\ tally'.faults = tally.faults
  BY <1>1, TouchedFaults DEF StoreInv, StoreTyped
<1>4. /\ source' \in Stores /\ source'.kind = source.kind
      /\ \A m \in StoreNodes : source'.nodes[m] = IF m = owner.node THEN 0 ELSE source.nodes[m]
      /\ \A l \in StoreLinks :
           source'.links[l] = IF owner.node \in {l[1], l[2]} THEN 0 ELSE source.links[l]
  BY <1>1, <1>2, <1>3, WithoutIt
<1>5. Anchored'
  BY <1>2, <1>3, <1>4 DEF StoreInv, Anchored
<1>6. source.kind # "none"
  BY <1>2 DEF StoreInv, StoreTyped, Blank, Idle
<1> QED
  BY <1>1, <1>4, <1>5, <1>6, OwnerStep

\* The process dies between two writes.
LEMMA CrashStep ==
  ASSUME StoreInv, OwnerCrashes
  PROVE  StoreInv'
<1>1. /\ owner' = Idle /\ UNCHANGED <<source, target, job>>
      /\ tally' = [tally EXCEPT !.faults = @ + 1]
  BY DEF OwnerCrashes
<1>2. tally' \in Tallies /\ tally'.faults > 0 /\ tally'.quiet = tally.quiet
      /\ tally'.migrations = tally.migrations
  BY <1>1 DEF StoreInv, StoreTyped, Tallies
<1>3. StoreTyped'
  BY <1>1, <1>2 DEF StoreInv, StoreTyped
<1>4. Anchored'
  BY <1>1, <1>2 DEF StoreInv, Anchored
<1>5. Blank'
  BY <1>1, <1>2 DEF StoreInv, Blank
<1>6. Copied'
  BY <1>1, <1>2 DEF StoreInv, Copied, ReadableIn
<1> QED
  BY <1>3, <1>4, <1>5, <1>6 DEF StoreInv

\* What the steps of a migration leave to show
LEMMA JobStep ==
  ASSUME StoreInv, UNCHANGED <<source, owner>>, source.kind # "none",
         tally' \in Tallies, tally'.faults >= tally.faults, tally'.migrations > 0,
         target' \in Stores, job' \in Jobs, job'.left \subseteq DOMAIN job'.listed, Copied'
  PROVE  StoreInv'
<1>1. job' # NoJob
  BY DEF Jobs, NoJob
<1>2. StoreTyped'
  BY DEF StoreInv, StoreTyped
<1>3. Anchored'
  BY DEF StoreInv, StoreTyped, Tallies, Anchored
<1>4. Blank'
  BY <1>1 DEF Blank
<1> QED
  BY <1>2, <1>3, <1>4 DEF StoreInv

\* A migration that was started is typed.
LEMMA JobThere ==
  ASSUME StoreInv, job.phase \in {"nodes", "links", "done"}
  PROVE  /\ job \in Jobs /\ job # NoJob /\ source.kind # "none" /\ tally.migrations > 0
         /\ job.left \subseteq DOMAIN job.listed
         /\ source \in Stores /\ target \in Stores /\ tally \in Tallies
BY DEF StoreInv, StoreTyped, Blank, NoJob

\* The migration lists the nodes of the source.
LEMMA MigrateStep ==
  ASSUME StoreInv, MigrateStore
  PROVE  StoreInv'
<1>1. /\ source.kind # "none" /\ job.phase \in {"none", "done"}
      /\ job' = [phase |-> "nodes", listed |-> [n \in ReadableIn(source) |-> source.nodes[n]],
             left |-> ReadableIn(source), errors |-> FALSE, verified |-> FALSE]
      /\ tally' = [tally EXCEPT !.migrations = @ + 1, !.quiet = @ \/ tally.migrations = 0]
      /\ UNCHANGED <<source, target, owner>>
  BY DEF MigrateStore
<1>a. PICK b \in BOOLEAN : b <=> (tally.quiet \/ tally.migrations = 0)
  OBVIOUS
<1>b. tally \in Tallies
  BY DEF StoreInv, StoreTyped
<1>c. PICK q \in Nat : q = tally.migrations + 1 /\ q > 0
  BY <1>b DEF Tallies
<1>d. tally' = [tally EXCEPT !.migrations = q, !.quiet = b]
  BY <1>1, <1>a, <1>c
<1>2. /\ tally' \in Tallies /\ tally'.faults = tally.faults /\ tally'.migrations > 0
      /\ tally'.quiet = b
  BY <1>b, <1>c, <1>d DEF Tallies
<1>3. source \in Stores /\ target \in Stores
  BY DEF StoreInv, StoreTyped
<1>4. ReadableIn(source) \in SUBSET StoreNodes
  BY DEF ReadableIn
<1>5. [n \in ReadableIn(source) |-> source.nodes[n]] \in Listings
  <2>1. [n \in ReadableIn(source) |-> source.nodes[n]] \in [ReadableIn(source) -> Int]
    BY <1>3, <1>4 DEF Stores
  <2> QED
    BY <1>4, <2>1 DEF Listings
<1>6. job' \in Jobs /\ job'.left \subseteq DOMAIN job'.listed
  BY <1>1, <1>4, <1>5 DEF Jobs
<1>7. Copied'
  <2> SUFFICES ASSUME tally'.quiet
               PROVE  /\ \A n \in StoreNodes : target.nodes[n] > 0 =>
                           n \in ReadableIn(source) /\ target.nodes[n] = source.nodes[n]
                      /\ \A l \in StoreLinks : target.links[l] > 0 =>
                           source.links[l] > 0 /\ l[1] \in ReadableIn(source)
    BY <1>1 DEF Copied, ReadableIn
  <2>1. CASE job = NoJob
    BY <2>1 DEF StoreInv, Blank
  <2>2. CASE job # NoJob
    <3>1. tally.migrations > 0
      BY <2>2 DEF StoreInv, Blank
    <3>2. tally.quiet
      BY <1>2, <1>a, <3>1
    <3> QED
      BY <2>2, <3>2 DEF StoreInv, Copied
  <2> QED
    BY <2>1, <2>2
<1>8. tally'.faults >= tally.faults
  BY <1>2 DEF Tallies
<1> QED
  BY <1>1, <1>2, <1>3, <1>6, <1>7, <1>8, JobStep

\* It copies one node.
LEMMA MigrateNodeStep ==
  ASSUME StoreInv, NEW n \in StoreNodes, MigrateNode(n)
  PROVE  StoreInv'
<1>1. job.phase = "nodes" /\ n \in job.left /\ UNCHANGED <<source, owner>>
  BY DEF MigrateNode
<1>2. /\ job \in Jobs /\ job # NoJob /\ source.kind # "none" /\ tally.migrations > 0
      /\ job.left \subseteq DOMAIN job.listed
      /\ source \in Stores /\ target \in Stores /\ tally \in Tallies
  BY <1>1, JobThere
<1>a. ReadableIn(source)' = ReadableIn(source)
  BY <1>1 DEF ReadableIn
<1>3. CASE /\ target' = [target EXCEPT !.nodes[n] = job.listed[n]]
           /\ job' = [job EXCEPT !.left = @ \ {n}]
           /\ UNCHANGED tally
  <2>1. job.listed[n] \in Int
    <3>1. PICK D \in SUBSET StoreNodes : job.listed \in [D -> Int]
      BY <1>2 DEF Jobs, Listings
    <3> QED
      BY <1>1, <1>2, <3>1
  <2>2. /\ target' \in Stores /\ target'.links = target.links
        /\ \A m \in StoreNodes : target'.nodes[m] = IF m = n THEN job.listed[n] ELSE target.nodes[m]
    BY <1>2, <1>3, <2>1 DEF Stores
  <2>3. /\ job' \in Jobs /\ job'.left = job.left \ {n} /\ job'.listed = job.listed
        /\ job'.errors = job.errors /\ job'.phase = "nodes"
    BY <1>1, <1>2, <1>3 DEF Jobs
  <2>4. job'.left \subseteq DOMAIN job'.listed
    BY <1>2, <2>3
  <2>5. Copied'
    <3> SUFFICES ASSUME tally.quiet PROVE Copied'
      BY <1>3 DEF Copied
    <3>1. /\ job.listed = [m \in ReadableIn(source) |-> source.nodes[m]]
          /\ \A m \in StoreNodes : target.nodes[m] > 0 =>
               m \in ReadableIn(source) /\ target.nodes[m] = source.nodes[m]
          /\ \A l \in StoreLinks : target.links[l] > 0 =>
               source.links[l] > 0 /\ l[1] \in ReadableIn(source)
          /\ ~job.errors =>
               \A m \in ReadableIn(source) : m \notin job.left => target.nodes[m] = source.nodes[m]
      BY <1>1, <1>2 DEF StoreInv, Copied
    <3>2. n \in ReadableIn(source) /\ job.listed[n] = source.nodes[n]
      BY <1>1, <1>2, <3>1
    <3>3. ReadableIn(source) \subseteq StoreNodes
      BY DEF ReadableIn
    <3>4. \A m \in StoreNodes : target'.nodes[m] > 0 =>
            m \in ReadableIn(source) /\ target'.nodes[m] = source.nodes[m]
      BY <2>2, <3>1, <3>2
    <3>5. ~job.errors =>
            \A m \in ReadableIn(source) : m \notin job'.left => target'.nodes[m] = source.nodes[m]
      BY <2>2, <2>3, <3>1, <3>2, <3>3
    <3> QED
      BY <1>1, <1>a, <2>2, <2>3, <3>1, <3>4, <3>5 DEF Copied
  <2> QED
    BY <1>1, <1>2, <1>3, <2>2, <2>3, <2>4, <2>5, JobStep DEF Tallies
<1>4. CASE /\ tally' = [tally EXCEPT !.faults = @ + 1]
           /\ job' = [job EXCEPT !.left = @ \ {n}, !.errors = TRUE]
           /\ UNCHANGED target
  <2>1. /\ tally' \in Tallies /\ tally'.faults >= tally.faults /\ tally'.migrations > 0
        /\ tally'.quiet = tally.quiet
    BY <1>2, <1>4 DEF Tallies
  <2>2. /\ job' \in Jobs /\ job'.errors = TRUE /\ job'.listed = job.listed
        /\ job'.left \subseteq DOMAIN job'.listed
    BY <1>2, <1>4 DEF Jobs
  <2>3. Copied'
    BY <1>1, <1>2, <1>a, <1>4, <2>1, <2>2 DEF StoreInv, Copied
  <2> QED
    BY <1>1, <1>2, <1>4, <2>1, <2>2, <2>3, JobStep
<1> QED BY <1>3, <1>4 DEF MigrateNode

\* It goes on to the links.
LEMMA NodesMigratedStep ==
  ASSUME StoreInv, NodesMigrated
  PROVE  StoreInv'
<1>1. /\ job.phase = "nodes" /\ job.left = {} /\ UNCHANGED <<source, target, owner, tally>>
      /\ job' = [job EXCEPT !.phase = "links", !.left = DOMAIN job.listed]
  BY DEF NodesMigrated
<1>2. /\ job \in Jobs /\ job # NoJob /\ source.kind # "none" /\ tally.migrations > 0
      /\ source \in Stores /\ target \in Stores /\ tally \in Tallies
  BY <1>1, JobThere
<1>3. DOMAIN job.listed \subseteq StoreNodes
  <2>1. PICK D \in SUBSET StoreNodes : job.listed \in [D -> Int]
    BY <1>2 DEF Jobs, Listings
  <2> QED
    BY <2>1
<1>4. /\ job' \in Jobs /\ job'.phase = "links" /\ job'.left = DOMAIN job.listed
      /\ job'.listed = job.listed /\ job'.errors = job.errors
  BY <1>1, <1>2, <1>3 DEF Jobs
<1>5. ReadableIn(source)' = ReadableIn(source)
  BY <1>1 DEF ReadableIn
<1>6. Copied'
  <2> SUFFICES ASSUME tally.quiet PROVE Copied'
    BY <1>1 DEF Copied
  <2>1. /\ job.listed = [m \in ReadableIn(source) |-> source.nodes[m]]
        /\ \A m \in StoreNodes : target.nodes[m] > 0 =>
             m \in ReadableIn(source) /\ target.nodes[m] = source.nodes[m]
        /\ \A l \in StoreLinks : target.links[l] > 0 =>
             source.links[l] > 0 /\ l[1] \in ReadableIn(source)
        /\ ~job.errors =>
             \A m \in ReadableIn(source) : m \notin job.left => target.nodes[m] = source.nodes[m]
    BY <1>1, <1>2 DEF StoreInv, Copied
  <2>2. job'.left = ReadableIn(source)
    BY <1>4, <2>1
  <2> QED
    BY <1>1, <1>4, <1>5, <2>1, <2>2 DEF Copied
<1> QED
  BY <1>1, <1>2, <1>4, <1>6, JobStep DEF Tallies

\* What is written of the links of a node: those that are accepted, once more
WithLinks(s, fit) ==
  [s EXCEPT !.links = [l \in StoreLinks |-> IF l \in fit THEN WithLink(s, l).links[l] ELSE @[l]]]

\* The links of the target afterwards
LEMMA LinkCopied ==
  ASSUME NEW s \in Stores, NEW fit \in SUBSET StoreLinks
  PROVE  /\ WithLinks(s, fit) \in Stores /\ WithLinks(s, fit).nodes = s.nodes
         /\ \A l \in fit : WithLinks(s, fit).links[l] > 0
         /\ \A l \in StoreLinks \ fit : WithLinks(s, fit).links[l] = s.links[l]
<1> DEFINE g == [l \in StoreLinks |-> IF l \in fit THEN WithLink(s, l).links[l] ELSE s.links[l]]
<1>1. \A l \in StoreLinks : WithLink(s, l).links[l] \in Nat /\ WithLink(s, l).links[l] > 0
  BY DEF WithLink, Stores
<1>2. \A l \in StoreLinks : s.links[l] \in Nat
  BY DEF Stores
<1>3. g \in [StoreLinks -> Nat]
  BY <1>1, <1>2
<1>4. /\ \A l \in fit : g[l] > 0
      /\ \A l \in StoreLinks \ fit : g[l] = s.links[l]
  BY <1>1
<1>5. WithLinks(s, fit) = [s EXCEPT !.links = g]
  BY DEF WithLinks
<1> HIDE DEF g
<1>6. /\ WithLinks(s, fit) \in Stores /\ WithLinks(s, fit).nodes = s.nodes
      /\ WithLinks(s, fit).links = g
  BY <1>3, <1>5 DEF Stores
<1> QED
  BY <1>4, <1>6

\* It copies the links of one node.
LEMMA MigrateLinksOfStep ==
  ASSUME StoreInv, NEW n \in StoreNodes, MigrateLinksOf(n)
  PROVE  StoreInv'
<1> DEFINE fit == Accepted(target, LinksOf(n))
<1>1. /\ job.phase = "links" /\ n \in job.left /\ UNCHANGED <<source, owner, tally>>
      /\ target' = WithLinks(target, fit)
      /\ job' = [job EXCEPT !.left = @ \ {n}, !.errors = @ \/ fit # LinksOf(n)]
  BY DEF MigrateLinksOf, WithLinks
<1>2. /\ job \in Jobs /\ job # NoJob /\ source.kind # "none" /\ tally.migrations > 0
      /\ job.left \subseteq DOMAIN job.listed
      /\ source \in Stores /\ target \in Stores /\ tally \in Tallies
  BY <1>1, JobThere
<1>3. fit \subseteq LinksOf(n) /\ LinksOf(n) \subseteq StoreLinks
  BY DEF Accepted, LinksOf
<1>4. \A l \in StoreLinks : l \in LinksOf(n) <=> (l[1] = n /\ source.links[l] > 0)
  BY DEF LinksOf
<1> HIDE DEF fit
<1>5. /\ target' \in Stores /\ target'.nodes = target.nodes
      /\ \A l \in fit : target'.links[l] > 0
      /\ \A l \in StoreLinks \ fit : target'.links[l] = target.links[l]
  BY <1>1, <1>2, <1>3, LinkCopied
<1>6. PICK e \in BOOLEAN : e = (job.errors \/ fit # LinksOf(n))
  OBVIOUS
<1>7. job' = [job EXCEPT !.left = @ \ {n}, !.errors = e]
  BY <1>1, <1>6
<1>8. /\ job' \in Jobs /\ job'.phase = "links" /\ job'.left = job.left \ {n}
      /\ job'.listed = job.listed /\ job'.errors = e
  <2>1. job \in Jobs /\ job.left \ {n} \in SUBSET StoreNodes
    BY <1>2 DEF Jobs
  <2>2. PICK left \in SUBSET StoreNodes : left = job.left \ {n}
    BY <2>1
  <2>3. job' = [job EXCEPT !.left = left, !.errors = e]
    BY ONLY <1>7, <2>2
  <2>4. /\ job' \in Jobs /\ job'.phase = job.phase /\ job'.left = left
        /\ job'.listed = job.listed /\ job'.errors = e
    BY ONLY <1>6, <2>1, <2>2, <2>3 DEF Jobs
  <2> QED
    BY ONLY <1>1, <2>2, <2>4
<1>9. job'.left \subseteq DOMAIN job'.listed
  BY <1>2, <1>8
<1>10. ReadableIn(source)' = ReadableIn(source)
  BY <1>1 DEF ReadableIn
<1>11. Copied'
  <2> SUFFICES ASSUME tally.quiet PROVE Copied'
    BY <1>1 DEF Copied
  <2>1. /\ job.listed = [m \in ReadableIn(source) |-> source.nodes[m]]
        /\ \A m \in StoreNodes : target.nodes[m] > 0 =>
             m \in ReadableIn(source) /\ target.nodes[m] = source.nodes[m]
        /\ \A l \in StoreLinks : target.links[l] > 0 =>
             source.links[l] > 0 /\ l[1] \in ReadableIn(source)
        /\ ~job.errors =>
             /\ \A m \in ReadableIn(source) : target.nodes[m] = source.nodes[m]
             /\ \A l \in StoreLinks : l[1] \notin job.left /\ l[1] \in ReadableIn(source)
                                      /\ source.links[l] > 0 => target.links[l] > 0
    BY <1>1, <1>2 DEF StoreInv, Copied
  <2>2. n \in ReadableIn(source)
    BY <1>1, <1>2, <2>1
  <2>3. \A l \in StoreLinks : target'.links[l] > 0 =>
          source.links[l] > 0 /\ l[1] \in ReadableIn(source)
    BY <1>3, <1>4, <1>5, <2>1, <2>2
  <2>4. ASSUME ~e, NEW l \in StoreLinks, l[1] \notin job'.left, l[1] \in ReadableIn(source),
               source.links[l] > 0
        PROVE  target'.links[l] > 0
    BY <1>3, <1>4, <1>5, <1>6, <1>8, <2>1, <2>4
  <2>5. ~e => \A m \in ReadableIn(source) : target'.nodes[m] = source.nodes[m]
    BY <1>5, <1>6, <2>1
  <2> QED
    BY <1>1, <1>5, <1>8, <1>10, <2>1, <2>3, <2>4, <2>5 DEF Copied
<1> QED
  BY <1>1, <1>2, <1>5, <1>8, <1>9, <1>11, JobStep DEF Tallies

\* It compares the counts.
LEMMA VerifyStep ==
  ASSUME StoreInv, Verify
  PROVE  StoreInv'
<1>1. PICK b \in BOOLEAN : b = (Cardinality(ReadableIn(target)) = Cardinality(DOMAIN job.listed))
  OBVIOUS
<1>2. /\ job.phase = "links" /\ job.left = {} /\ UNCHANGED <<source, target, owner, tally>>
      /\ job' = [job EXCEPT !.phase = "done", !.verified = b]
  BY <1>1 DEF Verify
<1>3. /\ job \in Jobs /\ job # NoJob /\ source.kind # "none" /\ tally.migrations > 0
      /\ source \in Stores /\ target \in Stores /\ tally \in Tallies
  BY <1>2, JobThere
<1>4. /\ job' \in Jobs /\ job'.phase = "done" /\ job'.left = {}
      /\ job'.listed = job.listed /\ job'.errors = job.errors
  BY <1>2, <1>3 DEF Jobs
<1>5. ReadableIn(source)' = ReadableIn(source)
  BY <1>2 DEF ReadableIn
<1>6. Copied'
  BY <1>2, <1>3, <1>4, <1>5 DEF StoreInv, Copied
<1> QED
  BY <1>2, <1>3, <1>4, <1>6, JobStep DEF Tallies

\* Every step keeps the invariant.
LEMMA StoreStep == StoreInv /\ [StoreNext]_storeVars => StoreInv'
<1> SUFFICES ASSUME StoreInv, [StoreNext]_storeVars PROVE StoreInv'
  OBVIOUS
<1>1. ASSUME NEW from \in {"json", "sqlite", "postgres"}, NEW to \in {"json", "sqlite", "postgres"},
             Open(from, to)
      PROVE  StoreInv'
  BY <1>1, OpenStep
<1>2. ASSUME NEW n \in StoreNodes,
             \/ \E v \in 1..Versions : SaveNode(n, v)
             \/ DeleteStoreNode(n) \/ MigrateNode(n) \/ MigrateLinksOf(n)
      PROVE  StoreInv'
  <2>1. ASSUME NEW v \in 1..Versions, SaveNode(n, v) PROVE StoreInv'
    <3>1. v \in Nat /\ v > 0
      OBVIOUS
    <3> QED
      BY <2>1, <3>1, SaveNodeStep
  <2> QED
    BY <1>2, <2>1, DeleteStep, MigrateNodeStep, MigrateLinksOfStep
<1>3. ASSUME UNCHANGED storeVars PROVE StoreInv'
  BY <1>3 DEF storeVars, StoreInv, StoreTyped, Anchored, Blank, Copied, ReadableIn
<1> QED
  BY <1>1, <1>2, <1>3, SaveLinkStep, NodeWrittenStep, LinksDeletedStep, CrashStep, MigrateStep,
     NodesMigratedStep, VerifyStep DEF StoreNext

\* The invariant gives the property.
LEMMA StoreInvSays == StoreInv => StoresAgree
<1> SUFFICES ASSUME StoreInv PROVE StoresAgree
  OBVIOUS
<1>1. source \in Stores /\ target \in Stores /\ tally \in Tallies
  BY DEF StoreInv, StoreTyped
<1>2. MigratedFaithfully
  <2> SUFFICES ASSUME job.phase = "done", ~job.errors, tally.quiet
               PROVE  /\ Load(target).nodes = Load(source).nodes
                      /\ \A l \in StoreLinks :
                           Load(target).links[l] =
                             IF source.links[l] > 0 /\ l[1] \in ReadableIn(source) THEN 1 ELSE 0
    BY DEF MigratedFaithfully
  <2>1. job # NoJob
    BY DEF NoJob
  <2>2. /\ \A n \in StoreNodes : target.nodes[n] > 0 =>
             n \in ReadableIn(source) /\ target.nodes[n] = source.nodes[n]
        /\ \A l \in StoreLinks : target.links[l] > 0 =>
             source.links[l] > 0 /\ l[1] \in ReadableIn(source)
        /\ \A n \in ReadableIn(source) : target.nodes[n] = source.nodes[n]
        /\ \A l \in StoreLinks :
             l[1] \in ReadableIn(source) /\ source.links[l] > 0 => target.links[l] > 0
    BY <2>1 DEF StoreInv, Copied
  <2>3. ReadableIn(target) = ReadableIn(source)
    BY <2>2 DEF ReadableIn
  <2>4. \A n \in ReadableIn(source) : target.nodes[n] = source.nodes[n]
    BY <2>2
  <2>5. Load(target).nodes = Load(source).nodes
    BY <2>3, <2>4 DEF Load
  <2>6. \A l \in StoreLinks : Load(target).links[l] = IF target.links[l] > 0 THEN 1 ELSE 0
    BY DEF Load
  <2> QED
    BY <2>2, <2>5, <2>6
<1>3. LinksAnchored
  <2> SUFFICES ASSUME NEW l \in StoreLinks, source.links[l] > 0,
                      ~({l[1], l[2]} \subseteq ReadableIn(source))
               PROVE  source.kind = "json" /\ (owner # Idle \/ tally.faults > 0)
    BY DEF LinksAnchored, Dangling
  <2>1. PICK n \in {l[1], l[2]} : n \notin ReadableIn(source)
    OBVIOUS
  <2>2. n \in StoreNodes
    BY LinkEnds
  <2>3. ~(source.nodes[n] > 0)
    BY <2>1, <2>2 DEF ReadableIn
  <2> QED
    BY <2>2, <2>3 DEF StoreInv, Anchored
<1> QED
  BY <1>2, <1>3 DEF StoresAgree

\* memory/storage/: a stored link joins two stored nodes, in files except during a
\* write or after a crash in one; and a migration that reports no error, of a
\* source nobody wrote to, gives a target that loads as the source does.
THEOREM StoresAgreeHolds == StoreSpec => []StoresAgree
<1>1. StoreInit => StoreInv
  BY StoreInitial
<1>2. StoreInv /\ [StoreNext]_storeVars => StoreInv'
  BY StoreStep
<1>3. StoreInv => StoresAgree
  BY StoreInvSays
<1> QED
  BY <1>1, <1>2, <1>3, PTL DEF StoreSpec

------------------------------------------------------------------------------
(*****************************************************************************)
(* DataMigration.                                                            *)
(*                                                                           *)
(* The batches cover what was selected, whatever their size.  A copy carries *)
(* its tenant as the first prefix of its id, and one made within a tenant is *)
(* in another group than the run selects: so a run neither selects its own   *)
(* copies nor puts one over a node it selects, and to repeat it adds what    *)
(* failed and nothing else.                                                  *)
(*****************************************************************************)

\* The ids of nodes: a name and the prefixes before it
NodeIds == Seq(Names \cup Tenants) \ {<<>>}

\* The tenant a node of that id is of
TenantOf(id) == IF Len(id) = 1 THEN "A" ELSE Head(id)

\* The prefix of an id is its tenant, and a copy within a tenant is in the group
\* such a run copies to.
NodeFits(n) ==
  /\ n \in [id : NodeIds, tenant : Tenants, group : Groups, content : Nat,
            from : Seq(Names \cup Tenants)]
  /\ n.tenant = TenantOf(n.id)
  /\ Len(n.id) > 1 /\ TenantOf(Tail(n.id)) = n.tenant => n.group = "h"

NodesFit(nodes) == IsFiniteSet(nodes) /\ \A n \in nodes : NodeFits(n)

\* A list has every node of a finite set, at the positions up to their number.
LEMMA OrderExists ==
  ASSUME NEW S, IsFiniteSet(S)
  PROVE  /\ InOrder(S) \in [1..Cardinality(S) -> S]
         /\ \A n \in S : \E i \in 1..Cardinality(S) : InOrder(S)[i] = n
<1>1. PICK f : f \in Bijection(1..Cardinality(S), S)
  BY FS_CardinalityType DEF ExistsBijection
<1>2. f \in [1..Cardinality(S) -> S] /\ \A n \in S : \E i \in DOMAIN f : f[i] = n
  BY <1>1 DEF Bijection, Surjection, Injection
<1> DEFINE Lists(q) == \A n \in S : \E i \in DOMAIN q : q[i] = n
<1>3. InOrder(S) = CHOOSE q \in [1..Cardinality(S) -> S] : Lists(q)
  BY DEF InOrder
<1>4. \E q \in [1..Cardinality(S) -> S] : Lists(q)
  BY <1>2
<1> HIDE DEF Lists
<1>5. InOrder(S) \in [1..Cardinality(S) -> S] /\ Lists(InOrder(S))
  BY <1>3, <1>4
<1> QED
  BY <1>5 DEF Lists

\* Of the first positions of the batches, one is the last at or below k.
LEMMA StartBelow ==
  ASSUME NEW k \in Nat
  PROVE  \E i \in 0..k : i % BatchSize = 0 /\ k < i + BatchSize
<1>1. BatchSize \in Nat /\ BatchSize >= 1
  BY MigrationAssumption
<1> DEFINE i == k - (k % BatchSize)
<1>2. k % BatchSize \in 0..(BatchSize - 1) /\ k = BatchSize * (k \div BatchSize) + (k % BatchSize)
        /\ k \div BatchSize \in Nat
  BY <1>1, Z3
<1>3. i = BatchSize * (k \div BatchSize) /\ i \in 0..k /\ k < i + BatchSize
  BY <1>1, <1>2
<1>4. \A m \in Nat : (BatchSize * m) % BatchSize = 0
  BY <1>1, Z3
<1> QED
  BY <1>2, <1>3, <1>4

\* The batches cover what was selected: nothing is lost at their ends.
LEMMA BatchesCover ==
  ASSUME NEW S, IsFiniteSet(S)
  PROVE  UNION Batched(S) = S
<1> DEFINE q == InOrder(S)
           total == Cardinality(S)
           last(i) == IF i + BatchSize < total THEN i + BatchSize ELSE total
<1>1. BatchSize \in Nat /\ BatchSize >= 1 /\ total \in Nat
  BY MigrationAssumption, FS_CardinalityType
<1>2. q \in [1..total -> S] /\ \A n \in S : \E k \in 1..total : q[k] = n
  BY OrderExists
<1>3. Batched(S) = {{q[k] : k \in (i + 1)..last(i)} : i \in {j \in 0..(total - 1) : j % BatchSize = 0}}
  BY DEF Batched
<1> HIDE DEF q, total
<1>4. ASSUME NEW n \in S PROVE n \in UNION Batched(S)
  <2>1. PICK k \in 1..total : q[k] = n
    BY <1>2
  <2>2. PICK i \in 0..(k - 1) : i % BatchSize = 0 /\ k - 1 < i + BatchSize
    <3>1. k - 1 \in Nat
      BY <1>1
    <3> QED
      BY <3>1, StartBelow
  <2>3. i \in {j \in 0..(total - 1) : j % BatchSize = 0}
    BY <1>1, <2>2
  <2>4. k \in (i + 1)..last(i)
    BY <1>1, <2>2
  <2> QED
    BY <1>3, <2>1, <2>3, <2>4
<1>5. ASSUME NEW n \in UNION Batched(S) PROVE n \in S
  <2>1. PICK i \in {j \in 0..(total - 1) : j % BatchSize = 0} :
          n \in {q[k] : k \in (i + 1)..last(i)}
    BY <1>3
  <2>3. PICK k \in (i + 1)..last(i) : n = q[k]
    BY <2>1
  <2>2. k \in 1..total
    BY <1>1, <2>1, <2>3
  <2> QED
    BY <1>2, <2>3, <2>2
<1> QED
  BY <1>4, <1>5

\* The copies of finitely many nodes are finitely many.
LEMMA CopiesFinite ==
  ASSUME NEW S, IsFiniteSet(S), NEW c
  PROVE  IsFiniteSet({CopyOf(n, c) : n \in S})
<1> DEFINE f == [n \in S |-> CopyOf(n, c)]
           T == {CopyOf(n, c) : n \in S}
<1>1. f \in Surjection(S, T)
  BY DEF Surjection
<1> HIDE DEF f, T
<1>2. IsFiniteSet(T)
  BY <1>1, FS_Surjection
<1> QED
  BY <1>2 DEF T

\* The batches of a run over a finite set are, together, all it selects: it copies each that does not fail.
LEMMA CopiedAll ==
  ASSUME NEW nodes, IsFiniteSet(nodes), NEW c, NEW failing
  PROVE  CopiedBy(nodes, c, failing) = {CopyOf(n, c) : n \in Selected(nodes, c) \ failing}
<1>1. Selected(nodes, c) \subseteq nodes
  BY DEF Selected
<1>2. IsFiniteSet(Selected(nodes, c))
  BY <1>1, FS_Subset
<1>3. UNION Batched(Selected(nodes, c)) = Selected(nodes, c)
  BY <1>2, BatchesCover
<1>4. ASSUME NEW m \in CopiedBy(nodes, c, failing)
      PROVE  m \in {CopyOf(n, c) : n \in Selected(nodes, c) \ failing}
  <2>1. PICK n \in (UNION Batched(Selected(nodes, c))) \ failing : m = CopyOf(n, c)
    BY DEF CopiedBy
  <2> QED
    BY <1>3, <2>1
<1>5. ASSUME NEW n \in Selected(nodes, c) \ failing
      PROVE  CopyOf(n, c) \in CopiedBy(nodes, c, failing)
  <2>1. n \in (UNION Batched(Selected(nodes, c))) \ failing
    BY <1>3
  <2> QED
    BY <2>1 DEF CopiedBy
<1> QED
  BY <1>4, <1>5

\* The runs that go through: to another tenant, or from group g to group h.
LEMMA RunsAsked ==
  ASSUME NEW c \in Asked, Permitted(c)
  PROVE  /\ c.targetTenant \in Tenants /\ c.targetGroup \in {"none", "h"}
         /\ \/ c.sourceTenant # c.targetTenant
            \/ c.sourceTenant = c.targetTenant /\ c.sourceGroup = "g" /\ c.targetGroup = "h"
BY DEF Asked, Config, Permitted, Tenants

\* The copy of a node that fits fits too, with the target's tenant and group and an id made from the original's.
LEMMA CopyFits ==
  ASSUME NEW n, NodeFits(n), NEW c \in Asked, Permitted(c), n.tenant = c.sourceTenant
  PROVE  /\ NodeFits(CopyOf(n, c)) /\ CopyOf(n, c).tenant = c.targetTenant
         /\ CopyOf(n, c).id = <<c.targetTenant>> \o n.id
         /\ c.targetGroup # "none" => CopyOf(n, c).group = c.targetGroup
<1> DEFINE id == <<c.targetTenant>> \o n.id
           group == IF c.targetGroup = "none" THEN n.group ELSE c.targetGroup
           m == CopyOf(n, c)
<1>1. /\ n \in [id : NodeIds, tenant : Tenants, group : Groups, content : Nat,
                from : Seq(Names \cup Tenants)]
      /\ n.id \in Seq(Names \cup Tenants) /\ n.id # <<>> /\ n.tenant = TenantOf(n.id)
  BY DEF NodeFits, NodeIds
<1>2. c.targetTenant \in Tenants /\ c.targetGroup \in {"none", "h"}
  BY RunsAsked
<1>3. id \in Seq(Names \cup Tenants) /\ Len(id) > 1 /\ Head(id) = c.targetTenant /\ Tail(id) = n.id
  BY <1>1, <1>2
<1>4. group \in Groups
  BY <1>1, <1>2 DEF Groups
<1>5. m = [n EXCEPT !.id = id, !.tenant = c.targetTenant, !.from = n.id, !.group = group]
  BY DEF CopyOf
<1> HIDE DEF id, group, m
<1>6. id \in NodeIds
  BY <1>3 DEF NodeIds
<1>7. /\ m \in [id : NodeIds, tenant : Tenants, group : Groups, content : Nat,
                from : Seq(Names \cup Tenants)]
      /\ m.id = id /\ m.tenant = c.targetTenant /\ m.group = group
  BY <1>1, <1>2, <1>4, <1>5, <1>6
<1>8. m.tenant = TenantOf(m.id) /\ TenantOf(Tail(m.id)) = n.tenant
  <2>1. Len(id) # 1
    BY <1>3
  <2>2. TenantOf(id) = c.targetTenant
    BY <1>3, <2>1 DEF TenantOf
  <2> QED
    BY <1>1, <1>3, <1>7, <2>2
<1>9. n.tenant = m.tenant => m.group = "h"
  BY <1>7, RunsAsked DEF group
<1> QED
  BY <1>7, <1>8, <1>9 DEF NodeFits, m, id, group

\* What a run has copied is not selected by it again, nor was it put over a node
\* that is: so the selection stays.
LEMMA SelectionStays ==
  ASSUME NEW nodes, NodesFit(nodes), NEW c \in Asked, Permitted(c),
         NEW chosen, chosen \subseteq Selected(nodes, c)
  PROVE  Selected(Added(nodes, {CopyOf(n, c) : n \in chosen}), c) = Selected(nodes, c)
<1> DEFINE copies == {CopyOf(n, c) : n \in chosen}
<1>1. \A n \in chosen : n \in nodes /\ NodeFits(n) /\ n.tenant = c.sourceTenant
        /\ c.sourceGroup \in {"none", n.group}
  BY DEF Selected, NodesFit
<1>2. ASSUME NEW n \in chosen
      PROVE  ~(CopyOf(n, c).tenant = c.sourceTenant /\ c.sourceGroup \in {"none", CopyOf(n, c).group})
  BY <1>1, CopyFits, RunsAsked
<1>3. ASSUME NEW s \in Selected(nodes, c), NEW n \in chosen PROVE CopyOf(n, c).id # s.id
  <2> SUFFICES ASSUME CopyOf(n, c).id = s.id PROVE FALSE
    OBVIOUS
  <2>1. NodeFits(s) /\ NodeFits(n) /\ n.tenant = c.sourceTenant /\ s.tenant = c.sourceTenant
          /\ c.sourceGroup \in {"none", s.group}
    BY <1>1 DEF Selected, NodesFit
  <2>2. n.id \in Seq(Names \cup Tenants) /\ n.id # <<>> /\ s.id = <<c.targetTenant>> \o n.id
          /\ c.targetTenant \in Tenants
    BY <2>1, CopyFits, RunsAsked DEF NodeFits, NodeIds
  <2>3. Len(s.id) > 1 /\ Head(s.id) = c.targetTenant /\ Tail(s.id) = n.id
    BY <2>2
  <2>4. s.tenant = c.targetTenant
    BY <2>1, <2>3 DEF NodeFits, TenantOf
  <2>5. TenantOf(Tail(s.id)) = s.tenant
    BY <2>1, <2>3 DEF NodeFits
  <2>6. s.group = "h"
    BY <2>1, <2>3, <2>5 DEF NodeFits
  <2> QED
    BY <2>1, <2>4, <2>6, RunsAsked
<1> HIDE DEF copies
<1>4. ASSUME NEW s \in Selected(nodes, c) PROVE s \in Selected(Added(nodes, copies), c)
  <2>1. s \in nodes /\ \A m \in copies : m.id # s.id
    BY <1>3 DEF copies, Selected
  <2> QED
    BY <2>1 DEF Added, Selected
<1>5. ASSUME NEW s \in Selected(Added(nodes, copies), c) PROVE s \in Selected(nodes, c)
  <2>1. s \in nodes \/ s \in copies
    BY DEF Added, Selected
  <2>2. s \notin copies
    BY <1>2 DEF copies, Selected
  <2> QED
    BY <2>1, <2>2 DEF Selected
<1> QED
  BY <1>4, <1>5 DEF copies

\* Runs over nodes that fit converge: a run repeated after a failed copy stores what a full one would.
LEMMA FitConverges == ASSUME NodesFit(stored) PROVE RunsConverge
<1> SUFFICES ASSUME NEW c \in Asked, Permitted(c), NEW n \in Selected(stored, c)
    PROVE  Added(Added(stored, CopiedBy(stored, c, {n})),
                 CopiedBy(Added(stored, CopiedBy(stored, c, {n})), c, {}))
             = Added(stored, CopiedBy(stored, c, {}))
  BY DEF RunsConverge
<1> DEFINE some == CopiedBy(stored, c, {n})
           all == CopiedBy(stored, c, {})
           left == Added(stored, some)
<1>1. IsFiniteSet(stored) /\ IsFiniteSet(Selected(stored, c) \ {n})
  <2>1. Selected(stored, c) \ {n} \subseteq stored
    BY DEF Selected
  <2> QED
    BY <2>1, FS_Subset DEF NodesFit
<1>2. /\ some = {CopyOf(m, c) : m \in Selected(stored, c) \ {n}}
      /\ all = {CopyOf(m, c) : m \in Selected(stored, c) \ {}}
  BY <1>1, CopiedAll
<1>3. some \subseteq all
  BY <1>2
<1>4. Selected(left, c) = Selected(stored, c)
  <2>1. PICK chosen : chosen = Selected(stored, c) \ {n}
    OBVIOUS
  <2>2. left = Added(stored, {CopyOf(m, c) : m \in chosen}) /\ chosen \subseteq Selected(stored, c)
    BY <1>2, <2>1
  <2> QED
    BY <2>2, SelectionStays
<1>5. IsFiniteSet(left)
  <2>1. IsFiniteSet(some)
    <3>1. PICK chosen : chosen = Selected(stored, c) \ {n}
      OBVIOUS
    <3>2. some = {CopyOf(m, c) : m \in chosen} /\ IsFiniteSet(chosen)
      BY <1>1, <1>2, <3>1
    <3> HIDE DEF some
    <3> QED
      BY <3>2, CopiesFinite
  <2>2. left \subseteq stored \cup some
    BY DEF Added
  <2>3. IsFiniteSet(stored \cup some)
    BY <1>1, <2>1, FS_Union
  <2> QED
    BY <2>2, <2>3, FS_Subset
<1>6. CopiedBy(left, c, {}) = all
  <2>1. PICK after : after = left
    OBVIOUS
  <2>2. IsFiniteSet(after)
    BY <1>5, <2>1
  <2>3. CopiedBy(after, c, {}) = {CopyOf(m, c) : m \in Selected(after, c) \ {}}
    BY <2>2, CopiedAll
  <2> QED
    BY <1>2, <1>4, <2>1, <2>3
<1> HIDE DEF some, all
<1>7. Added(Added(stored, some), all) = Added(stored, all)
  BY <1>3 DEF Added
<1> QED
  BY <1>6, <1>7 DEF some, all

\* The nodes stored before any run fit.
LEMMA MigrationBegins == ASSUME MigrationInit PROVE NodesFit(stored)
<1> DEFINE first == CHOOSE m \in Names : TRUE
           N(name) == Node(name, IF name = first THEN "g" ELSE "none")
<1>1. stored = {N(name) : name \in Names}
  BY DEF MigrationInit
<1>2. IsFiniteSet(stored)
  <2> DEFINE f == [name \in Names |-> N(name)]
  <2> HIDE DEF N
  <2>1. f \in Surjection(Names, stored)
    BY <1>1 DEF Surjection
  <2> HIDE DEF f
  <2> QED
    BY <2>1, MigrationAssumption, FS_Surjection
<1>3. ASSUME NEW name \in Names, NEW group \in Groups PROVE NodeFits(Node(name, group))
  <2>1. <<name>> \in Seq(Names \cup Tenants) /\ <<name>> # <<>> /\ Len(<<name>>) = 1
    OBVIOUS
  <2>2. Node(name, group) \in [id : NodeIds, tenant : Tenants, group : Groups, content : Nat,
                               from : Seq(Names \cup Tenants)]
    BY <2>1 DEF Node, NodeIds, Tenants, Original
  <2>3. Node(name, group).id = <<name>> /\ Node(name, group).tenant = "A"
    BY DEF Node
  <2> QED
    BY <2>1, <2>2, <2>3 DEF NodeFits, TenantOf
<1>4. \A name \in Names : NodeFits(N(name))
  BY <1>3 DEF Groups
<1> QED
  BY <1>1, <1>2, <1>4 DEF NodesFit

\* A run of the migration leaves nodes that fit.
LEMMA RunStep ==
  ASSUME NodesFit(stored), NEW c \in Asked, Migrate(c)
  PROVE  NodesFit(stored')
<1>1. CASE stored' = stored
  BY <1>1
<1>2. CASE stored' # stored
  <2>1. PICK failing \in SUBSET Selected(stored, c) :
          Permitted(c) /\ stored' = Added(stored, CopiedBy(stored, c, failing))
    BY <1>2 DEF Migrate
  <2> DEFINE copies == {CopyOf(n, c) : n \in Selected(stored, c) \ failing}
  <2>2. CopiedBy(stored, c, failing) = copies
    BY CopiedAll DEF NodesFit
  <2>3. stored' \subseteq stored \cup copies
    BY <2>1, <2>2 DEF Added
  <2>4. \A m \in copies : NodeFits(m)
    BY <2>1, CopyFits DEF Selected, NodesFit
  <2>5. IsFiniteSet(copies)
    <3>1. Selected(stored, c) \ failing \subseteq stored
      BY DEF Selected
    <3>2. IsFiniteSet(Selected(stored, c) \ failing)
      BY <3>1, FS_Subset DEF NodesFit
    <3> QED
      BY <3>2, CopiesFinite
  <2>6. IsFiniteSet(stored \cup copies)
    BY <2>5, FS_Union DEF NodesFit
  <2> HIDE DEF copies
  <2> QED
    BY <2>3, <2>4, <2>6, FS_Subset DEF NodesFit
<1> QED
  BY <1>1, <1>2

\* An edit of a stored node leaves nodes that fit.
LEMMA EditStep ==
  ASSUME NodesFit(stored), NEW n \in stored, Edit(n)
  PROVE  NodesFit(stored')
<1> DEFINE m == [n EXCEPT !.content = @ + 1]
<1>1. stored' = (stored \ {n}) \cup {m}
  BY DEF Edit
<1>2. n \in [id : NodeIds, tenant : Tenants, group : Groups, content : Nat,
             from : Seq(Names \cup Tenants)] /\ NodeFits(n)
  BY DEF NodesFit, NodeFits
<1>3. NodeFits(m)
  <2>1. PICK v \in Nat : v = n.content + 1
    BY <1>2
  <2>2. m = [n EXCEPT !.content = v]
    BY <2>1
  <2> HIDE DEF m
  <2>3. m \in [id : NodeIds, tenant : Tenants, group : Groups, content : Nat,
               from : Seq(Names \cup Tenants)]
          /\ m.id = n.id /\ m.tenant = n.tenant /\ m.group = n.group
    BY <1>2, <2>2
  <2> QED
    BY <1>2, <2>3 DEF NodeFits
<1>4. IsFiniteSet((stored \ {n}) \cup {m})
  <2>1. IsFiniteSet(stored \ {n})
    BY FS_Subset DEF NodesFit
  <2> QED
    BY <2>1, FS_AddElement
<1> HIDE DEF m
<1> QED
  BY <1>1, <1>3, <1>4 DEF NodesFit

\* migration/engine.py: for any nodes, batch size, limits, edits and nodes that
\* cannot be copied: a run that is repeated over what an earlier one left ends as if
\* it had gone through at once.
THEOREM RunsConvergeHolds == MigrationSpec => []RunsConverge
<1>1. MigrationInit => NodesFit(stored)
  BY MigrationBegins
<1>2. NodesFit(stored) /\ [MigrationNext]_migrationVars => NodesFit(stored)'
  <2> SUFFICES ASSUME NodesFit(stored), [MigrationNext]_migrationVars PROVE NodesFit(stored')
    BY DEF NodesFit
  <2>1. ASSUME NEW c \in Asked, Migrate(c) PROVE NodesFit(stored')
    BY <2>1, RunStep
  <2>2. ASSUME NEW n \in stored, Edit(n) PROVE NodesFit(stored')
    BY <2>2, EditStep
  <2>3. CASE UNCHANGED migrationVars
    BY <2>3 DEF migrationVars
  <2> QED
    BY <2>1, <2>2, <2>3 DEF MigrationNext
<1>3. NodesFit(stored) => RunsConverge
  BY FitConverges
<1> QED
  BY <1>1, <1>2, <1>3, PTL DEF MigrationSpec
==============================================================================
