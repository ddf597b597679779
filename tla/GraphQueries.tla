---------------------------- MODULE GraphQueries ----------------------------
(***************************************************************************)
(* Questions to the knowledge graph: neighbors and path, the searches of   *)
(* memory/graph.py, step by step, and the queries of core/dataview.py      *)
(* over their answers.  Links are followed in both directions.  A link     *)
(* may point to a node that is gone (load_graph does not check), which     *)
(* stops a path with a KeyError as soon as it leads on.  The candidates    *)
(* of a query come in the order of a set, that is, in any order.           *)
(***************************************************************************)
EXTENDS Positions, SequencesExt

CONSTANTS QueryNodes,
          Statuses,     \* values of the field a query tests and orders by
          RowLimits,    \* limits a query is given
          MaxVisited,   \* nodes a path visits before it gives up
          MaxEdges      \* bound on the links of a graph

ASSUME QueryAssumption ==
  /\ IsFiniteSet(QueryNodes) /\ Statuses \subseteq Nat \ {0}
  /\ RowLimits \subseteq Nat /\ MaxVisited \in Nat /\ MaxEdges \in Nat

VARIABLES edges,    \* the links
          present,  \* the nodes that are there
          status,   \* the field of a node, 0 for None
          search,   \* neighbors or path: the queue of (node, depth) and what was found
          query     \* a statement and its rows

queryVars == <<edges, present, status, search, query>>

NoSearch == [state |-> "none"]
NoQuery == [state |-> "none"]

QueryInit ==
  /\ edges = {}
  /\ present = QueryNodes
  /\ status = [n \in QueryNodes |-> 0]
  /\ search = NoSearch
  /\ query = NoQuery

Building == search = NoSearch /\ query = NoQuery

AddEdge(s, t) ==
  /\ Building /\ \A n \in QueryNodes : status[n] = 0  \* a search does not read it
  /\ s # t /\ Cardinality(edges) < MaxEdges
  /\ edges' = edges \cup {<<s, t>>}
  /\ UNCHANGED <<present, status, search, query>>

Lose(n) ==
  /\ Building /\ present = QueryNodes
  /\ present' = present \ {n}
  /\ UNCHANGED <<edges, status, search, query>>

SetStatus(n, v) ==
  /\ Building /\ edges = {}
  /\ status' = [status EXCEPT ![n] = v]
  /\ UNCHANGED <<edges, present, search, query>>

\* neighbors; a depth beyond max_depth is answered with nothing
AskAround(n, depth) ==
  /\ Building /\ \A m \in QueryNodes : status[m] = 0 /\ n \in present
  /\ search' = [state |-> "run", kind |-> "neighbors", source |-> n, target |-> n,
                depth |-> depth, queue |-> <<<<n, 0>>>>, visited |-> {n}, found |-> {}]
  /\ UNCHANGED <<edges, present, status, query>>

AskPath(n, m) ==
  /\ Building /\ \A x \in QueryNodes : status[x] = 0 /\ n \in present /\ m \in present /\ n # m
  /\ search' = [state |-> "run", kind |-> "path", source |-> n, target |-> m,
                depth |-> 0, queue |-> <<<<n, 0>>>>, visited |-> {n}, found |-> {}]
  /\ UNCHANGED <<edges, present, status, query>>

Beside(n) == {m \in QueryNodes : <<n, m>> \in edges \/ <<m, n>> \in edges}
Popped == Head(search.queue)
Fresh == Beside(Popped[1]) \ search.visited

\* Mutant: a node at the last step is expanded once more
ExpandTooFar ==
  /\ search.state = "run" /\ search.kind = "neighbors" /\ search.queue # <<>>
  /\ search' = IF Popped[2] > search.depth THEN [search EXCEPT !.queue = Tail(@)]
       ELSE [search EXCEPT
              !.visited = @ \cup Fresh,
              !.found = @ \cup {<<m, Popped[2] + 1>> : m \in Fresh \cap present},
              !.queue = Tail(@) \o SetToSeq({<<m, Popped[2] + 1>> : m \in Fresh})]
  /\ UNCHANGED <<edges, present, status, query>>

\* One round of neighbors: at the depth asked for, a node is not expanded
Expand ==
  /\ search.state = "run" /\ search.kind = "neighbors" /\ search.queue # <<>>
  /\ search' = IF Popped[2] >= search.depth THEN [search EXCEPT !.queue = Tail(@)]
       ELSE [search EXCEPT
              !.visited = @ \cup Fresh,
              !.found = @ \cup {<<m, Popped[2] + 1>> : m \in Fresh \cap present},
              !.queue = Tail(@) \o
                (IF Popped[2] + 1 < search.depth
                 THEN SetToSeq({<<m, Popped[2] + 1>> : m \in Fresh}) ELSE <<>>)]
  /\ UNCHANGED <<edges, present, status, query>>

\* One round of path; self._nodes[current] fails if current is gone, and a search that
\* has visited too many nodes has found nothing
ExpandPath ==
  /\ search.state = "run" /\ search.kind = "path" /\ search.queue # <<>>
  /\ search' = IF Popped[1] \notin present /\ Fresh # {} THEN [search EXCEPT !.state = "error"]
       ELSE IF search.target \in Fresh
       THEN [search EXCEPT !.state = "done", !.found = {<<search.target, Popped[2] + 1>>}]
       ELSE [search EXCEPT !.visited = @ \cup Fresh,
               !.queue = Tail(@) \o SetToSeq({<<m, Popped[2] + 1>> : m \in Fresh}),
               !.state = IF Cardinality(search.visited \cup Fresh) > MaxVisited THEN "done" ELSE @]
  /\ UNCHANGED <<edges, present, status, query>>

Exhausted ==
  /\ search.state = "run" /\ search.queue = <<>>
  /\ search' = [search EXCEPT !.state = "done"]
  /\ UNCHANGED <<edges, present, status, query>>

\* _compare: None equals only null and is never less or greater
Compares(n, op, v) ==
  CASE op = "all" -> TRUE
    [] op = "=" -> status[n] = v
    [] op = "!=" -> status[n] # v
    [] op = ">" -> status[n] # 0 /\ v # 0 /\ status[n] > v

\* _node_matches_condition: a comparison, or n STEPS FROM, which asks neighbors
Matches(n, where) ==
  IF where.op = "steps" THEN n = search.source \/ \E d \in 1..where.value : <<n, d>> \in search.found
  ELSE Compares(n, where.op, where.value)

\* Values in ascending order, None last
Lower(n, m) == status[n] # 0 /\ (status[m] = 0 \/ status[n] < status[m])

\* _display_field_name: the key of a field without an alias
Display(field) == IF field = "content.status" THEN "status" ELSE field

\* A column of the rows: a field, and the key its value has in a row.  The field
\* status is found in the content, with the prefix or without.
Column(field, alias) ==
  [field |-> field, key |-> IF alias = "none" THEN Display(field) ELSE alias]

\* ORDER BY looks its name up, as it was written, among the keys of the rows, and
\* changes nothing if no column has that key.
SortsRows(stmt) == stmt.order \in {c.key : c \in stmt.select}
Ahead(n, m, stmt) == SortsRows(stmt) /\ IF stmt.desc THEN Lower(m, n) ELSE Lower(n, m)

\* The sort is stable: rows that are equal stay as the candidates were.
RowsInOrder(stmt, place) == {pair \in present \X present :
  LET n == pair[1]  m == pair[2]
  IN  Ahead(n, m, stmt) \/ (~Ahead(m, n, stmt) /\ place[n] < place[m])}

\* execute_query: FROM, WHERE, ORDER, LIMIT
Chosen(stmt) == {n \in present : Matches(n, stmt.where)}
Execute(stmt, place) == FirstOf(stmt.limit, Chosen(stmt), RowsInOrder(stmt, place))

\* _compute_agg: COUNT(field) counts what is not None, whatever the limit
CountOf(chosen) == Cardinality({n \in chosen : status[n] # 0})

\* The candidates' places, in any order
Orderings == {place \in [present -> 1..Cardinality(present)] :
             \A n, m \in present : n # m => place[n] # place[m]}

\* query(): the statements the parser can build, over one node type
RunQuery(stmt, place) ==
  /\ query = NoQuery
  /\ stmt.where.op = "steps" <=> (search.state = "done" /\ search.kind = "neighbors"
                                  /\ search.depth = stmt.where.value)
  /\ stmt.where.op # "steps" => search = NoSearch /\ edges = {}
  /\ query' = [state |-> "done", stmt |-> stmt, rows |-> Execute(stmt, place),
               count |-> CountOf(Chosen(stmt))]
  /\ UNCHANGED <<edges, present, status, search>>

Wheres == {[op |-> o, value |-> v] : o \in {"=", "!=", ">"}, v \in Statuses \cup {0}}
            \cup {[op |-> "all", value |-> 0]}
Selects == {{Column("id", "none"), Column("status", "none")},
            {Column("id", "none"), Column("content.status", "none")},
            {Column("id", "none"), Column("status", "s")}}
Statements == [where : Wheres, select : Selects, order : {"status", "content.status", "s"},
               desc : BOOLEAN, limit : RowLimits]
StepsStatement(d) == [where |-> [op |-> "steps", value |-> d],
                      select |-> {Column("id", "none")},
                      order |-> "status", desc |-> FALSE, limit |-> Cardinality(QueryNodes)]

QueryNext ==
  \/ \E n, m \in QueryNodes : AddEdge(n, m) \/ AskPath(n, m)
  \/ \E n \in QueryNodes :
       \/ Lose(n) \/ \E v \in Statuses : SetStatus(n, v)
       \/ \E d \in 1..3 : AskAround(n, d)
  \/ Expand \/ ExpandPath \/ Exhausted
  \/ \E place \in Orderings :
       \/ \E d \in 1..3 : RunQuery(StepsStatement(d), place)
       \/ Building /\ edges = {} /\ \E stmt \in Statements : RunQuery(stmt, place)

QuerySpec == QueryInit /\ [][QueryNext]_queryVars

-------------------------------------------------------------------------------
\* The nodes within k links of n, defined without a queue
Within(n, k) ==
  LET ball[i \in 0..k] == IF i = 0 THEN {n}
                          ELSE ball[i - 1] \cup {m \in QueryNodes :
                                 \E x \in ball[i - 1] : {<<x, m>>, <<m, x>>} \cap edges # {}}
  IN ball[k]
Distance(n, m) ==
  LET near == {k \in 0..Cardinality(QueryNodes) : m \in Within(n, k)}
  IN IF near = {} THEN -1 ELSE CHOOSE k \in near : \A j \in near : k <= j

(* neighbors returns exactly the nodes within the depth asked for, each at    *)
(* its distance, whatever cycles and lost nodes the graph has.                *)
NeighborsExact ==
  search.state = "done" /\ search.kind = "neighbors" =>
    search.found = {<<m, Distance(search.source, m)>> :
      m \in {x \in present \ {search.source} : x \in Within(search.source, search.depth)}}

(* path finds a path exactly if there is one, and a shortest one, unless it   *)
(* gave up.                                                                   *)
PathShortest ==
  search.state = "done" /\ search.kind = "path" /\ Cardinality(search.visited) <= MaxVisited =>
    LET d == Distance(search.source, search.target) IN
      search.found = IF d = -1 THEN {} ELSE {<<search.target, d>>}

\* What the LIMIT left out of the rows does not come before what it kept.
TopRows(stmt, matching) ==
  \A n \in query.rows, m \in matching \ query.rows :
    IF stmt.desc THEN ~Lower(n, m) ELSE ~Lower(m, n)

(* What a query with LIMIT leaves out does not come before what it returns,   *)
(* where ORDER BY names the key of a column, and it returns as much as it may.*)
LimitKeepsTop ==
  query.state = "done" =>
    LET stmt == query.stmt
        matching == {n \in present : Matches(n, stmt.where)}
    IN /\ query.rows \subseteq matching
       /\ Cardinality(query.rows) = IF Cardinality(matching) < stmt.limit
                                    THEN Cardinality(matching) ELSE stmt.limit
       /\ SortsRows(stmt) => TopRows(stmt, matching)

(* docs/DATAVIEW.md:34 has ORDER BY name a field.  Ordered by a field that is *)
(* selected, under the name it is selected by, the rows kept are the top.     *)
FieldsOrderRows ==
  query.state = "done" /\ query.stmt.order \in {c.field : c \in query.stmt.select} =>
    TopRows(query.stmt, {n \in present : Matches(n, query.stmt.where)})

(* Every walk and every query answers as its definition by sets does.         *)
AnswersExact == NeighborsExact /\ PathShortest /\ LimitKeepsTop
==============================================================================
