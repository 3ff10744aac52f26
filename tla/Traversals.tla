----------------------------- MODULE Traversals -----------------------------
(***************************************************************************)
(* The graph traversals of the test programs: breadth first over a matrix  *)
(* (bfs.c), breadth first over adjacency lists and depth first over a      *)
(* matrix (graph.c).  Each keeps the vertices it has yet to look at in an  *)
(* array of fixed size, whose bounds nothing checks but graph.c's enqueue, *)
(* which drops what does not fit.  The array has a cell per vertex here;   *)
(* that of graph.c's queue has more.                                       *)
(***************************************************************************)
EXTENDS Integers, Sequences, FiniteSets

CONSTANTS
  MAX,        \* vertices, and cells of the array
  MaxEdges    \* bound: edges added

TraversalAssumption == MAX \in Nat \ {0} /\ MaxEdges \in Nat

VARIABLES
  search,       \* "bfs", "graph_bfs" or "dfs"
  pc,         \* "build" the graph, "outer" loop, "inner" loop, "done"
  adjMatrix,  \* pairs with a 1
  adjLists,   \* vertex -> list of its neighbours
  added,      \* edges added so far
  visited,
  items,      \* queue, items or stack
  front, rear, \* of a queue; rear is the stack's top
  current,    \* vertex being looked at
  temp        \* rest of its list

traversal_vars == <<search, pc, adjMatrix, adjLists, added, visited, items, front, rear, current, temp>>
graph == <<adjMatrix, adjLists, added>>

V == 0..(MAX - 1)
NONE == -1

-----------------------------------------------------------------------------
(* The arrays. *)

insert(v) ==
  /\ rear' = rear + 1
  /\ items' = [items EXCEPT ![rear + 1] = v]

\* graph.c: a queue that becomes empty starts again at its first cell.
dequeue ==
  /\ current' = items[front]
  /\ IF front + 1 > rear THEN front' = NONE /\ rear' = NONE
                         ELSE front' = front + 1 /\ UNCHANGED rear

enqueue(v) ==
  IF rear = MAX - 1 THEN UNCHANGED <<items, front, rear>>
  ELSE insert(v) /\ front' = IF front = NONE THEN 0 ELSE front

\* bfs.c: the cells are used once.
removeData == current' = items[front] /\ front' = front + 1 /\ UNCHANGED rear

isQueueEmpty == front = rear + 1

Unvisited(v) == {i \in V : <<v, i>> \in adjMatrix /\ i \notin visited}

\* Mutant: any neighbour.
getAdjUnvisitedVertex_Any(v) ==
  LET free == {i \in V : <<v, i>> \in adjMatrix}
  IN  IF free = {} THEN NONE ELSE CHOOSE i \in free : \A j \in free : i <= j

getAdjUnvisitedVertex(v) ==
  IF Unvisited(v) = {} THEN NONE ELSE CHOOSE i \in Unvisited(v) : \A j \in Unvisited(v) : i <= j

-----------------------------------------------------------------------------
TraversalInit ==
  /\ search \in {"bfs", "graph_bfs", "dfs"}
  /\ pc = "build"
  /\ adjMatrix = {} /\ adjLists = [v \in V |-> <<>>] /\ added = 0
  /\ visited = {}
  /\ items = [i \in V |-> NONE]
  /\ front = (IF search = "bfs" THEN 0 ELSE NONE) /\ rear = NONE
  /\ current = NONE /\ temp = <<>>

\* addEdge puts the new nodes in front of both lists; an edge from a vertex to
\* itself comes twice.
addEdge ==
  /\ pc = "build" /\ added < MaxEdges
  /\ \E src, dest \in V :
       IF search = "graph_bfs"
       THEN LET one == [adjLists EXCEPT ![src] = <<dest>> \o @]
            IN  adjLists' = [one EXCEPT ![dest] = <<src>> \o @] /\ UNCHANGED adjMatrix
       ELSE adjMatrix' = adjMatrix \cup {<<src, dest>>, <<dest, src>>} /\ UNCHANGED adjLists
  /\ added' = added + 1
  /\ UNCHANGED <<search, pc, visited, items, front, rear, current, temp>>

\* The traversal starts at vertex 0.
Start ==
  /\ pc = "build"
  /\ pc' = "outer"
  /\ visited' = {0}
  /\ IF search = "graph_bfs" THEN enqueue(0) ELSE insert(0) /\ UNCHANGED front
  /\ UNCHANGED <<search, graph, current, temp>>

\* bfs.c: breadthFirstSearch, its two loops.
breadthFirstSearch ==
  /\ search = "bfs"
  /\ \/ /\ pc = "outer" /\ ~isQueueEmpty
        /\ removeData
        /\ pc' = "inner"
        /\ UNCHANGED <<visited, items>>
     \/ /\ pc = "inner"
        /\ LET v == getAdjUnvisitedVertex(current)
           IN  IF v = NONE
               THEN pc' = "outer" /\ UNCHANGED <<visited, items, rear>>
               ELSE visited' = visited \cup {v} /\ insert(v) /\ UNCHANGED pc
        /\ UNCHANGED <<front, current>>
  /\ UNCHANGED <<search, graph, temp>>

\* graph.c: bfs, its two loops.
bfs ==
  /\ search = "graph_bfs"
  /\ \/ /\ pc = "outer" /\ rear # NONE
        /\ dequeue
        /\ temp' = adjLists[current']
        /\ pc' = "inner"
        /\ UNCHANGED <<visited, items>>
     \/ /\ pc = "inner"
        /\ IF temp = <<>>
           THEN pc' = "outer" /\ UNCHANGED <<visited, items, front, rear, temp>>
           ELSE /\ visited' = visited \cup {Head(temp)}
                /\ IF Head(temp) \in visited THEN UNCHANGED <<items, front, rear>> ELSE enqueue(Head(temp))
                /\ temp' = Tail(temp)
                /\ UNCHANGED pc
        /\ UNCHANGED current
  /\ UNCHANGED <<search, graph>>

\* graph.c: depthFirstSearch.
depthFirstSearch ==
  /\ search = "dfs"
  /\ pc = "outer" /\ rear # NONE
  /\ LET v == getAdjUnvisitedVertex(items[rear])
     IN  IF v = NONE
         THEN rear' = rear - 1 /\ UNCHANGED <<visited, items>>
         ELSE visited' = visited \cup {v} /\ insert(v)
  /\ UNCHANGED <<search, pc, graph, front, current, temp>>

\* Nothing is left; the searches over a matrix take their marks back.
Finish ==
  /\ pc = "outer"
  /\ IF search = "bfs" THEN isQueueEmpty ELSE rear = NONE
  /\ pc' = "done"
  /\ visited' = IF search = "graph_bfs" THEN visited ELSE {}
  /\ UNCHANGED <<search, graph, items, front, rear, current, temp>>

TraversalNext == addEdge \/ Start \/ breadthFirstSearch \/ bfs \/ depthFirstSearch \/ Finish
TraversalSpec == TraversalInit /\ [][TraversalNext]_traversal_vars

-----------------------------------------------------------------------------
(* Properties. *)

Adjacent(u, v) == <<u, v>> \in adjMatrix \/ \E i \in DOMAIN adjLists[u] : adjLists[u][i] = v

\* Vertices at most n edges from vertex 0.
Ball[n \in 0..MAX] ==
  IF n = 0 THEN {0} ELSE Ball[n - 1] \cup {v \in V : \E u \in Ball[n - 1] : Adjacent(u, v)}
Distance(v) == CHOOSE n \in 0..MAX : v \in Ball[n] /\ \A m \in 0..(n - 1) : v \notin Ball[m]

\* The cells in use.
Pending ==
  IF rear = NONE THEN {} ELSE (IF search = "dfs" THEN 0 ELSE front)..rear

\* Every traversal ends with all vertices marked that vertex 0 leads to, and no
\* other.  Along the way each vertex enters the array once, so one cell per
\* vertex is enough and enqueue never drops one; a queue holds the vertices
\* by their distance, and the stack is a path from vertex 0.
TraversalsReach ==
  /\ pc = "outer" /\ Pending = {} => visited = Ball[MAX]
  /\ rear \in NONE..(MAX - 1)
  /\ \A i, j \in Pending : i # j => items[i] # items[j]
  /\ \A i \in Pending : i + 1 \in Pending =>
       IF search = "dfs" THEN Adjacent(items[i], items[i + 1])
                       ELSE Distance(items[i + 1]) - Distance(items[i]) \in 0..1
  /\ pc = "outer" => \A u \in visited, v \in V :
       Adjacent(u, v) => v \in visited \/ \E i \in Pending : items[i] = u
=============================================================================
