---------------------------- MODULE AspenIngest ----------------------------
(***************************************************************************)
(* The Aspen drivers comparison_systems/aspen/code/tools/ingestion_test.cpp*)
(* and continuous_query_test.cpp: a stream of insertions and deletions is  *)
(* collected in two buffers of 2 * update_batch_size directed edges, each  *)
(* given to the graph as a batch when it is full, and both at the end.     *)
(* continuous_query_test computes connected components along the way, where*)
(* ingestion_test, with Queries = 100, only records its progress.          *)
(*                                                                         *)
(* A directed edge (u, v) is the number u * Nodes + v, which orders the    *)
(* edges as std::sort does and makes a value-initialised entry, (0, 0),    *)
(* the number 0.  The graph is the set of its directed edges, and the      *)
(* vertices of its tree, which no deletion takes out again.                *)
(*                                                                         *)
(* get_edge is used as EdgeSource promises it: it hands out the next       *)
(* record, or returns false and leaves the driver's variable as it was.    *)
(***************************************************************************)
EXTENDS DriverLoop, FiniteSets

CONSTANTS
    Nodes,              \* number of vertices
    update_batch_size

ASSUME NodesAssumption == Nodes \in Nat \ {0, 1}
ASSUME BatchAssumption == update_batch_size \in Nat \ {0}

VARIABLES
    update,                     \* the last update that get_edge handed out
    fileOver,                   \* get_edge returns false from now on
    insert_buffer, insert_buffer_count,
    delete_buffer, delete_buffer_count,
    graph,                      \* directed edges of the versioned graph
    vertices,                   \* vertices in the tree of the current version
    truth,                      \* undirected edges after the updates received
    clash                       \* edges that were ever pending in both buffers

graphVars  == <<graph, vertices, truth, clash>>
bufferVars == <<insert_buffer, insert_buffer_count, delete_buffer, delete_buffer_count>>
vars == <<pc, i, num_updates, update, fileOver, insert_buffer, insert_buffer_count,
          delete_buffer, delete_buffer_count, status_idx, log_count, rows, lastRow,
          graph, vertices, truth, clash>>

-----------------------------------------------------------------------------
\* An undirected edge is the set of its two directed ones.
Directed(u, v) == u * Nodes + v
Edge ==
    UNION {{{Directed(u, v), Directed(v, u)} : v \in u + 1 .. Nodes - 1} : u \in 0 .. Nodes - 1}

Update == [edge : Edge, is_delete : BOOLEAN]

\* std::tuple's value-initialised update: an insertion of (0, 0).
NoUpdate == [edge |-> {0}, is_delete |-> FALSE]

Capacity == 2 * update_batch_size

\* The first n entries of a buffer.
Prefix(buffer, n) == {buffer[k] : k \in 1 .. n}

PendingInserts == Prefix(insert_buffer, insert_buffer_count)
PendingDeletes == Prefix(delete_buffer, delete_buffer_count)

\* std::sort of the first n entries: where entry j comes, equal ones in the order
\* they had, and the order this gives.
Before(buffer, n, j) ==
    {k \in 1 .. n : buffer[k] < buffer[j] \/ (buffer[k] = buffer[j] /\ k < j)}
Place(buffer, n, j) == Cardinality(Before(buffer, n, j)) + 1
SortPrefix(buffer, n) ==
    [p \in 1 .. n |-> CHOOSE j \in 1 .. n : Place(buffer, n, j) = p]
SortedPrefix(buffer, n) ==
    LET order == SortPrefix(buffer, n)
    IN  [k \in 1 .. Capacity |-> IF k <= n THEN buffer[order[k]] ELSE buffer[k]]

\* Both directions of an edge, stored at count and count + 1.
Store(buffer, count, e) ==
    LET lo == CHOOSE d \in e : \A c \in e : d <= c
        hi == CHOOSE d \in e : \A c \in e : d >= c
    IN  [buffer EXCEPT ![count + 1] = lo, ![count + 2] = hi]

\* The vertices a batch of directed edges has edge lists for.
Vertex(d) == d \div Nodes
Sources(batch) == {Vertex(d) : d \in batch}

\* delete_edges_batch merges the batch's edge lists into the tree: the list of a
\* vertex of the tree loses the batch's, but the list of a vertex that is not in
\* the tree is added to it as it stands.
Removed(g, known, batch) == (g \ batch) \cup {d \in batch : Vertex(d) \notin known}

Init ==
    /\ pc = "loop"
    /\ i = 0
    /\ num_updates = NumEdges
    /\ update = NoUpdate
    /\ fileOver = FALSE
    /\ insert_buffer = [k \in 1 .. Capacity |-> 0]
    /\ insert_buffer_count = 0
    /\ delete_buffer = [k \in 1 .. Capacity |-> 0]
    /\ delete_buffer_count = 0
    /\ status_idx = 0
    /\ log_count = 0
    /\ rows = 0
    /\ lastRow = FALSE
    /\ graph = {}
    /\ vertices = {}
    /\ truth = {}
    /\ clash = {}

-----------------------------------------------------------------------------
(* The head of the loop.                                                   *)

\* The clock is looked at, and the timeout has not passed.
StatusCheck ==
    /\ pc = "loop"
    /\ i < num_updates
    /\ status_idx' = IF status_idx + 1 >= status_interval THEN 0 ELSE status_idx + 1
    /\ pc' = "query"
    /\ UNCHANGED <<i, num_updates, update, fileOver, bufferVars, log_count, rows,
                   lastRow, graphVars>>

\* Mutant of Timeout: the rate is computed from the whole stream.
TimeoutKeepsTotal ==
    /\ pc = "loop"
    /\ i < num_updates
    /\ status_idx + 1 >= status_interval
    /\ pc' = "flush"
    /\ UNCHANGED <<i, num_updates, update, fileOver, bufferVars, status_idx,
                   log_count, rows, lastRow, graphVars>>

\* The timeout has passed: the loop is left with the updates made so far.
Timeout ==
    /\ pc = "loop"
    /\ i < num_updates
    /\ status_idx + 1 >= status_interval
    /\ num_updates' = i
    /\ pc' = "flush"
    /\ UNCHANGED <<i, update, fileOver, bufferVars, status_idx, log_count, rows,
                   lastRow, graphVars>>

\* Mutant of Query: the updates before the query are counted again.
QueryNoReset ==
    /\ pc = "query"
    /\ log_count >= query_interval
    /\ rows' = rows + 1
    /\ pc' = "update"
    /\ UNCHANGED <<i, num_updates, update, fileOver, bufferVars, status_idx,
                   log_count, lastRow, graphVars>>

\* Connected components of what has reached the graph, and a row for it.
Query ==
    /\ pc = "query"
    /\ log_count >= query_interval
    /\ rows' = rows + 1
    /\ log_count' = 0
    /\ pc' = "update"
    /\ UNCHANGED <<i, num_updates, update, fileOver, bufferVars, status_idx,
                   lastRow, graphVars>>

\* Mutant of NoQuery: the first update after a query is not counted.
NoQueryNoCount ==
    /\ pc = "query"
    /\ log_count < query_interval
    /\ log_count' = IF log_count = 0 /\ rows > 0 THEN 0 ELSE log_count + 1
    /\ pc' = "update"
    /\ UNCHANGED <<i, num_updates, update, fileOver, bufferVars, status_idx, rows,
                   lastRow, graphVars>>

NoQuery ==
    /\ pc = "query"
    /\ log_count < query_interval
    /\ log_count' = log_count + 1
    /\ pc' = "update"
    /\ UNCHANGED <<i, num_updates, update, fileOver, bufferVars, status_idx, rows,
                   lastRow, graphVars>>

-----------------------------------------------------------------------------
(* The body of the loop.                                                   *)

\* Mutant of Insert: the batch is handed over one edge too early, without the
\* last edge.
InsertShortBatch(e) ==
    LET buffer == Store(insert_buffer, insert_buffer_count, e)
        full   == insert_buffer_count + 1 = Capacity - 1
    IN  /\ insert_buffer' = IF full THEN SortedPrefix(buffer, Capacity) ELSE buffer
        /\ insert_buffer_count' = IF full THEN 0 ELSE insert_buffer_count + 2
        /\ graph' = IF full THEN graph \cup Prefix(buffer, Capacity - 1) ELSE graph
        /\ vertices' = IF full THEN vertices \cup Sources(Prefix(buffer, Capacity - 1)) ELSE vertices
        /\ clash' = IF e \cap PendingDeletes # {} THEN clash \cup {e} ELSE clash
        /\ UNCHANGED <<delete_buffer, delete_buffer_count>>

\* An insertion is stored; a full buffer goes to the graph.
Insert(e) ==
    LET buffer == Store(insert_buffer, insert_buffer_count, e)
        full   == insert_buffer_count + 1 = Capacity - 1
    IN  /\ insert_buffer' = IF full THEN SortedPrefix(buffer, Capacity) ELSE buffer
        /\ insert_buffer_count' = IF full THEN 0 ELSE insert_buffer_count + 2
        /\ graph' = IF full THEN graph \cup Prefix(buffer, Capacity) ELSE graph
        /\ vertices' = IF full THEN vertices \cup Sources(Prefix(buffer, Capacity)) ELSE vertices
        /\ clash' = IF e \cap PendingDeletes # {} THEN clash \cup {e} ELSE clash
        /\ UNCHANGED <<delete_buffer, delete_buffer_count>>

\* A deletion likewise.
Delete(e) ==
    LET buffer == Store(delete_buffer, delete_buffer_count, e)
        full   == delete_buffer_count + 1 = Capacity - 1
    IN  /\ delete_buffer' = IF full THEN SortedPrefix(buffer, Capacity) ELSE buffer
        /\ delete_buffer_count' = IF full THEN 0 ELSE delete_buffer_count + 2
        /\ graph' = IF full THEN Removed(graph, vertices, Prefix(buffer, Capacity)) ELSE graph
        /\ vertices' = IF full THEN vertices \cup Sources(Prefix(buffer, Capacity)) ELSE vertices
        /\ clash' = IF e \cap PendingInserts # {} THEN clash \cup {e} ELSE clash
        /\ UNCHANGED <<insert_buffer, insert_buffer_count>>

\* The update is buffered, whether or not get_edge really handed it out.
Buffer(u) ==
    /\ truth' = IF u.is_delete THEN truth \ {u.edge} ELSE truth \cup {u.edge}
    /\ IF u.is_delete THEN Delete(u.edge) ELSE Insert(u.edge)
    /\ i' = i + 1
    /\ pc' = "loop"

\* The streams only insert an edge that is absent and delete one that is there.
GetEdge ==
    /\ pc = "update"
    /\ ~fileOver
    /\ \E u \in Update :
          /\ u.is_delete <=> u.edge \in truth
          /\ update' = u
          /\ Buffer(u)
    /\ UNCHANGED <<num_updates, fileOver, status_idx, log_count, rows, lastRow>>

\* get_edge returns false, which the driver does not look at: it makes the last
\* update once more.
GetEdgeFalse ==
    /\ pc = "update"
    /\ fileOver' = TRUE
    /\ Buffer(update)
    /\ UNCHANGED <<num_updates, update, status_idx, log_count, rows, lastRow>>

-----------------------------------------------------------------------------
(* After the loop.                                                         *)

LoopEnds ==
    /\ pc = "loop"
    /\ i = num_updates
    /\ pc' = "flush"
    /\ UNCHANGED <<i, num_updates, update, fileOver, bufferVars, status_idx,
                   log_count, rows, lastRow, graphVars>>

\* A batch with no edge in it gives a non-empty tree back as it was, with one more
\* reference; release_version finds its root shared and calls exit(0).
EmptyInsert == insert_buffer_count = 0 /\ vertices # {}
EmptyDelete == delete_buffer_count = 0 /\ vertices \cup Sources(PendingInserts) # {}

\* Mutant of Flush: the insertions are left in their buffer.
FlushDeletesOnly ==
    /\ pc = "flush"
    /\ ~EmptyInsert /\ ~EmptyDelete
    /\ insert_buffer' = insert_buffer
    /\ delete_buffer' = SortedPrefix(delete_buffer, insert_buffer_count)
    /\ graph' = Removed(graph, vertices, Prefix(delete_buffer', delete_buffer_count))
    /\ vertices' = vertices \cup Sources(Prefix(delete_buffer', delete_buffer_count))
    /\ pc' = "last"
    /\ UNCHANGED <<i, num_updates, update, fileOver, insert_buffer_count,
                   delete_buffer_count, status_idx, log_count, rows, lastRow, truth,
                   clash>>

\* Both buffers are sorted and flushed, the insertions first.  The deletions are
\* sorted up to insert_buffer_count, not delete_buffer_count: with more insertions
\* than deletions pending, old entries (or zeros) may come to the front.
Flush ==
    LET known == vertices \cup Sources(PendingInserts)
    IN  /\ pc = "flush"
        /\ ~EmptyInsert /\ ~EmptyDelete
        /\ insert_buffer' = SortedPrefix(insert_buffer, insert_buffer_count)
        /\ delete_buffer' = SortedPrefix(delete_buffer, insert_buffer_count)
        /\ graph' = Removed(graph \cup PendingInserts, known,
                            Prefix(delete_buffer', delete_buffer_count))
        /\ vertices' = known \cup Sources(Prefix(delete_buffer', delete_buffer_count))
        /\ pc' = "last"
        /\ UNCHANGED <<i, num_updates, update, fileOver, insert_buffer_count,
                       delete_buffer_count, status_idx, log_count, rows, lastRow,
                       truth, clash>>

\* One of the two batches is empty: the process ends in the flush, before the last
\* query and the statistics, and everything it held goes with it.
FlushExits ==
    /\ pc = "flush"
    /\ EmptyInsert \/ EmptyDelete
    /\ pc' = "exited"
    /\ UNCHANGED <<i, num_updates, update, fileOver, bufferVars, status_idx,
                   log_count, rows, lastRow, graphVars>>

\* The last query, its row or the statistics, and exit().  The row is still in
\* the stream's buffer then, which exit() does not write out for a local variable
\* of main: Experiments says what this leaves in the file.
LastQuery ==
    /\ pc = "last"
    /\ lastRow' = TRUE
    /\ pc' = "done"
    /\ UNCHANGED <<i, num_updates, update, fileOver, bufferVars, status_idx,
                   log_count, rows, graphVars>>

Done == pc \in {"done", "exited"} /\ UNCHANGED vars

Next ==
    \/ StatusCheck \/ Timeout \/ Query \/ NoQuery
    \/ GetEdge \/ GetEdgeFalse
    \/ LoopEnds \/ Flush \/ FlushExits \/ LastQuery \/ Done

Spec == Init /\ [][Next]_vars

-----------------------------------------------------------------------------
(* Properties.                                                             *)

TypeOK ==
    /\ pc \in {"loop", "query", "update", "flush", "last", "done", "exited"}
    /\ i \in 0 .. NumEdges
    /\ num_updates \in 0 .. NumEdges
    /\ update \in Update \cup {NoUpdate}
    /\ fileOver \in BOOLEAN
    /\ insert_buffer \in [1 .. Capacity -> Nat]
    /\ delete_buffer \in [1 .. Capacity -> Nat]
    /\ insert_buffer_count \in 0 .. Capacity - 2
    /\ delete_buffer_count \in 0 .. Capacity - 2
    /\ status_idx \in 0 .. status_interval - 1
    /\ log_count \in Nat
    /\ rows \in Nat
    /\ lastRow \in BOOLEAN
    /\ graph \subseteq Nat
    /\ vertices \subseteq Nat
    /\ truth \subseteq Edge \cup {{0}}
    /\ clash \subseteq Edge \cup {{0}}

Pending(e) == e \subseteq PendingInserts \cup PendingDeletes

\* While the stream runs, an edge that no buffer holds is in the graph exactly
\* if the stream left it there, in both directions: batching delays an update
\* and never loses one.  Only an edge that was pending in both buffers at once
\* may have had its updates reordered.
GraphFollowsStream ==
    pc \in {"loop", "query", "update", "flush"} =>
      \A e \in Edge : ~Pending(e) /\ e \notin clash =>
         IF e \in truth THEN e \subseteq graph ELSE e \cap graph = {}

\* The last sort of the deletions stays within the pending ones.
SafeFlush == insert_buffer_count <= delete_buffer_count

\* A flush that the program survives leaves the graph as the stream did, for every
\* edge that was never pending in both buffers at once, unless the flush sorted
\* past the pending deletions: nothing that a buffer, the tree's treatment of
\* unknown vertices, a timeout or a file that ended early could have lost.
FinalGraph ==
    pc \in {"last", "done"} /\ SafeFlush =>
      \A e \in Edge \ clash : IF e \in truth THEN e \subseteq graph ELSE e \cap graph = {}

\* The comment at the end of the loop: the flush gives the remainder of both
\* buffers to the graph, so that no edge whose deletion was pending is left.
FlushesRemainder ==
    pc \in {"last", "done"} => \A e \in Edge \ clash : e \notin truth => e \cap graph = {}

\* The driver's loop looks at the clock, counts and queries as QueryPacing does,
\* whatever the updates are, and never goes on after the flush has ended it.
Pacing ==
    INSTANCE QueryPacing WITH pc <- IF pc \in {"last", "exited"} THEN "flush" ELSE pc
FollowsPacing == Pacing!Spec
=============================================================================
