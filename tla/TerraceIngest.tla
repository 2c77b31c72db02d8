--------------------------- MODULE TerraceIngest ---------------------------
(***************************************************************************)
(* The Terrace drivers comparison_systems/terrace/code/src/                *)
(* ingestion_test.cc and continuous_query_test.cc.  Unlike the Aspen       *)
(* drivers they buffer insertions only: a deletion goes to the graph at    *)
(* once.  A full batch is sorted and copied from edges to ins_srcs and     *)
(* ins_dests, which are what the graph is given.                           *)
(*                                                                         *)
(* An edge is a model value; ZeroEdge is the (0, 0) of zeroed memory.  The *)
(* order within a batch does not matter to the graph, a set of edges.      *)
(***************************************************************************)
EXTENDS Naturals

CONSTANTS
    Edge,               \* the edges of the stream
    ZeroEdge,           \* what calloc and std::vector put into the arrays
    NumEdges,           \* the header's num_edges
    update_batch_size,
    status_interval     \* updates between two looks at the clock (100000)

ASSUME ZeroAssumption == ZeroEdge \notin Edge
ASSUME NumEdgesAssumption == NumEdges \in Nat
ASSUME BatchAssumption == update_batch_size \in Nat \ {0}
ASSUME StatusAssumption == status_interval \in Nat \ {0}

VARIABLES
    pc,
    i,                      \* the loop counter
    num_updates,
    update,                 \* the last update that get_edge handed out
    fileOver,               \* get_edge returns false from now on
    edges,                  \* the insertions of the current batch
    insert_buffer_count,
    ins,                    \* ins_srcs and ins_dests: the last full batch
    status_idx,
    graph,                  \* edges of the graph
    truth,                  \* edges after the updates received
    overtaken               \* edges deleted while their insertion was pending

graphVars == <<graph, truth, overtaken>>
vars == <<pc, i, num_updates, update, fileOver, edges, insert_buffer_count, ins,
          status_idx, graph, truth, overtaken>>

Slot == 1 .. update_batch_size
Update == [edge : Edge, is_delete : BOOLEAN]
NoUpdate == [edge |-> ZeroEdge, is_delete |-> FALSE]

\* The first n edges of an array.
Prefix(array, n) == {array[k] : k \in 1 .. n}
Pending == Prefix(edges, insert_buffer_count)

Init ==
    /\ pc = "loop"
    /\ i = 0
    /\ num_updates = NumEdges
    /\ update = NoUpdate
    /\ fileOver = FALSE
    /\ edges = [k \in Slot |-> ZeroEdge]
    /\ insert_buffer_count = 0
    /\ ins = [k \in Slot |-> ZeroEdge]
    /\ status_idx = 0
    /\ graph = {}
    /\ truth = {}
    /\ overtaken = {}

\* Every status_interval updates the clock is looked at ...
StatusCheck ==
    /\ pc = "loop"
    /\ i < num_updates
    /\ status_idx' = IF status_idx + 1 >= status_interval THEN 0 ELSE status_idx + 1
    /\ pc' = "update"
    /\ UNCHANGED <<i, num_updates, update, fileOver, edges, insert_buffer_count, ins,
                   graphVars>>

\* ... and when the timeout has passed, the loop is left.
Timeout ==
    /\ pc = "loop"
    /\ i < num_updates
    /\ status_idx + 1 >= status_interval
    /\ num_updates' = i
    /\ pc' = "flush"
    /\ UNCHANGED <<i, update, fileOver, edges, insert_buffer_count, ins, status_idx,
                   graphVars>>

\* Mutant of Insert: the batch is given to the graph before it is copied.
InsertCopiesLate(e) ==
    LET stored == [edges EXCEPT ![insert_buffer_count + 1] = e]
        full   == insert_buffer_count = update_batch_size - 1
    IN  /\ edges' = stored
        /\ ins' = IF full THEN stored ELSE ins
        /\ graph' = IF full THEN graph \cup Prefix(ins, update_batch_size) ELSE graph
        /\ insert_buffer_count' = IF full THEN 0 ELSE insert_buffer_count + 1
        /\ UNCHANGED overtaken

\* An insertion is stored; a full batch is copied and given to the graph.
Insert(e) ==
    LET stored == [edges EXCEPT ![insert_buffer_count + 1] = e]
        full   == insert_buffer_count = update_batch_size - 1
    IN  /\ edges' = stored
        /\ ins' = IF full THEN stored ELSE ins
        /\ graph' = IF full THEN graph \cup Prefix(ins', update_batch_size) ELSE graph
        /\ insert_buffer_count' = IF full THEN 0 ELSE insert_buffer_count + 1
        /\ UNCHANGED overtaken

\* A deletion is made at once, whether or not the insertion has been.
Delete(e) ==
    /\ graph' = graph \ {e}
    /\ overtaken' = IF e \in Pending THEN overtaken \cup {e} ELSE overtaken
    /\ UNCHANGED <<edges, insert_buffer_count, ins>>

\* An update is made, whether or not get_edge really handed it out.
Make(u) ==
    /\ truth' = IF u.is_delete THEN truth \ {u.edge} ELSE truth \cup {u.edge}
    /\ IF u.is_delete THEN Delete(u.edge) ELSE Insert(u.edge)
    /\ i' = i + 1
    /\ pc' = "loop"

\* The streams only insert an edge that is absent and delete one that is there.
GetEdge ==
    /\ pc = "update"
    /\ ~fileOver
    /\ \E u \in Update :
          /\ u.is_delete <=> u.edge \in truth
          /\ update' = u
          /\ Make(u)
    /\ UNCHANGED <<num_updates, fileOver, status_idx>>

\* get_edge returns false, which the driver does not look at: the last update
\* is made once more.
GetEdgeFalse ==
    /\ pc = "update"
    /\ fileOver' = TRUE
    /\ Make(update)
    /\ UNCHANGED <<num_updates, update, status_idx>>

LoopEnds ==
    /\ pc = "loop"
    /\ i = num_updates
    /\ pc' = "flush"
    /\ UNCHANGED <<i, num_updates, update, fileOver, edges, insert_buffer_count, ins,
                   status_idx, graphVars>>

\* The remainder is counted by insert_buffer_count, but the arrays given to the
\* graph are those of the last full batch.
Flush ==
    /\ pc = "flush"
    /\ graph' = graph \cup Prefix(ins, insert_buffer_count)
    /\ pc' = "done"
    /\ UNCHANGED <<i, num_updates, update, fileOver, edges, insert_buffer_count, ins,
                   status_idx, truth, overtaken>>

Done == pc = "done" /\ UNCHANGED vars

Next == StatusCheck \/ Timeout \/ GetEdge \/ GetEdgeFalse \/ LoopEnds \/ Flush \/ Done

Spec == Init /\ [][Next]_vars

-----------------------------------------------------------------------------
(* Properties.                                                             *)

TypeOK ==
    /\ pc \in {"loop", "update", "flush", "done"}
    /\ i \in 0 .. NumEdges
    /\ num_updates \in 0 .. NumEdges
    /\ update \in Update \cup {NoUpdate}
    /\ fileOver \in BOOLEAN
    /\ edges \in [Slot -> Edge \cup {ZeroEdge}]
    /\ insert_buffer_count \in 0 .. update_batch_size - 1
    /\ ins \in [Slot -> Edge \cup {ZeroEdge}]
    /\ status_idx \in 0 .. status_interval - 1
    /\ graph \subseteq Edge \cup {ZeroEdge}
    /\ truth \subseteq Edge \cup {ZeroEdge}
    /\ overtaken \subseteq Edge

\* While the stream runs, an edge that is not pending is in the graph exactly if
\* the stream left it there; only an edge whose deletion overtook its insertion
\* may differ, and it differs by being there.
GraphFollowsStream ==
    pc # "done" =>
      /\ \A e \in Edge \ Pending : e \notin overtaken => (e \in graph <=> e \in truth)
      /\ \A e \in truth \ Pending : e \in graph

\* The comment at the end of the loop: "Flush remainder of buffer contents".  Every
\* edge that was waiting for its batch to fill, and that no deletion overtook, is
\* then in the graph.
RemainderFlushed == pc = "done" => Pending \ overtaken \subseteq graph
=============================================================================
