------------------------ MODULE TerraceIngest_proofs ------------------------
(***************************************************************************)
(* What the Terrace drivers have in the graph while the stream runs, for   *)
(* every set of edges, stream length and batch size.  GraphFollowsStream is*)
(* not inductive: when a batch is full its edges enter the graph, so one   *)
(* must know that a pending edge whose deletion did not overtake it is in  *)
(* the stream's graph (PendingDue).                                        *)
(***************************************************************************)
EXTENDS TerraceIngest, TLAPS

\* An update is only made while the counter is below the limit.
Counter == pc = "update" => i < num_updates

\* A pending insertion is due unless its deletion overtook it.
PendingDue == \A e \in Pending : e \notin overtaken => e \in truth

Inv ==
    /\ TypeOK
    /\ Counter
    /\ PendingDue
    /\ GraphFollowsStream

USE ZeroAssumption, NumEdgesAssumption, BatchAssumption, StatusAssumption

\* Storing an edge behind the first n adds it to them, and to nothing else.
LEMMA PrefixStore ==
    ASSUME NEW array, NEW stored, NEW n \in Nat, NEW e, stored[n + 1] = e,
           \A k \in 1 .. n : stored[k] = array[k]
    PROVE  Prefix(stored, n + 1) = Prefix(array, n) \cup {e}
  <1>1. 1 .. n + 1 = (1 .. n) \cup {n + 1}
    OBVIOUS
  <1> QED BY <1>1 DEF Prefix

\* The initial states satisfy the inductive invariant.
LEMMA InitInv == Init => Inv
  <1> SUFFICES ASSUME Init PROVE Inv
    OBVIOUS
  <1>1. Pending = {}
    BY DEF Init, Pending, Prefix
  <1>2. fileOver \in BOOLEAN
    BY Zenon DEF Init
  <1>3. TypeOK
    BY <1>2 DEF Init, TypeOK
  <1> QED
    BY <1>1, <1>3 DEF Init, Inv, Counter, PendingDue, GraphFollowsStream

\* Making an update, a real one or a repeated one, keeps the graph in step with
\* the stream.
LEMMA MakeInv ==
    ASSUME Inv, pc = "update", NEW u \in Update \cup {NoUpdate}, Make(u)
    PROVE  /\ i' \in Nat /\ i' = i + 1 /\ pc' = "loop"
           /\ edges' \in [Slot -> Edge \cup {ZeroEdge}]
           /\ ins' \in [Slot -> Edge \cup {ZeroEdge}]
           /\ insert_buffer_count' \in 0 .. update_batch_size - 1
           /\ graph' \subseteq Edge \cup {ZeroEdge}
           /\ truth' \subseteq Edge \cup {ZeroEdge}
           /\ overtaken' \subseteq Edge
           /\ PendingDue' /\ GraphFollowsStream'
  <1> DEFINE e == u.edge
             All == Edge \cup {ZeroEdge}
  <1>1. e \in All /\ (u.is_delete => e \in Edge)
    BY DEF Update, NoUpdate
  <1>2. /\ edges \in [Slot -> All] /\ ins \in [Slot -> All]
        /\ insert_buffer_count \in 0 .. update_batch_size - 1
        /\ graph \subseteq All /\ truth \subseteq All /\ overtaken \subseteq Edge
        /\ i \in Nat
    BY DEF Inv, TypeOK
  <1>3. i' = i + 1 /\ pc' = "loop"
    BY DEF Make
  <1>4. /\ \A d \in Edge \ Pending : d \notin overtaken => (d \in graph <=> d \in truth)
        /\ \A d \in truth \ Pending : d \in graph
        /\ \A d \in Pending : d \notin overtaken => d \in truth
    BY DEF Inv, GraphFollowsStream, PendingDue
  <1> HIDE DEF e, All
  <1>5. CASE u.is_delete
    <2>1. /\ truth' = truth \ {e} /\ graph' = graph \ {e}
          /\ overtaken' = (IF e \in Pending THEN overtaken \cup {e} ELSE overtaken)
          /\ edges' = edges /\ insert_buffer_count' = insert_buffer_count /\ ins' = ins
      BY <1>5 DEF Make, Delete, e
    <2>2. Pending' = Pending
      BY <2>1 DEF Pending, Prefix
    <2>3. PendingDue' /\ GraphFollowsStream'
      BY <1>3, <1>4, <2>1, <2>2 DEF PendingDue, GraphFollowsStream
    <2> QED BY <1>1, <1>2, <1>3, <1>5, <2>1, <2>3 DEF All
  <1>6. CASE ~u.is_delete
    <2> DEFINE stored == [edges EXCEPT ![insert_buffer_count + 1] = e]
    <2>b. /\ edges \in [Slot -> Edge \cup {ZeroEdge}] /\ e \in Edge \cup {ZeroEdge}
          /\ insert_buffer_count \in 0 .. update_batch_size - 1
      BY <1>1, <1>2 DEF All
    <2>c. insert_buffer_count \in Nat /\ insert_buffer_count + 1 \in Slot
      BY <2>b DEF Slot
    <2>d. stored \in [Slot -> Edge \cup {ZeroEdge}] /\ stored[insert_buffer_count + 1] = e
      BY <2>b, <2>c
    <2>e. \A k \in 1 .. insert_buffer_count : stored[k] = edges[k]
      BY <2>b, <2>c DEF Slot
    <2> HIDE DEF stored
    <2>1. /\ stored \in [Slot -> All]
          /\ Prefix(stored, insert_buffer_count + 1) = Pending \cup {e}
      BY <2>c, <2>d, <2>e, PrefixStore DEF Pending, All
    <2>2. truth' = truth \cup {e} /\ edges' = stored /\ overtaken' = overtaken
      BY <1>6 DEF Make, Insert, e, stored
    <2>3. CASE insert_buffer_count = update_batch_size - 1
      <3>1. /\ ins' = stored /\ insert_buffer_count' = 0
            /\ graph' = graph \cup Prefix(ins', update_batch_size)
        BY <1>6, <2>3 DEF Make, Insert, e, stored
      <3>a. insert_buffer_count + 1 = update_batch_size
        BY <2>3
      <3>2. graph' = graph \cup Pending \cup {e}
        BY <2>1, <3>a, <3>1
      <3>3. Pending' = {}
        BY <3>1 DEF Pending, Prefix
      <3>4. Pending \subseteq All
        BY <1>2 DEF Pending, Prefix, Slot
      <3>5. PendingDue' /\ GraphFollowsStream'
        BY <1>4, <2>2, <3>2, <3>3 DEF PendingDue, GraphFollowsStream
      <3> QED BY <1>1, <1>2, <1>3, <2>1, <2>2, <3>1, <3>2, <3>4, <3>5 DEF All
    <2>4. CASE insert_buffer_count # update_batch_size - 1
      <3>1. /\ ins' = ins /\ insert_buffer_count' = insert_buffer_count + 1
            /\ graph' = graph
        BY <1>6, <2>4 DEF Make, Insert, e
      <3>2. Pending' = Pending \cup {e}
        BY <2>1, <2>2, <3>1 DEF Pending, Prefix
      <3>3. PendingDue' /\ GraphFollowsStream'
        BY <1>4, <2>2, <3>1, <3>2 DEF PendingDue, GraphFollowsStream
      <3> QED BY <1>1, <1>2, <1>3, <2>1, <2>2, <2>4, <3>1, <3>3 DEF All
    <2> QED BY <2>3, <2>4
  <1> QED BY <1>5, <1>6

\* Every step of the driver preserves the inductive invariant.
LEMMA NextInv == Inv /\ [Next]_vars => Inv'
  <1> SUFFICES ASSUME Inv, [Next]_vars PROVE Inv'
    OBVIOUS
  <1> USE DEF graphVars
  <1>1. CASE StatusCheck
    BY <1>1 DEF Inv, TypeOK, Counter, PendingDue,
       GraphFollowsStream, Pending, Prefix, StatusCheck
  <1>2. CASE Timeout
    BY <1>2 DEF Inv, TypeOK, Counter, PendingDue,
       GraphFollowsStream, Pending, Prefix, Timeout
  <1>3. CASE GetEdge
    <2>1. PICK u \in Update : update' = u /\ Make(u)
      BY <1>3 DEF GetEdge
    <2>2. pc = "update" /\ UNCHANGED <<num_updates, fileOver, status_idx>>
      BY <1>3 DEF GetEdge
    <2> QED
      BY <2>1, <2>2, MakeInv DEF Inv, TypeOK, Counter
  <1>4. CASE GetEdgeFalse
    <2>1. Make(update) /\ update \in Update \cup {NoUpdate} /\ pc = "update"
      BY <1>4 DEF GetEdgeFalse, Inv, TypeOK
    <2>2. UNCHANGED <<num_updates, update, status_idx>>
      BY <1>4 DEF GetEdgeFalse
    <2>3. fileOver' \in BOOLEAN
      BY <1>4, Zenon DEF GetEdgeFalse
    <2> QED
      BY <2>1, <2>2, <2>3, MakeInv DEF Inv, TypeOK, Counter
  <1>5. CASE LoopEnds
    BY <1>5 DEF Inv, TypeOK, Counter, PendingDue,
       GraphFollowsStream, Pending, Prefix, LoopEnds
  <1>6. CASE Flush
    <2>1. Pending' = Pending
      BY <1>6 DEF Flush, Pending, Prefix
    <2>2. Prefix(ins, insert_buffer_count) \subseteq Edge \cup {ZeroEdge}
      BY DEF Inv, TypeOK, Prefix, Slot
    <2>3. TypeOK' /\ Counter'
      BY <1>6, <2>2 DEF Inv, TypeOK, Counter, Flush
    <2> QED
      BY <1>6, <2>1, <2>3
         DEF Inv, PendingDue, GraphFollowsStream, Flush
  <1>7. CASE UNCHANGED vars
    BY <1>7 DEF Inv, TypeOK, Counter, PendingDue,
       GraphFollowsStream, Pending, Prefix, vars
  <1> QED BY <1>1, <1>2, <1>3, <1>4, <1>5, <1>6, <1>7 DEF Next, Done

\* The inductive invariant holds in every reachable state.
THEOREM InvCorrect == Spec => []Inv
  BY InitInv, NextInv, PTL DEF Spec

\* While the stream runs, batching delays an insertion and loses none; only an
\* edge that was deleted while its insertion waited in the batch may differ from
\* what the stream says.
THEOREM StreamCorrect == Spec => []GraphFollowsStream
  <1>1. Inv => GraphFollowsStream
    BY DEF Inv
  <1> QED BY <1>1, InvCorrect, PTL
=============================================================================
