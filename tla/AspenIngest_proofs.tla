------------------------ MODULE AspenIngest_proofs ------------------------
(***************************************************************************)
(* What the Aspen drivers leave in the graph and when they query it, for   *)
(* every number of vertices, stream length, batch size and number of       *)
(* queries, and the loop that they share with the Terrace drivers          *)
(* (QueryPacing).                                                          *)
(***************************************************************************)
EXTENDS AspenIngest, FiniteSetTheorems, TLAPS

-----------------------------------------------------------------------------
(* Sorting.  The places of the first n entries are a permutation of 1 .. n,*)
(* so that a sort that stays within m entries leaves the set of these as it*)
(* was.                                                                    *)

\* The entries before one of the first n are finitely many and fewer than n.
LEMMA BeforeFinite ==
    ASSUME NEW n \in Nat, NEW buffer, NEW j \in 1 .. n, \A k \in 1 .. n : buffer[k] \in Nat
    PROVE  /\ IsFiniteSet(Before(buffer, n, j))
           /\ Cardinality(Before(buffer, n, j)) \in Nat
           /\ Place(buffer, n, j) \in 1 .. n
  <1> DEFINE B == Before(buffer, n, j)
  <1>1. IsFiniteSet(1 .. n) /\ Cardinality(1 .. n) = n
    BY FS_Interval
  <1>2. B \subseteq (1 .. n) \ {j}
    BY DEF Before
  <1>3. IsFiniteSet((1 .. n) \ {j}) /\ Cardinality((1 .. n) \ {j}) = n - 1
    BY <1>1, FS_RemoveElement
  <1> HIDE DEF B
  <1>4. IsFiniteSet(B) /\ Cardinality(B) <= n - 1
    <2> DEFINE S == (1 .. n) \ {j}
    <2>1. IsFiniteSet(S) /\ B \in SUBSET S /\ Cardinality(S) = n - 1
      BY <1>2, <1>3
    <2> HIDE DEF S
    <2> QED BY <2>1, FS_Subset
  <1>5. Cardinality(B) \in Nat
    BY <1>4, FS_CardinalityType
  <1> QED BY <1>4, <1>5 DEF B, Place

\* Two entries have different places: the entries before the first of them are
\* before the second one too, and so is the first itself.
LEMMA PlacesDiffer ==
    ASSUME NEW n \in Nat, NEW buffer, NEW j \in 1 .. n, NEW k \in 1 .. n,
           \A l \in 1 .. n : buffer[l] \in Nat,
           j \in Before(buffer, n, k)
    PROVE  Place(buffer, n, j) # Place(buffer, n, k)
  <1> DEFINE A == Before(buffer, n, j)
             B == Before(buffer, n, k)
  <1>1. A \subseteq B /\ j \notin A
    BY DEF Before
  <1>2. IsFiniteSet(B) /\ Cardinality(A) \in Nat /\ Cardinality(B) \in Nat
    BY BeforeFinite
  <1> HIDE DEF A, B
  <1>3. A # B
    BY <1>1 DEF B
  <1>4. Cardinality(A) # Cardinality(B)
    BY <1>1, <1>2, <1>3, FS_Subset
  <1> QED BY <1>2, <1>4 DEF A, B, Place

\* Every place is taken, by an entry of its own.
LEMMA Permutation ==
    ASSUME NEW n \in Nat, NEW buffer, \A l \in 1 .. n : buffer[l] \in Nat
    PROVE  /\ \A p \in 1 .. n : \E j \in 1 .. n : Place(buffer, n, j) = p
           /\ \A j, k \in 1 .. n : Place(buffer, n, j) = Place(buffer, n, k) => j = k
  <1> DEFINE f == [j \in 1 .. n |-> Place(buffer, n, j)]
  <1>1. ASSUME NEW j \in 1 .. n, NEW k \in 1 .. n, j # k
        PROVE  Place(buffer, n, j) # Place(buffer, n, k)
    <2>1. j \in Before(buffer, n, k) \/ k \in Before(buffer, n, j)
      BY <1>1 DEF Before
    <2> QED BY <2>1, PlacesDiffer
  <1>2. f \in [1 .. n -> 1 .. n]
    BY BeforeFinite
  <1>3. f \in Injection(1 .. n, 1 .. n)
    BY <1>1, <1>2 DEF Injection, IsInjective
  <1>4. IsFiniteSet(1 .. n)
    BY FS_Interval
  <1> HIDE DEF f
  <1>5. f \in Surjection(1 .. n, 1 .. n)
    BY <1>3, <1>4, FS_Injection
  <1>6. \A p \in 1 .. n : \E j \in 1 .. n : f[j] = p
    BY <1>5 DEF Surjection
  <1> QED BY <1>1, <1>6 DEF f

\* The order of the sort takes every entry once.
LEMMA OrderPermutes ==
    ASSUME NEW n \in Nat, NEW buffer, \A l \in 1 .. n : buffer[l] \in Nat
    PROVE  /\ \A p \in 1 .. n : SortPrefix(buffer, n)[p] \in 1 .. n
           /\ \A j \in 1 .. n : \E p \in 1 .. n : SortPrefix(buffer, n)[p] = j
  <1>1. ASSUME NEW p \in 1 .. n
        PROVE  /\ SortPrefix(buffer, n)[p] \in 1 .. n
               /\ Place(buffer, n, SortPrefix(buffer, n)[p]) = p
    <2>1. \E j \in 1 .. n : Place(buffer, n, j) = p
      BY Permutation
    <2>2. SortPrefix(buffer, n)[p] = CHOOSE j \in 1 .. n : Place(buffer, n, j) = p
      BY DEF SortPrefix
    <2> QED BY <2>1, <2>2
  <1>2. ASSUME NEW j \in 1 .. n
        PROVE  \E p \in 1 .. n : SortPrefix(buffer, n)[p] = j
    <2>1. Place(buffer, n, j) \in 1 .. n
      BY BeforeFinite
    <2>2. \A k \in 1 .. n : Place(buffer, n, k) = Place(buffer, n, j) => k = j
      BY Permutation
    <2> QED BY <1>1, <2>1, <2>2
  <1> QED BY <1>1, <1>2

\* A sort of the first n entries keeps the first m of them, for m >= n.
LEMMA SortKeeps ==
    ASSUME NEW n \in 0 .. Capacity, NEW buffer \in [1 .. Capacity -> Nat]
    PROVE  /\ SortedPrefix(buffer, n) \in [1 .. Capacity -> Nat]
           /\ \A m \in n .. Capacity : Prefix(SortedPrefix(buffer, n), m) = Prefix(buffer, m)
  <1>1. Capacity \in Nat /\ n \in Nat
    BY BatchAssumption DEF Capacity
  <1>2. \A l \in 1 .. n : buffer[l] \in Nat
    BY <1>1
  <1>3. /\ \A p \in 1 .. n : SortPrefix(buffer, n)[p] \in 1 .. n
        /\ \A j \in 1 .. n : \E p \in 1 .. n : SortPrefix(buffer, n)[p] = j
    BY <1>1, <1>2, OrderPermutes
  <1> DEFINE order == SortPrefix(buffer, n)
             sorted == [k \in 1 .. Capacity |-> IF k <= n THEN buffer[order[k]] ELSE buffer[k]]
  <1>4. SortedPrefix(buffer, n) = sorted
    BY DEF SortedPrefix
  <1> HIDE DEF order
  <1>5. \A p \in 1 .. n : order[p] \in 1 .. n
    BY <1>3 DEF order
  <1>6. \A j \in 1 .. n : \E p \in 1 .. n : order[p] = j
    BY <1>3 DEF order
  <1>7. sorted \in [1 .. Capacity -> Nat]
    BY <1>1, <1>5
  <1>8. \A k \in 1 .. Capacity : sorted[k] = IF k <= n THEN buffer[order[k]] ELSE buffer[k]
    OBVIOUS
  <1> HIDE DEF sorted
  <1>9. ASSUME NEW m \in n .. Capacity
        PROVE  Prefix(sorted, m) = Prefix(buffer, m)
    <2>1. ASSUME NEW k \in 1 .. m PROVE sorted[k] \in Prefix(buffer, m)
      BY <1>1, <1>5, <1>8 DEF Prefix
    <2>2. ASSUME NEW k \in 1 .. m PROVE buffer[k] \in Prefix(sorted, m)
      <3>1. CASE k <= n
        <4>1. PICK p \in 1 .. n : order[p] = k
          BY <1>1, <1>6, <3>1
        <4> QED BY <1>1, <1>8, <4>1 DEF Prefix
      <3>2. CASE k > n
        BY <1>1, <1>8, <3>2 DEF Prefix
      <3> QED BY <1>1, <3>1, <3>2
    <2> QED BY <2>1, <2>2 DEF Prefix
  <1> QED BY <1>4, <1>7, <1>9

-----------------------------------------------------------------------------
(* Edges.  The driver's update is an edge or the (0, 0) of a variable that *)
(* get_edge has never set.                                                 *)
All == Edge \cup {{0}}

\* The number of a directed edge gives both of its vertices back.
LEMMA DirectedInjective ==
    ASSUME NEW u \in 0 .. Nodes - 1, NEW v \in 0 .. Nodes - 1,
           NEW x \in 0 .. Nodes - 1, NEW y \in 0 .. Nodes - 1,
           Directed(u, v) = Directed(x, y)
    PROVE  u = x /\ v = y
  <1>1. Nodes \in Nat /\ u \in Nat /\ v \in Nat /\ x \in Nat /\ y \in Nat
    BY NodesAssumption
  <1>2. u * Nodes \in Nat /\ x * Nodes \in Nat
    BY <1>1
  <1>3. u * Nodes + v = x * Nodes + y
    BY DEF Directed
  <1>4. ASSUME NEW a \in Nat, NEW b \in Nat, a < b PROVE a * Nodes + Nodes <= b * Nodes
    <2>1. PICK c \in Nat : b = a + 1 + c
      <3>1. b - a - 1 \in Nat
        BY <1>4
      <3> QED BY <3>1
    <2>2. b * Nodes = a * Nodes + Nodes + c * Nodes
      BY <1>1, <2>1
    <2>3. c * Nodes \in Nat /\ a * Nodes \in Nat
      BY <1>1
    <2> QED BY <1>1, <2>2, <2>3
  <1>5. ~(u < x)
    <2> SUFFICES ASSUME u < x PROVE FALSE
      OBVIOUS
    <2>1. u * Nodes + Nodes <= x * Nodes
      BY <1>1, <1>4
    <2> QED BY <1>1, <1>2, <1>3, <2>1
  <1>6. ~(x < u)
    <2> SUFFICES ASSUME x < u PROVE FALSE
      OBVIOUS
    <2>1. x * Nodes + Nodes <= u * Nodes
      BY <1>1, <1>4
    <2> QED BY <1>1, <1>2, <1>3, <2>1
  <1>7. u = x
    BY <1>1, <1>5, <1>6
  <1> QED BY <1>1, <1>2, <1>3, <1>7

\* An edge is a pair of directed edges, both natural numbers and neither 0.
LEMMA EdgeShape ==
    ASSUME NEW e \in Edge
    PROVE  \E u, v \in 0 .. Nodes - 1 :
              /\ u < v
              /\ e = {Directed(u, v), Directed(v, u)}
              /\ Directed(u, v) \in Nat \ {0} /\ Directed(v, u) \in Nat \ {0}
  <1>1. PICK u \in 0 .. Nodes - 1 :
          e \in {{Directed(u, v), Directed(v, u)} : v \in u + 1 .. Nodes - 1}
    BY DEF Edge
  <1>2. PICK v \in u + 1 .. Nodes - 1 : e = {Directed(u, v), Directed(v, u)}
    BY <1>1
  <1>3. Nodes \in Nat /\ u \in Nat /\ v \in Nat \ {0} /\ v \in 0 .. Nodes - 1 /\ u < v
    BY NodesAssumption
  <1>4. u * Nodes \in Nat /\ v * Nodes \in Nat \ {0}
    BY <1>3, NodesAssumption
  <1>5. Directed(u, v) \in Nat \ {0} /\ Directed(v, u) \in Nat \ {0}
    BY <1>3, <1>4 DEF Directed
  <1> QED BY <1>2, <1>3, <1>5

\* What the driver may store are one or two natural numbers.
LEMMA AllShape ==
    ASSUME NEW e \in All
    PROVE  /\ \E a, b \in Nat : e = {a, b}
           /\ e # {} /\ e \subseteq Nat
  <1>1. CASE e \in Edge
    BY <1>1, EdgeShape
  <1>2. CASE e = {0}
    BY <1>2
  <1> QED BY <1>1, <1>2 DEF All

\* Different edges have no direction in common.
LEMMA EdgesDisjoint ==
    ASSUME NEW e \in All, NEW d \in All, e # d
    PROVE  e \cap d = {}
  <1>1. CASE e \in Edge /\ d \in Edge
    <2>1. PICK u, v \in 0 .. Nodes - 1 : u < v /\ e = {Directed(u, v), Directed(v, u)}
      BY <1>1, EdgeShape
    <2>2. PICK x, y \in 0 .. Nodes - 1 : x < y /\ d = {Directed(x, y), Directed(y, x)}
      BY <1>1, EdgeShape
    <2>3. u \in Nat /\ v \in Nat /\ x \in Nat /\ y \in Nat
      BY NodesAssumption
    <2>4. ~(u = x /\ v = y)
      BY <2>1, <2>2
    <2>5. Directed(u, v) # Directed(x, y) /\ Directed(v, u) # Directed(y, x)
      BY <2>4, DirectedInjective
    <2>6. Directed(u, v) # Directed(y, x) /\ Directed(v, u) # Directed(x, y)
      <3>1. ~(u = y /\ v = x)
        BY <2>1, <2>2, <2>3
      <3> QED BY <3>1, DirectedInjective
    <2> QED BY <2>1, <2>2, <2>5, <2>6
  <1>2. CASE e = {0} /\ d \in Edge
    BY <1>2, EdgeShape
  <1>3. CASE e \in Edge /\ d = {0}
    BY <1>3, EdgeShape
  <1> QED BY <1>1, <1>2, <1>3 DEF All

\* Storing an edge adds both of its directions to the pending ones.
LEMMA StoreAdds ==
    ASSUME NEW buffer \in [1 .. Capacity -> Nat], NEW n \in Nat, n + 2 <= Capacity,
           NEW e \in All
    PROVE  /\ Store(buffer, n, e) \in [1 .. Capacity -> Nat]
           /\ Prefix(Store(buffer, n, e), n + 2) = Prefix(buffer, n) \cup e
  <1> DEFINE lo == CHOOSE d \in e : \A c \in e : d <= c
             hi == CHOOSE d \in e : \A c \in e : d >= c
             stored == [buffer EXCEPT ![n + 1] = lo, ![n + 2] = hi]
  <1>1. PICK a, b \in Nat : e = {a, b}
    BY AllShape
  <1>2. lo \in e /\ \A c \in e : lo <= c
    <2>1. \E d \in e : \A c \in e : d <= c
      BY <1>1
    <2> QED BY <2>1
  <1>3. hi \in e /\ \A c \in e : hi >= c
    <2>1. \E d \in e : \A c \in e : d >= c
      BY <1>1
    <2> QED BY <2>1
  <1>4. Store(buffer, n, e) = stored
    BY DEF Store
  <1> HIDE DEF lo, hi
  <1>5. e = {lo, hi} /\ lo \in Nat /\ hi \in Nat
    BY <1>1, <1>2, <1>3
  <1>6. Capacity \in Nat /\ n + 1 \in 1 .. Capacity /\ n + 2 \in 1 .. Capacity
    BY BatchAssumption DEF Capacity
  <1>7. stored \in [1 .. Capacity -> Nat]
    BY <1>5
  <1>8. stored[n + 1] = lo /\ stored[n + 2] = hi
    BY <1>6
  <1>9. \A k \in 1 .. n : stored[k] = buffer[k]
    BY <1>6
  <1>10. 1 .. n + 2 = (1 .. n) \cup {n + 1, n + 2}
    OBVIOUS
  <1> HIDE DEF stored
  <1>11. Prefix(stored, n + 2) = Prefix(buffer, n) \cup {lo, hi}
    BY <1>8, <1>9, <1>10 DEF Prefix
  <1> QED BY <1>4, <1>5, <1>7, <1>11

-----------------------------------------------------------------------------
(* The Aspen drivers.  GraphFollowsStream is not inductive: when a batch is*)
(* full its edges enter or leave the graph, so one must know that a pending*)
(* edge is what the stream says of it (Due), and that an edge is never     *)
(* pending in one direction only (Whole).                                  *)

Whole(S) == \A e \in All : e \subseteq S \/ e \cap S = {}

\* A pending insertion is of an edge that is there, a pending deletion of one
\* that is not, unless the edge was pending in both buffers.
Due(inserts, deletes, there, both) ==
    \A e \in All \ both :
        /\ e \cap inserts # {} => e \in there
        /\ e \cap deletes # {} => e \notin there

Follows(inserts, deletes, there, both, g) ==
    \A e \in Edge \ both :
        ~(e \subseteq inserts \cup deletes) =>
            IF e \in there THEN e \subseteq g ELSE e \cap g = {}

\* The vertices of an edge that a deletion may meet are in the tree: of an edge that
\* is there and not waiting to be, one whose deletion is pending, and the one that
\* was deleted last, which a file that ends early has deleted again.
Listed(inserts, deletes, there, both, known, last) ==
    \A e \in Edge \ both :
        \/ e \in there /\ e \cap inserts = {}
        \/ e \cap deletes # {}
        \/ e \in last
        => Sources(e) \subseteq known

\* An edge joins a set as a whole.
LEMMA WholeAdd ==
    ASSUME NEW S, Whole(S), NEW e \in All
    PROVE  Whole(S \cup e) /\ Whole({})
  BY EdgesDisjoint DEF Whole

\* An insertion keeps what is pending due and the graph in step with the stream,
\* whether it waits or is made with its batch.
LEMMA InsertKeeps ==
    ASSUME NEW I, NEW D, NEW T, NEW C, NEW G, NEW e \in All, NEW C2,
           Whole(I), Whole(D), Due(I, D, T, C), Follows(I, D, T, C, G),
           C2 = IF e \cap D # {} THEN C \cup {e} ELSE C
    PROVE  /\ Due(I \cup e, D, T \cup {e}, C2) /\ Follows(I \cup e, D, T \cup {e}, C2, G)
           /\ Due({}, D, T \cup {e}, C2)
           /\ Follows({}, D, T \cup {e}, C2, G \cup I \cup e)
  <1>1. \A d \in All : d # e => d \cap e = {}
    BY EdgesDisjoint
  <1>2. C \subseteq C2 /\ (e \notin C2 => e \cap D = {})
    OBVIOUS
  <1>3. \A d \in All : d # {}
    BY AllShape
  <1>4. Due(I \cup e, D, T \cup {e}, C2) /\ Due({}, D, T \cup {e}, C2)
    BY <1>1, <1>2 DEF Due
  <1>5. ASSUME NEW d \in Edge \ C2, ~(d \subseteq I \cup e \cup D)
        PROVE  IF d \in T \cup {e} THEN d \subseteq G ELSE d \cap G = {}
    <2>1. d # e /\ ~(d \subseteq I \cup D) /\ d \in Edge \ C
      BY <1>2, <1>5
    <2> QED BY <2>1 DEF Follows
  <1>6. ASSUME NEW d \in Edge \ C2, ~(d \subseteq {} \cup D)
        PROVE  IF d \in T \cup {e} THEN d \subseteq G \cup I \cup e
               ELSE d \cap (G \cup I \cup e) = {}
    <2>1. d \in All /\ d \notin C /\ d \cap D = {}
      BY <1>2, <1>6 DEF Whole, All
    <2>2. CASE d = e
      BY <2>2
    <2>3. CASE d # e /\ d \subseteq I
      <3>1. d \cap I # {}
        BY <1>3, <2>1, <2>3
      <3>2. d \in T
        BY <2>1, <3>1 DEF Due
      <3> QED BY <2>3, <3>2
    <2>4. CASE d # e /\ ~(d \subseteq I)
      <3>1. d \cap I = {} /\ d \cap e = {}
        BY <1>1, <2>1, <2>4 DEF Whole
      <3>2. ~(d \subseteq I \cup D)
        BY <1>3, <2>1, <3>1
      <3>3. IF d \in T THEN d \subseteq G ELSE d \cap G = {}
        BY <1>6, <2>1, <3>2 DEF Follows
      <3> QED BY <2>4, <3>1, <3>3
    <2> QED BY <2>2, <2>3, <2>4
  <1> QED BY <1>4, <1>5, <1>6 DEF Follows

\* A deletion likewise.
LEMMA DeleteKeeps ==
    ASSUME NEW I, NEW D, NEW T, NEW C, NEW G, NEW e \in All, NEW C2,
           Whole(I), Whole(D), Due(I, D, T, C), Follows(I, D, T, C, G),
           C2 = IF e \cap I # {} THEN C \cup {e} ELSE C
    PROVE  /\ Due(I, D \cup e, T \ {e}, C2) /\ Follows(I, D \cup e, T \ {e}, C2, G)
           /\ Due(I, {}, T \ {e}, C2)
           /\ Follows(I, {}, T \ {e}, C2, G \ (D \cup e))
  <1>1. \A d \in All : d # e => d \cap e = {}
    BY EdgesDisjoint
  <1>2. C \subseteq C2 /\ (e \notin C2 => e \cap I = {})
    OBVIOUS
  <1>3. \A d \in All : d # {}
    BY AllShape
  <1>4. Due(I, D \cup e, T \ {e}, C2) /\ Due(I, {}, T \ {e}, C2)
    BY <1>1, <1>2 DEF Due
  <1>5. ASSUME NEW d \in Edge \ C2, ~(d \subseteq I \cup (D \cup e))
        PROVE  IF d \in T \ {e} THEN d \subseteq G ELSE d \cap G = {}
    <2>1. d # e /\ ~(d \subseteq I \cup D) /\ d \in Edge \ C
      BY <1>2, <1>5
    <2> QED BY <2>1 DEF Follows
  <1>6. ASSUME NEW d \in Edge \ C2, ~(d \subseteq I \cup {})
        PROVE  IF d \in T \ {e} THEN d \subseteq G \ (D \cup e)
               ELSE d \cap (G \ (D \cup e)) = {}
    <2>1. d \in All /\ d \notin C /\ d \cap I = {}
      BY <1>2, <1>6 DEF Whole, All
    <2>2. CASE d = e
      BY <2>2
    <2>3. CASE d # e /\ d \subseteq D
      <3>1. d \cap D # {}
        BY <1>3, <2>1, <2>3
      <3>2. d \notin T
        BY <2>1, <3>1 DEF Due
      <3> QED BY <2>3, <3>2
    <2>4. CASE d # e /\ ~(d \subseteq D)
      <3>1. d \cap D = {} /\ d \cap e = {}
        BY <1>1, <2>1, <2>4 DEF Whole
      <3>2. ~(d \subseteq I \cup D)
        BY <1>3, <2>1, <3>1
      <3>3. IF d \in T THEN d \subseteq G ELSE d \cap G = {}
        BY <1>6, <2>1, <3>2 DEF Follows
      <3> QED BY <2>4, <3>1, <3>3
    <2> QED BY <2>2, <2>3, <2>4
  <1> QED BY <1>4, <1>5, <1>6 DEF Follows

\* An insertion keeps the vertices of what may be deleted in the tree.
LEMMA InsertLists ==
    ASSUME NEW I, NEW D, NEW T, NEW C, NEW V, NEW L, NEW e \in All, NEW C2, Whole(I),
           Listed(I, D, T, C, V, L), C \subseteq C2
    PROVE  /\ Listed(I \cup e, D, T \cup {e}, C2, V, {})
           /\ Listed({}, D, T \cup {e}, C2, V \cup Sources(I \cup e), {})
  <1>1. \A d \in All : d # {}
    BY AllShape
  <1>2. Edge \subseteq All
    BY DEF All
  <1>3. ASSUME NEW d \in Edge \ C2, (d \in T /\ d \cap I = {}) \/ d \cap D # {}
        PROVE  Sources(d) \subseteq V
    BY <1>3 DEF Listed
  <1>4. Listed(I \cup e, D, T \cup {e}, C2, V, {})
    <2> SUFFICES ASSUME NEW d \in Edge \ C2,
                        (d \in T \cup {e} /\ d \cap (I \cup e) = {}) \/ d \cap D # {}
                 PROVE  Sources(d) \subseteq V
      BY DEF Listed
    <2>1. d # {}
      BY <1>1, <1>2
    <2> QED BY <1>3, <2>1
  <1>5. Listed({}, D, T \cup {e}, C2, V \cup Sources(I \cup e), {})
    <2> SUFFICES ASSUME NEW d \in Edge \ C2, d \in T \cup {e} \/ d \cap D # {}
                 PROVE  Sources(d) \subseteq V \cup Sources(I \cup e)
      BY DEF Listed
    <2>1. CASE d \subseteq I \cup e
      BY <2>1 DEF Sources
    <2>2. CASE ~(d \subseteq I \cup e)
      <3>1. d # e /\ d \cap I = {}
        BY <1>2, <2>2 DEF Whole
      <3> QED BY <1>3, <3>1
    <2> QED BY <2>1, <2>2
  <1> QED BY <1>4, <1>5

\* A deletion of an edge that is there, or that was deleted last, likewise.
LEMMA DeleteLists ==
    ASSUME NEW I, NEW D, NEW T, NEW C, NEW V, NEW L, NEW e \in Edge, NEW C2, NEW X,
           Listed(I, D, T, C, V, L), e \in T \/ e \in L,
           C2 = IF e \cap I # {} THEN C \cup {e} ELSE C
    PROVE  /\ Listed(I, D \cup e, T \ {e}, C2, V, {e})
           /\ Listed(I, {}, T \ {e}, C2, V \cup X, {e})
  <1>1. \A d \in Edge : d # e => d \cap e = {}
    BY EdgesDisjoint DEF All
  <1>2. C \subseteq C2 /\ (e \notin C2 => e \cap I = {})
    OBVIOUS
  <1>3. e \notin C2 => Sources(e) \subseteq V
    BY <1>2 DEF Listed
  <1>4. ASSUME NEW d \in Edge \ C2, d # e,
               (d \in T /\ d \cap I = {}) \/ d \cap (D \cup e) # {}
        PROVE  Sources(d) \subseteq V
    BY <1>1, <1>2, <1>4 DEF Listed
  <1>5. Listed(I, D \cup e, T \ {e}, C2, V, {e})
    BY <1>3, <1>4 DEF Listed
  <1>6. Listed(I, {}, T \ {e}, C2, V \cup X, {e})
    BY <1>3, <1>4 DEF Listed
  <1> QED BY <1>5, <1>6

\* A batch of deletions takes out of the graph what it should, where the vertices
\* are in the tree.
LEMMA RemovedKeeps ==
    ASSUME NEW I, NEW B, NEW T, NEW C, NEW V, NEW L, NEW G, Listed(I, B, T, C, V, L),
           NEW e \in Edge \ C, NEW W, V \subseteq W
    PROVE  e \cap Removed(G, W, B) = e \cap (G \ B)
  <1>1. ASSUME NEW d \in e, d \in B PROVE Vertex(d) \in W
    <2>1. Sources(e) \subseteq V
      BY <1>1 DEF Listed
    <2> QED BY <2>1 DEF Sources
  <1> QED BY <1>1 DEF Removed

\* Making everything that is pending gives the stream's graph.
LEMMA FlushKeeps ==
    ASSUME NEW I, NEW D, NEW T, NEW C, NEW G,
           Whole(I), Whole(D), Due(I, D, T, C), Follows(I, D, T, C, G),
           NEW e \in Edge \ C
    PROVE  IF e \in T THEN e \subseteq (G \cup I) \ D ELSE e \cap ((G \cup I) \ D) = {}
  <1>1. e \in All /\ e # {}
    BY AllShape DEF All
  <1>2. CASE e \subseteq I
    <2>1. e \cap I # {}
      BY <1>1, <1>2
    <2>2. e \in T /\ e \cap D = {}
      BY <1>1, <2>1 DEF Due
    <2> QED BY <1>2, <2>2
  <1>3. CASE e \subseteq D
    <2>1. e \cap D # {}
      BY <1>1, <1>3
    <2>2. e \notin T
      BY <1>1, <2>1 DEF Due
    <2> QED BY <1>3, <2>2
  <1>4. CASE e \cap I = {} /\ e \cap D = {}
    <2>1. ~(e \subseteq I \cup D)
      BY <1>1, <1>4
    <2> QED BY <1>4, <2>1 DEF Follows
  <1> QED BY <1>1, <1>2, <1>3, <1>4 DEF Whole

\* An update is only made while the counter is below the limit.
Counter == pc \in {"query", "update"} => i < num_updates

\* Both counts go up in steps of two, so that a full buffer is never passed over.
Counts ==
    /\ \E k \in 0 .. update_batch_size - 1 : insert_buffer_count = 2 * k
    /\ \E k \in 0 .. update_batch_size - 1 : delete_buffer_count = 2 * k

Running == pc \in {"loop", "query", "update", "flush"}

\* The edge that get_edge, returning false, would have deleted again.
LastDeleted == IF update.is_delete THEN {update.edge} ELSE {}

InStep ==
    /\ Whole(PendingInserts) /\ Whole(PendingDeletes)
    /\ Due(PendingInserts, PendingDeletes, truth, clash)
    /\ Follows(PendingInserts, PendingDeletes, truth, clash, graph)
    /\ Listed(PendingInserts, PendingDeletes, truth, clash, vertices, LastDeleted)

AspenInv == TypeOK /\ Counter /\ Counts /\ (Running => InStep) /\ FinalGraph

\* The types of what an update changes.
Stored ==
    /\ insert_buffer \in [1 .. Capacity -> Nat]
    /\ delete_buffer \in [1 .. Capacity -> Nat]
    /\ insert_buffer_count \in 0 .. Capacity - 2
    /\ delete_buffer_count \in 0 .. Capacity - 2
    /\ graph \subseteq Nat
    /\ vertices \subseteq Nat
    /\ truth \subseteq All
    /\ clash \subseteq All

LEMMA CapacityFacts ==
    /\ Capacity \in Nat /\ Capacity = 2 * update_batch_size /\ Capacity >= 2
    /\ update_batch_size \in Nat \ {0}
  BY BatchAssumption DEF Capacity

\* No entries.
LEMMA PrefixNone ==
    ASSUME NEW buffer PROVE Prefix(buffer, 0) = {}
  BY DEF Prefix

\* The entries of a buffer are natural numbers.
LEMMA PrefixType ==
    ASSUME NEW buffer \in [1 .. Capacity -> Nat], NEW n \in 0 .. Capacity
    PROVE  Prefix(buffer, n) \subseteq Nat
  BY CapacityFacts DEF Prefix

\* The vertices of directed edges are natural numbers.
LEMMA SourcesType ==
    ASSUME NEW B, B \subseteq Nat PROVE Sources(B) \subseteq Nat
  <1>1. ASSUME NEW d \in Nat PROVE Vertex(d) \in Nat
    BY NodesAssumption DEF Vertex
  <1> QED BY <1>1 DEF Sources

\* The initial states satisfy the inductive invariant.
LEMMA AspenInit == Init => AspenInv
  <1> SUFFICES ASSUME Init PROVE AspenInv
    OBVIOUS
  <1>1. fileOver \in BOOLEAN /\ lastRow \in BOOLEAN
    BY Zenon DEF Init
  <1>2. TypeOK
    BY <1>1, CapacityFacts, NumEdgesAssumption, StatusAssumption DEF Init, TypeOK
  <1>3. PendingInserts = {} /\ PendingDeletes = {}
    BY PrefixNone DEF Init, PendingInserts, PendingDeletes
  <1>4. Counts
    BY CapacityFacts DEF Init, Counts
  <1>5. InStep
    BY <1>3 DEF InStep, Whole, Due, Follows, Listed, LastDeleted, NoUpdate, Init
  <1> QED BY <1>2, <1>4, <1>5 DEF AspenInv, Counter, FinalGraph, Init

\* An insertion keeps the buffers well formed and the graph in step.
LEMMA InsertInv ==
    ASSUME Stored, Counts, InStep, NEW e \in All, Insert(e), truth' = truth \cup {e},
           LastDeleted' = {}
    PROVE  Stored' /\ Counts' /\ InStep'
  <1> DEFINE buffer == Store(insert_buffer, insert_buffer_count, e)
  <1>1. /\ insert_buffer \in [1 .. Capacity -> Nat] /\ insert_buffer_count \in Nat
        /\ insert_buffer_count + 2 <= Capacity /\ graph \subseteq Nat
    BY CapacityFacts DEF Stored
  <1>2. /\ buffer \in [1 .. Capacity -> Nat]
        /\ Prefix(buffer, insert_buffer_count + 2) = PendingInserts \cup e
    BY <1>1, StoreAdds DEF PendingInserts
  <1> HIDE DEF buffer
  <1>3. /\ delete_buffer' = delete_buffer /\ delete_buffer_count' = delete_buffer_count
        /\ PendingDeletes' = PendingDeletes
    BY DEF Insert, PendingDeletes, Prefix
  <1>4. clash' = IF e \cap PendingDeletes # {} THEN clash \cup {e} ELSE clash
    BY DEF Insert
  <1>5. truth' \subseteq All /\ clash' \subseteq All
    BY <1>4 DEF Stored
  <1>6. /\ Whole(PendingInserts \cup e) /\ Whole({}) /\ Whole(PendingDeletes)
        /\ Due(PendingInserts \cup e, PendingDeletes, truth', clash')
        /\ Follows(PendingInserts \cup e, PendingDeletes, truth', clash', graph)
        /\ Due({}, PendingDeletes, truth', clash')
        /\ Follows({}, PendingDeletes, truth', clash', graph \cup PendingInserts \cup e)
    BY <1>4, WholeAdd, InsertKeeps DEF InStep
  <1>9. /\ Listed(PendingInserts \cup e, PendingDeletes, truth', clash', vertices, {})
        /\ Listed({}, PendingDeletes, truth', clash',
                  vertices \cup Sources(PendingInserts \cup e), {})
    BY <1>4, InsertLists DEF InStep
  <1>7. CASE insert_buffer_count + 1 = Capacity - 1
    <2>1. /\ insert_buffer' = SortedPrefix(buffer, Capacity) /\ insert_buffer_count' = 0
          /\ graph' = graph \cup Prefix(buffer, Capacity)
          /\ vertices' = vertices \cup Sources(Prefix(buffer, Capacity))
      BY <1>7 DEF Insert, buffer
    <2>2. insert_buffer_count + 2 = Capacity
      BY <1>1, <1>7, CapacityFacts
    <2>3. insert_buffer' \in [1 .. Capacity -> Nat]
      BY <1>2, <2>1, SortKeeps, CapacityFacts
    <2>4. PendingInserts' = {}
      BY <2>1, PrefixNone DEF PendingInserts
    <2>5. /\ graph' = graph \cup PendingInserts \cup e
          /\ vertices' = vertices \cup Sources(PendingInserts \cup e)
      BY <1>2, <2>1, <2>2
    <2>6. PendingInserts \cup e \subseteq Nat
      BY <1>2, <2>2, PrefixType, CapacityFacts
    <2>7. Stored'
      <3>1. graph' \subseteq Nat
        BY <1>1, <2>5, <2>6
      <3>2. insert_buffer_count' \in 0 .. Capacity - 2
        BY <2>1, CapacityFacts
      <3>3. vertices' \subseteq Nat
        BY <2>5, <2>6, SourcesType DEF Stored
      <3> QED BY <1>3, <1>5, <2>3, <3>1, <3>2, <3>3 DEF Stored
    <2>8. Counts'
      BY <1>3, <2>1, CapacityFacts DEF Counts
    <2>9. InStep'
      BY <1>3, <1>6, <1>9, <2>4, <2>5 DEF InStep
    <2> QED BY <2>7, <2>8, <2>9
  <1>8. CASE insert_buffer_count + 1 # Capacity - 1
    <2>1. /\ insert_buffer' = buffer /\ insert_buffer_count' = insert_buffer_count + 2
          /\ graph' = graph /\ vertices' = vertices
      BY <1>8 DEF Insert, buffer
    <2>2. PendingInserts' = PendingInserts \cup e
      BY <1>2, <2>1 DEF PendingInserts
    <2>3. PICK k \in 0 .. update_batch_size - 1 : insert_buffer_count = 2 * k
      BY DEF Counts
    <2>4. k + 1 \in 0 .. update_batch_size - 1 /\ insert_buffer_count' = 2 * (k + 1)
      BY <1>8, <2>1, <2>3, CapacityFacts
    <2>5. Counts'
      BY <1>3, <2>4 DEF Counts
    <2>6. insert_buffer_count' \in 0 .. Capacity - 2
      BY <2>4, CapacityFacts
    <2>7. Stored'
      BY <1>2, <1>3, <1>5, <2>1, <2>6 DEF Stored
    <2>8. InStep'
      BY <1>3, <1>6, <1>9, <2>1, <2>2 DEF InStep
    <2> QED BY <2>5, <2>7, <2>8
  <1> QED BY <1>7, <1>8

\* A deletion likewise.
LEMMA DeleteInv ==
    ASSUME Stored, Counts, InStep, NEW e \in Edge, Delete(e), truth' = truth \ {e},
           LastDeleted' = {e}, e \in truth \/ e \in LastDeleted
    PROVE  Stored' /\ Counts' /\ InStep'
  <1> DEFINE buffer == Store(delete_buffer, delete_buffer_count, e)
  <1>0. e \in All
    BY DEF All
  <1>1. /\ delete_buffer \in [1 .. Capacity -> Nat] /\ delete_buffer_count \in Nat
        /\ delete_buffer_count + 2 <= Capacity /\ graph \subseteq Nat
    BY CapacityFacts DEF Stored
  <1>2. /\ buffer \in [1 .. Capacity -> Nat]
        /\ Prefix(buffer, delete_buffer_count + 2) = PendingDeletes \cup e
    BY <1>1, <1>0, StoreAdds DEF PendingDeletes
  <1> HIDE DEF buffer
  <1>3. /\ insert_buffer' = insert_buffer /\ insert_buffer_count' = insert_buffer_count
        /\ PendingInserts' = PendingInserts
    BY DEF Delete, PendingInserts, Prefix
  <1>4. clash' = IF e \cap PendingInserts # {} THEN clash \cup {e} ELSE clash
    BY DEF Delete
  <1>5. truth' \subseteq All /\ clash' \subseteq All
    BY <1>4, <1>0 DEF Stored
  <1>6. /\ Whole(PendingDeletes \cup e) /\ Whole({}) /\ Whole(PendingInserts)
        /\ Due(PendingInserts, PendingDeletes \cup e, truth', clash')
        /\ Follows(PendingInserts, PendingDeletes \cup e, truth', clash', graph)
        /\ Due(PendingInserts, {}, truth', clash')
        /\ Follows(PendingInserts, {}, truth', clash', graph \ (PendingDeletes \cup e))
    BY <1>4, <1>0, WholeAdd, DeleteKeeps DEF InStep
  <1>9. /\ Listed(PendingInserts, PendingDeletes \cup e, truth', clash', vertices, {e})
        /\ Listed(PendingInserts, {}, truth', clash',
                  vertices \cup Sources(PendingDeletes \cup e), {e})
    BY <1>4, DeleteLists DEF InStep
  <1>7. CASE delete_buffer_count + 1 = Capacity - 1
    <2>1. /\ delete_buffer' = SortedPrefix(buffer, Capacity) /\ delete_buffer_count' = 0
          /\ graph' = Removed(graph, vertices, Prefix(buffer, Capacity))
          /\ vertices' = vertices \cup Sources(Prefix(buffer, Capacity))
      BY <1>7 DEF Delete, buffer
    <2>2. delete_buffer_count + 2 = Capacity
      BY <1>1, <1>7, CapacityFacts
    <2>3. delete_buffer' \in [1 .. Capacity -> Nat]
      BY <1>2, <2>1, SortKeeps, CapacityFacts
    <2>4. PendingDeletes' = {}
      BY <2>1, PrefixNone DEF PendingDeletes
    <2>5. /\ graph' = Removed(graph, vertices, PendingDeletes \cup e)
          /\ vertices' = vertices \cup Sources(PendingDeletes \cup e)
      BY <1>2, <2>1, <2>2
    <2>9. PendingDeletes \cup e \subseteq Nat
      BY <1>2, <2>2, PrefixType, CapacityFacts
    <2>6. Stored'
      <3>1. graph' \subseteq Nat
        BY <1>1, <2>5, <2>9 DEF Removed
      <3>2. delete_buffer_count' \in 0 .. Capacity - 2
        BY <2>1, CapacityFacts
      <3>3. vertices' \subseteq Nat
        BY <2>5, <2>9, SourcesType DEF Stored
      <3> QED BY <1>3, <1>5, <2>3, <3>1, <3>2, <3>3 DEF Stored
    <2>10. Follows(PendingInserts, {}, truth', clash', graph')
      <3> SUFFICES ASSUME NEW d \in Edge \ clash', ~(d \subseteq PendingInserts \cup {})
                   PROVE  IF d \in truth' THEN d \subseteq graph' ELSE d \cap graph' = {}
        BY DEF Follows
      <3> DEFINE H == graph \ (PendingDeletes \cup e)
      <3>1. IF d \in truth' THEN d \subseteq H ELSE d \cap H = {}
        BY <1>6 DEF Follows
      <3>2. d \cap graph' = d \cap H
        BY <1>9, <2>5, RemovedKeeps
      <3> HIDE DEF H
      <3> QED BY <3>1, <3>2
    <2>7. Counts'
      BY <1>3, <2>1, CapacityFacts DEF Counts
    <2>8. InStep'
      BY <1>3, <1>6, <1>9, <2>4, <2>5, <2>10 DEF InStep
    <2> QED BY <2>6, <2>7, <2>8
  <1>8. CASE delete_buffer_count + 1 # Capacity - 1
    <2>1. /\ delete_buffer' = buffer /\ delete_buffer_count' = delete_buffer_count + 2
          /\ graph' = graph /\ vertices' = vertices
      BY <1>8 DEF Delete, buffer
    <2>2. PendingDeletes' = PendingDeletes \cup e
      BY <1>2, <2>1 DEF PendingDeletes
    <2>3. PICK k \in 0 .. update_batch_size - 1 : delete_buffer_count = 2 * k
      BY DEF Counts
    <2>4. k + 1 \in 0 .. update_batch_size - 1 /\ delete_buffer_count' = 2 * (k + 1)
      BY <1>8, <2>1, <2>3, CapacityFacts
    <2>5. Counts'
      BY <1>3, <2>4 DEF Counts
    <2>6. delete_buffer_count' \in 0 .. Capacity - 2
      BY <2>4, CapacityFacts
    <2>7. Stored'
      BY <1>2, <1>3, <1>5, <2>1, <2>6 DEF Stored
    <2>8. InStep'
      BY <1>3, <1>6, <1>9, <2>1, <2>2 DEF InStep
    <2> QED BY <2>5, <2>7, <2>8
  <1> QED BY <1>7, <1>8

\* An update is buffered, a real one or a repeated one.
LEMMA BufferInv ==
    ASSUME AspenInv, pc = "update", NEW u \in Update \cup {NoUpdate}, Buffer(u),
           update' = u, u = update \/ (u.is_delete => u.edge \in truth)
    PROVE  Stored' /\ Counts' /\ InStep' /\ i' = i + 1 /\ pc' = "loop"
  <1>1. u.edge \in All
    BY DEF Update, NoUpdate, All
  <1>2. Stored /\ Counts /\ InStep
    BY DEF AspenInv, TypeOK, Stored, Running, All
  <1>3. i' = i + 1 /\ pc' = "loop"
    BY DEF Buffer
  <1>4. CASE u.is_delete
    <2>1. Delete(u.edge) /\ truth' = truth \ {u.edge}
      BY <1>4 DEF Buffer
    <2>2. u.edge \in Edge
      BY <1>4 DEF Update, NoUpdate
    <2>3. LastDeleted' = {u.edge}
      BY <1>4 DEF LastDeleted
    <2>4. u.edge \in truth \/ u.edge \in LastDeleted
      BY <1>4 DEF LastDeleted
    <2> QED BY <1>2, <1>3, <2>1, <2>2, <2>3, <2>4, DeleteInv
  <1>5. CASE ~u.is_delete
    <2>1. Insert(u.edge) /\ truth' = truth \cup {u.edge}
      BY <1>5 DEF Buffer
    <2>2. LastDeleted' = {}
      BY <1>5 DEF LastDeleted
    <2> QED BY <1>1, <1>2, <1>3, <2>1, <2>2, InsertInv
  <1> QED BY <1>4, <1>5

\* The final flush gives the stream's graph if it sorts no more than the pending
\* deletions.
LEMMA FlushInv ==
    ASSUME AspenInv, Flush
    PROVE  AspenInv'
  <1> DEFINE known == vertices \cup Sources(PendingInserts)
             batch == Prefix(delete_buffer', delete_buffer_count)
  <1>1. /\ insert_buffer \in [1 .. Capacity -> Nat] /\ delete_buffer \in [1 .. Capacity -> Nat]
        /\ insert_buffer_count \in 0 .. Capacity /\ delete_buffer_count \in 0 .. Capacity
        /\ insert_buffer_count \in Nat /\ delete_buffer_count \in Nat
        /\ graph \subseteq Nat /\ vertices \subseteq Nat
    BY CapacityFacts DEF AspenInv, TypeOK
  <1>2. /\ insert_buffer' = SortedPrefix(insert_buffer, insert_buffer_count)
        /\ delete_buffer' = SortedPrefix(delete_buffer, insert_buffer_count)
        /\ graph' = Removed(graph \cup PendingInserts, known, batch)
        /\ vertices' = known \cup Sources(batch)
        /\ pc = "flush" /\ pc' = "last"
        /\ UNCHANGED <<i, num_updates, update, fileOver, insert_buffer_count,
                       delete_buffer_count, status_idx, log_count, rows, lastRow, truth,
                       clash>>
    BY DEF Flush
  <1>3. insert_buffer' \in [1 .. Capacity -> Nat] /\ delete_buffer' \in [1 .. Capacity -> Nat]
    BY <1>1, <1>2, SortKeeps
  <1>4. graph' \subseteq Nat /\ vertices' \subseteq Nat
    <2>1. PendingInserts \subseteq Nat /\ batch \subseteq Nat
      BY <1>1, <1>3, PrefixType DEF PendingInserts
    <2> HIDE DEF batch
    <2>2. Sources(PendingInserts) \subseteq Nat /\ Sources(batch) \subseteq Nat
      BY <2>1, SourcesType
    <2> QED BY <1>1, <1>2, <2>1, <2>2 DEF Removed
  <1>5. SafeFlush' <=> SafeFlush
    BY <1>2 DEF SafeFlush
  <1>6. TypeOK' /\ Counter' /\ Counts' /\ ~Running'
    BY <1>2, <1>3, <1>4 DEF AspenInv, TypeOK, Counter, Counts, Running
  <1>7. ASSUME SafeFlush, NEW e \in Edge \ clash
        PROVE  IF e \in truth THEN e \subseteq graph' ELSE e \cap graph' = {}
    <2>1. delete_buffer_count \in insert_buffer_count .. Capacity
      BY <1>1, <1>7 DEF SafeFlush
    <2>2. batch = PendingDeletes
      BY <1>1, <1>2, <2>1, SortKeeps DEF PendingDeletes
    <2>3. InStep
      BY <1>2 DEF AspenInv, Running
    <2> DEFINE all == graph \cup PendingInserts
    <2>4. IF e \in truth THEN e \subseteq all \ PendingDeletes
          ELSE e \cap (all \ PendingDeletes) = {}
      BY <2>3, FlushKeeps DEF InStep
    <2>5. e \cap Removed(all, known, PendingDeletes) = e \cap (all \ PendingDeletes)
      BY <2>3, RemovedKeeps DEF InStep
    <2>6. graph' = Removed(all, known, PendingDeletes)
      BY <1>2, <2>2
    <2> HIDE DEF all, known
    <2> QED BY <2>4, <2>5, <2>6
  <1>8. FinalGraph'
    BY <1>2, <1>5, <1>7 DEF FinalGraph
  <1> QED BY <1>6, <1>8 DEF AspenInv

\* A step that touches neither the buffers nor the graph.
LEMMA StillInv ==
    ASSUME UNCHANGED <<update, bufferVars, graphVars>>
    PROVE  (InStep' <=> InStep) /\ (Counts' <=> Counts) /\ (SafeFlush' <=> SafeFlush)
  <1>1. /\ UNCHANGED insert_buffer /\ UNCHANGED insert_buffer_count
        /\ UNCHANGED delete_buffer /\ UNCHANGED delete_buffer_count
        /\ UNCHANGED graph /\ UNCHANGED vertices /\ UNCHANGED update /\ UNCHANGED truth /\ UNCHANGED clash
    BY DEF bufferVars, graphVars
  <1>2. PendingInserts' = PendingInserts /\ PendingDeletes' = PendingDeletes
    BY <1>1 DEF PendingInserts, PendingDeletes, Prefix
  <1>5. LastDeleted' = LastDeleted
    BY <1>1 DEF LastDeleted
  <1>3. InStep' <=> InStep
    BY <1>1, <1>2, <1>5 DEF InStep
  <1>4. (Counts' <=> Counts) /\ (SafeFlush' <=> SafeFlush)
    BY <1>1 DEF Counts, SafeFlush
  <1> QED BY <1>3, <1>4

\* Every step of the driver preserves the inductive invariant.
LEMMA AspenNext == AspenInv /\ [Next]_vars => AspenInv'
  <1> SUFFICES ASSUME AspenInv, [Next]_vars PROVE AspenInv'
    OBVIOUS
  <1> USE NumEdgesAssumption, StatusAssumption
  <1>1. CASE StatusCheck
    <2>1. UNCHANGED <<update, bufferVars, graphVars>>
      BY <1>1 DEF StatusCheck
    <2>2. TypeOK' /\ Counter' /\ FinalGraph'
      BY <1>1 DEF AspenInv, TypeOK, Counter, FinalGraph, StatusCheck, bufferVars, graphVars
    <2> QED BY <1>1, <2>1, <2>2, StillInv DEF AspenInv, StatusCheck, Running
  <1>2. CASE Timeout
    <2>1. UNCHANGED <<update, bufferVars, graphVars>>
      BY <1>2 DEF Timeout
    <2>2. TypeOK' /\ Counter' /\ FinalGraph'
      BY <1>2 DEF AspenInv, TypeOK, Counter, FinalGraph, Timeout, bufferVars, graphVars
    <2> QED BY <1>2, <2>1, <2>2, StillInv DEF AspenInv, Timeout, Running
  <1>3. CASE Query
    <2>1. UNCHANGED <<update, bufferVars, graphVars>>
      BY <1>3 DEF Query
    <2>2. TypeOK' /\ Counter' /\ FinalGraph'
      BY <1>3 DEF AspenInv, TypeOK, Counter, FinalGraph, Query, bufferVars, graphVars
    <2> QED BY <1>3, <2>1, <2>2, StillInv DEF AspenInv, Query, Running
  <1>4. CASE NoQuery
    <2>1. UNCHANGED <<update, bufferVars, graphVars>>
      BY <1>4 DEF NoQuery
    <2>2. TypeOK' /\ Counter' /\ FinalGraph'
      BY <1>4 DEF AspenInv, TypeOK, Counter, FinalGraph, NoQuery, bufferVars, graphVars
    <2> QED BY <1>4, <2>1, <2>2, StillInv DEF AspenInv, NoQuery, Running
  <1>5. CASE GetEdge
    <2>1. PICK u \in Update : update' = u /\ Buffer(u) /\ (u.is_delete => u.edge \in truth)
      BY <1>5 DEF GetEdge
    <2>2. /\ pc = "update"
          /\ UNCHANGED <<num_updates, fileOver, status_idx, log_count, rows, lastRow>>
      BY <1>5 DEF GetEdge
    <2>3. Stored' /\ Counts' /\ InStep' /\ i' = i + 1 /\ pc' = "loop"
      BY <2>1, <2>2, BufferInv
    <2>4. TypeOK'
      BY <2>1, <2>2, <2>3 DEF AspenInv, TypeOK, Counter, Stored, All
    <2> QED BY <2>3, <2>4 DEF AspenInv, Counter, FinalGraph
  <1>6. CASE GetEdgeFalse
    <2>1. Buffer(update) /\ update \in Update \cup {NoUpdate} /\ pc = "update"
      BY <1>6 DEF GetEdgeFalse, AspenInv, TypeOK
    <2>2. UNCHANGED <<num_updates, update, status_idx, log_count, rows, lastRow>>
      BY <1>6 DEF GetEdgeFalse
    <2>3. Stored' /\ Counts' /\ InStep' /\ i' = i + 1 /\ pc' = "loop"
      BY <2>1, <2>2, BufferInv
    <2>4. fileOver' \in BOOLEAN
      BY <1>6, Zenon DEF GetEdgeFalse
    <2>5. TypeOK'
      BY <2>1, <2>2, <2>3, <2>4 DEF AspenInv, TypeOK, Counter, Stored, All
    <2> QED BY <2>3, <2>5 DEF AspenInv, Counter, FinalGraph
  <1>7. CASE LoopEnds
    <2>1. UNCHANGED <<update, bufferVars, graphVars>>
      BY <1>7 DEF LoopEnds
    <2>2. TypeOK' /\ Counter' /\ FinalGraph'
      BY <1>7 DEF AspenInv, TypeOK, Counter, FinalGraph, LoopEnds, bufferVars, graphVars
    <2> QED BY <1>7, <2>1, <2>2, StillInv DEF AspenInv, LoopEnds, Running
  <1>8. CASE Flush
    BY <1>8, FlushInv
  <1>11. CASE FlushExits
    <2>1. UNCHANGED <<update, bufferVars, graphVars>>
      BY <1>11 DEF FlushExits
    <2>2. TypeOK' /\ Counter' /\ FinalGraph'
      BY <1>11 DEF AspenInv, TypeOK, Counter, FinalGraph, FlushExits, bufferVars, graphVars
    <2> QED BY <1>11, <2>1, <2>2, StillInv DEF AspenInv, FlushExits, Running
  <1>9. CASE LastQuery
    <2>1. UNCHANGED <<update, bufferVars, graphVars>>
      BY <1>9 DEF LastQuery
    <2>2. lastRow' \in BOOLEAN
      BY <1>9, Zenon DEF LastQuery
    <2>3. TypeOK' /\ Counter'
      BY <1>9, <2>2 DEF AspenInv, TypeOK, Counter, LastQuery, bufferVars, graphVars
    <2>4. FinalGraph'
      BY <1>9, <2>1, StillInv DEF AspenInv, FinalGraph, LastQuery, graphVars
    <2> QED BY <1>9, <2>1, <2>3, <2>4, StillInv DEF AspenInv, LastQuery, Running
  <1>10. CASE UNCHANGED vars
    <2>1. UNCHANGED <<update, bufferVars, graphVars>> /\ UNCHANGED pc
      BY <1>10 DEF vars, bufferVars, graphVars
    <2>2. TypeOK' /\ Counter'
      BY <1>10 DEF AspenInv, TypeOK, Counter, vars
    <2>3. FinalGraph'
      BY <2>1, StillInv DEF AspenInv, FinalGraph, graphVars
    <2> QED BY <2>1, <2>2, <2>3, StillInv DEF AspenInv, Running
  <1> QED
    BY <1>1, <1>2, <1>3, <1>4, <1>5, <1>6, <1>7, <1>8, <1>9, <1>10, <1>11 DEF Next, Done

\* The inductive invariant holds in every reachable state.
THEOREM AspenInvariance == Spec => []AspenInv
  BY AspenInit, AspenNext, PTL DEF Spec

\* While the stream runs, batching in two buffers delays updates and loses none:
\* every edge that is not pending, and was never pending in both buffers, is in
\* the graph in both directions or in neither, as the stream left it.
THEOREM AspenStreamCorrect == Spec => []GraphFollowsStream
  <1>1. AspenInv => GraphFollowsStream
    BY DEF AspenInv, Running, InStep, Follows, GraphFollowsStream, Pending
  <1> QED BY <1>1, AspenInvariance, PTL

\* A flush that the program survives leaves the graph as the stream did for every
\* edge that was never pending in both buffers at once, if no more insertions than
\* deletions were pending: for every stream, batch size, timeout and end of the
\* file, and though the tree adds the deleted edges of vertices it does not know.
THEOREM AspenFinalCorrect == Spec => []FinalGraph
  <1>1. AspenInv => FinalGraph
    BY DEF AspenInv
  <1> QED BY <1>1, AspenInvariance, PTL

-----------------------------------------------------------------------------
(* The loop that both drivers share: the exact place of each query, and    *)
(* that none is missing at the end of a whole stream.                      *)
Pace == INSTANCE QueryPacing

\* How far the loop counter and the total can be apart at each point.
PacingCounter ==
    /\ i <= num_updates
    /\ pc \in {"query", "update"} => i < num_updates
    /\ pc \in {"flush", "done"} => num_updates = i

PacingInv == Pace!TypeOK /\ PacingCounter /\ QueryDrift

\* The quotient that spaces the queries: NumEdges lies between Queries times the
\* interval and Queries times the next larger one.
LEMMA IntervalBounds ==
    /\ query_interval \in Nat
    /\ Queries * query_interval <= NumEdges
    /\ NumEdges < Queries * (query_interval + 1)
  BY NumEdgesAssumption, QueriesAssumption DEF query_interval

\* The loop's interval is the one above.
LEMMA SameInterval == Pace!query_interval = query_interval
  BY DEF Pace!query_interval, query_interval

\* The initial state satisfies the inductive invariant.
LEMMA PacingInit == Pace!Init => PacingInv
  <1> SUFFICES ASSUME Pace!Init PROVE PacingInv
    OBVIOUS
  <1>1. lastRow \in BOOLEAN
    BY Zenon DEF Pace!Init
  <1>2. Pace!TypeOK /\ PacingCounter
    BY <1>1, SameInterval, IntervalBounds, NumEdgesAssumption, StatusAssumption
       DEF Pace!Init, Pace!TypeOK, PacingCounter
  <1>3. QueryDrift
    BY IntervalBounds DEF Pace!Init, QueryDrift
  <1> QED BY <1>2, <1>3 DEF PacingInv

\* Every step of the loop preserves the inductive invariant.
LEMMA PacingNext == PacingInv /\ [Pace!Next]_(Pace!vars) => PacingInv'
  <1> SUFFICES ASSUME PacingInv, [Pace!Next]_(Pace!vars) PROVE PacingInv'
    OBVIOUS
  <1> USE SameInterval, IntervalBounds, NumEdgesAssumption, StatusAssumption
  <1> USE DEF PacingInv, Pace!TypeOK, PacingCounter
  <1>1. CASE Pace!StatusCheck
    BY <1>1 DEF Pace!StatusCheck, QueryDrift
  <1>2. CASE Pace!Timeout
    BY <1>2 DEF Pace!Timeout, QueryDrift
  <1>3. CASE Pace!Query
    <2>1. log_count = query_interval
      BY <1>3 DEF Pace!Query
    <2>2. (rows + 1) * (query_interval + 1) = rows * (query_interval + 1) + query_interval + 1
      BY <1>3
    <2>3. QueryDrift'
      BY <1>3, <2>1, <2>2 DEF Pace!Query, QueryDrift
    <2> QED BY <1>3, <2>3 DEF Pace!Query
  <1>4. CASE Pace!NoQuery
    BY <1>4 DEF Pace!NoQuery, QueryDrift
  <1>5. CASE Pace!MakeUpdate
    BY <1>5 DEF Pace!MakeUpdate, QueryDrift
  <1>6. CASE Pace!LoopEnds
    BY <1>6 DEF Pace!LoopEnds, QueryDrift
  <1>7. CASE Pace!LastQuery
    BY <1>7 DEF Pace!LastQuery, QueryDrift
  <1>8. CASE Pace!Done \/ UNCHANGED Pace!vars
    BY <1>8 DEF Pace!Done, Pace!vars, QueryDrift
  <1> QED
    BY <1>1, <1>2, <1>3, <1>4, <1>5, <1>6, <1>7, <1>8 DEF Pace!Next

\* The inductive invariant holds throughout.
THEOREM PacingInvariance == Pace!Spec => []PacingInv
  BY PacingInit, PacingNext, PTL DEF Pace!Spec

\* The k-th query is made after exactly k intervals and k - 1 more updates, for
\* every stream length and number of queries.
THEOREM DriftCorrect == Pace!Spec => []QueryDrift
  <1>1. PacingInv => QueryDrift
    BY DEF PacingInv
  <1> QED BY <1>1, PacingInvariance, PTL

\* The total from which the rate is computed is the number of updates made.
THEOREM RateCorrect == Pace!Spec => []RateCountsUpdates
  <1>1. PacingInv => RateCountsUpdates
    BY DEF PacingInv, Pace!TypeOK, PacingCounter, RateCountsUpdates
  <1> QED BY <1>1, PacingInvariance, PTL

\* A whole stream of at least Queries * Queries updates gets every query it was
\* asked for.
THEOREM QueriesCorrect == Pace!Spec => []QueriesMade
  <1>1. ASSUME PacingInv, pc = "done", num_updates = NumEdges,
               Queries * Queries <= NumEdges
        PROVE  rows + 1 = Queries
    <2> DEFINE q == query_interval
    <2>1. /\ q \in Nat /\ rows \in Nat /\ log_count \in 0 .. q
          /\ Queries \in Nat \ {0} /\ NumEdges \in Nat
          /\ rows * (q + 1) + log_count = NumEdges
      BY <1>1, SameInterval, IntervalBounds, QueriesAssumption, NumEdgesAssumption
         DEF PacingInv, Pace!TypeOK, PacingCounter, QueryDrift
    <2> HIDE DEF q
    <2>2. Queries * q <= NumEdges /\ NumEdges < Queries * (q + 1)
      BY IntervalBounds DEF q
    <2>3. rows < Queries
      <3> SUFFICES ASSUME rows >= Queries PROVE FALSE
        BY <2>1
      <3>1. rows * (q + 1) >= Queries * (q + 1)
        BY <2>1
      <3> QED BY <2>1, <2>2, <3>1
    <2>4. q + 1 > Queries
      <3> SUFFICES ASSUME q + 1 <= Queries PROVE FALSE
        BY <2>1
      <3>1. Queries * (q + 1) <= Queries * Queries
        BY <2>1
      <3> QED BY <1>1, <2>1, <2>2, <3>1
    <2>5. rows >= Queries - 1
      <3> SUFFICES ASSUME rows + 2 <= Queries PROVE FALSE
        BY <2>1
      <3>1. (rows + 2) * (q + 1) <= Queries * (q + 1)
        BY <2>1
      <3>2. (rows + 2) * (q + 1) = rows * (q + 1) + 2 * q + 2
        BY <2>1
      <3>3. Queries * (q + 1) = Queries * q + Queries
        BY <2>1
      <3> QED BY <2>1, <2>2, <2>4, <3>1, <3>2, <3>3
    <2> QED BY <2>1, <2>3, <2>5
  <1>2. PacingInv => QueriesMade
    BY <1>1 DEF QueriesMade
  <1> QED BY <1>2, PacingInvariance, PTL

-----------------------------------------------------------------------------
(* The Aspen driver's loop is that loop: each of its steps is one of       *)
(* QueryPacing's, except that the flush, which QueryPacing makes together  *)
(* with the last query, changes nothing there, and the exit that an empty  *)
(* batch causes leaves QueryPacing before that query for good.             *)

\* The initial states are QueryPacing's.
LEMMA RefinesInit == Init => Pacing!Init
  BY DEF Init, Pacing!Init

\* Every step is a step of QueryPacing or a stutter.
LEMMA RefinesNext == AspenInv /\ [Next]_vars => [Pacing!Next]_(Pacing!vars)
  <1> SUFFICES ASSUME AspenInv, [Next]_vars
               PROVE  Pacing!Next \/ UNCHANGED Pacing!vars
    OBVIOUS
  <1>1. CASE StatusCheck
    <2>1. Pacing!StatusCheck
      BY <1>1 DEF StatusCheck, Pacing!StatusCheck
    <2> QED BY <2>1 DEF Pacing!Next
  <1>2. CASE Timeout
    <2>1. Pacing!Timeout
      BY <1>2 DEF Timeout, Pacing!Timeout
    <2> QED BY <2>1 DEF Pacing!Next
  <1>3. CASE Query
    <2>1. Pacing!Query
      BY <1>3 DEF Query, Pacing!Query, query_interval, Pacing!query_interval
    <2> QED BY <2>1 DEF Pacing!Next
  <1>4. CASE NoQuery
    <2>1. Pacing!NoQuery
      BY <1>4 DEF NoQuery, Pacing!NoQuery, query_interval, Pacing!query_interval
    <2> QED BY <2>1 DEF Pacing!Next
  <1>5. CASE GetEdge
    <2>1. /\ pc = "update" /\ pc' = "loop" /\ i' = i + 1
          /\ UNCHANGED <<num_updates, status_idx, log_count, rows, lastRow>>
      BY <1>5 DEF GetEdge, Buffer
    <2>2. Pacing!MakeUpdate
      BY <2>1 DEF Pacing!MakeUpdate
    <2> QED BY <2>2 DEF Pacing!Next
  <1>6. CASE GetEdgeFalse
    <2>1. /\ pc = "update" /\ pc' = "loop" /\ i' = i + 1
          /\ UNCHANGED <<num_updates, status_idx, log_count, rows, lastRow>>
      BY <1>6 DEF GetEdgeFalse, Buffer
    <2>2. Pacing!MakeUpdate
      BY <2>1 DEF Pacing!MakeUpdate
    <2> QED BY <2>2 DEF Pacing!Next
  <1>7. CASE LoopEnds
    <2>1. i >= num_updates
      BY <1>7 DEF LoopEnds, AspenInv, TypeOK
    <2>2. Pacing!LoopEnds
      BY <1>7, <2>1 DEF LoopEnds, Pacing!LoopEnds
    <2> QED BY <2>2 DEF Pacing!Next
  <1>8. CASE Flush
    BY <1>8 DEF Flush, Pacing!vars
  <1>11. CASE FlushExits
    BY <1>11 DEF FlushExits, Pacing!vars
  <1>9. CASE LastQuery
    <2>1. Pacing!LastQuery
      BY <1>9 DEF LastQuery, Pacing!LastQuery
    <2> QED BY <2>1 DEF Pacing!Next
  <1>10. CASE UNCHANGED vars
    BY <1>10 DEF vars, Pacing!vars
  <1> QED
    BY <1>1, <1>2, <1>3, <1>4, <1>5, <1>6, <1>7, <1>8, <1>9, <1>10, <1>11 DEF Next, Done

\* The Aspen driver looks at the clock, counts and queries as QueryPacing does,
\* whatever the updates, the batches and the end of the file are.
THEOREM AspenFollowsPacing == Spec => FollowsPacing
  <1>1. Init => Pacing!Init
    BY RefinesInit
  <1>2. AspenInv /\ [Next]_vars => [Pacing!Next]_(Pacing!vars)
    BY RefinesNext
  <1> QED BY <1>1, <1>2, AspenInvariance, PTL DEF Spec, FollowsPacing, Pacing!Spec
=============================================================================
