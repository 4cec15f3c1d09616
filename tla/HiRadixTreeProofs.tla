------------------------- MODULE HiRadixTreeProofs --------------------------
(***************************************************************************)
(* Facts about prefixes, allocation and cardinality that all proofs rest   *)
(* on, and what splits, insertions, evictions and demotions do to the      *)
(* shape of the radix tree and to its two tiers.  The latter are about any *)
(* set N of nodes and any set S of pages, so that they apply to the tree   *)
(* before a step and to the tree after it.                                 *)
(*                                                                         *)
(* Then how lock_ref is counted, and what taking, moving and releasing a   *)
(* lock does to the counts.                                                *)
(***************************************************************************)
EXTENDS HiRadixInvariant, TLAPS

-----------------------------------------------------------------------------
(* Prefixes.                                                               *)

\* The prefixes of a path are pages.
LEMMA AncType ==
  ASSUME NEW q \in Paths \cup {Root}
  PROVE  Anc[q] \in SUBSET Paths
BY PathsAssumption, Zenon

\* The prefixes of a path form a chain: every set of them has a longest and a
\* shortest element.
LEMMA Chain ==
  ASSUME NEW x \in Paths, NEW T \in SUBSET Anc[x], T # {}
  PROVE  /\ \E y \in T : T \subseteq Anc[y]
         /\ \E y \in T : \A z \in T : y \in Anc[z]
<1>1. \A p \in Paths : \A S \in SUBSET Anc[p] :
          S # {} => /\ \E q \in S : S \subseteq Anc[q]
                    /\ \E q \in S : \A s \in S : q \in Anc[s]
  BY PathsAssumption, Zenon
<1>2. \A S \in SUBSET Anc[x] :
          S # {} => /\ \E q \in S : S \subseteq Anc[q]
                    /\ \E q \in S : \A s \in S : q \in Anc[s]
  BY <1>1, Zenon
<1>3. T # {} => /\ \E q \in T : T \subseteq Anc[q]
                /\ \E q \in T : \A s \in T : q \in Anc[s]
  BY <1>2, Zenon
<1> QED
  BY <1>3, Zenon

\* Deepest really returns the longest of a set of prefixes of one path.
LEMMA DeepestOf ==
  ASSUME NEW q \in Paths \cup {Root}, NEW S \in SUBSET Anc[q]
  PROVE  /\ Deepest(S) \in Paths \cup {Root}
         /\ S = {} => Deepest(S) = Root
         /\ S # {} => Deepest(S) \in S /\ S \subseteq Anc[Deepest(S)]
<1>1. CASE S = {}
  BY <1>1, Zenon DEF Deepest
<1>2. CASE S # {}
  <2>1. q \in Paths
    BY <1>2, PathsAssumption, Zenon
  <2>2. \E p \in S : S \subseteq Anc[p]
    BY <1>2, <2>1, Chain
  <2>3. Deepest(S) \in S /\ S \subseteq Anc[Deepest(S)]
    BY <1>2, <2>2, Zenon DEF Deepest
  <2> QED
    BY <2>3, AncType, <1>2, Zenon
<1> QED
  BY <1>1, <1>2, Zenon

\* Two prefixes of one path are comparable.
LEMMA Comparable ==
  ASSUME NEW x \in Paths, NEW a \in Anc[x], NEW b \in Anc[x]
  PROVE  a \in Anc[b] \/ b \in Anc[a]
<1> DEFINE T == {a, b}
<1>1. T \in SUBSET Anc[x] /\ T # {}
  BY Zenon
<1> HIDE DEF T
<1>2. \E y \in T : T \subseteq Anc[y]
  BY <1>1, Chain
<1> QED
  BY <1>2, Zenon DEF T

\* The resident prefix of a key is one of its prefixes.
LEMMA DevMatchedOf ==
  ASSUME NEW q \in Paths \cup {Root}
  PROVE  DevMatched(q) \in Anc[q] \cup {Root}
<1>1. OnDevice(Anc[q]) \in SUBSET Anc[q]
  BY Zenon DEF OnDevice
<1> QED
  BY <1>1, DeepestOf, Zenon DEF DevMatched

\* A request that has not reached its last page has a next one.
LEMMA Next1Of ==
  ASSUME NEW r, Full(r) \in Paths, fill[r] \in Anc[Full(r)], fill[r] # Full(r)
  PROVE  /\ Next1(r) \in Anc[Full(r)] \ Anc[fill[r]]
         /\ fill[r] \in Anc[Next1(r)]
         /\ Anc[Next1(r)] \subseteq Anc[fill[r]] \cup {Next1(r)}
<1> DEFINE S == Anc[Full(r)] \ Anc[fill[r]]
<1>1. Full(r) \in Anc[Full(r)] /\ fill[r] \in Paths /\ fill[r] \in Anc[fill[r]]
  BY PathsAssumption, Zenon
<1>2. Full(r) \in S
  BY <1>1, PathsAssumption, Zenon
<1>3. S \in SUBSET Anc[Full(r)] /\ S # {}
  BY <1>2, Zenon
<1> HIDE DEF S
<1>4. \E y \in S : \A z \in S : y \in Anc[z]
  BY <1>3, Chain
<1> USE DEF S
<1>5. Next1(r) \in S /\ \A z \in S : Next1(r) \in Anc[z]
  BY <1>4, Zenon DEF Next1
<1>6. fill[r] \in Anc[Next1(r)] \/ Next1(r) \in Anc[fill[r]]
  BY <1>5, Comparable, Zenon
<1>7. ASSUME NEW q \in Anc[Next1(r)], q \notin Anc[fill[r]]
      PROVE  q = Next1(r)
  <2>1. q \in S /\ Next1(r) \in Paths /\ q \in Paths
    BY <1>5, <1>7, PathsAssumption, Zenon
  <2> QED
    BY <1>5, <2>1, PathsAssumption, Zenon
<1> QED
  BY <1>5, <1>6, <1>7, Zenon

\* A node's parent, its pages and what a key matches have the right type.
LEMMA TreeTypes ==
  ASSUME nodes \subseteq Paths
  PROVE  /\ \A n \in Paths : Parent(n) \in Paths \cup {Root}
         /\ \A n \in Paths : Seg(n) \in SUBSET Paths
         /\ \A N \in SUBSET Paths : Pages(N) \in SUBSET Paths
         /\ \A q \in Paths \cup {Root} :
               Matched(q) \in Paths \cup {Root}
               /\ DevMatched(q) \in Paths \cup {Root}
<1>1. ASSUME NEW n \in Paths
      PROVE  Parent(n) \in Paths \cup {Root}
  <2>1. {m \in nodes : m \in Anc[n] \ {n}} \in SUBSET Anc[n]
    BY Zenon
  <2> QED
    BY <2>1, DeepestOf, Zenon DEF Parent
<1>2. \A n \in Paths : Seg(n) \in SUBSET Paths
  BY AncType, Zenon DEF Seg
<1>3. \A N \in SUBSET Paths : Pages(N) \in SUBSET Paths
  BY <1>2, Zenon DEF Pages
<1>4. ASSUME NEW q \in Paths \cup {Root}
      PROVE  /\ Matched(q) \in Paths \cup {Root}
             /\ DevMatched(q) \in Paths \cup {Root}
  <2>1. Anc[q] \cap Tree \in SUBSET Anc[q] /\ OnDevice(Anc[q]) \in SUBSET Anc[q]
    BY Zenon DEF OnDevice
  <2> QED
    BY <2>1, DeepestOf, Zenon DEF Matched, DevMatched
<1> QED
  BY <1>1, <1>2, <1>3, <1>4, Zenon

-----------------------------------------------------------------------------
(* Counting and allocating.                                                *)

\* Sets of prefixes, of requests and of device pages have a size.
LEMMA CardType ==
  ASSUME Counting
  PROVE  /\ \A S \in SUBSET Paths : Cardinality(S) \in Nat
         /\ \A S \in SUBSET Reqs : Cardinality(S) \in Nat
         /\ \A S \in SUBSET DevPages : Cardinality(S) \in Nat
BY Zenon DEF Counting, Counted

\* The control invariant carries the sizes.
LEMMA ControlCounts == Control => Counting
BY Zenon DEF Control

\* Enough free pages can be handed out, one for each item.
LEMMA AllocType ==
  ASSUME NEW S, Counted(S), free \subseteq DevPages,
         Cardinality(S) <= Cardinality(free)
  PROVE  /\ Alloc(S) \in [S -> free]
         /\ \A a, b \in S : Alloc(S)[a] = Alloc(S)[b] => a = b
<1>1. Alloc(S) \in Injection(S, free)
  BY Zenon DEF Alloc, Counted
<1> QED
  BY <1>1, Zenon DEF Injection, IsInjective

-----------------------------------------------------------------------------
(* The shape of the tree.                                                  *)

\* No node of N lies below one of D without being in D.
Lowest(N, D) == \A x \in D, y \in N : x \in Anc[y] => y \in D

\* Seg of the model is SegIn.
LEMMA SegIs ==
  ASSUME NEW N \in SUBSET Paths, NEW n \in Paths
  PROVE  Anc[n] \ Anc[Deepest({m \in N : m \in Anc[n] \ {n}})] = SegIn(N, n)
<1> DEFINE D == {m \in N : m \in Anc[n] \ {n}}
           d == Deepest(D)
<1>1. D \in SUBSET Anc[n]
  BY Zenon
<1> HIDE DEF D
<1>2. CASE D = {}
  <2>1. d = Root
    BY <1>1, <1>2, DeepestOf, Zenon
  <2> QED
    BY <1>2, <2>1, PathsAssumption, Zenon DEF SegIn, D
<1>3. CASE D # {}
  <2>1. d \in D /\ D \subseteq Anc[d]
    BY <1>1, <1>3, DeepestOf, Zenon
  <2> HIDE DEF d
  <2>2. \A m \in D : Anc[m] \subseteq Anc[d]
    BY <2>1, PathsAssumption, Zenon DEF D
  <2>3. Anc[n] \ Anc[d] = SegIn(N, n)
    BY <2>1, <2>2, Zenon DEF SegIn, D
  <2> QED
    BY <2>3, Zenon DEF d, D
<1> QED
  BY <1>2, <1>3, Zenon

\* Every page of the tree belongs to a node.
LEMMA Owner ==
  ASSUME NEW N \in SUBSET Paths, NEW n \in N, NEW p \in Anc[n]
  PROVE  \E m \in N : p \in SegIn(N, m) /\ m \in Anc[n]
<1> DEFINE T == {m \in N : m \in Anc[n] /\ p \in Anc[m]}
<1>1. T \in SUBSET Anc[n] /\ T # {}
  BY PathsAssumption, Zenon
<1> HIDE DEF T
<1>2. PICK y \in T : \A z \in T : y \in Anc[z]
  BY <1>1, Chain
<1>3. \A m \in Anc[y] : m \in Anc[n]
  BY <1>2, PathsAssumption, Zenon DEF T
<1>4. \A m \in N : m \in Anc[y] /\ m # y => p \notin Anc[m]
  BY <1>2, <1>3, PathsAssumption, Zenon DEF T
<1> QED
  BY <1>2, <1>4, Zenon DEF SegIn, T

\* A node holds no other node's end.
LEMMA OneInSeg ==
  ASSUME NEW N \in SUBSET Paths, NEW n \in N, NEW m \in N, m \in SegIn(N, n)
  PROVE  m = n
BY PathsAssumption, Zenon DEF SegIn

\* In a radix tree no page belongs to two nodes.
LEMMA SameOwner ==
  ASSUME NEW N \in SUBSET Paths, Shape(N), NEW n \in N, NEW m \in N,
         NEW p, p \in SegIn(N, n), p \in SegIn(N, m)
  PROVE  n = m
BY PathsAssumption, Zenon DEF SegIn, Shape

-----------------------------------------------------------------------------
(* The shape of the tree.                                                  *)

\* Deleting nodes from below leaves the others as they are.
LEMMA ShapeRemove ==
  ASSUME NEW N \in SUBSET Paths, Shape(N), NEW D, Lowest(N, D)
  PROVE  /\ \A n \in N \ D : SegIn(N \ D, n) = SegIn(N, n)
         /\ Shape(N \ D)
<1>1. ASSUME NEW n \in N \ D
      PROVE  SegIn(N \ D, n) = SegIn(N, n)
  BY Zenon DEF SegIn, Lowest
<1> QED
  BY <1>1, Zenon DEF Shape

\* Splitting a node at a page of it.
LEMMA ShapeSplit ==
  ASSUME NEW N \in SUBSET Paths, Shape(N), NEW c \in N, NEW x \in Anc[c]
  PROVE  Shape(N \cup {x})
<1> DEFINE M == N \cup {x}
<1>1. PICK o \in N : x \in SegIn(N, o) /\ o \in Anc[c]
  BY Owner, Zenon
<1>2. x \in Paths /\ o \in Paths /\ x \in Anc[o]
  BY <1>1, PathsAssumption, Zenon DEF SegIn
<1>3. \A n \in N : SegIn(M, n) \subseteq SegIn(N, n)
  BY Zenon DEF SegIn
<1>4. ASSUME NEW n \in N, NEW p \in SegIn(M, n), p \in Anc[x]
      PROVE  n \in Anc[x]
  <2>1. p \in Anc[o] /\ n \in Paths
    BY <1>2, <1>4, PathsAssumption, Zenon
  <2>2. n \in Anc[o]
    BY <1>1, <1>3, <1>4, <2>1, Zenon DEF Shape
  <2>3. n \in Anc[x] \/ x \in Anc[n]
    BY <1>2, <2>2, Comparable, Zenon
  <2>4. CASE x \in Anc[n] /\ x # n
    BY <1>4, <2>4, Zenon DEF SegIn
  <2> QED
    BY <2>3, <2>4, <2>1, PathsAssumption, Zenon
<1>5. ASSUME NEW m \in N, NEW p \in SegIn(M, x), p \in Anc[m]
      PROVE  x \in Anc[m]
  <2>1. p \in SegIn(N, o)
    <3>1. p \in Anc[x] /\ p \in Anc[o]
      BY <1>2, <1>5, PathsAssumption, Zenon DEF SegIn
    <3>2. ASSUME NEW k \in N, k \in Anc[o], k # o, p \in Anc[k]
          PROVE  FALSE
      <4>1. k \in Anc[x] \/ x \in Anc[k]
        BY <1>2, <3>2, Comparable, Zenon
      <4>2. x \notin Anc[k]
        BY <1>1, <3>2, Zenon DEF SegIn
      <4>3. k # x
        BY <4>2, <1>2, PathsAssumption, Zenon
      <4> QED
        BY <1>5, <3>2, <4>1, <4>2, <4>3, Zenon DEF SegIn
    <3> QED
      BY <3>1, <3>2, Zenon DEF SegIn
  <2>2. o \in Anc[m]
    BY <1>1, <1>5, <2>1, Zenon DEF Shape
  <2> QED
    BY <1>2, <2>2, PathsAssumption, Zenon
<1>6. ASSUME NEW n \in N, NEW m \in N, NEW p \in SegIn(M, n), p \in Anc[m]
      PROVE  n \in Anc[m]
  BY <1>3, <1>6, Zenon DEF Shape
<1>7. ASSUME NEW n \in M, NEW m \in M, NEW p \in SegIn(M, n), p \in Anc[m]
      PROVE  n \in Anc[m]
  <2>1. x \in Anc[x]
    BY <1>2, PathsAssumption, Zenon
  <2> QED
    BY <1>4, <1>5, <1>6, <1>7, <2>1, Zenon
<1> QED
  BY <1>7, Zenon DEF Shape

\* Adding a node for a key below the longest cached prefix x of the key.
LEMMA ShapeFresh ==
  ASSUME NEW N \in SUBSET Paths, Shape(N), NEW key \in Paths,
         NEW x \in N \cup {Root}, x = Root \/ x \in Anc[key],
         \A n \in N : \A p \in Anc[n] : p \in Anc[key] => p \in Anc[x]
  PROVE  Shape(N \cup {key})
<1> DEFINE M == N \cup {key}
<1>1. CASE key \in Anc[x]
  <2>1. x \in N /\ N \cup {key} = N
    BY <1>1, PathsAssumption
  <2> QED
    BY <2>1, Zenon
<1>2. CASE key \notin Anc[x]
  <2>1. \A n \in N : key \notin Anc[n]
    BY <1>2, PathsAssumption, Zenon
  <2>2. \A n \in N : SegIn(M, n) = SegIn(N, n)
    BY <2>1, Zenon DEF SegIn
  <2>3. ASSUME NEW n \in N, NEW p \in SegIn(N, n), p \in Anc[key]
        PROVE  n \in Anc[key]
    <3>1. p \in Anc[x]
      BY <2>3, Zenon DEF SegIn
    <3>2. x \in N /\ x \in Anc[key]
      BY <3>1, PathsAssumption, Zenon
    <3>3. n \in Anc[x]
      BY <3>1, <3>2, Zenon DEF Shape
    <3> QED
      BY <3>2, <3>3, PathsAssumption, Zenon
  <2>4. ASSUME NEW m \in N, NEW p \in SegIn(M, key), p \in Anc[m]
        PROVE  FALSE
    <3>1. p \in Anc[x]
      BY <2>4, Zenon DEF SegIn
    <3>2. x \in N /\ x \in Anc[key] /\ x # key
      BY <3>1, <2>1, PathsAssumption, Zenon
    <3> QED
      BY <2>4, <3>1, <3>2, Zenon DEF SegIn
  <2>5. ASSUME NEW n \in M, NEW m \in M, NEW p \in SegIn(M, n), p \in Anc[m]
        PROVE  n \in Anc[m]
    <3>1. CASE n \in N /\ m \in N
      BY <2>2, <2>5, <3>1, Zenon DEF Shape
    <3>2. CASE n \in N /\ m = key
      BY <2>2, <2>3, <2>5, <3>2, Zenon
    <3>3. CASE n = key /\ m \in N
      BY <2>4, <2>5, <3>3, Zenon
    <3>4. CASE n = key /\ m = key
      BY <3>4, PathsAssumption, Zenon
    <3> QED
      BY <3>1, <3>2, <3>3, <3>4, Zenon
  <2> QED
    BY <2>5, Zenon DEF Shape
<1> QED
  BY <1>1, <1>2, Zenon

-----------------------------------------------------------------------------
(* Tiers.                                                                  *)

\* A tier holds every prefix of a page it holds.
LEMMA WholeClosed ==
  ASSUME NEW N \in SUBSET Paths, NEW S \in SUBSET Paths, Whole(N, S),
         NEW p \in S
  PROVE  Anc[p] \subseteq S
<1>1. PICK n \in N : n \in S /\ p \in Anc[n]
  BY Zenon DEF Whole
<1>2. Anc[p] \subseteq Anc[n] /\ Anc[n] \subseteq Paths
  BY <1>1, PathsAssumption, Zenon
<1> QED
  BY <1>1, <1>2, Zenon DEF Whole

\* A tier that holds a page of a node holds the node.
LEMMA WholeSeg ==
  ASSUME NEW N \in SUBSET Paths, Shape(N), NEW S \in SUBSET Paths, Whole(N, S),
         NEW n \in N, NEW p \in SegIn(N, n), p \in S
  PROVE  n \in S
<1>1. PICK m \in N : m \in S /\ p \in Anc[m]
  BY Zenon DEF Whole
<1>2. n \in Anc[m]
  BY <1>1, Zenon DEF Shape
<1> QED
  BY <1>1, <1>2, WholeClosed, Zenon

\* Taking nodes out of a tier from below leaves a tier.
LEMMA WholeRemove ==
  ASSUME NEW N \in SUBSET Paths, Shape(N), NEW S \in SUBSET Paths, Whole(N, S),
         NEW D \in SUBSET N, Lowest(N \cap S, D)
  PROVE  Whole(N, S \ UNION {SegIn(N, n) : n \in D})
<1> DEFINE P == UNION {SegIn(N, n) : n \in D}
<1>1. \A m \in N : m \in P => m \in D
  BY OneInSeg
<1>2. ASSUME NEW p \in Paths, p \in S \ P
      PROVE  \E n \in N : n \in S \ P /\ p \in Anc[n]
  <2>1. PICK n \in N : n \in S /\ p \in Anc[n]
    BY <1>2, Zenon DEF Whole
  <2>2. PICK m \in N : p \in SegIn(N, m) /\ m \in Anc[n]
    BY <2>1, Owner, Zenon
  <2>3. m \in S
    BY <2>1, <2>2, WholeClosed, Zenon
  <2>4. m \notin P
    BY <1>1, <1>2, <2>2, Zenon
  <2> QED
    BY <2>2, <2>3, <2>4, Zenon DEF SegIn
<1>3. ASSUME NEW p \in Paths, NEW n \in N, n \in S \ P, p \in Anc[n]
      PROVE  p \in S \ P
  <2>1. p \in S
    BY <1>3, WholeClosed, Zenon
  <2>2. ASSUME NEW d \in D, p \in SegIn(N, d)
        PROVE  FALSE
    <3>1. d \in Anc[n]
      BY <1>3, <2>2, Zenon DEF Shape
    <3>2. n \in D
      BY <1>3, <3>1, Zenon DEF Lowest
    <3>3. n \in SegIn(N, n)
      BY PathsAssumption, Zenon DEF SegIn
    <3> QED
      BY <1>3, <3>2, <3>3, Zenon
  <2> QED
    BY <2>1, <2>2, Zenon
<1> QED
  BY <1>2, <1>3, Zenon DEF Whole

\* A tier stays one when a node is added to the tree.
LEMMA WholeNode ==
  ASSUME NEW N \in SUBSET Paths, NEW S \in SUBSET Paths, Whole(N, S),
         NEW x \in Paths
  PROVE  Whole(N \cup {x}, S)
<1>1. x \in S => Anc[x] \subseteq S
  BY WholeClosed, Zenon
<1> QED
  BY <1>1, Zenon DEF Whole

\* Bringing the path to a node into a tier.
LEMMA WholeGrow ==
  ASSUME NEW N \in SUBSET Paths, NEW S \in SUBSET Paths, Whole(N, S),
         NEW k \in N
  PROVE  Whole(N, S \cup Anc[k])
<1>1. \A n \in N : n \in Anc[k] => Anc[n] \subseteq Anc[k]
  BY PathsAssumption, Zenon
<1>2. k \in Anc[k]
  BY PathsAssumption, Zenon
<1> QED
  BY <1>1, <1>2, Zenon DEF Whole

\* Deleting nodes that are not in the tier.
LEMMA WholeDelete ==
  ASSUME NEW N \in SUBSET Paths, NEW S \in SUBSET Paths, Whole(N, S),
         NEW D, D \cap S = {}
  PROVE  Whole(N \ D, S)
BY Zenon DEF Whole

-----------------------------------------------------------------------------
(* Matching a key.                                                         *)

TreeIn(N) == UNION {Anc[n] : n \in N}

\* The longest prefix of a key in a closed set of pages ends where the set
\* does.
LEMMA MatchedOf ==
  ASSUME NEW key \in Paths \cup {Root}, NEW S \in SUBSET Paths,
         \A p \in S : Anc[p] \subseteq S
  PROVE  LET m == Deepest(Anc[key] \cap S)
         IN  /\ m \in Anc[key] \cup {Root}
             /\ Anc[m] = Anc[key] \cap S
             /\ m # Root => m \in S
<1> DEFINE T == Anc[key] \cap S
           m == Deepest(T)
<1>1. T \in SUBSET Anc[key]
  BY Zenon
<1>2. CASE T = {}
  BY <1>1, <1>2, DeepestOf, PathsAssumption, Zenon
<1>3. CASE T # {}
  <2>1. m \in T /\ T \subseteq Anc[m]
    <3> HIDE DEF T
    <3> QED
      BY <1>1, <1>3, DeepestOf, Zenon
  <2> HIDE DEF m
  <2>2. key \in Paths
    BY <1>3, PathsAssumption, Zenon
  <2>3. Anc[m] \subseteq Anc[key] /\ Anc[m] \subseteq S
    BY <2>1, <2>2, PathsAssumption, Zenon
  <2>4. Anc[m] = T
    BY <2>1, <2>3, Zenon
  <2> QED
    BY <2>1, <2>4, Zenon DEF m
<1> QED
  BY <1>2, <1>3, Zenon

\* The pages of the tree are closed under prefixes.
LEMMA TreeClosed ==
  ASSUME NEW N \in SUBSET Paths
  PROVE  /\ TreeIn(N) \in SUBSET Paths
         /\ \A p \in TreeIn(N) : Anc[p] \subseteq TreeIn(N)
<1>1. TreeIn(N) \in SUBSET Paths
  BY PathsAssumption DEF TreeIn
<1>2. ASSUME NEW n \in N, NEW p \in Anc[n]
      PROVE  Anc[p] \subseteq Anc[n]
  BY PathsAssumption, Zenon
<1> QED
  BY <1>1, <1>2, Zenon DEF TreeIn

\* When the match of a key ends at a node, so does its match within a tier.
LEMMA TierMatch ==
  ASSUME NEW N \in SUBSET Paths, Shape(N), NEW S \in SUBSET Paths, Whole(N, S),
         NEW key \in Paths \cup {Root},
         Deepest(Anc[key] \cap TreeIn(N)) \in N \cup {Root}
  PROVE  Deepest(Anc[key] \cap S) \in N \cup {Root}
<1> DEFINE m == Deepest(Anc[key] \cap TreeIn(N))
           d == Deepest(Anc[key] \cap S)
<1>1. Anc[m] = Anc[key] \cap TreeIn(N)
  BY TreeClosed, MatchedOf, Zenon
<1>2. /\ d \in Anc[key] \cup {Root} /\ Anc[d] = Anc[key] \cap S
      /\ d # Root => d \in S
  BY WholeClosed, MatchedOf, Zenon
<1>3. m \in N \cup {Root}
  BY Zenon
<1> HIDE DEF m, d
<1>4. ASSUME d # Root
      PROVE  d \in N
  <2>1. PICK n \in N : n \in S /\ d \in Anc[n]
    BY <1>2, <1>4, Zenon DEF Whole
  <2>2. PICK o \in N : d \in SegIn(N, o) /\ o \in Anc[n]
    BY <2>1, Owner, Zenon
  <2>3. o \in S
    BY <2>1, <2>2, WholeClosed, Zenon
  <2>4. d \in Anc[m]
    BY <1>1, <1>2, <1>4, <2>1, Zenon DEF TreeIn
  <2>5. m \in N
    BY <1>3, <2>4, PathsAssumption, Zenon
  <2>6. o \in Anc[m]
    BY <2>2, <2>4, <2>5, Zenon DEF Shape
  <2>7. o \in Anc[d]
    BY <1>1, <1>2, <2>3, <2>6, Zenon
  <2>8. d \in Anc[o] /\ o \in Paths /\ d \in Paths
    BY <1>2, <1>4, <2>2, Zenon DEF SegIn
  <2> QED
    BY <2>7, <2>8, <2>2, PathsAssumption, Zenon
<1> QED
  BY <1>4, Zenon DEF d

\* Deleting nodes from below does not make the match of a key end inside a
\* node.
LEMMA MatchRemove ==
  ASSUME NEW N \in SUBSET Paths, Shape(N), NEW D, Lowest(N, D),
         NEW key \in Paths \cup {Root},
         Deepest(Anc[key] \cap TreeIn(N)) \in N \cup {Root}
  PROVE  Deepest(Anc[key] \cap TreeIn(N \ D)) \in (N \ D) \cup {Root}
<1> DEFINE T == TreeIn(N \ D)
<1>1. T \in SUBSET Paths /\ \A p \in T : Anc[p] \subseteq T
  BY TreeClosed, Zenon
<1>2. Whole(N, T)
  <2>1. ASSUME NEW p \in T
        PROVE  \E n \in N : n \in T /\ p \in Anc[n]
    BY PathsAssumption DEF TreeIn
  <2> QED
    BY <1>1, <2>1, Zenon DEF Whole
<1>3. \A n \in N : n \in T => n \in N \ D
  BY Zenon DEF Lowest, TreeIn
<1> HIDE DEF T
<1>4. Deepest(Anc[key] \cap T) \in N \cup {Root}
  BY <1>1, <1>2, TierMatch, Zenon
<1>5. Deepest(Anc[key] \cap T) # Root => Deepest(Anc[key] \cap T) \in T
  BY <1>1, MatchedOf, Zenon
<1>6. Deepest(Anc[key] \cap T) \in (N \ D) \cup {Root}
  BY <1>3, <1>4, <1>5, Zenon
<1> QED
  BY <1>6, Zenon DEF T

-----------------------------------------------------------------------------
(* Counting locks.                                                         *)

\* One more transfer.
LEMMA CountAdd ==
  ASSUME Counting, NEW W \in SUBSET Paths, NEW x \in Paths, x \notin W, NEW p
  PROVE  Cardinality(Below(W \cup {x}, p))
         = Cardinality(Below(W, p)) + (IF p \in Anc[x] THEN 1 ELSE 0)
<1>1. Counted(Below(W, p)) /\ Cardinality(Below(W, p)) \in Nat
  BY Zenon DEF Below, Counting, Counted
<1>2. CASE p \in Anc[x]
  <2>1. Below(W \cup {x}, p) = Below(W, p) \cup {x} /\ x \notin Below(W, p)
    BY <1>2, Zenon DEF Below
  <2>2. Cardinality(Below(W, p) \cup {x}) = Cardinality(Below(W, p)) + 1
    BY <1>1, <2>1, Zenon DEF Counted
  <2>3. Cardinality(Below(W \cup {x}, p)) = Cardinality(Below(W, p)) + 1
    BY <2>1, <2>2, Zenon
  <2> QED
    BY <1>2, <2>3, Zenon
<1>3. CASE p \notin Anc[x]
  <2>1. Below(W \cup {x}, p) = Below(W, p)
    BY <1>3, Zenon DEF Below
  <2>2. PICK k : k = Cardinality(Below(W, p))
    BY Zenon
  <2>3. k \in Nat /\ Cardinality(Below(W \cup {x}, p)) = k
    BY <1>1, <2>1, <2>2, Zenon
  <2> QED
    BY <1>3, <2>2, <2>3
<1> QED
  BY <1>2, <1>3, Zenon

\* One less.
LEMMA CountRemove ==
  ASSUME Counting, NEW W \in SUBSET Paths, NEW x \in W, NEW p
  PROVE  Cardinality(Below(W \ {x}, p))
         = Cardinality(Below(W, p)) - (IF p \in Anc[x] THEN 1 ELSE 0)
<1> DEFINE V == W \ {x}
<1>1. V \in SUBSET Paths /\ x \in Paths /\ x \notin V /\ W = V \cup {x}
  BY Zenon
<1> HIDE DEF V
<1>2. Cardinality(Below(V \cup {x}, p))
      = Cardinality(Below(V, p)) + (IF p \in Anc[x] THEN 1 ELSE 0)
  BY <1>1, CountAdd, Zenon
<1>3. Cardinality(Below(V, p)) \in Nat
  BY <1>1, CardType, Zenon DEF Below
<1>4. PICK j, k, b : /\ j = Cardinality(Below(V, p)) /\ k = Cardinality(Below(W, p))
                     /\ b = IF p \in Anc[x] THEN 1 ELSE 0
  BY Zenon
<1>5. k = j + b /\ j \in Nat
  BY <1>1, <1>2, <1>3, <1>4, Zenon
<1>6. b \in Nat
  BY <1>4, Zenon
<1>7. j = k - b
  BY <1>5, <1>6
<1> QED
  BY <1>4, <1>7, Zenon DEF V

\* A request's lock moves from one node to another.
LEMMA CountMove ==
  ASSUME Counting,
         NEW f \in [Reqs -> Paths \cup {Root}], NEW g \in [Reqs -> Paths \cup {Root}],
         NEW r \in Reqs, NEW p \in Paths, NEW W \in SUBSET Paths,
         NEW L \in SUBSET Paths, \A s \in Reqs \ {r} : g[s] = f[s]
  PROVE  LockCount(p, g, W, L) = LockCount(p, f, W, L)
           + (IF p \in Anc[g[r]] THEN 1 ELSE 0) - (IF p \in Anc[f[r]] THEN 1 ELSE 0)
<1> DEFINE C(h) == {s \in Reqs : p \in Anc[h[s]]}
           R == {s \in Reqs \ {r} : p \in Anc[f[s]]}
<1>1. Counted(R) /\ Cardinality(R) \in Nat /\ r \notin R
  BY Zenon DEF Counting, Counted
<1>2. Cardinality(R \cup {r}) = Cardinality(R) + 1
  BY <1>1, Zenon DEF Counted
<1>3. C(f) = IF p \in Anc[f[r]] THEN R \cup {r} ELSE R
  BY Zenon
<1>4. C(g) = IF p \in Anc[g[r]] THEN R \cup {r} ELSE R
  BY Zenon
<1>5. /\ LockCount(p, g, W, L) = Cardinality(C(g)) + Cardinality(Below(W, p))
                                   + Cardinality(Below(L, p))
      /\ LockCount(p, f, W, L) = Cardinality(C(f)) + Cardinality(Below(W, p))
                                   + Cardinality(Below(L, p))
  BY Zenon DEF LockCount
<1>6. Cardinality(Below(W, p)) \in Nat /\ Cardinality(Below(L, p)) \in Nat
  BY CardType, Zenon DEF Below
<1> HIDE DEF C, R
<1>7. PICK k, w, l : /\ k = Cardinality(R) /\ w = Cardinality(Below(W, p))
                     /\ l = Cardinality(Below(L, p))
  BY Zenon
<1>8. k \in Nat /\ w \in Nat /\ l \in Nat
  BY <1>1, <1>6, <1>7, Zenon
<1>9. /\ Cardinality(C(f)) = IF p \in Anc[f[r]] THEN k + 1 ELSE k
      /\ Cardinality(C(g)) = IF p \in Anc[g[r]] THEN k + 1 ELSE k
  BY <1>2, <1>3, <1>4, <1>7, Zenon
<1>10. /\ LockCount(p, g, W, L) = Cardinality(C(g)) + w + l
       /\ LockCount(p, f, W, L) = Cardinality(C(f)) + w + l
  BY <1>5, <1>7, Zenon
<1>11. ASSUME NEW P \in BOOLEAN, NEW x, x = IF P THEN k + 1 ELSE k
       PROVE  x + w + l = k + w + l + (IF P THEN 1 ELSE 0)
  BY <1>8, <1>11
<1>12. /\ LockCount(p, g, W, L) = k + w + l + (IF p \in Anc[g[r]] THEN 1 ELSE 0)
       /\ LockCount(p, f, W, L) = k + w + l + (IF p \in Anc[f[r]] THEN 1 ELSE 0)
  BY <1>9, <1>10, <1>11, Zenon
<1>13. PICK a, b, c : /\ a = (IF p \in Anc[g[r]] THEN 1 ELSE 0) /\ b = (IF p \in Anc[f[r]] THEN 1 ELSE 0)
                      /\ c = k + w + l
  BY Zenon
<1>14. a \in Int /\ b \in Int /\ c \in Int
  BY <1>8, <1>13
<1>15. c + a = c + b + a - b
  BY <1>14
<1> QED
  BY <1>12, <1>13, <1>15, Zenon

\* A page is locked when somebody holds a node at or below it.
LEMMA CountPositive ==
  ASSUME Counting, NEW last, NEW W \in SUBSET Paths, NEW L \in SUBSET Paths, NEW p
  PROVE  /\ LockCount(p, last, W, L) \in Nat
         /\ LockCount(p, last, W, L) > 0 <=>
               \/ \E r \in Reqs : p \in Anc[last[r]]
               \/ \E n \in W \cup L : p \in Anc[n]
<1> DEFINE A == {r \in Reqs : p \in Anc[last[r]]}
<1>1. Counted(A) /\ Counted(Below(W, p)) /\ Counted(Below(L, p))
  BY Zenon DEF Below, Counting
<1>2. /\ Cardinality(A) \in Nat /\ (Cardinality(A) = 0 <=> A = {})
      /\ Cardinality(Below(W, p)) \in Nat
      /\ Cardinality(Below(W, p)) = 0 <=> Below(W, p) = {}
      /\ Cardinality(Below(L, p)) \in Nat
      /\ Cardinality(Below(L, p)) = 0 <=> Below(L, p) = {}
  BY <1>1, Zenon DEF Counted
<1>3. LockCount(p, last, W, L)
      = Cardinality(A) + Cardinality(Below(W, p)) + Cardinality(Below(L, p))
  BY Zenon DEF LockCount
<1>4. /\ LockCount(p, last, W, L) \in Nat
      /\ LockCount(p, last, W, L) > 0 <=>
            A # {} \/ Below(W, p) # {} \/ Below(L, p) # {}
  <2> HIDE DEF A
  <2> QED
    BY <1>2, <1>3
<1>5. A # {} <=> \E r \in Reqs : p \in Anc[last[r]]
  BY Zenon
<1>6. Below(W, p) # {} \/ Below(L, p) # {} <=> \E n \in W \cup L : p \in Anc[n]
  BY Zenon DEF Below
<1> HIDE DEF A
<1> QED
  BY <1>4, <1>5, <1>6, Zenon

-----------------------------------------------------------------------------
(* Queues of transfers.                                                    *)

\* What a queue holds after a new entry.
LEMMA RangeAppend ==
  ASSUME NEW T, NEW s \in Seq(T), NEW x \in T
  PROVE  Range(Append(s, x)) = Range(s) \cup {x}
<1> DEFINE t == Append(s, x)
<1>1. /\ Len(s) \in Nat /\ DOMAIN s = 1..Len(s) /\ DOMAIN t = 1..(Len(s) + 1)
      /\ \A i \in 1..Len(s) : t[i] = s[i]
      /\ t[Len(s) + 1] = x
  OBVIOUS
<1> HIDE DEF t
<1>2. \A y : y \in Range(t) <=> y \in Range(s) \/ y = x
  BY <1>1 DEF Range
<1> QED
  BY <1>2, Zenon DEF t

\* What a queue holds besides its oldest entry.
LEMMA RangeTail ==
  ASSUME NEW T, NEW s \in Seq(T), s # <<>>
  PROVE  Range(s) = Range(Tail(s)) \cup {Head(s)}
<1>1. /\ Len(s) \in Nat \ {0} /\ DOMAIN s = 1..Len(s)
      /\ DOMAIN Tail(s) = 1..(Len(s) - 1) /\ Head(s) = s[1]
      /\ \A i \in 1..(Len(s) - 1) : Tail(s)[i] = s[i + 1]
  OBVIOUS
<1> DEFINE t == Tail(s)
<1> HIDE DEF t
<1>2. \A i \in 1..Len(s) : i = 1 \/ (i - 1 \in 1..(Len(s) - 1) /\ s[i] = t[i - 1])
  BY <1>1 DEF t
<1>3. ASSUME NEW y \in Range(s)
      PROVE  y \in Range(t) \/ y = Head(s)
  <2>1. PICK i \in 1..Len(s) : y = s[i]
    BY <1>1, Zenon DEF Range
  <2>2. CASE i = 1
    BY <1>1, <2>1, <2>2, Zenon
  <2>3. CASE i # 1
    <3>1. i - 1 \in DOMAIN t /\ y = t[i - 1]
      BY <1>1, <1>2, <2>1, <2>3, Zenon DEF t
    <3> QED
      BY <3>1, Zenon DEF Range
  <2> QED
    BY <2>2, <2>3, Zenon
<1>4. \A y : y \in Range(t) \/ y = Head(s) => y \in Range(s)
  BY <1>1 DEF Range, t
<1> QED
  BY <1>3, <1>4, Zenon DEF t

-----------------------------------------------------------------------------
(* What the invariant says of one state.                                   *)

LockedPages == {p \in Paths : lockRef[p] > 0}

\* The locked pages are on the device and end at nodes, like a tier.
LEMMA LockFacts ==
  ASSUME Control, TreeInv, LockInv
  PROVE  /\ Writing \in SUBSET Paths /\ Loading \in SUBSET Paths
         /\ \A p \in Paths :
               /\ lockRef[p] \in Nat
               /\ lockRef[p] > 0 <=> \/ \E r \in Reqs : p \in Anc[lastNode[r]]
                                    \/ \E n \in Writing \cup Loading : p \in Anc[n]
         /\ Whole(nodes, LockedPages)
         /\ LockedPages \subseteq OnDevice(Paths)
<1>1. Writing \in SUBSET Paths /\ Loading \in SUBSET Paths
  BY Zenon DEF LockInv, TreeInv
<1>2. \A p \in Paths :
          /\ lockRef[p] \in Nat
          /\ lockRef[p] > 0 <=> \/ \E r \in Reqs : p \in Anc[lastNode[r]]
                               \/ \E n \in Writing \cup Loading : p \in Anc[n]
  <2> TAKE p \in Paths
  <2>1. lockRef[p] = LockCount(p, lastNode, Writing, Loading)
    BY Zenon DEF LockInv
  <2>2. /\ LockCount(p, lastNode, Writing, Loading) \in Nat
        /\ LockCount(p, lastNode, Writing, Loading) > 0 <=>
               \/ \E r \in Reqs : p \in Anc[lastNode[r]]
               \/ \E n \in Writing \cup Loading : p \in Anc[n]
    BY <1>1, CountPositive, ControlCounts, Zenon
  <2> QED
    BY <2>1, <2>2, Zenon
<1>3. ASSUME NEW p \in Paths, lockRef[p] > 0
      PROVE  \E h \in nodes : dev[h] # None /\ lockRef[h] > 0 /\ p \in Anc[h]
  <2>1. CASE \E r \in Reqs : p \in Anc[lastNode[r]]
    <3>1. PICK r \in Reqs : p \in Anc[lastNode[r]]
      BY <2>1, Zenon
    <3>2. lastNode[r] \in nodes /\ dev[lastNode[r]] # None
      BY <3>1, PathsAssumption, Zenon DEF LockInv
    <3>3. lastNode[r] \in Paths /\ lastNode[r] \in Anc[lastNode[r]]
      BY <3>2, PathsAssumption, Zenon DEF TreeInv
    <3> QED
      BY <1>2, <3>1, <3>2, <3>3, Zenon
  <2>2. CASE \E n \in Writing \cup Loading : p \in Anc[n]
    <3>1. PICK n \in Writing \cup Loading : p \in Anc[n]
      BY <2>2, Zenon
    <3>2. n \in nodes /\ dev[n] # None /\ n \in Paths /\ n \in Anc[n]
      BY <1>1, <3>1, PathsAssumption, Zenon DEF LockInv
    <3> QED
      BY <1>2, <3>1, <3>2, Zenon
  <2> QED
    BY <1>2, <1>3, <2>1, <2>2, Zenon
<1>4. ASSUME NEW p \in Paths, NEW n \in nodes, lockRef[n] > 0, p \in Anc[n]
      PROVE  lockRef[p] > 0
  <2>1. n \in Paths
    BY Zenon DEF TreeInv
  <2>2. \A q \in Paths \cup {Root} : n \in Anc[q] => p \in Anc[q]
    BY <1>4, PathsAssumption, Zenon
  <2>3. \A r \in Reqs : lastNode[r] \in Paths \cup {Root}
    BY Zenon DEF Control, ControlType
  <2> QED
    BY <1>1, <1>2, <1>4, <2>1, <2>2, <2>3, Zenon
<1>5. Whole(nodes, LockedPages)
  <2>1. nodes \subseteq Paths
    BY Zenon DEF TreeInv
  <2>2. \A p \in Paths : p \in LockedPages =>
            \E n \in nodes : n \in LockedPages /\ p \in Anc[n]
    BY <1>3, <2>1, Zenon DEF LockedPages
  <2>3. \A p \in Paths : (\E n \in nodes : n \in LockedPages /\ p \in Anc[n])
            => p \in LockedPages
    BY <1>4, <2>1, Zenon DEF LockedPages
  <2> QED
    BY <2>2, <2>3, Zenon DEF Whole
<1>6. LockedPages \subseteq OnDevice(Paths)
  BY <1>3, Zenon DEF LockedPages, TreeInv, Whole, OnDevice
<1> QED
  BY <1>1, <1>2, <1>5, <1>6, Zenon

\* The pages of nodes.
LEMMA PagesAre ==
  ASSUME nodes \subseteq Paths
  PROVE  /\ \A n \in Paths : Seg(n) = SegIn(nodes, n)
         /\ \A E \in SUBSET Paths : Pages(E) = UNION {SegIn(nodes, n) : n \in E}
         /\ Tree = TreeIn(nodes)
<1>1. \A n \in Paths : Seg(n) = SegIn(nodes, n)
  BY SegIs, Zenon DEF Seg, Parent
<1>2. \A E \in SUBSET Paths : Pages(E) = UNION {SegIn(nodes, n) : n \in E}
  BY <1>1, Zenon DEF Pages
<1> QED
  BY <1>1, <1>2, Zenon DEF Tree, TreeIn

\* Both tiers hold all prefixes of what they hold.
LEMMA TierFacts ==
  ASSUME TreeInv
  PROVE  /\ TiersArePrefixes /\ RadixShape
         /\ \A p \in Paths : dev[p] # None => \A q \in Anc[p] : dev[q] # None
         /\ \A p \in backed : Anc[p] \subseteq backed
<1>1. \A p \in OnDevice(Paths) : Anc[p] \subseteq OnDevice(Paths)
  BY WholeClosed, Zenon DEF TreeInv, OnDevice
<1>2. \A p \in backed : Anc[p] \subseteq backed
  BY WholeClosed, Zenon DEF TreeInv
<1>3. RadixShape
  BY PagesAre, Zenon DEF TreeInv, Shape, RadixShape
<1> QED
  BY <1>1, <1>2, <1>3, Zenon DEF TiersArePrefixes, OnDevice

-----------------------------------------------------------------------------
(* Steps that leave the tree and the locks alone.                          *)

\* A step that leaves the tree alone keeps its invariant.
LEMMA TreeSame ==
  ASSUME TreeInv, UNCHANGED <<nodes, dev, backed>>
  PROVE  TreeInv' /\ Stays /\ Tree' = Tree /\ OnDevice(Paths)' = OnDevice(Paths)
<1>1. OnDevice(Paths)' = OnDevice(Paths) /\ Tree' = Tree
  BY Zenon DEF OnDevice, Tree
<1> QED
  BY <1>1, Zenon DEF TreeInv, Stays

\* A step that leaves tree, locks and transfers alone keeps the lock invariant.
LEMMA LockSame ==
  ASSUME LockInv, UNCHANGED <<nodes, dev, backed, lockRef, lastNode, dma>>
  PROVE  LockInv'
<1>1. Writing' = Writing /\ Loading' = Loading
  BY Zenon DEF Writing, Loading, dma
<1>2. TransfersAreDistinct'
  BY Zenon DEF LockInv, TransfersAreDistinct, dma
<1> QED
  BY <1>1, <1>2, Zenon DEF LockInv, dma

\* A step that leaves pages and page tables alone keeps the table invariant.
LEMMA TableSame ==
  ASSUME TableInv, UNCHANGED <<dev, free, kv, tail, prot>>,
         \A r \in Reqs : \/ phase'[r] = phase[r] /\ fill'[r] = fill[r]
                         \/ phase'[r] \in {"out", "waiting"}
  PROVE  TableInv'
BY Zenon DEF TableInv, Holding

-----------------------------------------------------------------------------
(* Taking nodes off the device.                                            *)

\* The pages under the locks that are held.
HeldPages(last, W, L) == {p \in Paths : LockCount(p, last, W, L) > 0}

\* One lock more on a path.
LEMMA LockAdded ==
  ASSUME NEW f \in [Paths -> Int], NEW D
  PROVE  [p \in Paths |-> f[p] + (IF p \in D THEN 1 ELSE 0) - (IF p \in {} THEN 1 ELSE 0)]
           \in [Paths -> Int]
OBVIOUS

\* A new element keeps a queue without duplicates.
LEMMA AppendDistinct ==
  ASSUME NEW T, NEW s \in Seq(T), NEW x \in T, x \notin Range(s),
         \A i, j \in DOMAIN s : s[i] = s[j] => i = j
  PROVE  \A i, j \in DOMAIN Append(s, x) : Append(s, x)[i] = Append(s, x)[j] => i = j
<1> DEFINE t == Append(s, x)
<1>1. /\ Len(s) \in Nat /\ DOMAIN s = 1..Len(s) /\ DOMAIN t = 1..(Len(s) + 1)
      /\ \A i \in 1..Len(s) : t[i] = s[i]
      /\ t[Len(s) + 1] = x
  OBVIOUS
<1>2. \A i \in 1..Len(s) : s[i] # x
  BY <1>1, Zenon DEF Range
<1> HIDE DEF t
<1>3. \A i \in DOMAIN t : i \in 1..Len(s) \/ i = Len(s) + 1
  BY <1>1
<1>4. \A i, j \in DOMAIN t : t[i] = t[j] => i = j
  BY <1>1, <1>2, <1>3, Zenon
<1> QED
  BY <1>4, Zenon DEF t

\* Locks taken on nodes end at nodes.
LEMMA LocksWhole ==
  ASSUME Counting, NEW N \in SUBSET Paths, NEW last, NEW W \in SUBSET N, NEW L \in SUBSET N,
         \A r \in Reqs : last[r] \in N \cup {Root}
  PROVE  Whole(N, HeldPages(last, W, L))
<1> DEFINE Held(p) == \/ \E r \in Reqs : p \in Anc[last[r]]
                      \/ \E n \in W \cup L : p \in Anc[n]
<1>1. \A p : LockCount(p, last, W, L) > 0 <=> Held(p)
  BY CountPositive, Zenon
<1>2. ASSUME NEW p \in Paths, Held(p)
      PROVE  \E h \in N : Held(h) /\ p \in Anc[h]
  <2>1. PICK h \in N : /\ p \in Anc[h]
                       /\ (\E r \in Reqs : h = last[r]) \/ h \in W \cup L
    BY <1>2, PathsAssumption
  <2>2. h \in Anc[h]
    BY PathsAssumption, Zenon
  <2> QED
    BY <2>1, <2>2, Zenon
<1>3. ASSUME NEW n \in N, NEW p \in Anc[n], Held(n)
      PROVE  Held(p)
  <2>1. \A q \in Paths \cup {Root} : n \in Anc[q] => p \in Anc[q]
    BY PathsAssumption, Zenon
  <2> QED
    BY <1>3, <2>1, Zenon
<1> HIDE DEF Held
<1>4. \A p \in Paths : Held(p) <=> \E n \in N : Held(n) /\ p \in Anc[n]
  BY <1>2, <1>3, Zenon
<1> QED
  BY <1>1, <1>4, Zenon DEF Whole, HeldPages

\* What Evict and a demotion do to the tree: nodes with a host copy leave the
\* device, the others leave the tree.
LEMMA DropNodes ==
  ASSUME TreeInv, NEW E \in SUBSET nodes, \A n \in E : dev[n] # None,
         Lowest({m \in nodes : dev[m] # None}, E),
         nodes' = nodes \ (E \ backed), backed' = backed,
         dev' = [p \in Paths |-> IF p \in Pages(E) THEN None ELSE dev[p]]
  PROVE  /\ TreeInv' /\ Lowest(nodes, E \ backed)
         /\ \A p \in Pages(E) : p \in Paths /\ dev[p] # None
         /\ \A n \in nodes : n \in Pages(E) <=> n \in E
<1> DEFINE S == OnDevice(Paths)
           P == UNION {SegIn(nodes, n) : n \in E}
           D == E \ backed
<1>1. nodes \in SUBSET Paths /\ S \in SUBSET Paths /\ backed \in SUBSET Paths
  BY Zenon DEF TreeInv, OnDevice
<1>2. Pages(E) = P
  BY <1>1, PagesAre, Zenon
<1>3. \A n \in nodes : n \in P <=> n \in E
  <2>1. \A n \in E : n \in SegIn(nodes, n)
    BY <1>1, PathsAssumption, Zenon DEF SegIn
  <2>2. \A n \in nodes : n \in P => n \in E
    BY <1>1, OneInSeg
  <2> QED
    BY <2>1, <2>2, Zenon
<1>4. \A p \in P : p \in Paths /\ dev[p] # None
  <2>1. \A n \in E : SegIn(nodes, n) \subseteq Anc[n] /\ Anc[n] \subseteq Paths
    BY <1>1, PathsAssumption, Zenon DEF SegIn
  <2> QED
    BY <1>1, <2>1, TierFacts, Zenon
<1>5. OnDevice(Paths)' = S \ P
  BY <1>2, Zenon DEF OnDevice, TreeInv
<1>6. nodes \cap S = {m \in nodes : dev[m] # None}
  BY <1>1, Zenon DEF OnDevice
<1>7. Whole(nodes, S) /\ Whole(nodes, backed) /\ Shape(nodes)
  BY Zenon DEF TreeInv
<1>8. Whole(nodes, S \ P)
  <2> HIDE DEF S
  <2> QED
    BY <1>1, <1>6, <1>7, WholeRemove, Zenon
<1>9. Lowest(nodes, D)
  <2> SUFFICES ASSUME NEW x \in D, NEW y \in nodes, x \in Anc[y]
               PROVE  y \in D
    BY Zenon DEF Lowest
  <2>1. y \notin backed
    BY <1>1, TierFacts, Zenon
  <2>2. dev[y] # None
    BY <2>1, Zenon DEF TreeInv
  <2> QED
    BY <2>1, <2>2, Zenon DEF Lowest
<1>10. Whole(nodes \ D, S \ P)
  <2>1. D \cap (S \ P) = {}
    BY <1>3, Zenon
  <2> HIDE DEF S, P, D
  <2> QED
    BY <1>1, <1>8, <2>1, WholeDelete, Zenon
<1>11. Whole(nodes \ D, backed)
  BY <1>1, <1>7, WholeDelete, Zenon
<1>12. Shape(nodes \ D)
  <2> HIDE DEF D
  <2> QED
    BY <1>1, <1>7, <1>9, ShapeRemove, Zenon
<1>13. \A n \in nodes \ D : dev'[n] # None \/ n \in backed
  BY <1>1, <1>2, <1>3, Zenon DEF TreeInv
<1>14. dev' \in [Paths -> DevPages \cup {None}]
  BY Zenon DEF TreeInv
<1> HIDE DEF S, P
<1>15. TreeInv'
  BY <1>1, <1>5, <1>10, <1>11, <1>12, <1>13, <1>14, Zenon DEF TreeInv
<1> QED
  BY <1>2, <1>3, <1>4, <1>9, <1>15, Zenon

\* A node with no device child has no device node below it.
LEMMA BareIsLowest ==
  ASSUME TreeInv, NEW n \in nodes, dev[n] # None, Bare(n)
  PROVE  Lowest({m \in nodes : dev[m] # None}, {n})
<1> SUFFICES ASSUME NEW y \in nodes, dev[y] # None, n \in Anc[y], y # n
             PROVE  FALSE
  BY Zenon DEF Lowest
<1> DEFINE T == {m \in nodes : m \in Anc[y] /\ n \in Anc[m] /\ m # n}
<1>1. n \in Paths /\ y \in Paths /\ nodes \subseteq Paths
  BY Zenon DEF TreeInv
<1>2. T \in SUBSET Anc[y] /\ T # {}
  BY <1>1, PathsAssumption, Zenon
<1> HIDE DEF T
<1>3. PICK k \in T : \A z \in T : k \in Anc[z]
  <2>1. \E k \in T : \A z \in T : k \in Anc[z]
    <3>1. y \in Paths /\ T \in SUBSET Anc[y] /\ T # {}
      BY <1>1, <1>2, Zenon
    <3> QED
      BY <3>1, Chain
  <2> QED
    BY <2>1, Zenon
<1>4. k \in nodes /\ k \in Paths /\ k \in Anc[y] /\ n \in Anc[k] /\ k # n
  BY <1>1, <1>3, Zenon DEF T
<1> DEFINE U == {m \in nodes : m \in Anc[k] \ {k}}
<1>5. n \in U /\ U \in SUBSET Anc[k]
  BY <1>4, Zenon
<1>6. \A m \in U : m \in Anc[n]
  <2> SUFFICES ASSUME NEW m \in U
               PROVE  m \in Anc[n]
    BY Zenon
  <2>1. m \in Anc[n] \/ n \in Anc[m]
    BY <1>4, Comparable, Zenon
  <2>2. CASE n \in Anc[m] /\ m # n
    <3>1. m \in Anc[y] /\ m \in Paths
      BY <1>1, <1>4, PathsAssumption, Zenon
    <3>2. m \in T
      BY <2>2, <3>1, Zenon DEF T
    <3>3. k \in Anc[m]
      BY <1>3, <3>2, Zenon
    <3> QED
      BY <1>4, <3>1, <3>3, PathsAssumption
  <2> QED
    BY <1>1, <2>1, <2>2, PathsAssumption, Zenon
<1>7. Deepest(U) \in U /\ U \subseteq Anc[Deepest(U)]
  <2> HIDE DEF U
  <2> QED
    BY <1>4, <1>5, DeepestOf, Zenon
<1>8. Deepest(U) = n
  <2>1. Deepest(U) \in Anc[n] /\ n \in Anc[Deepest(U)] /\ Deepest(U) \in Paths
    BY <1>1, <1>5, <1>6, <1>7, Zenon
  <2> QED
    BY <1>1, <2>1, PathsAssumption, Zenon
<1>9. k \in Kids(n)
  BY <1>4, <1>8, Zenon DEF Kids, Parent
<1>10. dev[k] # None
  BY <1>1, <1>4, TierFacts, Zenon
<1> QED
  BY <1>9, <1>10, Zenon DEF Bare

\* The transfers W and L hold all the locks of transfers but those along Dec.
Released(W, L, Dec) ==
    /\ W \subseteq Writing /\ L \subseteq Loading
    /\ \A p \in Paths : LockCount(p, lastNode, W, L)
                          = lockRef[p] - (IF p \in Dec THEN 1 ELSE 0)

\* The tree is sound, W and L hold the remaining locks, and what is under them
\* has not moved.
StillHeld(W, L) ==
    /\ TreeInv' /\ UNCHANGED <<nodes, backed>> /\ free' \subseteq DevPages
    /\ lockRef' \in [Paths -> Int]
    /\ \A p \in Paths : lockRef'[p] = LockCount(p, lastNode, W, L)
    /\ \A p \in Paths : lockRef'[p] > 0 => dev'[p] = dev[p]

\* _try_hybrid_demote_device_node takes nothing from the transfers that still
\* hold locks.
LEMMA TryDemoteStep ==
  ASSUME Control, TreeInv, LockInv, free \subseteq DevPages,
         NEW n, NEW Dec, NEW W, NEW L, Released(W, L, Dec), TryDemote(n, Dec)
  PROVE  StillHeld(W, L)
<1> USE DEF Released, StillHeld
<1> DEFINE live == Demotable(n)
           locked == lockRef[n] > (IF n \in Dec THEN 1 ELSE 0)
           bare == live /\ ~ locked /\ Bare(n)
<1>1. nodes \in SUBSET Paths /\ dev \in [Paths -> DevPages \cup {None}]
  BY Zenon DEF TreeInv
<1>2. /\ lockRef' = [p \in Paths |-> lockRef[p] + (IF p \in {} THEN 1 ELSE 0)
                                             - (IF p \in Dec THEN 1 ELSE 0)]
      /\ nodes' = nodes /\ backed' = backed
  BY Zenon DEF TryDemote, ChangeLocks
<1>3. lockRef' \in [Paths -> Int]
      /\ \A p \in Paths : lockRef'[p] = LockCount(p, lastNode, W, L)
  <2>1. lockRef \in [Paths -> Int]
    BY Zenon DEF LockInv
  <2>2. /\ lockRef' \in [Paths -> Int]
        /\ \A p \in Paths : lockRef'[p] = lockRef[p] - (IF p \in Dec THEN 1 ELSE 0)
    BY <1>2, <2>1
  <2> QED
    BY <2>2, Zenon
<1>4. CASE ~ bare
  <2>1. /\ dev' = [p \in Paths |-> IF p \in {} THEN None ELSE dev[p]]
        /\ free' = free \cup {dev[p] : p \in {}}
    BY <1>4, Zenon DEF TryDemote
  <2>2. dev' = dev /\ free' = free
    BY <1>1, <2>1, Zenon
  <2> QED
    BY <1>2, <1>3, <2>2, TreeSame, Zenon
<1>5. CASE bare
  <2>1. n \in nodes /\ dev[n] # None /\ n \in backed /\ n \in Paths
    BY <1>1, <1>5, Zenon DEF Demotable
  <2>2. /\ dev' = [p \in Paths |-> IF p \in Seg(n) THEN None ELSE dev[p]]
        /\ free' = free \cup {dev[p] : p \in Seg(n)}
    BY <1>5, Zenon DEF TryDemote
  <2>3. Pages({n}) = Seg(n)
    BY Zenon DEF Pages
  <2>4. Lowest({m \in nodes : dev[m] # None}, {n})
    BY <1>5, <2>1, BareIsLowest, Zenon
  <2>5. nodes' = nodes \ ({n} \ backed)
    BY <1>2, <2>1, Zenon
  <2>6. TreeInv' /\ \A p \in Seg(n) : p \in Paths /\ dev[p] # None
    <3> DEFINE E == {n}
    <3>1. dev' = [p \in Paths |-> IF p \in Pages(E) THEN None ELSE dev[p]]
      BY <2>2, <2>3, Zenon
    <3>2. /\ E \in SUBSET nodes /\ \A m \in E : dev[m] # None
          /\ Lowest({m \in nodes : dev[m] # None}, E)
          /\ nodes' = nodes \ (E \ backed) /\ Pages(E) = Seg(n)
      BY <2>1, <2>3, <2>4, <2>5, Zenon
    <3> HIDE DEF bare, E
    <3>3. TreeInv' /\ \A p \in Pages(E) : p \in Paths /\ dev[p] # None
      BY <1>2, <3>1, <3>2, DropNodes, Zenon
    <3> QED
      BY <3>2, <3>3, Zenon
  <2>7. free' \subseteq DevPages
    BY <1>1, <2>2, <2>6, Zenon
  <2>8. lockRef'[n] = 0
    <3>1. LockCount(n, lastNode, W, L) \in Nat
      BY <2>1, LockFacts, CountPositive, ControlCounts, Zenon
    <3>2. lockRef[n] \in Int /\ ~ locked
      BY <1>5, <2>1, Zenon DEF LockInv
    <3>3. PICK k, b : /\ k = LockCount(n, lastNode, W, L)
                      /\ b = IF n \in Dec THEN 1 ELSE 0
      BY Zenon
    <3>4. k \in Nat /\ k = lockRef[n] - b /\ lockRef'[n] = k
      BY <1>3, <2>1, <3>1, <3>3, Zenon
    <3>5. b \in Int /\ ~ lockRef[n] > b
      BY <3>2, <3>3
    <3>6. k = 0
      BY <3>2, <3>4, <3>5
    <3> QED
      BY <3>4, <3>6, Zenon
  <2>9. \A p \in Seg(n) : ~ lockRef'[p] > 0
    <3> DEFINE S == HeldPages(lastNode, W, L)
    <3>1. W \in SUBSET nodes /\ L \in SUBSET nodes
          /\ \A r \in Reqs : lastNode[r] \in nodes \cup {Root}
      BY Zenon DEF LockInv
    <3>2. Whole(nodes, S)
      BY <1>1, <3>1, LocksWhole, ControlCounts, Zenon
    <3>3. n \notin S
      <4>1. LockCount(n, lastNode, W, L) = 0
        BY <1>3, <2>1, <2>8, Zenon
      <4> QED
        BY <4>1 DEF HeldPages
    <3>4. \A p \in SegIn(nodes, n) : p \notin S
      <4> HIDE DEF S
      <4>1. S \in SUBSET Paths /\ Shape(nodes)
        BY Zenon DEF S, TreeInv, HeldPages
      <4> QED
        BY <1>1, <2>1, <3>2, <3>3, <4>1, WholeSeg, Zenon
    <3> QED
      BY <1>1, <1>3, <2>1, <2>6, <3>4, PagesAre, Zenon DEF HeldPages
  <2> QED
    BY <1>2, <1>3, <2>2, <2>6, <2>7, <2>9, Zenon
<1> QED
  BY <1>4, <1>5, Zenon

-----------------------------------------------------------------------------
(* After a step.                                                           *)

\* The prefix a request holds is locked.
LEMMA HeldIsLocked ==
  ASSUME Control, TreeInv, LockInv, NEW r \in Reqs, NEW p \in Anc[lastNode[r]]
  PROVE  p \in Paths /\ lockRef[p] > 0 /\ dev[p] # None
<1>1. p \in Paths
  BY PathsAssumption, Zenon DEF Control, ControlType
<1>2. lockRef[p] > 0
  BY <1>1, LockFacts, Zenon
<1> QED
  BY <1>1, <1>2, LockFacts, Zenon DEF LockedPages, OnDevice

\* The pages a request holds are locked, in the next state.
LEMMA HeldIsLocked1 ==
  ASSUME Control', TreeInv', LockInv', NEW r \in Reqs, NEW p \in Anc[lastNode'[r]]
  PROVE  lockRef'[p] > 0
<1>1. p \in Paths
  BY PathsAssumption, Zenon DEF Control, ControlType
<1>2. Writing' \in SUBSET Paths /\ Loading' \in SUBSET Paths
  BY Zenon DEF LockInv, TreeInv
<1>3. LockCount(p, lastNode', Writing', Loading') > 0
  BY <1>2, CountPositive, Zenon DEF Control
<1> QED
  BY <1>1, <1>3, Zenon DEF LockInv

\* Page tables stay sound when locked pages stay.
LEMMA TableKeep ==
  ASSUME Control, TreeInv, LockInv, TableInv, Control', TreeInv', LockInv', Stays,
         UNCHANGED <<kv, tail, prot, lastNode, phase, fill>>, free' \subseteq DevPages
  PROVE  TableInv'
<1>1. ASSUME NEW r \in Reqs, NEW p \in Anc[prot[r]]
      PROVE  dev'[p] = dev[p]
  <2>1. prot[r] = lastNode[r]
    BY Zenon DEF Control, RequestShape
  <2>2. p \in Paths /\ lockRef[p] > 0
    BY <1>1, <2>1, HeldIsLocked, Zenon
  <2>3. lockRef'[p] > 0
    BY <1>1, <2>1, HeldIsLocked1, Zenon
  <2> QED
    BY <2>2, <2>3, Zenon DEF Stays
<1> QED
  BY <1>1, Zenon DEF TableInv, Holding

\* Locks are kept when nothing that is held leaves its node, the device or the
\* host.
LEMMA LockKeep ==
  ASSUME LockInv, UNCHANGED <<lockRef, lastNode, dma>>,
         \A h \in nodes : dev[h] # None /\ (h \in Writing \cup Loading
                             \/ \E r \in Reqs : h = lastNode[r]) =>
            h \in nodes' /\ dev'[h] # None /\ (h \in backed => h \in backed')
  PROVE  LockInv'
<1>1. Writing' = Writing /\ Loading' = Loading
  BY Zenon DEF Writing, Loading, dma
<1>2. TransfersAreDistinct'
  BY Zenon DEF LockInv, TransfersAreDistinct, dma
<1> QED
  BY <1>1, <1>2, Zenon DEF LockInv, dma

\* The pages load_back would load.
LEMMA HitIs ==
  ASSUME NEW N \in SUBSET Paths, NEW S \in SUBSET Paths, Whole(N, S),
         NEW key \in Paths \cup {Root}
  PROVE  Anc[Deepest(Anc[key] \cap TreeIn(N))] \ Anc[Deepest(Anc[key] \cap S)]
         = (Anc[key] \cap TreeIn(N)) \ S
<1>1. Anc[Deepest(Anc[key] \cap TreeIn(N))] = Anc[key] \cap TreeIn(N)
  BY TreeClosed, MatchedOf, Zenon
<1>2. Anc[Deepest(Anc[key] \cap S)] = Anc[key] \cap S
  BY WholeClosed, MatchedOf, Zenon
<1> QED
  BY <1>1, <1>2, Zenon

\* A key's match, its resident prefix and the pages in between.
LEMMA MatchFacts ==
  ASSUME TreeInv, NEW key \in Paths \cup {Root}
  PROVE  /\ Matched(key) \in Anc[key] \cup {Root}
         /\ Anc[Matched(key)] = Anc[key] \cap Tree
         /\ Matched(key) # Root => Matched(key) \in Tree
         /\ DevMatched(key) \in Anc[key] \cup {Root}
         /\ Anc[DevMatched(key)] = Anc[key] \cap OnDevice(Paths)
         /\ DevMatched(key) # Root => dev[DevMatched(key)] # None
         /\ Matched(key) \in nodes \cup {Root} =>
               DevMatched(key) \in nodes \cup {Root}
<1>1. nodes \in SUBSET Paths /\ OnDevice(Paths) \in SUBSET Paths
      /\ Whole(nodes, OnDevice(Paths)) /\ Shape(nodes)
  BY Zenon DEF TreeInv, OnDevice
<1>2. Tree = TreeIn(nodes) /\ OnDevice(Anc[key]) = Anc[key] \cap OnDevice(Paths)
  BY AncType, Zenon DEF Tree, TreeIn, OnDevice
<1>3. Tree \in SUBSET Paths /\ \A p \in Tree : Anc[p] \subseteq Tree
  BY <1>1, <1>2, TreeClosed, Zenon
<1>4. /\ Matched(key) \in Anc[key] \cup {Root}
      /\ Anc[Matched(key)] = Anc[key] \cap Tree
      /\ Matched(key) # Root => Matched(key) \in Tree
  BY <1>3, MatchedOf, Zenon DEF Matched
<1>5. \A p \in OnDevice(Paths) : Anc[p] \subseteq OnDevice(Paths)
  BY <1>1, WholeClosed, Zenon
<1>6. /\ DevMatched(key) \in Anc[key] \cup {Root}
      /\ Anc[DevMatched(key)] = Anc[key] \cap OnDevice(Paths)
      /\ DevMatched(key) # Root => DevMatched(key) \in OnDevice(Paths)
  BY <1>1, <1>2, <1>5, MatchedOf, Zenon DEF DevMatched
<1>7. Matched(key) \in nodes \cup {Root} => DevMatched(key) \in nodes \cup {Root}
  BY <1>1, <1>2, TierMatch, Zenon DEF Matched, DevMatched
<1> QED
  BY <1>4, <1>6, <1>7, Zenon DEF OnDevice


\* Which pages a request gives back.
LEMMA OwnCopiesType ==
  ASSUME Control, CacheInv, cur \in Reqs, phase[cur] \in {"prefill", "decode"},
         NEW T \in SUBSET Anc[fill[cur]]
  PROVE  OwnCopies(T) \subseteq DevPages /\ {kv[cur][p] : p \in T} \subseteq DevPages
         /\ tail[cur] \in DevPages
<1>1. /\ kv[cur] \in [Paths -> DevPages \cup {None}] /\ tail[cur] \in DevPages \cup {None}
      /\ tail[cur] # None /\ \A p \in Anc[fill[cur]] : kv[cur][p] # None
  BY Zenon DEF CacheInv, TableInv
<1>2. Anc[fill[cur]] \subseteq Paths
  BY AncType, Zenon DEF Control, ControlType
<1>3. \A p \in T : kv[cur][p] \in DevPages
  BY <1>1, <1>2, Zenon
<1> QED
  BY <1>1, <1>3, Zenon DEF OwnCopies

-----------------------------------------------------------------------------
(* Steps that change control only.                                         *)

\* A step that touches no page, lock or transfer keeps the invariants.
LEMMA QuietStep ==
  ASSUME Control, CacheInv, UNCHANGED <<tree, free, kv, tail, lastNode, prot, dma>>,
         \A r \in Reqs : \/ phase'[r] = phase[r] /\ fill'[r] = fill[r]
                         \/ phase'[r] \in {"out", "waiting"}
  PROVE  TreeInv' /\ LockInv' /\ TableInv' /\ Stays
BY TreeSame, LockSame, TableSame, Zenon DEF CacheInv, tree
=============================================================================
