------------------------- MODULE HiRadixStepProofs --------------------------
(***************************************************************************)
(* The steps that change the tree keep the invariant of the cache:         *)
(* match_prefix, insert, evict(), write_backup and load_back; transfers    *)
(* are started and acknowledged, and nodes are demoted.                    *)
(***************************************************************************)
EXTENDS HiRadixTreeProofs

-----------------------------------------------------------------------------
(* match_prefix and insert().                                              *)

\* match_prefix splits a node and starts the backups of the path.
LEMMA MatchPrefixStep ==
  ASSUME Control, Control', CacheInv, NEW r \in Reqs, MatchPrefix(r)
  PROVE  CacheInv' /\ Stays
<1> DEFINE key == fill[r]
           m == Matched(key)
<1>1. /\ cur' = r /\ nodes' = nodes \cup ({m} \ {Root})
      /\ UNCHANGED <<dev, backed, lockRef, free, dma, phase, fill, lastNode, prot,
                     kv, tail>>
      /\ todo' = Unbacked(nodes', key) /\ ret' = "add" /\ ctl' \in {"add", "backup"}
  BY Zenon DEF MatchPrefix, Split, CallBackup, pools, reqs
<1>2. key \in Paths \cup {Root} /\ TreeInv /\ LockInv /\ TableInv
  BY Zenon DEF Control, ControlType, CacheInv
<1>3. m \in Anc[key] \cup {Root} /\ (m # Root => m \in Tree)
  BY <1>2, MatchFacts, Zenon
<1>4. nodes \in SUBSET Paths /\ OnDevice(Paths) \in SUBSET Paths
      /\ backed \in SUBSET Paths /\ OnDevice(Paths)' = OnDevice(Paths)
  BY <1>1, <1>2, Zenon DEF TreeInv, OnDevice
<1> HIDE DEF m
<1>5. TreeInv' /\ Tree' = Tree
  <2>1. CASE m = Root
    BY <1>1, <1>2, <2>1, TreeSame, Zenon
  <2>2. CASE m # Root
    <3>1. PICK c \in nodes : m \in Anc[c]
      BY <1>3, <2>2, Zenon DEF Tree
    <3>2. m \in Paths /\ nodes' = nodes \cup {m} /\ c \in Paths
      BY <1>1, <1>4, <2>2, <3>1, PathsAssumption, Zenon
    <3>3. Shape(nodes')
      BY <1>2, <1>4, <3>1, <3>2, ShapeSplit, Zenon DEF TreeInv
    <3>4. Whole(nodes', OnDevice(Paths)) /\ Whole(nodes', backed)
      BY <1>2, <1>4, <3>2, WholeNode, Zenon DEF TreeInv
    <3>5. dev[m] # None \/ m \in backed
      BY <1>2, <3>1, <3>2, TierFacts, Zenon DEF TreeInv
    <3>6. TreeInv'
      BY <1>1, <1>2, <1>4, <3>2, <3>3, <3>4, <3>5, Zenon DEF TreeInv
    <3>7. Tree' = Tree
      BY <3>1, <3>2, PathsAssumption DEF Tree
    <3> QED
      BY <3>6, <3>7, Zenon
  <2> QED
    BY <2>1, <2>2, Zenon
<1>6. LockInv' /\ Stays
  BY <1>1, <1>2, LockKeep, Zenon DEF Stays
<1>7. TableInv'
  BY <1>1, <1>2, <1>5, <1>6, TableKeep, Zenon DEF TableInv
<1>8. LoopInv'
  <2>1. Matched(fill[cur])' = m
    BY <1>1, <1>5, Zenon DEF Matched, m
  <2>2. \A n \in todo' : n \in nodes' /\ dev'[n] # None /\ n \notin backed'
    BY <1>1, <1>5, Zenon DEF Unbacked, TreeInv
  <2>3. m \in nodes' \cup {Root}
    BY <1>1, Zenon
  <2> QED
    BY <1>1, <2>1, <2>2, <2>3, Zenon DEF LoopInv, At, Loops
<1> QED
  BY <1>5, <1>6, <1>7, <1>8, Zenon DEF CacheInv

\* insert() refills evicted nodes and adds the new one, with pages of the
\* request that inserts.
LEMMA InsertStep ==
  ASSUME Control, Control', CacheInv, NEW r \in Reqs,
         phase[r] \in {"prefill", "decode"},
         NEW label \in {"cached", "finish"}, Insert(r, label)
  PROVE  CacheInv' /\ Stays
<1> DEFINE key == Prompt(r)
           m == Matched(key)
           N == nodes \cup ({m} \ {Root})
           S == OnDevice(Paths)
<1>1. /\ cur' = r /\ nodes' = N \cup {key} /\ prefixLen' = DevMatched(key)
      /\ dev' = [p \in Paths |-> IF p \in Anc[key] /\ dev[p] = None
                                 THEN kv[r][p] ELSE dev[p]]
      /\ UNCHANGED <<backed, lockRef, free, dma, phase, work, fill, lastNode, prot,
                     kv, tail>>
      /\ todo' = Unbacked(nodes', key) /\ ret' = label /\ ctl' \in {label, "backup"}
  BY Zenon DEF Insert, Split, CallBackup, reqs
<1>2. TreeInv /\ LockInv /\ TableInv
  BY Zenon DEF CacheInv
<1>3. key \in Paths /\ fill[r] \in Paths /\ Anc[key] \subseteq Anc[fill[r]]
  <2>1. work[r] \in Work /\ key \in Anc[fill[r]] /\ fill[r] \in Paths \cup {Root}
    BY Zenon DEF Control, ControlType, RequestShape
  <2>2. key \in Paths
    BY <2>1, RequestsAssumption, Zenon DEF Prompt
  <2> QED
    BY <2>1, <2>2, PathsAssumption
<1>4. \A p \in Anc[key] : p \in Paths /\ kv[r][p] \in DevPages
  BY <1>2, <1>3, PathsAssumption, SMTT(90) DEF TableInv
<1>5. nodes \in SUBSET Paths /\ S \in SUBSET Paths /\ backed \in SUBSET Paths
      /\ Whole(nodes, S) /\ Whole(nodes, backed) /\ Shape(nodes)
  BY <1>2, Zenon DEF TreeInv, OnDevice
<1>6. /\ m \in Anc[key] \cup {Root} /\ Anc[m] = Anc[key] \cap Tree
      /\ m # Root => m \in Tree
      /\ DevMatched(key) \in Anc[key] \cup {Root}
  BY <1>2, <1>3, MatchFacts, Zenon
<1>7. \A p \in Paths : /\ dev[p] # None => dev'[p] = dev[p]
                       /\ p \in Anc[key] => dev'[p] # None
                       /\ p \notin Anc[key] => dev'[p] = dev[p]
  BY <1>1, <1>4, PoolsAssumption, Zenon
<1>8. dev' \in [Paths -> DevPages \cup {None}] /\ OnDevice(Paths)' = S \cup Anc[key]
  BY <1>1, <1>2, <1>4, <1>7, Zenon DEF TreeInv, OnDevice
<1> HIDE DEF m, S, key
<1>9. N \in SUBSET Paths /\ Shape(N) /\ Whole(N, S) /\ Whole(N, backed)
      /\ \A n \in N : Anc[n] \subseteq Tree
  <2>1. CASE m = Root
    <3>1. N = nodes
      BY <2>1, Zenon
    <3> HIDE DEF N
    <3> QED
      BY <1>5, <3>1, Zenon DEF Tree
  <2>2. CASE m # Root
    <3>1. PICK c \in nodes : m \in Anc[c]
      BY <1>6, <2>2, Zenon DEF Tree
    <3>2. N = nodes \cup {m} /\ m \in Paths /\ Anc[m] \subseteq Anc[c]
      BY <1>5, <2>2, <3>1, PathsAssumption, Zenon
    <3> HIDE DEF N
    <3>3. Shape(N)
      BY <1>5, <3>1, <3>2, ShapeSplit, Zenon
    <3>4. Whole(N, S) /\ Whole(N, backed)
      BY <1>5, <3>2, WholeNode, Zenon
    <3> QED
      BY <1>5, <3>1, <3>2, <3>3, <3>4, Zenon DEF Tree
  <2> QED
    BY <2>1, <2>2, Zenon
<1>10. m \in N \cup {Root} /\ nodes \subseteq N /\ N \subseteq nodes \cup {m}
  BY Zenon
<1> HIDE DEF N
<1>11. Shape(nodes')
  <2>1. \A n \in N : \A p \in Anc[n] : p \in Anc[key] => p \in Anc[m]
    BY <1>6, <1>9, Zenon
  <2> QED
    BY <1>1, <1>3, <1>6, <1>9, <1>10, <2>1, ShapeFresh, Zenon
<1>12. Whole(nodes', S \cup Anc[key]) /\ Whole(nodes', backed)
  <2>1. Whole(nodes', S) /\ Whole(nodes', backed)
    BY <1>1, <1>3, <1>5, <1>9, WholeNode, Zenon
  <2>2. nodes' \in SUBSET Paths /\ key \in nodes'
    BY <1>1, <1>3, <1>9, Zenon
  <2> QED
    BY <1>5, <2>1, <2>2, WholeGrow, Zenon
<1>13. \A n \in nodes' : dev'[n] # None \/ n \in backed
  <2> SUFFICES ASSUME NEW n \in nodes'
               PROVE  dev'[n] # None \/ n \in backed
    BY Zenon
  <2>1. n \in nodes \/ n \in Anc[key]
    <3>1. (n \in N \/ n = key) /\ n # Root
      BY <1>1, <1>3, <1>9, PathsAssumption, Zenon
    <3>2. m # Root => m \in Anc[key]
      BY <1>6, Zenon
    <3>3. key \in Anc[key]
      BY <1>3, PathsAssumption, Zenon
    <3> QED
      BY <1>10, <3>1, <3>2, <3>3, Zenon
  <2> QED
    BY <1>2, <1>4, <1>5, <1>7, <2>1, Zenon DEF TreeInv
<1>14. TreeInv'
  BY <1>1, <1>3, <1>5, <1>8, <1>9, <1>11, <1>12, <1>13, Zenon DEF TreeInv
<1>15. LockInv'
  BY <1>1, <1>2, <1>5, <1>7, <1>10, LockKeep, Zenon
<1>16. Stays
  BY <1>2, <1>7, LockFacts, Zenon DEF Stays, LockedPages, OnDevice
<1>17. TableInv'
  BY <1>1, <1>2, <1>14, <1>15, <1>16, TableKeep, Zenon DEF TableInv
<1>18. LoopInv'
  <2>1. Prompt(cur)' = key
    BY <1>1, Zenon DEF Prompt, key
  <2>2. key \in nodes' /\ dev'[key] # None
    BY <1>1, <1>3, <1>7, PathsAssumption, Zenon
  <2>3. \A n \in todo' : n \in nodes' /\ dev'[n] # None /\ n \notin backed'
    BY <1>1, <1>14, Zenon DEF Unbacked, TreeInv
  <2>4. prefixLen' \in Anc[key] \cup {Root}
    BY <1>1, <1>6, Zenon
  <2> QED
    BY <1>1, <2>1, <2>2, <2>3, <2>4, Zenon DEF LoopInv, At, Loops
<1> QED
  BY <1>14, <1>15, <1>16, <1>17, <1>18, Zenon DEF CacheInv

\* cache_unfinished_req frees the copies the tree did not take.
LEMMA FreeDuplicatesStep ==
  ASSUME Control, Control', CacheInv, FreeDuplicates
  PROVE  CacheInv' /\ Stays
<1>1. /\ UNCHANGED <<nodes, dev, backed, lockRef, dma, phase, work, fill, lastNode,
                     prot, kv, tail, cur, prefixLen>>
      /\ free' = free \cup OwnCopies(Anc[prefixLen])
      /\ todo' = Unbacked(nodes, Prompt(cur)) /\ ret' = "relock"
      /\ ctl' \in {"relock", "backup"} /\ ctl = "cached"
  BY Zenon DEF FreeDuplicates, CallBackup, tree, reqs
<1>2. TreeInv /\ LockInv /\ TableInv /\ LoopInv
  BY Zenon DEF CacheInv
<1>3. cur \in Reqs /\ phase[cur] = "prefill"
  BY <1>1, Zenon DEF Control, CurrentRequest, At
<1>4. /\ Prompt(cur) \in nodes /\ dev[Prompt(cur)] # None
      /\ prefixLen \in Anc[Prompt(cur)] \cup {Root}
  BY <1>1, <1>2, Zenon DEF LoopInv, At
<1>5. Anc[prefixLen] \in SUBSET Anc[fill[cur]]
  <2>1. Prompt(cur) \in Anc[fill[cur]] /\ fill[cur] \in Paths \cup {Root}
    BY <1>3, Zenon DEF Control, ControlType, RequestShape
  <2> QED
    BY <1>4, <2>1, PathsAssumption, Zenon
<1>6. free' \subseteq DevPages
  BY <1>1, <1>2, <1>3, <1>5, OwnCopiesType, Zenon DEF TableInv
<1>7. TreeInv' /\ LockInv' /\ Stays
  BY <1>1, <1>2, TreeSame, LockSame, Zenon
<1>8. TableInv'
  BY <1>1, <1>2, <1>6, <1>7, TableKeep, Zenon
<1>9. LoopInv'
  <2>1. \A n \in todo' : n \in nodes' /\ dev'[n] # None /\ n \notin backed'
    BY <1>1, <1>2, Zenon DEF Unbacked, TreeInv
  <2>2. Prompt(cur)' = Prompt(cur)
    BY <1>1, Zenon DEF Prompt
  <2> QED
    BY <1>1, <1>4, <2>1, <2>2, Zenon DEF LoopInv, At, Loops
<1> QED
  BY <1>7, <1>8, <1>9, Zenon DEF CacheInv

-----------------------------------------------------------------------------
(* evict() and write_backup().                                             *)

\* evict() takes unlocked nodes with everything below them.
LEMMA EvictSetsFacts ==
  ASSUME Control, TreeInv, LockInv, NEW q \in Paths \cup {Root},
         NEW held \in {{}, Anc[q]}, NEW n, NEW E \in EvictSets(n, held)
  PROVE  /\ E \in SUBSET nodes
         /\ \A x \in E : dev[x] # None /\ lockRef[x] = 0
         /\ Lowest({m \in nodes : dev[m] # None}, E)
         /\ \A p \in Pages(E) : ~ lockRef[p] > 0
<1>1. nodes \in SUBSET Paths /\ LockedPages \in SUBSET Paths /\ Shape(nodes)
      /\ Whole(nodes, LockedPages)
  BY LockFacts, Zenon DEF TreeInv, LockedPages
<1>2. /\ E \in SUBSET nodes
      /\ \A x \in E : dev[x] # None /\ lockRef[x] = 0 /\ x \notin held
      /\ \A x \in E, y \in Evictable(held) : x \in Anc[y] => y \in E
  BY Zenon DEF EvictSets, Evictable
<1>3. ASSUME NEW x \in E, NEW y \in nodes, dev[y] # None, x \in Anc[y]
      PROVE  y \in E
  <2>1. y \in Paths /\ x \in Paths /\ lockRef[y] \in Nat
    BY <1>1, <1>2, LockFacts, Zenon
  <2>2. y \notin LockedPages
    <3>1. x \notin LockedPages
      BY <1>2 DEF LockedPages
    <3> QED
      BY <1>1, <1>3, <3>1, WholeClosed, Zenon
  <2>3. lockRef[y] = 0
    BY <2>1, <2>2 DEF LockedPages
  <2>4. y \notin held
    <3>1. x \notin held
      BY <1>2, Zenon
    <3>2. \A z \in Paths : y \in Anc[z] => x \in Anc[z]
      BY <1>3, <2>1, PathsAssumption, Zenon
    <3> QED
      BY <3>1, <3>2, PathsAssumption
  <2> QED
    BY <1>2, <1>3, <2>3, <2>4, Zenon DEF Evictable
<1>4. ASSUME NEW p \in Pages(E)
      PROVE  ~ lockRef[p] > 0
  <2>1. PICK x \in E : p \in SegIn(nodes, x)
    BY <1>1, <1>2, PagesAre, Zenon DEF Pages
  <2>2. x \notin LockedPages /\ x \in nodes
    BY <1>2, SMTT(90) DEF LockedPages
  <2>3. p \notin LockedPages
    BY <1>1, <2>1, <2>2, WholeSeg, Zenon
  <2>4. p \in Paths
    BY <1>1, <2>1, <2>2, PathsAssumption, Zenon DEF SegIn
  <2> QED
    BY <2>3, <2>4, Zenon DEF LockedPages
<1> QED
  BY <1>2, <1>3, <1>4, Zenon DEF Lowest

\* evict() takes no page under a lock and leaves the device tier whole.
LEMMA EvictStep ==
  ASSUME Control, Control', CacheInv, Evict
  PROVE  CacheInv' /\ Stays
<1> DEFINE held == IF ret = "load" THEN Anc[DevMatched(fill[cur])] ELSE {}
<1>1. PICK E \in EvictSets(need, held) :
             /\ dev' = [p \in Paths |-> IF p \in Pages(E) THEN None ELSE dev[p]]
             /\ free' = free \cup {dev[p] : p \in Pages(E)}
             /\ nodes' = nodes \ (E \ backed)
             /\ UNCHANGED <<backed, lockRef>>
  BY Zenon DEF Evict, Forget
<1>2. /\ ctl = "evict" /\ ctl' = ret /\ ret' = ret /\ cur' = cur
      /\ UNCHANGED <<dma, phase, work, fill, lastNode, prot, kv, tail>>
  BY Zenon DEF Evict, locals
<1>3. TreeInv /\ LockInv /\ TableInv /\ LoopInv
  BY Zenon DEF CacheInv
<1>4. ret = "load" => cur \in Reqs /\ fill[cur] \in Paths \cup {Root}
  BY <1>2, Zenon DEF Control, ControlType, CurrentRequest, At, Loops
<1>5. \E q \in Paths \cup {Root} : held \in {{}, Anc[q]}
  BY <1>4, DevMatchedOf, AncType, Zenon
<1>6. PICK q \in Paths \cup {Root} : held \in {{}, Anc[q]}
  BY <1>5, Zenon
<1> HIDE DEF held
<1>7. /\ E \in SUBSET nodes
      /\ \A x \in E : dev[x] # None /\ lockRef[x] = 0
      /\ Lowest({m \in nodes : dev[m] # None}, E)
      /\ \A p \in Pages(E) : ~ lockRef[p] > 0
  BY <1>3, <1>6, EvictSetsFacts, Zenon
<1>8. /\ TreeInv' /\ Lowest(nodes, E \ backed)
      /\ \A p \in Pages(E) : p \in Paths /\ dev[p] # None
      /\ \A n \in nodes : n \in Pages(E) <=> n \in E
  BY <1>1, <1>3, <1>7, DropNodes, Zenon
<1>9. \A p \in Paths : lockRef[p] > 0 => dev'[p] = dev[p]
  BY <1>1, <1>7, Zenon
<1>10. Stays
  BY <1>9, Zenon DEF Stays
<1>11. LockInv'
  <2>1. ASSUME NEW h \in nodes,
               h \in Writing \cup Loading \/ \E r \in Reqs : h = lastNode[r]
        PROVE  lockRef[h] > 0
    <3>1. h \in Paths /\ h \in Anc[h]
      BY <1>3, PathsAssumption, Zenon DEF TreeInv
    <3> QED
      BY <1>3, <2>1, <3>1, LockFacts, Zenon
  <2>2. nodes \subseteq Paths
    BY <1>3, Zenon DEF TreeInv
  <2> QED
    <3>1. ASSUME NEW h \in nodes, dev[h] # None,
                 h \in Writing \cup Loading \/ \E r \in Reqs : h = lastNode[r]
          PROVE  h \in nodes' /\ dev'[h] # None /\ backed' = backed
      <4>1. lockRef[h] > 0 /\ h \in Paths
        BY <2>1, <2>2, <3>1, Zenon
      <4>2. h \notin E
        BY <1>7, <4>1
      <4> QED
        BY <1>1, <1>9, <3>1, <4>1, <4>2, Zenon
    <3>2. UNCHANGED <<lockRef, lastNode, dma>>
      BY <1>1, <1>2, Zenon
    <3> QED
      BY <1>3, <3>1, <3>2, LockKeep, Zenon
<1>12. free' \subseteq DevPages
  <2>1. dev \in [Paths -> DevPages \cup {None}] /\ free \subseteq DevPages
    BY <1>3, Zenon DEF TableInv, TreeInv
  <2> QED
    BY <1>1, <1>8, <2>1, Zenon
<1>13. TableInv'
  BY <1>2, <1>3, <1>8, <1>10, <1>11, <1>12, TableKeep, Zenon
<1>14. LoopInv'
  <2>1. CASE ret = "load"
    <3> DEFINE key == fill[cur]
    <3>1. key \in Paths \cup {Root} /\ fill'[cur'] = key
      BY <1>2, <1>4, <2>1, Zenon
    <3> HIDE DEF key
    <3>2. Matched(key) \in nodes \cup {Root} /\ HostHit(cur) # {}
      BY <1>2, <1>3, <2>1, Zenon DEF LoopInv, At, Loops, key
    <3>3. nodes \in SUBSET Paths /\ Shape(nodes) /\ Tree = TreeIn(nodes)
          /\ nodes' \in SUBSET Paths /\ Tree' = TreeIn(nodes')
      BY <1>1, <1>3, Zenon DEF TreeInv, Tree, TreeIn
    <3>4. Deepest(Anc[key] \cap TreeIn(nodes')) \in nodes' \cup {Root}
      BY <1>1, <1>8, <3>1, <3>2, <3>3, MatchRemove, Zenon DEF Matched
    <3>5. Matched(fill[cur])' \in nodes' \cup {Root}
      BY <3>1, <3>3, <3>4, Zenon DEF Matched
    <3>6. PICK p : p \in Anc[key] /\ p \in Tree /\ p \notin OnDevice(Paths)
      BY <1>3, <3>1, <3>2, MatchFacts, Zenon DEF HostHit, key
    <3>7. p \in Paths /\ dev[p] = None
      BY <3>1, <3>6, AncType, Zenon DEF OnDevice
    <3>8. PICK c \in nodes : p \in Anc[c]
      BY <3>6, Zenon DEF Tree
    <3>9. PICK o \in nodes : p \in SegIn(nodes, o) /\ o \in Anc[c]
      BY <3>3, <3>8, Owner, Zenon
    <3>10. o \notin E
      BY <1>3, <1>7, <3>3, <3>7, <3>9, TierFacts, Zenon DEF SegIn
    <3>11. p \in Tree'
      BY <1>1, <3>9, <3>10, Zenon DEF Tree, SegIn
    <3>12. p \notin OnDevice(Paths)'
      BY <1>1, <3>7, Zenon DEF OnDevice
    <3>13. HostHit(cur)' # {}
      <4>1. OnDevice(Paths)' \in SUBSET Paths /\ Whole(nodes', OnDevice(Paths)')
        BY <1>8, Zenon DEF TreeInv, OnDevice
      <4>2. Anc[Deepest(Anc[key] \cap TreeIn(nodes'))]
              \ Anc[Deepest(Anc[key] \cap OnDevice(Paths)')]
            = (Anc[key] \cap TreeIn(nodes')) \ OnDevice(Paths)'
        <5>1. PICK N, S, k : N = nodes' /\ S = OnDevice(Paths)' /\ k = key
          BY Zenon
        <5>2. N \in SUBSET Paths /\ S \in SUBSET Paths /\ Whole(N, S)
              /\ k \in Paths \cup {Root}
          BY <3>1, <3>3, <4>1, <5>1, Zenon
        <5>3. Anc[Deepest(Anc[k] \cap TreeIn(N))] \ Anc[Deepest(Anc[k] \cap S)]
              = (Anc[k] \cap TreeIn(N)) \ S
          BY <5>2, HitIs, Zenon
        <5> QED
          BY <5>1, <5>3, Zenon
      <4>3. Anc[key] \cap OnDevice(Paths)' = {x \in Anc[key] : dev'[x] # None}
        BY <3>1, AncType, Zenon DEF OnDevice
      <4>4. HostHit(cur)' = Anc[Deepest(Anc[key] \cap TreeIn(nodes'))]
                              \ Anc[Deepest(Anc[key] \cap OnDevice(Paths)')]
        BY <3>1, <3>3, <4>3, Zenon DEF HostHit, Matched, DevMatched, OnDevice
      <4> QED
        BY <3>3, <3>6, <3>11, <3>12, <4>2, <4>4, Zenon
    <3> QED
      BY <1>2, <2>1, <3>5, <3>13, Zenon DEF LoopInv, At, Loops
  <2>2. CASE ret # "load"
    BY <1>2, <2>2, Zenon DEF LoopInv, At, Loops, Control, ReturnsHome
  <2> QED
    BY <2>1, <2>2, Zenon
<1> QED
  BY <1>8, <1>10, <1>11, <1>13, <1>14, Zenon DEF CacheInv

-----------------------------------------------------------------------------
(* write_backup.                                                           *)

\* evict_host() takes unlocked host-only nodes with everything below them.
LEMMA HostEvictSetsFacts ==
  ASSUME NEW n, NEW H \in HostEvictSets(n) \cup {{}}
  PROVE  /\ H \in SUBSET nodes
         /\ \A h \in H : dev[h] = None
         /\ Lowest(nodes, H)
BY Zenon DEF HostEvictSets, HostEvictable, Lowest

\* What write_backup does to the tree: H leaves it, n gets a host copy.
LEMMA BackupTree ==
  ASSUME TreeInv, NEW n \in nodes, dev[n] # None, n \notin backed,
         NEW H \in SUBSET nodes, \A h \in H : dev[h] = None, Lowest(nodes, H),
         NEW ok \in BOOLEAN, ok => Parent(n) \in backed \cup {Root},
         nodes' = nodes \ H, dev' = dev,
         backed' = (backed \ Pages(H)) \cup (IF ok THEN Seg(n) ELSE {})
  PROVE  /\ TreeInv'
         /\ \A h \in nodes : dev[h] # None /\ h \in backed => h \in backed'
         /\ ok => n \in backed'
         /\ \A h \in nodes : h \notin backed /\ h # n => h \notin backed'
<1> DEFINE S == OnDevice(Paths)
           P == UNION {SegIn(nodes, h) : h \in H}
           B == backed \ P
<1>1. nodes \in SUBSET Paths /\ S \in SUBSET Paths /\ backed \in SUBSET Paths
      /\ Whole(nodes, S) /\ Whole(nodes, backed) /\ Shape(nodes)
  BY Zenon DEF TreeInv, OnDevice
<1>2. Pages(H) = P /\ Seg(n) = SegIn(nodes, n)
  BY <1>1, PagesAre, Zenon
<1>3. \A h \in nodes : h \in P <=> h \in H
  <2>1. \A h \in H : h \in SegIn(nodes, h)
    BY <1>1, PathsAssumption, Zenon DEF SegIn
  <2>2. \A h \in nodes : h \in P => h \in H
    BY <1>1, OneInSeg
  <2> QED
    BY <2>1, <2>2, Zenon
<1>4. Whole(nodes, B)
  <2>1. Lowest(nodes \cap backed, H)
    BY Zenon DEF Lowest
  <2> QED
    BY <1>1, <2>1, WholeRemove, Zenon
<1>5. B \in SUBSET Paths /\ H \cap B = {} /\ H \cap S = {} /\ n \in nodes \ H
      /\ nodes \ H \in SUBSET Paths
  BY <1>1, <1>3, Zenon DEF OnDevice
<1> HIDE DEF S, P, B
<1>6. Whole(nodes \ H, B) /\ Whole(nodes \ H, S)
  BY <1>1, <1>4, <1>5, WholeDelete, Zenon
<1>7. Shape(nodes \ H)
  BY <1>1, ShapeRemove, Zenon
<1>8. ok => B \cup Seg(n) = B \cup Anc[n]
  <2> SUFFICES ASSUME ok
               PROVE  B \cup Seg(n) = B \cup Anc[n]
    BY Zenon
  <2>1. Anc[Parent(n)] \subseteq backed
    BY <1>1, TierFacts, PathsAssumption, Zenon
  <2>2. ASSUME NEW p \in Anc[n], p \in P
        PROVE  FALSE
    <3>1. PICK h \in H : p \in SegIn(nodes, h)
      BY <2>2, Zenon DEF P
    <3>2. h \in Anc[n]
      BY <2>2, <3>1, <1>1, Zenon DEF Shape
    <3> QED
      BY <1>1, <3>1, <3>2, TierFacts, Zenon
  <2>3. ASSUME NEW p \in Anc[n]
        PROVE  p \in B \cup Seg(n)
    BY <2>1, <2>2, Zenon DEF Seg, B
  <2>4. Seg(n) \subseteq Anc[n]
    BY Zenon DEF Seg
  <2> QED
    BY <2>3, <2>4, Zenon
<1>9. Whole(nodes', backed') /\ backed' \in SUBSET Paths
  <2>1. CASE ok
    <3>1. backed' = B \cup Anc[n] /\ Anc[n] \subseteq Paths
      BY <1>1, <1>2, <1>8, <2>1, PathsAssumption, Zenon DEF B
    <3>2. Whole(nodes \ H, B \cup Anc[n])
      BY <1>5, <1>6, WholeGrow, Zenon
    <3> QED
      BY <1>5, <3>1, <3>2, Zenon
  <2>2. CASE ~ ok
    BY <1>2, <1>5, <1>6, <2>2, Zenon DEF B
  <2> QED
    BY <2>1, <2>2, Zenon
<1>10. OnDevice(Paths)' = S
  BY Zenon DEF OnDevice, S
<1>11. \A h \in nodes \ H : h \in backed => h \in backed'
  BY <1>2, <1>3, Zenon
<1>12. TreeInv'
  BY <1>1, <1>5, <1>6, <1>7, <1>9, <1>10, <1>11, Zenon DEF TreeInv
<1>13. n \in Seg(n)
  BY <1>1, <1>2, PathsAssumption, Zenon DEF SegIn
<1>14. \A h \in nodes : h \in Seg(n) => h = n
  BY <1>1, <1>2, OneInSeg
<1> QED
  BY <1>11, <1>12, <1>13, <1>14, Zenon

\* A backup is appended to the queue.
LEMMA BackupLocks ==
  ASSUME Counting, LockInv, TreeInv, NEW n \in Paths, n \notin backed,
         writes' = Append(writes, n), UNCHANGED <<loadQueue, loads, lastNode>>,
         lockRef' = [p \in Paths |-> lockRef[p] + (IF p \in Anc[n] THEN 1 ELSE 0)
                                             - (IF p \in {} THEN 1 ELSE 0)]
  PROVE  /\ Writing' = Writing \cup {n} /\ Loading' = Loading
         /\ writes' \in Seq(Paths) /\ lockRef' \in [Paths -> Int]
         /\ TransfersAreDistinct'
         /\ \A p \in Paths : lockRef'[p] = LockCount(p, lastNode', Writing', Loading')
<1>1. writes \in Seq(Paths) /\ lockRef \in [Paths -> Int]
  BY Zenon DEF LockInv
<1>2. Writing' = Writing \cup {n} /\ Loading' = Loading
  <2>1. Range(writes') = Range(writes) \cup {n}
    <3>1. Range(Append(writes, n)) = Range(writes) \cup {n}
      BY <1>1, RangeAppend
    <3> QED
      BY <3>1, Zenon
  <2> QED
    BY <2>1, Zenon DEF Writing, Loading
<1>3. n \notin Writing /\ Writing \in SUBSET Paths /\ Loading \in SUBSET Paths
  BY Zenon DEF LockInv, TreeInv
<1>4. writes' \in Seq(Paths) /\ lockRef' \in [Paths -> Int]
  <2>1. writes' \in Seq(Paths)
    BY <1>1
  <2> QED
    BY <1>1, <2>1, LockAdded, Zenon
<1>5. TransfersAreDistinct'
  <2>1. n \notin Range(writes) /\ TransfersAreDistinct
    BY <1>3, Zenon DEF LockInv, Writing
  <2>2. \A i, j \in DOMAIN Append(writes, n) :
            Append(writes, n)[i] = Append(writes, n)[j] => i = j
    BY <1>1, <2>1, AppendDistinct, Zenon DEF TransfersAreDistinct
  <2> QED
    BY <2>1, <2>2, Zenon DEF TransfersAreDistinct
<1>6. ASSUME NEW p \in Paths
      PROVE  lockRef'[p] = LockCount(p, lastNode', Writing', Loading')
  <2>1. Cardinality(Below(Writing \cup {n}, p))
        = Cardinality(Below(Writing, p)) + (IF p \in Anc[n] THEN 1 ELSE 0)
    BY <1>3, CountAdd, Zenon
  <2>2. lockRef[p] = LockCount(p, lastNode, Writing, Loading)
    BY Zenon DEF LockInv
  <2>3. /\ Cardinality(Below(Writing, p)) \in Nat
        /\ Cardinality(Below(Loading, p)) \in Nat
        /\ Cardinality({r \in Reqs : p \in Anc[lastNode[r]]}) \in Nat
    BY <1>3, CardType, Zenon DEF Below
  <2>4. lockRef'[p] = lockRef[p] + (IF p \in Anc[n] THEN 1 ELSE 0)
    BY <1>1
  <2> QED
    <3>1. PICK c, w, l, u :
              /\ c = Cardinality({r \in Reqs : p \in Anc[lastNode[r]]})
              /\ w = Cardinality(Below(Writing, p)) /\ l = Cardinality(Below(Loading, p))
              /\ u = (IF p \in Anc[n] THEN 1 ELSE 0)
      BY Zenon
    <3>2. lockRef[p] = c + w + l /\ c \in Nat /\ w \in Nat /\ l \in Nat /\ u \in Nat
      BY <2>2, <2>3, <3>1, Zenon DEF LockCount
    <3>3. LockCount(p, lastNode', Writing', Loading') = c + (w + u) + l
      BY <1>2, <2>1, <3>1, Zenon DEF LockCount
    <3>4. lockRef'[p] = lockRef[p] + u
      BY <2>4, <3>1, Zenon
    <3> QED
      BY <3>2, <3>3, <3>4
<1> QED
  BY <1>2, <1>4, <1>5, <1>6, Zenon

\* write_backup locks the node it copies; the host nodes it deletes for room
\* are nobody's.
LEMMA WriteBackupStep ==
  ASSUME Control, Control', CacheInv, WriteBackup
  PROVE  CacheInv' /\ Stays
<1>1. PICK n \in todo, H \in SUBSET nodes, ok \in BOOLEAN :
        /\ (\A h \in H : dev[h] = None) /\ Lowest(nodes, H)
        /\ ok => Parent(n) \in backed \cup {Root}
        /\ nodes' = nodes \ H
        /\ backed' = (backed \ Pages(H)) \cup (IF ok THEN Seg(n) ELSE {})
        /\ writes' = IF ok THEN Append(writes, n) ELSE writes
        /\ lockRef' = [p \in Paths |->
               lockRef[p] + (IF p \in (IF ok THEN Anc[n] ELSE {}) THEN 1 ELSE 0)
                          - (IF p \in {} THEN 1 ELSE 0)]
        /\ todo' = todo \ {n}
  <2>1. PICK n \in todo :
          LET size == Cardinality(Seg(n))
              ready == Parent(n) \in backed \cup {Root}
          IN
          /\ \E H \in IF ready /\ hostFree < size THEN HostEvictSets(size)
                                                 ELSE {{}} :
               LET room == hostFree + Cardinality(Pages(H))
                   ok == ready /\ room >= size
               IN
               /\ nodes' = nodes \ H
               /\ backed' = (backed \ Pages(H)) \cup (IF ok THEN Seg(n) ELSE {})
               /\ writes' = IF ok THEN Append(writes, n) ELSE writes
               /\ lockRef' = [p \in Paths |->
                     lockRef[p] + (IF p \in (IF ok THEN Anc[n] ELSE {}) THEN 1 ELSE 0)
                                - (IF p \in {} THEN 1 ELSE 0)]
          /\ todo' = todo \ {n}
    BY ZenonT(90) DEF WriteBackup, ChangeLocks, Forget
  <2> DEFINE ready == Parent(n) \in backed \cup {Root}
             size == Cardinality(Seg(n))
  <2>2. PICK H \in (IF ready /\ hostFree < size THEN HostEvictSets(size) ELSE {{}}) :
               LET room == hostFree + Cardinality(Pages(H))
                   ok == ready /\ room >= size
               IN
               /\ nodes' = nodes \ H
               /\ backed' = (backed \ Pages(H)) \cup (IF ok THEN Seg(n) ELSE {})
               /\ writes' = IF ok THEN Append(writes, n) ELSE writes
               /\ lockRef' = [p \in Paths |->
                     lockRef[p] + (IF p \in (IF ok THEN Anc[n] ELSE {}) THEN 1 ELSE 0)
                                - (IF p \in {} THEN 1 ELSE 0)]
    BY <2>1, Zenon
  <2> DEFINE ok == ready /\ hostFree + Cardinality(Pages(H)) >= size
  <2>3. H \in HostEvictSets(size) \cup {{}} /\ ok \in BOOLEAN
    BY <2>2, Zenon
  <2>4. H \in SUBSET nodes /\ (\A h \in H : dev[h] = None) /\ Lowest(nodes, H)
    BY <2>3, HostEvictSetsFacts, Zenon
  <2>5. ok => Parent(n) \in backed \cup {Root}
    BY Zenon
  <2>6. /\ nodes' = nodes \ H
        /\ backed' = (backed \ Pages(H)) \cup (IF ok THEN Seg(n) ELSE {})
        /\ writes' = IF ok THEN Append(writes, n) ELSE writes
        /\ lockRef' = [p \in Paths |->
               lockRef[p] + (IF p \in (IF ok THEN Anc[n] ELSE {}) THEN 1 ELSE 0)
                          - (IF p \in {} THEN 1 ELSE 0)]
        /\ todo' = todo \ {n}
    BY <2>1, <2>2, Zenon
  <2> HIDE DEF ok
  <2> QED
    BY <2>3, <2>4, <2>5, <2>6, Zenon
<1>2. /\ ctl = "backup" /\ ctl' \in {"backup", ret} /\ ret' = ret
      /\ UNCHANGED <<dev, free, loadQueue, loads, phase, work, fill, lastNode, prot,
                     kv, tail, cur, prefixLen>>
  BY Zenon DEF WriteBackup, Return
<1>3. TreeInv /\ LockInv /\ TableInv /\ LoopInv
  BY Zenon DEF CacheInv
<1>4. n \in nodes /\ dev[n] # None /\ n \notin backed /\ n \in Paths
  BY <1>2, <1>3, Zenon DEF LoopInv, TreeInv
<1>5. H \in SUBSET nodes /\ (\A h \in H : dev[h] = None) /\ Lowest(nodes, H)
  BY <1>1, Zenon
<1>6. /\ TreeInv'
      /\ \A h \in nodes : dev[h] # None /\ h \in backed => h \in backed'
      /\ ok => n \in backed'
      /\ \A h \in nodes : h \notin backed /\ h # n => h \notin backed'
  BY <1>1, <1>2, <1>3, <1>4, <1>5, BackupTree, Zenon
<1>7. \A h \in nodes : dev[h] # None => h \in nodes'
  BY <1>1, <1>5, Zenon
<1>8. LockInv'
  <2>1. CASE ok
    <3>1. /\ writes' = Append(writes, n)
          /\ lockRef' = [p \in Paths |-> lockRef[p] + (IF p \in Anc[n] THEN 1 ELSE 0)
                                             - (IF p \in {} THEN 1 ELSE 0)]
      BY <1>1, <2>1, Zenon
    <3>2. /\ Writing' = Writing \cup {n} /\ Loading' = Loading
          /\ writes' \in Seq(Paths) /\ lockRef' \in [Paths -> Int]
          /\ TransfersAreDistinct'
          /\ \A p \in Paths : lockRef'[p] = LockCount(p, lastNode', Writing', Loading')
      BY <1>2, <1>3, <1>4, <3>1, BackupLocks, ControlCounts, Zenon
    <3> QED
      BY <1>2, <1>3, <1>4, <1>6, <1>7, <2>1, <3>2, Zenon DEF LockInv
  <2>2. CASE ~ ok
    <3>1. lockRef' = lockRef /\ writes' = writes
      <4>1. lockRef \in [Paths -> Int]
        BY <1>3, Zenon DEF LockInv
      <4> QED
        BY <1>1, <2>2, <4>1, SMTT(90)
    <3> QED
      BY <1>2, <1>3, <1>6, <1>7, <3>1, LockKeep, Zenon DEF dma
  <2> QED
    BY <2>1, <2>2, Zenon
<1>9. Stays
  BY <1>2, Zenon DEF Stays
<1>10. TableInv'
  BY <1>2, <1>3, <1>6, <1>8, <1>9, TableKeep, Zenon DEF TableInv
<1>11. LoopInv'
  <2>1. \A m \in todo' : m \in nodes' /\ dev'[m] # None /\ m \notin backed'
    BY <1>1, <1>2, <1>3, <1>6, <1>7, Zenon DEF LoopInv
  <2>2. ret \in {"add", "cached", "relock", "finish"}
    BY <1>2, Zenon DEF Control, ReturnsHome
  <2>3. CASE ret = "add"
    <3> DEFINE key == fill[cur]
    <3>1. key \in Paths \cup {Root} /\ fill'[cur'] = key
      BY <1>2, <2>3, Zenon DEF Control, ControlType, CurrentRequest, At, Loops
    <3> HIDE DEF key
    <3>2. Matched(key) \in nodes \cup {Root}
      BY <1>2, <1>3, <2>3, Zenon DEF LoopInv, At, Loops, key
    <3>3. nodes \in SUBSET Paths /\ Shape(nodes) /\ Tree = TreeIn(nodes)
          /\ Tree' = TreeIn(nodes')
      BY <1>3, Zenon DEF TreeInv, Tree, TreeIn
    <3>4. Deepest(Anc[key] \cap TreeIn(nodes')) \in nodes' \cup {Root}
      BY <1>1, <1>5, <3>1, <3>2, <3>3, MatchRemove, Zenon DEF Matched
    <3>5. Matched(fill[cur])' \in nodes' \cup {Root}
      BY <3>1, <3>3, <3>4, Zenon DEF Matched
    <3> QED
      BY <1>2, <2>1, <2>3, <3>5, Zenon DEF LoopInv, At, Loops
  <2>4. CASE ret # "add"
    <3>1. /\ Prompt(cur) \in nodes /\ dev[Prompt(cur)] # None
          /\ prefixLen \in Anc[Prompt(cur)] \cup {Root}
      BY <1>2, <1>3, <2>2, <2>4, Zenon DEF LoopInv, At, Loops
    <3>2. Prompt(cur)' = Prompt(cur)
      BY <1>2, Zenon DEF Prompt
    <3> QED
      BY <1>2, <1>7, <2>1, <2>2, <2>4, <3>1, <3>2, Zenon DEF LoopInv, At, Loops
  <2> QED
    BY <2>3, <2>4, Zenon
<1> QED
  BY <1>6, <1>8, <1>9, <1>10, <1>11, Zenon DEF CacheInv

-----------------------------------------------------------------------------
(* load_back.                                                              *)

\* A load-back joins the queue.
LEMMA LoadLocks ==
  ASSUME Counting, LockInv, TreeInv, NEW n \in Paths, dev[n] = None,
         loadQueue' = loadQueue \cup {n}, UNCHANGED <<writes, loads, lastNode>>,
         lockRef' = [p \in Paths |-> lockRef[p] + (IF p \in Anc[n] THEN 1 ELSE 0)
                                             - (IF p \in {} THEN 1 ELSE 0)]
  PROVE  /\ Writing' = Writing /\ Loading' = Loading \cup {n}
         /\ lockRef' \in [Paths -> Int]
         /\ TransfersAreDistinct'
         /\ \A p \in Paths : lockRef'[p] = LockCount(p, lastNode', Writing', Loading')
<1>1. lockRef \in [Paths -> Int]
  BY Zenon DEF LockInv
<1>2. Writing' = Writing /\ Loading' = Loading \cup {n}
  BY Zenon DEF Writing, Loading
<1>3. n \notin Loading /\ Writing \in SUBSET Paths /\ Loading \in SUBSET Paths
  BY Zenon DEF LockInv, TreeInv
<1>4. lockRef' \in [Paths -> Int]
  BY <1>1, LockAdded, Zenon
<1>5. TransfersAreDistinct'
  <2>1. n \notin loadQueue /\ \A i \in DOMAIN loads : n \notin loads[i]
    BY <1>3, Zenon DEF Loading, Range
  <2>2. TransfersAreDistinct
    BY Zenon DEF LockInv
  <2>3. \A i \in DOMAIN loads : loads[i] \cap loadQueue' = {}
    BY <2>1, <2>2, Zenon DEF TransfersAreDistinct
  <2> QED
    BY <2>2, <2>3, Zenon DEF TransfersAreDistinct
<1>6. ASSUME NEW p \in Paths
      PROVE  lockRef'[p] = LockCount(p, lastNode', Writing', Loading')
  <2>1. Cardinality(Below(Loading \cup {n}, p))
        = Cardinality(Below(Loading, p)) + (IF p \in Anc[n] THEN 1 ELSE 0)
    BY <1>3, CountAdd, Zenon
  <2>2. lockRef[p] = LockCount(p, lastNode, Writing, Loading)
    BY Zenon DEF LockInv
  <2>3. /\ Cardinality(Below(Writing, p)) \in Nat
        /\ Cardinality(Below(Loading, p)) \in Nat
        /\ Cardinality({r \in Reqs : p \in Anc[lastNode[r]]}) \in Nat
    BY <1>3, CardType, Zenon DEF Below
  <2>4. lockRef'[p] = lockRef[p] + (IF p \in Anc[n] THEN 1 ELSE 0)
    BY <1>1
  <2> QED
    <3>1. PICK c, w, l, u :
              /\ c = Cardinality({r \in Reqs : p \in Anc[lastNode[r]]})
              /\ w = Cardinality(Below(Writing, p)) /\ l = Cardinality(Below(Loading, p))
              /\ u = (IF p \in Anc[n] THEN 1 ELSE 0)
      BY Zenon
    <3>2. lockRef[p] = c + w + l /\ c \in Nat /\ w \in Nat /\ l \in Nat /\ u \in Nat
      BY <2>2, <2>3, <3>1, Zenon DEF LockCount
    <3>3. LockCount(p, lastNode', Writing', Loading') = c + w + (l + u)
      BY <1>2, <2>1, <3>1, Zenon DEF LockCount
    <3>4. lockRef'[p] = lockRef[p] + u
      BY <2>4, <3>1, Zenon
    <3> QED
      BY <3>2, <3>3, <3>4
<1> QED
  BY <1>2, <1>4, <1>5, <1>6, Zenon

\* load_back gives the whole host part of the match device pages and locks it.
LEMMA LoadBackStep ==
  ASSUME Control, Control', CacheInv, LoadBack
  PROVE  CacheInv' /\ Stays
<1> DEFINE key == fill[cur]
           end == Matched(key)
           hit == HostHit(cur)
           S == OnDevice(Paths)
<1>1. TreeInv /\ LockInv /\ TableInv /\ LoopInv
  BY Zenon DEF CacheInv
<1>2. ctl = "load" /\ ctl' = "admit" /\ ret' = ret
      /\ UNCHANGED <<writes, loads, phase, work, fill, lastNode, prot, kv, tail, cur>>
  BY Zenon DEF LoadBack, locals
<1>3. key \in Paths \cup {Root} /\ end \in nodes \cup {Root} /\ hit # {}
  BY <1>1, <1>2, Zenon DEF Control, ControlType, CurrentRequest, LoopInv, At
<1>4. CASE Cardinality(free) < Cardinality(hit)
  <2>1. UNCHANGED <<nodes, dev, backed, lockRef, free, loadQueue>>
    BY <1>4, Zenon DEF LoadBack, tree, pools
  <2>2. TreeInv' /\ LockInv' /\ TableInv' /\ Stays
    BY <1>2, <2>1, QuietStep, Zenon DEF tree, dma
  <2>3. Matched(fill[cur])' = end
    BY <1>2, <2>1, Zenon DEF Matched, Tree
  <2>4. LoopInv'
    BY <1>2, <1>3, <2>1, <2>3, Zenon DEF LoopInv, At, Loops
  <2> QED
    BY <2>2, <2>4, Zenon DEF CacheInv
<1>5. CASE ~ Cardinality(free) < Cardinality(hit)
  <2> DEFINE page == Alloc(hit)
  <2>1. /\ dev' = [p \in Paths |-> IF p \in hit THEN page[p] ELSE dev[p]]
        /\ free' = free \ {page[p] : p \in hit}
        /\ lockRef' = [p \in Paths |-> lockRef[p] + (IF p \in Anc[end] THEN 1 ELSE 0)
                                             - (IF p \in {} THEN 1 ELSE 0)]
        /\ loadQueue' = loadQueue \cup {end}
        /\ UNCHANGED <<nodes, backed>>
    BY <1>5, Zenon DEF LoadBack, ChangeLocks
  <2>2. nodes \in SUBSET Paths /\ S \in SUBSET Paths /\ Whole(nodes, S)
    BY <1>1, Zenon DEF TreeInv, OnDevice
  <2>3. Anc[end] = Anc[key] \cap Tree /\ hit = Anc[end] \ S /\ hit \in SUBSET Paths
    BY <1>1, <1>3, MatchFacts, AncType, Zenon DEF HostHit
  <2>4. end \in nodes /\ end \in Paths /\ end \in Anc[end]
    BY <1>3, <2>2, <2>3, PathsAssumption, Zenon
  <2>5. dev[end] = None /\ end \in backed
    <3>1. PICK q : q \in Anc[end] /\ q \notin S
      BY <1>3, <2>3, Zenon
    <3>2. dev[end] = None
      BY <1>1, <2>4, <3>1, TierFacts, AncType, Zenon DEF OnDevice
    <3> QED
      BY <1>1, <2>4, <3>2, Zenon DEF TreeInv
  <2>6. page \in [hit -> DevPages]
    <3>1. Counted(hit) /\ Cardinality(hit) \in Nat
      BY <2>3, Zenon DEF Control, Counting, Counted
    <3>2. free \subseteq DevPages
      BY <1>1, Zenon DEF TableInv
    <3>3. Cardinality(free) \in Nat
      BY <3>2, CardType, ControlCounts, Zenon
    <3>4. Cardinality(hit) <= Cardinality(free)
      BY <1>5, <3>1, <3>3
    <3> HIDE DEF hit
    <3>5. Alloc(hit) \in [hit -> free]
      BY <3>1, <3>2, <3>4, AllocType, Zenon
    <3> QED
      BY <3>2, <3>5, Zenon
  <2> HIDE DEF page, hit, end, S
  <2>7. \A p \in Paths : /\ dev[p] # None => dev'[p] = dev[p]
                         /\ p \in hit => dev'[p] # None
                         /\ p \notin hit => dev'[p] = dev[p]
    BY <2>1, <2>3, <2>6, PoolsAssumption, Zenon DEF OnDevice, S
  <2>8. dev' \in [Paths -> DevPages \cup {None}]
    BY <1>1, <2>1, <2>6, Zenon DEF TreeInv
  <2>9. OnDevice(Paths)' = S \cup Anc[end]
    BY <2>3, <2>4, <2>7, PathsAssumption, Zenon DEF OnDevice, S
  <2>10. Whole(nodes, S \cup Anc[end])
    BY <2>2, <2>4, WholeGrow, Zenon
  <2>11. TreeInv'
    BY <1>1, <2>1, <2>2, <2>7, <2>8, <2>9, <2>10, Zenon DEF TreeInv
  <2>12. LockInv'
    <3>1. /\ Writing' = Writing /\ Loading' = Loading \cup {end}
          /\ lockRef' \in [Paths -> Int]
          /\ TransfersAreDistinct'
          /\ \A p \in Paths : lockRef'[p] = LockCount(p, lastNode', Writing', Loading')
      BY <1>1, <1>2, <2>1, <2>4, <2>5, LoadLocks, ControlCounts, Zenon
    <3>2. dev'[end] # None
      BY <2>3, <2>4, <2>5, <2>7, Zenon DEF S, OnDevice
    <3>3. loadQueue' \subseteq Paths
      BY <1>1, <2>1, <2>4, Zenon DEF LockInv
    <3> QED
      BY <1>1, <1>2, <2>1, <2>2, <2>4, <2>5, <2>7, <3>1, <3>2, <3>3, Zenon DEF LockInv
  <2>13. Stays
    BY <1>1, <2>7, LockFacts, Zenon DEF Stays, LockedPages, OnDevice
  <2>14. TableInv'
    BY <1>1, <1>2, <2>1, <2>11, <2>12, <2>13, TableKeep, Zenon DEF TableInv
  <2>15. Matched(fill[cur])' = end
    BY <1>2, <2>1, Zenon DEF Matched, Tree, end
  <2>16. LoopInv'
    BY <1>2, <2>1, <2>4, <2>15, Zenon DEF LoopInv, At, Loops
  <2> QED
    BY <2>11, <2>12, <2>13, <2>14, <2>16, Zenon DEF CacheInv
<1> QED
  BY <1>4, <1>5, Zenon

-----------------------------------------------------------------------------
(* Transfers: started, acknowledged, demoted.                              *)

\* start_loading: the queue becomes the newest batch of load-backs.
LEMMA StartBatchStep ==
  ASSUME Control, Control', CacheInv, StartBatch
  PROVE  CacheInv' /\ Stays
<1>1. TreeInv /\ LockInv /\ TableInv
  BY Zenon DEF CacheInv
<1>2. /\ loads' = IF loadQueue = {} THEN loads ELSE Append(loads, loadQueue)
      /\ loadQueue' = {} /\ writes' = writes
      /\ ctl' \in {"extend", "evict"} /\ ret' = "extend"
      /\ UNCHANGED <<nodes, dev, backed, lockRef, free, kv, tail, lastNode, prot,
                     phase, fill>>
  BY Zenon DEF StartBatch, CallEvict, tree, pools, reqs
<1>3. loads \in Seq(SUBSET Paths) /\ loadQueue \in SUBSET Paths
  BY <1>1, Zenon DEF LockInv
<1>4. loads' \in Seq(SUBSET Paths) /\ Writing' = Writing /\ Loading' = Loading
  <2>1. CASE loadQueue = {}
    BY <1>2, <1>3, <2>1, Zenon DEF Writing, Loading
  <2>2. CASE loadQueue # {}
    <3>1. Range(loads') = Range(loads) \cup {loadQueue}
      BY <1>2, <1>3, <2>2, RangeAppend
    <3> QED
      BY <1>2, <1>3, <2>2, <3>1 DEF Writing, Loading
  <2> QED
    BY <2>1, <2>2, Zenon
<1>5. TransfersAreDistinct'
  <2>0. TransfersAreDistinct
    BY <1>1, Zenon DEF LockInv
  <2>1. CASE loadQueue = {}
    BY <1>2, <2>0, <2>1, Zenon DEF TransfersAreDistinct
  <2>2. CASE loadQueue # {}
    <3>1. /\ DOMAIN loads = 1..Len(loads) /\ DOMAIN loads' = 1..(Len(loads) + 1)
          /\ \A i \in 1..Len(loads) : loads'[i] = loads[i]
          /\ loads'[Len(loads) + 1] = loadQueue /\ Len(loads) \in Nat
      BY <1>2, <1>3, <2>2, SMTT(30)
    <3>2. \A i, j \in DOMAIN loads' : i # j => loads'[i] \cap loads'[j] = {}
      BY <2>0, <3>1, SMTT(30) DEF TransfersAreDistinct
    <3> QED
      BY <1>2, <2>0, <3>2, Zenon DEF TransfersAreDistinct
  <2> QED
    BY <2>1, <2>2, Zenon
<1>6. LockInv'
  BY <1>1, <1>2, <1>4, <1>5, Zenon DEF LockInv
<1>7. TreeInv' /\ Stays /\ TableInv'
  BY <1>1, <1>2, TreeSame, TableSame, Zenon
<1>8. LoopInv'
  BY <1>2, Zenon DEF LoopInv, At, Loops
<1> QED
  BY <1>6, <1>7, <1>8, Zenon DEF CacheInv

\* The invariant after a step that drops the locks of transfers that are over:
\* the remaining transfers keep their pages.
LEMMA AckStep ==
  ASSUME Control, Control', CacheInv, TreeInv',
         UNCHANGED <<nodes, backed, lastNode, prot, kv, tail, phase, fill>>,
         free' \subseteq DevPages, lockRef' \in [Paths -> Int],
         writes' \in Seq(Paths), loadQueue' \subseteq Paths,
         loads' \in Seq(SUBSET Paths), TransfersAreDistinct',
         Writing' \subseteq Writing, Loading' \subseteq Loading,
         \A p \in Paths : lockRef'[p] = LockCount(p, lastNode', Writing', Loading'),
         \A p \in Paths : lockRef'[p] > 0 => dev'[p] = dev[p]
  PROVE  TreeInv' /\ LockInv' /\ TableInv' /\ Stays
<1>1. TreeInv /\ LockInv /\ TableInv
  BY Zenon DEF CacheInv
<1>2. Writing' \in SUBSET Paths /\ Loading' \in SUBSET Paths
      /\ lastNode' \in [Reqs -> Paths \cup {Root}]
  BY <1>1, Zenon DEF LockInv, TreeInv, Control, ControlType
<1>3. ASSUME NEW n \in Paths, n \in Writing' \cup Loading' \/ \E r \in Reqs : n = lastNode'[r]
      PROVE  dev'[n] = dev[n]
  <2>1. n \in Anc[n]
    BY PathsAssumption, Zenon
  <2>2. LockCount(n, lastNode', Writing', Loading') > 0
    BY <1>2, <1>3, <2>1, CountPositive, ControlCounts, Zenon
  <2> QED
    BY <2>2, Zenon
<1>4. LockInv'
  <2>1. \A r \in Reqs : lastNode'[r] # Root =>
            lastNode'[r] \in nodes' /\ dev'[lastNode'[r]] # None
    BY <1>1, <1>2, <1>3, Zenon DEF LockInv
  <2>2. \A n \in Writing' \cup Loading' : n \in nodes' /\ dev'[n] # None /\ n \in backed'
    BY <1>1, <1>2, <1>3, Zenon DEF LockInv
  <2> QED
    BY <2>1, <2>2, Zenon DEF LockInv
<1>5. Stays
  BY Zenon DEF Stays
<1> QED
  BY <1>1, <1>4, <1>5, TableKeep, Zenon

\* A backup that is over counts one lock less on its path.
LEMMA CountDropWrite ==
  ASSUME Counting, NEW last \in [Reqs -> Paths \cup {Root}], NEW p \in Paths,
         NEW A \in SUBSET Paths, NEW L \in SUBSET Paths, NEW x \in A
  PROVE  LockCount(p, last, A \ {x}, L)
         = LockCount(p, last, A, L) - (IF p \in Anc[x] THEN 1 ELSE 0)
<1> DEFINE c == Cardinality({r \in Reqs : p \in Anc[last[r]]})
<1>1. Cardinality(Below(A \ {x}, p))
      = Cardinality(Below(A, p)) - (IF p \in Anc[x] THEN 1 ELSE 0)
  BY CountRemove, Zenon
<1>2. /\ c \in Nat /\ Cardinality(Below(A, p)) \in Nat
      /\ Cardinality(Below(L, p)) \in Nat
  BY CardType, Zenon DEF Below
<1>3. /\ LockCount(p, last, A \ {x}, L) = c + Cardinality(Below(A \ {x}, p)) + Cardinality(Below(L, p))
      /\ LockCount(p, last, A, L) = c + Cardinality(Below(A, p)) + Cardinality(Below(L, p))
  BY Zenon DEF LockCount
<1> HIDE DEF c
<1>4. PICK j, k, b : /\ j = Cardinality(Below(A, p)) /\ b = IF p \in Anc[x] THEN 1 ELSE 0
                     /\ k = j - b
  BY Zenon
<1>5. Cardinality(Below(A \ {x}, p)) = k /\ j \in Nat /\ b \in Int
  <2>1. b \in Int
    BY <1>4
  <2> QED
    BY <1>1, <1>2, <1>4, <2>1, Zenon
<1> QED
  BY <1>2, <1>3, <1>4, <1>5

\* So does a load-back.
LEMMA CountDropLoad ==
  ASSUME Counting, NEW last \in [Reqs -> Paths \cup {Root}], NEW p \in Paths,
         NEW A \in SUBSET Paths, NEW W \in SUBSET Paths, NEW x \in A
  PROVE  LockCount(p, last, W, A \ {x})
         = LockCount(p, last, W, A) - (IF p \in Anc[x] THEN 1 ELSE 0)
<1> DEFINE c == Cardinality({r \in Reqs : p \in Anc[last[r]]})
<1>1. Cardinality(Below(A \ {x}, p))
      = Cardinality(Below(A, p)) - (IF p \in Anc[x] THEN 1 ELSE 0)
  BY CountRemove, Zenon
<1>2. /\ c \in Nat /\ Cardinality(Below(A, p)) \in Nat
      /\ Cardinality(Below(W, p)) \in Nat
  BY CardType, Zenon DEF Below
<1>3. /\ LockCount(p, last, W, A \ {x}) = c + Cardinality(Below(W, p)) + Cardinality(Below(A \ {x}, p))
      /\ LockCount(p, last, W, A) = c + Cardinality(Below(W, p)) + Cardinality(Below(A, p))
  BY Zenon DEF LockCount
<1> HIDE DEF c
<1>4. PICK j, k, b : /\ j = Cardinality(Below(A, p)) /\ b = IF p \in Anc[x] THEN 1 ELSE 0
                     /\ k = j - b
  BY Zenon
<1>5. Cardinality(Below(A \ {x}, p)) = k /\ j \in Nat /\ b \in Int
  <2>1. b \in Int
    BY <1>4
  <2> QED
    BY <1>1, <1>2, <1>4, <2>1, Zenon
<1> QED
  BY <1>2, <1>3, <1>4, <1>5

\* The rest of a queue without duplicates.
LEMMA TailFacts ==
  ASSUME NEW T, NEW s \in Seq(T), s # <<>>
  PROVE  /\ Tail(s) \in Seq(T) /\ Head(s) \in Range(s) /\ Head(s) = s[1]
         /\ DOMAIN s = 1..Len(s) /\ DOMAIN Tail(s) = 1..(Len(s) - 1)
         /\ Len(s) \in Nat \ {0}
         /\ \A i \in DOMAIN Tail(s) : i + 1 \in DOMAIN s /\ Tail(s)[i] = s[i + 1]
         /\ (\A i, j \in DOMAIN s : s[i] = s[j] => i = j) =>
                Range(Tail(s)) = Range(s) \ {Head(s)}
<1> DEFINE t == Tail(s)
<1>1. /\ Len(s) \in Nat \ {0} /\ DOMAIN s = 1..Len(s) /\ Head(s) = s[1]
      /\ t \in Seq(T) /\ DOMAIN t = 1..(Len(s) - 1)
      /\ \A i \in 1..(Len(s) - 1) : t[i] = s[i + 1]
  OBVIOUS
<1>2. Range(s) = Range(t) \cup {Head(s)}
  BY RangeTail, Zenon
<1> HIDE DEF t
<1>3. \A i \in DOMAIN t : i + 1 \in DOMAIN s /\ t[i] = s[i + 1]
  BY <1>1
<1>4. ASSUME \A i, j \in DOMAIN s : s[i] = s[j] => i = j
      PROVE  Head(s) \notin Range(t)
  <2>1. SUFFICES ASSUME NEW i \in DOMAIN t, t[i] = s[1]
                 PROVE  FALSE
    BY <1>1, Zenon DEF Range
  <2>2. i + 1 = 1
    BY <1>1, <1>3, <1>4, <2>1
  <2> QED
    BY <1>1, <2>2
<1>5. Head(s) \in Range(s)
  BY <1>2, Zenon
<1> QED
  BY <1>1, <1>2, <1>3, <1>4, <1>5 DEF t

\* writing_check: the oldest backup releases its lock, and its node may be
\* demoted at once.
LEMMA WritingCheckStep ==
  ASSUME Control, Control', CacheInv, WritingCheck
  PROVE  CacheInv' /\ Stays
<1>0. PICK n, W, L : n = Head(writes) /\ W = Range(Tail(writes)) /\ L = Loading
  BY Zenon
<1>1. TreeInv /\ LockInv /\ TableInv
  BY Zenon DEF CacheInv
<1>2. /\ ctl = "idle" /\ ctl' = "idle" /\ writes # <<>> /\ writes' = Tail(writes)
      /\ UNCHANGED <<loadQueue, loads, lastNode, prot, kv, tail, phase, fill>>
  BY Zenon DEF WritingCheck, Idle, reqs
<1>3. TryDemote(n, Anc[n]) \/ Unlock(Anc[n])
  BY <1>0, Zenon DEF WritingCheck
<1>4. /\ writes \in Seq(Paths) /\ lockRef \in [Paths -> Int]
      /\ Writing \in SUBSET Paths /\ Loading \in SUBSET Paths
      /\ lastNode \in [Reqs -> Paths \cup {Root}]
      /\ TransfersAreDistinct /\ free \subseteq DevPages
  BY <1>1, LockFacts, Zenon DEF LockInv, TableInv, Control, ControlType
<1>5. n \in Writing /\ W = Writing \ {n} /\ Tail(writes) \in Seq(Paths)
  <2>1. \A i, j \in DOMAIN writes : writes[i] = writes[j] => i = j
    BY <1>4, Zenon DEF TransfersAreDistinct
  <2>2. Range(Tail(writes)) = Range(writes) \ {Head(writes)}
    BY <1>2, <1>4, <2>1, TailFacts, Zenon
  <2>3. Head(writes) \in Range(writes) /\ Tail(writes) \in Seq(Paths)
    BY <1>2, <1>4, TailFacts, Zenon
  <2> QED
    BY <1>0, <2>2, <2>3, Zenon DEF Writing
<1>6. Writing' = W /\ Loading' = L /\ L \in SUBSET Loading
  <2>1. Range(writes') = Range(Tail(writes)) /\ loads' = loads /\ loadQueue' = loadQueue
    BY <1>2, Zenon
  <2> QED
    BY <1>0, <2>1, Zenon DEF Writing, Loading
<1>7. TransfersAreDistinct'
  <2>1. \A i, j \in DOMAIN Tail(writes) : Tail(writes)[i] = Tail(writes)[j] => i = j
    <3>1. \A i \in DOMAIN Tail(writes) :
               i + 1 \in DOMAIN writes /\ Tail(writes)[i] = writes[i + 1]
      BY <1>2, <1>4, TailFacts, Zenon
    <3>2. DOMAIN Tail(writes) \subseteq Nat
      BY <1>2, <1>4
    <3> QED
      BY <1>4, <3>1, <3>2 DEF TransfersAreDistinct
  <2>2. \A i, j \in DOMAIN writes' : writes'[i] = writes'[j] => i = j
    BY <1>2, <2>1, Zenon
  <2>3. loads' = loads /\ loadQueue' = loadQueue
    BY <1>2, Zenon
  <2> QED
    BY <1>4, <2>2, <2>3, Zenon DEF TransfersAreDistinct
<1>8. \A p \in Paths : LockCount(p, lastNode, W, L)
                         = lockRef[p] - (IF p \in Anc[n] THEN 1 ELSE 0)
  <2> TAKE p \in Paths
  <2>1. LockCount(p, lastNode, W, L)
        = LockCount(p, lastNode, Writing, L) - (IF p \in Anc[n] THEN 1 ELSE 0)
    <3>1. PICK A, f : A = Writing /\ f = lastNode
      BY Zenon
    <3>2. /\ n \in A /\ n \in Paths /\ W = A \ {n} /\ f \in [Reqs -> Paths \cup {Root}]
          /\ W \in SUBSET Paths /\ A \in SUBSET Paths /\ L \in SUBSET Paths
      BY <1>0, <1>4, <1>5, <3>1, Zenon
    <3>3. Counting
      BY ControlCounts, Zenon
    <3>4. LockCount(p, f, A \ {n}, L)
          = LockCount(p, f, A, L) - (IF p \in Anc[n] THEN 1 ELSE 0)
      BY <3>2, <3>3, CountDropWrite
    <3> QED
      BY <3>1, <3>2, <3>4, Zenon
  <2>2. lockRef[p] = LockCount(p, lastNode, Writing, Loading)
    BY <1>1, Zenon DEF LockInv
  <2> QED
    BY <1>0, <2>1, <2>2, Zenon
<1>9. StillHeld(W, L)
  <2>1. CASE TryDemote(n, Anc[n])
    <3>1. PICK D : D = Anc[n]
      BY Zenon
    <3>2. TryDemote(n, D) /\ Released(W, L, D)
      BY <1>5, <1>6, <1>8, <2>1, <3>1, Zenon DEF Released
    <3> QED
      BY <1>1, <1>4, <3>2, TryDemoteStep, Zenon
  <2>2. CASE Unlock(Anc[n])
    <3>1. /\ lockRef' = [p \in Paths |-> lockRef[p] + (IF p \in {} THEN 1 ELSE 0)
                             - (IF p \in Anc[n] THEN 1 ELSE 0)]
          /\ UNCHANGED <<nodes, dev, backed, free>>
      BY <2>2, Zenon DEF Unlock, ChangeLocks
    <3> QED
      <4>1. lockRef \in [Paths -> Int]
        BY <1>4, Zenon
      <4>2. lockRef' = [p \in Paths |-> lockRef[p] + (IF p \in {} THEN 1 ELSE 0)
                               - (IF p \in Anc[n] THEN 1 ELSE 0)]
        BY <3>1, Zenon
      <4>3. /\ lockRef' \in [Paths -> Int]
            /\ \A p \in Paths : lockRef'[p] = lockRef[p] - (IF p \in Anc[n] THEN 1 ELSE 0)
        BY <4>1, <4>2
      <4>4. \A p \in Paths : lockRef'[p] = LockCount(p, lastNode, W, L)
        BY <1>8, <4>3, Zenon
      <4>5. TreeInv' /\ Stays
        BY <1>1, <3>1, TreeSame, Zenon
      <4> QED
        BY <1>4, <3>1, <4>3, <4>4, <4>5, Zenon DEF StillHeld
  <2> QED
    BY <1>3, <2>1, <2>2, Zenon
<1>10. \A p \in Paths : lockRef'[p] = LockCount(p, lastNode', Writing', Loading')
  BY <1>2, <1>6, <1>9, Zenon DEF StillHeld
<1>11. TreeInv' /\ LockInv' /\ TableInv' /\ Stays
  BY <1>1, <1>2, <1>4, <1>5, <1>6, <1>7, <1>9, <1>10, AckStep, Zenon DEF LockInv, StillHeld
<1>12. LoopInv'
  BY <1>2, Zenon DEF LoopInv, At, Loops
<1> QED
  BY <1>11, <1>12, Zenon DEF CacheInv

\* loading_check, one node of the oldest batch: it is unlocked, and nobody else
\* had loaded it.
LEMMA LoadingCheckStep ==
  ASSUME Control, Control', CacheInv, LoadingCheck
  PROVE  CacheInv' /\ Stays
<1>1. TreeInv /\ LockInv /\ TableInv
  BY Zenon DEF CacheInv
<1>2. PICK n \in Head(loads) : Unlock(Anc[n]) /\ loads' = [loads EXCEPT ![1] = @ \ {n}]
  BY Zenon DEF LoadingCheck
<1>3. /\ loads # <<>> /\ ret' = "loaded" /\ ctl' \in {"loaded", "drain"}
      /\ UNCHANGED <<writes, loadQueue, lastNode, prot, kv, tail, phase, fill>>
  BY Zenon DEF LoadingCheck, CallDrain, reqs
<1>4. /\ loads \in Seq(SUBSET Paths) /\ lockRef \in [Paths -> Int]
      /\ Writing \in SUBSET Paths /\ Loading \in SUBSET Paths
      /\ lastNode \in [Reqs -> Paths \cup {Root}]
      /\ TransfersAreDistinct /\ free \subseteq DevPages
  BY <1>1, LockFacts, Zenon DEF LockInv, TableInv, Control, ControlType
<1>5. /\ Len(loads) \in Nat \ {0} /\ DOMAIN loads = 1..Len(loads) /\ 1 \in DOMAIN loads
      /\ n \in loads[1] /\ loads[1] \subseteq Paths
  BY <1>2, <1>3, <1>4
<1>6. /\ loads' \in Seq(SUBSET Paths) /\ DOMAIN loads' = DOMAIN loads /\ loads' # <<>>
      /\ loads'[1] = loads[1] \ {n} /\ \A i \in DOMAIN loads : i # 1 => loads'[i] = loads[i]
  BY <1>2, <1>4, <1>5
<1>7. n \in Loading /\ n \in Paths /\ Loading' = Loading \ {n} /\ Writing' = Writing
  <2>1. n \notin loadQueue /\ \A i \in DOMAIN loads : i # 1 => n \notin loads[i]
    BY <1>4, <1>5, Zenon DEF TransfersAreDistinct
  <2>2. \A y : y \in Loading' <=> y \in loadQueue \/ \E i \in DOMAIN loads : y \in loads'[i]
    BY <1>3, <1>6, Zenon DEF Loading, Range
  <2>3. \A y : y \in Loading <=> y \in loadQueue \/ \E i \in DOMAIN loads : y \in loads[i]
    BY Zenon DEF Loading, Range
  <2>4. \A y : y \in Loading' <=> y \in Loading /\ y # n
    BY <1>5, <1>6, <2>1, <2>2, <2>3, Zenon
  <2> QED
    BY <1>3, <1>5, <2>3, <2>4, Zenon DEF Writing
<1>8. TransfersAreDistinct'
  <2>1. \A i \in DOMAIN loads : loads'[i] \subseteq loads[i]
    BY <1>6, Zenon
  <2> QED
    BY <1>3, <1>4, <1>6, <2>1, Zenon DEF TransfersAreDistinct
<1>9. PICK A, L, V : A = Writing /\ L = Loading /\ V = Loading'
  BY Zenon
<1>10. \A p \in Paths : LockCount(p, lastNode, A, V)
                          = lockRef[p] - (IF p \in Anc[n] THEN 1 ELSE 0)
  <2> TAKE p \in Paths
  <2>1. /\ A \in SUBSET Paths /\ L \in SUBSET Paths /\ V \in SUBSET Paths
        /\ n \in L /\ V = L \ {n}
    BY <1>4, <1>7, <1>9, Zenon
  <2>2. LockCount(p, lastNode, A, V)
        = LockCount(p, lastNode, A, L) - (IF p \in Anc[n] THEN 1 ELSE 0)
    <3>1. n \in Paths /\ lastNode \in [Reqs -> Paths \cup {Root}]
      BY <1>4, <1>7, Zenon
    <3> QED
      <4>1. PICK f : f = lastNode
        BY Zenon
      <4>2. f \in [Reqs -> Paths \cup {Root}] /\ Counting
        BY <3>1, <4>1, ControlCounts, Zenon
      <4>3. LockCount(p, f, A, L \ {n}) = LockCount(p, f, A, L) - (IF p \in Anc[n] THEN 1 ELSE 0)
        BY <2>1, <4>2, CountDropLoad
      <4> QED
        BY <2>1, <4>1, <4>3, Zenon
  <2>3. lockRef[p] = LockCount(p, lastNode, Writing, Loading)
    BY <1>1, Zenon DEF LockInv
  <2> QED
    BY <1>9, <2>2, <2>3, Zenon
<1>11. /\ lockRef' = [p \in Paths |-> lockRef[p] + (IF p \in {} THEN 1 ELSE 0)
                             - (IF p \in Anc[n] THEN 1 ELSE 0)]
       /\ UNCHANGED <<nodes, dev, backed, free>>
  BY <1>2, Zenon DEF Unlock, ChangeLocks
<1>12. TreeInv' /\ lockRef' \in [Paths -> Int]
       /\ \A p \in Paths : lockRef'[p] = LockCount(p, lastNode, A, V)
  <2>1. lockRef \in [Paths -> Int]
    BY <1>4, Zenon
  <2>2. lockRef' = [p \in Paths |-> lockRef[p] + (IF p \in {} THEN 1 ELSE 0)
                           - (IF p \in Anc[n] THEN 1 ELSE 0)]
    BY <1>11, Zenon
  <2>3. /\ lockRef' \in [Paths -> Int]
        /\ \A p \in Paths : lockRef'[p] = lockRef[p] - (IF p \in Anc[n] THEN 1 ELSE 0)
    BY <2>1, <2>2
  <2>4. \A p \in Paths : lockRef'[p] = LockCount(p, lastNode, A, V)
    BY <1>10, <2>3, Zenon
  <2> QED
    BY <1>1, <1>11, <2>3, <2>4, TreeSame, Zenon
<1>13. \A p \in Paths : lockRef'[p] = LockCount(p, lastNode', Writing', Loading')
  BY <1>3, <1>7, <1>9, <1>12, Zenon
<1>14. TreeInv' /\ LockInv' /\ TableInv' /\ Stays
  BY <1>1, <1>3, <1>4, <1>6, <1>7, <1>8, <1>11, <1>12, <1>13, AckStep, Zenon DEF LockInv
<1>15. LoopInv'
  BY <1>3, <1>6, Zenon DEF LoopInv, At, Loops
<1> QED
  BY <1>14, <1>15, Zenon DEF CacheInv

\* loading_check, the end of a batch: an empty set of nodes leaves the queue.
LEMMA LoadingCheckDoneStep ==
  ASSUME Control, Control', CacheInv, LoadingCheckDone
  PROVE  CacheInv' /\ Stays
<1>1. TreeInv /\ LockInv /\ TableInv /\ LoopInv
  BY Zenon DEF CacheInv
<1>2. /\ ctl = "loaded" /\ Head(loads) = {} /\ loads' = Tail(loads) /\ ctl' = "idle"
      /\ UNCHANGED <<nodes, dev, backed, lockRef, free, writes, loadQueue, lastNode,
                     prot, kv, tail, phase, fill>>
  BY Zenon DEF LoadingCheckDone, Home, tree, pools, reqs
<1>3. loads \in Seq(SUBSET Paths) /\ TransfersAreDistinct /\ loads # <<>>
  BY <1>1, <1>2, Zenon DEF LockInv, LoopInv, At
<1>4. loads' \in Seq(SUBSET Paths) /\ Range(loads) = Range(loads') \cup {{}}
  <2>1. Range(loads) = Range(Tail(loads)) \cup {Head(loads)} /\ Tail(loads) \in Seq(SUBSET Paths)
    BY <1>3, RangeTail, TailFacts, Zenon
  <2> QED
    BY <1>2, <2>1, Zenon
<1>5. Writing' = Writing /\ Loading' = Loading
  BY <1>2, <1>4, Zenon DEF Writing, Loading
<1>6. TransfersAreDistinct'
  <2>1. \A i \in DOMAIN Tail(loads) :
             i + 1 \in DOMAIN loads /\ Tail(loads)[i] = loads[i + 1]
    BY <1>3, TailFacts, Zenon
  <2>2. DOMAIN Tail(loads) \subseteq Nat
    BY <1>3
  <2>3. \A i, j \in DOMAIN loads' : i # j => loads'[i] \cap loads'[j] = {}
    <3>1. \A i, j \in DOMAIN loads : i # j => loads[i] \cap loads[j] = {}
      BY <1>3, Zenon DEF TransfersAreDistinct
    <3>2. ASSUME NEW i \in DOMAIN Tail(loads), NEW j \in DOMAIN Tail(loads), i # j
          PROVE  Tail(loads)[i] \cap Tail(loads)[j] = {}
      <4>1. i + 1 # j + 1
        BY <2>2, <3>2
      <4> QED
        BY <2>1, <3>1, <4>1, Zenon
    <3> QED
      BY <1>2, <3>2, Zenon
  <2>4. \A i \in DOMAIN loads' : loads'[i] \cap loadQueue = {}
    BY <1>2, <1>3, <2>1, Zenon DEF TransfersAreDistinct
  <2> QED
    BY <1>2, <1>3, <2>3, <2>4, Zenon DEF TransfersAreDistinct
<1>7. LockInv'
  BY <1>1, <1>2, <1>4, <1>5, <1>6, Zenon DEF LockInv
<1>8. TreeInv' /\ Stays /\ TableInv'
  BY <1>1, <1>2, TreeSame, TableSame, Zenon
<1>9. LoopInv'
  BY <1>2, Zenon DEF LoopInv, At, Loops
<1> QED
  BY <1>7, <1>8, <1>9, Zenon DEF CacheInv

\* A demotion from a request's load-back tail or from the pending set.
LEMMA DemotionStep ==
  ASSUME Control, Control', CacheInv, NEW n, TryDemote(n, {}), UNCHANGED <<dma, reqs>>
  PROVE  TreeInv' /\ LockInv' /\ TableInv' /\ Stays
<1>1. TreeInv /\ LockInv /\ TableInv
  BY Zenon DEF CacheInv
<1>2. PICK W, L, D : W = Writing /\ L = Loading /\ D = {}
  BY Zenon
<1>3. Released(W, L, D) /\ TryDemote(n, D) /\ free \subseteq DevPages
  <2>1. \A p \in Paths : lockRef[p] = LockCount(p, lastNode, W, L) /\ lockRef[p] \in Int
    BY <1>1, <1>2, Zenon DEF LockInv
  <2> QED
    <3>1. \A p \in Paths : LockCount(p, lastNode, W, L)
                              = lockRef[p] - (IF p \in D THEN 1 ELSE 0)
      BY <1>2, <2>1
    <3> QED
      BY <1>1, <1>2, <3>1, Zenon DEF Released, TableInv
<1>4. StillHeld(W, L)
  BY <1>1, <1>3, TryDemoteStep, Zenon
<1>5. /\ UNCHANGED <<writes, loads, loadQueue, lastNode, prot, kv, tail, phase, fill>>
      /\ Writing' = W /\ Loading' = L
  BY <1>2, Zenon DEF dma, reqs, Writing, Loading
<1>6. TransfersAreDistinct' /\ writes' \in Seq(Paths) /\ loadQueue' \subseteq Paths
      /\ loads' \in Seq(SUBSET Paths)
  BY <1>1, <1>5, Zenon DEF LockInv, TransfersAreDistinct
<1> QED
  BY <1>1, <1>2, <1>4, <1>5, <1>6, AckStep, Zenon DEF StillHeld

\* _demote_hybrid_load_back_tail_for_req and _drain_hybrid_pending_demotions.
LEMMA DemoteLoopStep ==
  ASSUME Control, Control', CacheInv, DemoteTail \/ DrainPending
  PROVE  CacheInv' /\ Stays
<1>1. LoopInv'
  <2>1. CASE DemoteTail
    <3>1. /\ ctl = "demote" /\ ret' = ret
          /\ ctl' \in {"demote", "drain", ret}
      BY <2>1, Zenon DEF DemoteTail, CallDrain
    <3>2. ret \in {"done", "shrink"}
      BY <3>1, Zenon DEF Control, ReturnsHome
    <3> QED
      BY <3>1, <3>2, Zenon DEF LoopInv, At, Loops
  <2>2. CASE DrainPending
    <3>1. /\ ctl = "drain" /\ ret' = ret /\ ctl' \in {"drain", ret} /\ loads' = loads
      BY <2>2, Zenon DEF DrainPending, Return, dma
    <3>2. ret \in {"done", "shrink", "loaded"}
      BY <3>1, Zenon DEF Control, ReturnsHome
    <3> QED
      BY <3>1, <3>2, Zenon DEF LoopInv, At, Loops, CacheInv
  <2> QED
    BY <2>1, <2>2, Zenon
<1>2. UNCHANGED <<dma, reqs>>
  BY Zenon DEF DemoteTail, DrainPending
<1>3. \/ \E n : TryDemote(n, {})
      \/ UNCHANGED <<tree, free>>
  BY Zenon DEF DemoteTail, DrainPending, pools
<1>4. TreeInv' /\ LockInv' /\ TableInv' /\ Stays
  <2>1. ASSUME NEW n, TryDemote(n, {})
        PROVE  TreeInv' /\ LockInv' /\ TableInv' /\ Stays
    BY <1>2, <2>1, DemotionStep, Zenon
  <2>2. CASE UNCHANGED <<tree, free>>
    BY <1>2, <2>2, QuietStep, Zenon DEF reqs
  <2> QED
    BY <1>3, <2>1, <2>2, Zenon
<1> QED
  BY <1>1, <1>4, Zenon DEF CacheInv
=============================================================================
