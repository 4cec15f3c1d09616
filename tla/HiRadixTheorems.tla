-------------------------- MODULE HiRadixTheorems ---------------------------
(***************************************************************************)
(* The theorems: the inductive invariant holds in every reachable state of *)
(* the cache, for every tree of prefixes, every pool size and every set of *)
(* requests, and so do the properties it implies.                          *)
(***************************************************************************)
EXTENDS HiRadixRequestProofs, HiRadixStepProofs, FiniteSetTheorems, FunctionTheorems

-----------------------------------------------------------------------------
(* All steps together.                                                     *)

\* The empty cache satisfies the invariant.
LEMMA CacheInit == Counting /\ Init => CacheInv
<1> SUFFICES ASSUME Counting, Init
             PROVE  CacheInv
  BY Zenon
<1>1. /\ nodes = {} /\ dev = [p \in Paths |-> None] /\ backed = {} /\ free = DevPages
      /\ lockRef = [p \in Paths |-> 0] /\ writes = <<>> /\ loads = <<>>
      /\ loadQueue = {} /\ lastNode = [r \in Reqs |-> Root]
      /\ phase = [r \in Reqs |-> "out"] /\ kv = [r \in Reqs |-> [p \in Paths |-> None]]
      /\ tail = [r \in Reqs |-> None] /\ ctl = "idle"
  BY Zenon DEF Init
<1>2. OnDevice(Paths) = {}
  BY <1>1, Zenon DEF OnDevice
<1>3. TreeInv
  BY <1>1, <1>2, Zenon DEF TreeInv, Shape, Whole
<1>4. Writing = {} /\ Loading = {}
  BY <1>1 DEF Writing, Loading, Range
<1>5. \A p \in Paths : lockRef[p] = LockCount(p, lastNode, Writing, Loading)
  <2> TAKE p \in Paths
  <2>1. /\ {r \in Reqs : p \in Anc[lastNode[r]]} = {}
        /\ Below(Writing, p) = {} /\ Below(Loading, p) = {}
    BY <1>1, <1>4, PathsAssumption, Zenon DEF Below
  <2>2. LockCount(p, lastNode, Writing, Loading)
        = Cardinality({}) + Cardinality({}) + Cardinality({})
    BY <2>1, Zenon DEF LockCount
  <2> QED
    BY <1>1, <2>2 DEF Counting, Counted
<1>6. LockInv
  BY <1>1, <1>4, <1>5 DEF LockInv, TransfersAreDistinct
<1>7. TableInv
  BY <1>1, Zenon DEF TableInv, Holding
<1>8. LoopInv
  BY <1>1, Zenon DEF LoopInv, At, Loops
<1> QED
  BY <1>3, <1>6, <1>7, <1>8, Zenon DEF CacheInv

\* Every step preserves the invariant, and no step moves a page that stays
\* locked.
LEMMA CacheStep ==
  ASSUME Control, Control', CacheInv, [Next]_vars
  PROVE  CacheInv' /\ Stays
<1>1. ASSUME NEW r \in Reqs, NEW w \in Work, Arrive(r, w)
      PROVE  CacheInv' /\ Stays
  BY <1>1, ArriveStep, Zenon
<1>2. ASSUME NEW r \in Reqs, MatchPrefix(r)
      PROVE  CacheInv' /\ Stays
  BY <1>2, MatchPrefixStep, Zenon
<1>3. ASSUME NEW r \in Reqs, CacheUnfinished(r) \/ Finish(r)
      PROVE  CacheInv' /\ Stays
  BY <1>3, InsertStep, Zenon DEF CacheUnfinished, Finish, Idle
<1>4. ASSUME NEW r \in Reqs, AbortWaiting(r)
      PROVE  CacheInv' /\ Stays
  BY <1>4, ArriveStep, RequestsAssumption, Zenon
<1>5. ASSUME \/ AddRefused \/ AddOneReq \/ AdmitRefused \/ OnIdle \/ HandlerDone
             \/ (\E S : CheckDecodeMem(S)) \/ DecodeFits \/ RetractDecode
             \/ Shrink \/ Recheck
      PROVE  CacheInv' /\ Stays
  BY <1>5, ControlOnlyStep, Zenon
<1>6. CASE LoadBack \/ Admit \/ StartBatch \/ PrepareForExtend
  BY <1>6, LoadBackStep, AdmitStep, StartBatchStep, PrepareForExtendStep, Zenon
<1>7. CASE WriteBackup \/ Evict \/ FreeDuplicates \/ Relock
  BY <1>7, WriteBackupStep, EvictStep, FreeDuplicatesStep, RelockStep, Zenon
<1>8. CASE ReleaseFinished
  <2>1. /\ ctl = "finish" /\ Release(Anc[prefixLen], "out") /\ ret' = "done"
    BY <1>8, Zenon DEF ReleaseFinished
  <2>2. cur \in Reqs /\ phase[cur] \in {"prefill", "decode"}
    BY <2>1, Zenon DEF Control, CurrentRequest, At
  <2>3. prefixLen \in Anc[Prompt(cur)] \cup {Root} /\ Prompt(cur) \in Anc[fill[cur]]
        /\ fill[cur] \in Paths \cup {Root}
    BY <2>1, <2>2, Zenon DEF CacheInv, LoopInv, At, Control, ControlType, RequestShape
  <2>4. PICK dup : dup = Anc[prefixLen]
    BY Zenon
  <2>5. dup \in SUBSET Anc[fill[cur]] /\ Release(dup, "out")
    BY <2>1, <2>3, <2>4, PathsAssumption, SMTT(90)
  <2> QED
    BY <2>1, <2>2, <2>5, ReleaseStep, Zenon
<1>9. CASE ReleaseRetracted
  <2>1. PICK dup, new : dup = Anc[Prompt(cur)]
                          /\ new = IF ctl = "abort" THEN "out" ELSE "waiting"
    BY Zenon
  <2>2. /\ ctl \in {"retract", "abort"} /\ Release(dup, new)
        /\ ret' \in {"done", "shrink"}
    BY <1>9, <2>1, Zenon DEF ReleaseRetracted
  <2>3. cur \in Reqs /\ phase[cur] = "decode"
    BY <2>2, Zenon DEF Control, CurrentRequest
  <2>4. Prompt(cur) \in Anc[fill[cur]] /\ fill[cur] \in Paths \cup {Root}
    BY <2>3, Zenon DEF Control, ControlType, RequestShape
  <2>5. dup \in SUBSET Anc[fill[cur]] /\ new \in {"out", "waiting"}
    BY <2>1, <2>4, PathsAssumption, Zenon
  <2> QED
    BY <2>2, <2>3, <2>5, ReleaseStep, Zenon
<1>10. CASE DemoteTail \/ DrainPending
  BY <1>10, DemoteLoopStep, Zenon
<1>11. CASE WritingCheck \/ LoadingCheck \/ LoadingCheckDone
  BY <1>11, WritingCheckStep, LoadingCheckStep, LoadingCheckDoneStep, Zenon
<1>12. CASE AllocForDecode
  BY <1>12, AllocForDecodeStep, Zenon
<1>13. CASE UNCHANGED vars
  <2>1. UNCHANGED <<tree, free, kv, tail, lastNode, prot, dma, phase, fill, work,
                    ctl, ret, cur, todo, prefixLen>>
    BY <1>13, Zenon DEF vars, pools, reqs, locals
  <2>2. TreeInv' /\ LockInv' /\ TableInv' /\ Stays
    BY <2>1, QuietStep, Zenon
  <2>3. LoopInv'
    BY <2>1, Zenon DEF CacheInv, LoopInv, At, tree, dma, Matched, HostHit, DevMatched,
       OnDevice, Tree, Prompt
  <2> QED
    BY <2>2, <2>3, Zenon DEF CacheInv
<1> QED
  BY <1>1, <1>2, <1>3, <1>4, <1>5, <1>6, <1>7, <1>8, <1>9, <1>10, <1>11, <1>12,
     <1>13, Zenon DEF Next

-----------------------------------------------------------------------------
(* The constants are finite.                                               *)

\* A finite set has a size, and fits into every set of pages that is no smaller.
LEMMA FiniteIsCounted ==
  ASSUME NEW S, IsFiniteSet(S)
  PROVE  Counted(S)
<1>1. Cardinality(S) \in Nat /\ (Cardinality(S) = 0 <=> S = {})
  BY FS_CardinalityType, FS_EmptySet, Zenon
<1>2. \A x : x \notin S => Cardinality(S \cup {x}) = Cardinality(S) + 1
  BY FS_AddElement, Zenon
<1>3. ASSUME NEW F \in SUBSET DevPages, Cardinality(S) <= Cardinality(F)
      PROVE  Injection(S, F) # {}
  <2> DEFINE n == Cardinality(S)  m == Cardinality(F)
  <2>1. IsFiniteSet(F)
    BY FS_Subset, PoolsAssumption, Zenon
  <2>2. n \in Nat /\ m \in Nat /\ ExistsBijection(1..n, S) /\ ExistsBijection(1..m, F)
    BY <2>1, FS_CardinalityType, Zenon
  <2>3. PICK f \in Bijection(S, 1..n) : TRUE
    BY <2>2, Fun_ExistsBijSymmetric, Zenon DEF ExistsBijection
  <2>4. PICK g \in Bijection(1..m, F) : TRUE
    BY <2>2, Zenon DEF ExistsBijection
  <2>5. f \in [S -> 1..n] /\ \A a, b \in S : f[a] = f[b] => a = b
    BY <2>3, Zenon DEF Bijection, Injection, IsInjective
  <2>6. g \in [1..m -> F] /\ \A a, b \in 1..m : g[a] = g[b] => a = b
    BY <2>4, Zenon DEF Bijection, Injection, IsInjective
  <2> DEFINE h == [s \in S |-> g[f[s]]]
  <2>7. h \in [S -> F] /\ \A a, b \in S : h[a] = h[b] => a = b
    BY <1>3, <2>2, <2>5, <2>6
  <2> QED
    BY <2>7, Fun_IsInj, Zenon
<1> QED
  BY <1>1, <1>2, <1>3, Zenon DEF Counted

\* The constants are finite.
LEMMA CountingHolds == Counting
<1>1. IsFiniteSet(Slots)
  BY RequestsAssumption, PathsAssumption, FS_Product, FS_AddElement, Zenon DEF Slots
<1> QED
  BY <1>1, RequestsAssumption, PathsAssumption, PoolsAssumption, FS_Subset,
     FiniteIsCounted, Zenon DEF Counting

-----------------------------------------------------------------------------
(* The theorems.                                                           *)

\* The invariant of the cache: handlers, tree, locks, page tables and types
\* hold together in every reachable state.
THEOREM CacheIsSound == Spec => [](Control /\ CacheInv)
<1>1. Init => Control /\ CacheInv
  BY CountingHolds, ControlInit, CacheInit, Zenon
<1>2. Control /\ CacheInv /\ [Next]_vars => (Control /\ CacheInv)'
  BY ControlStep, CacheStep, Zenon
<1> QED
  BY <1>1, <1>2, PTL DEF Spec

\* Every variable keeps its type in every reachable state; hostFree, which
\* write_backup decreases, never becomes negative.
THEOREM TypesAreCorrect == Spec => []TypeOK
<1>1. Init => Types
  BY PoolsAssumption DEF Init, Types, MarkTypes, CounterTypes, ListTypes
<1>2. Control /\ CacheInv /\ (Control /\ CacheInv)' /\ Types /\ [Next]_vars => Types'
  BY TypesStep, Zenon
<1>3. Control /\ CacheInv /\ Types => TypeOK
  BY Zenon DEF Control, ControlType, CacheInv, TreeInv, LockInv, TableInv, Types, MarkTypes,
     CounterTypes, ListTypes, TypeOK
<1> QED
  BY <1>1, <1>2, <1>3, CacheIsSound, PTL DEF Spec

\* load_queue is empty whenever no handler runs, for every number of requests
\* and every pool size: a load-back issued for a request that is refused
\* afterwards is started with the batch it was refused from.
THEOREM LoadsAreAlwaysStarted == Spec => []LoadsAreStarted
<1>1. Init => Control /\ QueueIsForming
  BY CountingHolds, ControlInit, Zenon DEF Init, QueueIsForming
<1>2. Control /\ QueueIsForming /\ [Next]_vars => (Control /\ QueueIsForming)'
  BY ControlStep, QueueStep, Zenon
<1>3. QueueIsForming => LoadsAreStarted
  BY Zenon DEF QueueIsForming, LoadsAreStarted, Idle, At, Loops
<1> QED
  BY <1>1, <1>2, <1>3, PTL DEF Spec

\* lock_ref is exact, for every tree of prefixes, every pool size and every
\* number of requests: no interleaving of splits, retractions, refused
\* admissions and acknowledgements leaks a lock or releases one twice.
THEOREM LocksAreAlwaysExact == Spec => []LocksAreExact
<1>1. Control /\ CacheInv => LocksAreExact
  BY Zenon DEF CacheInv, LockInv, LockCount, Below, LocksAreExact
<1> QED
  BY <1>1, CacheIsSound, PTL, Zenon

\* A page that somebody has locked is on the device, and a page under a
\* transfer is also in host memory.
THEOREM LockedIsAlwaysOnDevice == Spec => []LockedOnDevice
<1>1. ASSUME Control, CacheInv
      PROVE  LockedOnDevice
  <2>1. TreeInv /\ LockInv
    BY <1>1, Zenon DEF CacheInv
  <2>2. \A p \in Paths : lockRef[p] > 0 => dev[p] # None
    BY <1>1, <2>1, LockFacts, Zenon DEF LockedPages, OnDevice
  <2>3. \A n \in Writing \cup Loading : Anc[n] \subseteq backed
    BY <2>1, TierFacts, Zenon DEF LockInv
  <2> QED
    BY <2>2, <2>3, Zenon DEF LockedOnDevice
<1> QED
  BY <1>1, CacheIsSound, PTL

\* Both tiers are contiguous prefixes of every radix path.
THEOREM TiersAreAlwaysPrefixes == Spec => []TiersArePrefixes
<1>1. CacheInv => TiersArePrefixes
  BY TierFacts, Zenon DEF CacheInv
<1> QED
  BY <1>1, CacheIsSound, PTL

\* No node's pages branch.
THEOREM ShapeIsAlwaysRadix == Spec => []RadixShape
<1>1. CacheInv => RadixShape
  BY TierFacts, Zenon DEF CacheInv
<1> QED
  BY <1>1, CacheIsSound, PTL

\* A request's page table shows the tree's pages up to its protected length.
THEOREM PageTablesAreAlwaysSound == Spec => []PageTableSound
<1>1. ASSUME Control, CacheInv
      PROVE  PageTableSound
  <2>1. TreeInv /\ LockInv /\ TableInv
    BY <1>1, Zenon DEF CacheInv
  <2>2. ASSUME NEW r \in Reqs, NEW p \in Anc[prot[r]]
        PROVE  dev[p] # None
    <3>1. prot[r] = lastNode[r] /\ prot[r] \in Paths \cup {Root}
      BY <1>1, Zenon DEF Control, ControlType, RequestShape
    <3>2. prot[r] \in Paths /\ dev[prot[r]] # None
      BY <2>1, <2>2, <3>1, PathsAssumption, Zenon DEF LockInv
    <3> QED
      BY <2>1, <2>2, <3>2, TierFacts, Zenon
  <2> QED
    BY <2>1, <2>2, Zenon DEF TableInv, PageTableSound
<1> QED
  BY <1>1, CacheIsSound, PTL

\* No step gives a page that stays locked another address.
THEOREM LockedPagesAlwaysStay == Spec => LockedPagesStay
<1>1. Control /\ CacheInv /\ [Next]_vars =>
         [\A p \in Paths : lockRef[p] > 0 /\ lockRef'[p] > 0 => dev'[p] = dev[p]]_vars
  BY ControlStep, CacheStep, Zenon DEF Stays
<1> QED
  BY <1>1, CacheIsSound, PTL, Zenon DEF Spec, LockedPagesStay
=============================================================================
