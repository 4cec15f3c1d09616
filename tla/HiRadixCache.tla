---------------------------- MODULE HiRadixCache ----------------------------
(***************************************************************************)
(* The hierarchical prefix cache of Fluxfer in the mode it is served in:   *)
(* hybrid I/O, write-through policy, no storage tier.  One scheduler       *)
(* thread matches, admits, prefills, decodes, retracts and finishes        *)
(* requests over a radix tree whose pages live in device memory (HBM), in  *)
(* host memory (DRAM) or in both, while D2H backups and H2D load-backs run *)
(* asynchronously and are acknowledged later.                              *)
(*                                                                         *)
(* A tree node is named by the page-aligned token prefix it ends with; the *)
(* state is kept per page.  A handler that loops (backing nodes up,        *)
(* evicting, demoting) is several steps under the program counter ctl, and *)
(* no other handler starts until ctl is "idle" again.                      *)
(***************************************************************************)
EXTENDS Integers, FiniteSets, Sequences, FiniteSetsExt

CONSTANTS
    Paths,      \* the non-empty page-aligned token prefixes in play
    Root,       \* the empty prefix: the root node of the tree
    Anc,        \* Anc[p]: every prefix of p, p included; Anc[Root] = {}
    Reqs,       \* requests the server handles at a time
    Work,       \* the requests clients send: <<full pages of the prompt,
                \* full pages of the prompt and everything generated>>
    DevPages,   \* pages of the device pool
    HostSize,   \* pages of the host pool
    None        \* no page

ASSUME PathsAssumption ==
    /\ Root \notin Paths /\ IsFiniteSet(Paths)
    /\ Anc \in [Paths \cup {Root} -> SUBSET Paths]
    /\ Anc[Root] = {}
    /\ \A p \in Paths : p \in Anc[p]
    /\ \A p \in Paths : \A q \in Anc[p] : Anc[q] \subseteq Anc[p]
    /\ \A p, q \in Paths : p \in Anc[q] /\ q \in Anc[p] => p = q
    /\ \A p \in Paths : \A S \in SUBSET Anc[p] :
          S # {} => /\ \E q \in S : S \subseteq Anc[q]
                    /\ \E q \in S : \A s \in S : q \in Anc[s]

ASSUME RequestsAssumption ==
    /\ IsFiniteSet(Reqs)
    /\ Work # {} /\ Work \subseteq Paths \X Paths
    /\ \A w \in Work : w[1] \in Anc[w[2]]

\* HostKVCache refuses a host pool that is not larger than the device pool.
ASSUME PoolsAssumption ==
    /\ IsFiniteSet(DevPages)
    /\ None \notin DevPages
    /\ HostSize \in Nat
    /\ HostSize > Cardinality(DevPages)

VARIABLES
    nodes,            \* the tree: the prefixes at which a node ends
    dev,              \* dev[p]: device page of p's KV (node.value), or None
    backed,           \* pages with a host copy (node.host_value)
    lockRef,          \* lock_ref of the node a page belongs to
    free,             \* free pages of the device allocator
    hostFree,         \* number of free host pages
    evictableSize,    \* evictable_size_
    protectedSize,    \* protected_size_
    leaves,           \* evictable_leaves
    hostLeaves,       \* evictable_host_leaves
    demoteAfterWrite, \* nodes with hicache_demote_after_write
    writeDemote,      \* hybrid_write_demote_node_ids
    pending,          \* hybrid_pending_device_demotions
    writes,           \* ack_write_queue / ongoing_write_through, oldest first
    loadQueue,        \* load_queue: last nodes of load-backs not yet started
    loads,            \* ack_load_queue: sets of last nodes, oldest batch first
    phase,            \* where a request is
    work,             \* what it asks for
    fill,             \* full pages of fill_ids
    lastNode,         \* req.last_node
    prot,             \* req.cache_protected_len, as a prefix
    kv,               \* req_to_token row: device page of every full page
    tail,             \* the partly filled last page of the request
    loadBack,         \* hybrid_load_back_nodes_by_reqid: the nodes of each
                      \* load-back, in path order, oldest load-back first
    ctl,              \* which step of which handler comes next
    ret,              \* where a backup, evict or drain loop returns to
    cur,              \* the request being handled
    todo,             \* nodes left to back up, or to try to demote
    tailQueue,        \* load-back tail nodes left to try to demote
    prefixLen,        \* insert()'s prefix_len, as a prefix
    need,             \* pages evict() is asked for
    want              \* running requests that need a page for the next token

tree    == <<nodes, dev, backed, lockRef>>
pools   == <<free, hostFree, evictableSize, protectedSize, leaves, hostLeaves>>
marks   == <<demoteAfterWrite, writeDemote, pending>>
dma     == <<writes, loadQueue, loads>>
reqs    == <<phase, work, fill, lastNode, prot, kv, tail, loadBack>>
locals  == <<cur, todo, tailQueue, prefixLen, need, want>>
vars    == <<tree, pools, marks, dma, reqs, locals, ctl, ret>>

-----------------------------------------------------------------------------
(* The tree.                                                               *)

\* The longest of a set of prefixes of one path; Root if there is none.
Deepest(S) == IF S = {} THEN Root ELSE CHOOSE p \in S : S \subseteq Anc[p]

Tree == UNION {Anc[n] : n \in nodes}

Parent(n) == Deepest({m \in nodes : m \in Anc[n] \ {n}})

Kids(n) == {m \in nodes : Parent(m) = n}

\* The pages whose KV a node holds.
Seg(n) == Anc[n] \ Anc[Parent(n)]

Pages(N) == UNION {Seg(n) : n \in N}

OnDevice(S) == {p \in S : dev[p] # None}

\* The longest cached prefix of a key and its longest device-resident prefix.
Matched(key) == Deepest(Anc[key] \cap Tree)
DevMatched(key) == Deepest(OnDevice(Anc[key]))

\* Mutant: the node in which a match ends is not split.
SplitNever(key) == nodes

\* _split_node: a node that a match ends inside of is cut at that point.
Split(key) == nodes \cup ({Matched(key)} \ {Root})

Bare(n) == \A k \in Kids(n) : dev[k] = None

\* _update_leaf_status and _update_host_leaf_status: what a set holds of n.
IsLeaf(n) ==
    n \in nodes /\ dev[n] # None /\ lockRef[n] = 0 /\ Bare(n)

IsHostLeaf(n) ==
    /\ n \in nodes /\ dev[n] = None /\ lockRef[n] = 0
    /\ \A k \in Kids(n) : k \notin backed

\* Mutant: a node that is no leaf any more stays in the set.
UpdateLeavesAdds(T) ==
    leaves' = leaves \cup {n \in T : IsLeaf(n)'}

\* After a handler touched the nodes T of the new tree, the two leaf sets.
UpdateLeaves(T) ==
    leaves' = (leaves \ T) \cup {n \in T : IsLeaf(n)'}
UpdateHostLeaves(T) ==
    hostLeaves' = (hostLeaves \ T) \cup {n \in T : IsHostLeaf(n)'}

-----------------------------------------------------------------------------
(* Locks.  inc_lock_ref and dec_lock_ref walk from a node to the root; the *)
(* first lock of a page moves it from evictable to protected, the release  *)
(* of the last one moves it back.                                          *)

\* Mutant: the sizes change when a second lock is taken or released.
ChangeLocksLate(Inc, Dec, gain) ==
    LET l == [p \in Paths |-> lockRef[p] + (IF p \in Inc THEN 1 ELSE 0)
                                         - (IF p \in Dec THEN 1 ELSE 0)]
        delta == Cardinality({p \in Paths : lockRef[p] > 1 /\ l[p] = 1})
                 - Cardinality({p \in Paths : lockRef[p] = 1 /\ l[p] > 1})
    IN  /\ lockRef' = l
        /\ protectedSize' = protectedSize - delta
        /\ evictableSize' = evictableSize + delta + gain

\* One more lock on every page of Inc, one less on every page of Dec; gain is
\* what else the step adds to evictable_size_.
ChangeLocks(Inc, Dec, gain) ==
    LET l == [p \in Paths |-> lockRef[p] + (IF p \in Inc THEN 1 ELSE 0)
                                         - (IF p \in Dec THEN 1 ELSE 0)]
        delta == Cardinality({p \in Paths : lockRef[p] > 0 /\ l[p] = 0})
                 - Cardinality({p \in Paths : lockRef[p] = 0 /\ l[p] > 0})
    IN  /\ lockRef' = l
        /\ protectedSize' = protectedSize - delta
        /\ evictableSize' = evictableSize + delta + gain

-----------------------------------------------------------------------------
(* Calls.  A loop runs under its own label of ctl and goes back to ret.    *)

\* _inc_hit_count on every device node of a path: with a threshold of one
\* hit, each node that has no host copy yet is backed up, top down.
CallBackup(N, label) ==
    /\ todo' = N
    /\ ret' = label
    /\ ctl' = IF N = {} THEN label ELSE "backup"

\* evict_from_tree_cache: evict n pages unless n are free.
CallEvict(n, label) ==
    /\ need' = n
    /\ ret' = label
    /\ ctl' = IF Cardinality(free) >= n THEN label ELSE "evict"

CallDrain(label) ==
    /\ todo' = pending
    /\ ret' = label
    /\ ctl' = IF pending = {} THEN label ELSE "drain"

Return(rest) == ctl' = IF rest = {} THEN ret ELSE ctl

\* A handler ends: the scheduler may start any other.
Home ==
    /\ ctl' = "idle" /\ ret' = "idle" /\ cur' = None
    /\ todo' = {} /\ tailQueue' = {} /\ prefixLen' = Root
    /\ need' = 0 /\ want' = {}

-----------------------------------------------------------------------------
(* Device eviction, host eviction, backup.                                 *)

\* Mutant: evict() does not skip locked nodes.
EvictableLocked(held) == {n \in nodes : dev[n] # None /\ n \notin held}

\* What evict() may take, with held under load_back's own lock.
Evictable(held) ==
    {n \in nodes : dev[n] # None /\ lockRef[n] = 0 /\ n \notin held}

\* The round of evict()'s loop that reaches n: the heap is rebuilt from the
\* device leaves only when it is empty.
Round(n) ==
    Max({Cardinality({k \in nodes : n \in Anc[k] /\ k \in Anc[m]}) :
            m \in {m \in nodes : n \in Anc[m] /\ dev[m] # None}})

\* The sets of nodes evict(n) may pick: whole rounds, in any order within
\* one, until enough pages are gone or nothing is left.
EvictSets(n, held) ==
    {E \in SUBSET Evictable(held) :
        /\ \A x \in E, y \in Evictable(held) : Round(y) < Round(x) => y \in E
        /\ \A x \in E, y \in Evictable(held) : x \in Anc[y] => y \in E
        /\ IF Cardinality(Pages(E)) < n
           THEN E = Evictable(held)
           ELSE \E x \in E :
                  /\ \A y \in E : Round(y) <= Round(x)
                  /\ Cardinality(Pages(E \ {x})) < n}

\* Delete nodes from the tree.  What still refers to a deleted node object
\* finds it evicted and skips it for good.
Forget(D) ==
    /\ nodes' = nodes \ D
    /\ loadBack' = [r \in Reqs |->
            [i \in DOMAIN loadBack[r] |-> loadBack[r][i] \ D]]

\* _evict_backuped keeps a node whose pages have a host copy, _evict_regular
\* deletes one whose pages do not.
Evict ==
    /\ ctl = "evict"
    /\ LET held == IF ret = "load" THEN Anc[DevMatched(fill[cur])] ELSE {}
       IN  \E E \in EvictSets(need, held) :
             /\ dev' = [p \in Paths |->
                            IF p \in Pages(E) THEN None ELSE dev[p]]
             /\ free' = free \cup {dev[p] : p \in Pages(E)}
             /\ evictableSize' = evictableSize - Cardinality(Pages(E))
             /\ Forget(E \ backed)
             /\ pending' = pending \ (E \ backed)
             /\ demoteAfterWrite' = demoteAfterWrite \ (E \ backed)
             /\ UNCHANGED <<backed, lockRef>>
             /\ UpdateLeaves(E \cup {Parent(n) : n \in E})
             /\ UpdateHostLeaves(E)
    /\ ctl' = ret
    /\ UNCHANGED <<hostFree, protectedSize, writeDemote, dma, phase, work, fill,
                   lastNode, prot, kv, tail, locals, ret>>

HostEvictable == {n \in nodes : dev[n] = None /\ lockRef[n] = 0}

\* Mutant: evict_host() deletes inner nodes before the nodes below them.
HostEvictInner(n) ==
    {H \in SUBSET HostEvictable : Cardinality(Pages(H)) >= n}

\* Mutant: evict_host() finds nothing to delete.
HostEvictNothing(n) == {{}}

\* The sets of nodes evict_host(n) may delete: leaves first, each node after
\* everything below it, until enough host pages are free or nothing is left.
HostEvictSets(n) ==
    {H \in SUBSET HostEvictable :
        /\ \A x \in H, y \in nodes : x \in Anc[y] => y \in H
        /\ IF Cardinality(Pages(H)) < n
           THEN \A x \in HostEvictable \ H : ~ Kids(x) \subseteq H
           ELSE \E x \in H :
                  Parent(x) \notin H /\ Cardinality(Pages(H \ {x})) < n}

\* write_backup: host pages are taken, evicting host-only nodes once if there
\* are too few; the node is locked until the copy is acknowledged.
WriteBackup ==
    /\ ctl = "backup"
    /\ \E n \in todo :
        LET size == Cardinality(Seg(n))
            ready == Parent(n) \in backed \cup {Root}
        IN
        /\ \A m \in todo : n \in Anc[m]
        /\ \E H \in IF ready /\ hostFree < size THEN HostEvictSets(size)
                                               ELSE {{}} :
             LET room == hostFree + Cardinality(Pages(H))
                 ok == ready /\ room >= size
             IN
             /\ Forget(H)
             /\ pending' = pending \ H
             /\ backed' = (backed \ Pages(H)) \cup (IF ok THEN Seg(n) ELSE {})
             /\ hostFree' = IF ok THEN room - size ELSE room
             /\ writes' = IF ok THEN Append(writes, n) ELSE writes
             /\ ChangeLocks(IF ok THEN Anc[n] ELSE {}, {}, 0)
             /\ IF ok /\ n \in demoteAfterWrite
                THEN /\ writeDemote' = writeDemote \cup {n}
                     /\ demoteAfterWrite' = demoteAfterWrite \ {n}
                ELSE UNCHANGED <<writeDemote, demoteAfterWrite>>
             /\ UNCHANGED dev
             /\ UpdateLeaves(IF ok THEN Anc[n] \cap nodes ELSE {})
             /\ UpdateHostLeaves(H \cup {Parent(h) : h \in H}
                                   \cup (IF ok THEN Anc[n] \cap nodes ELSE {}))
        /\ todo' = todo \ {n}
        /\ Return(todo \ {n})
    /\ UNCHANGED <<free, loadQueue, loads, phase, work, fill, lastNode, prot, kv,
                   tail, cur, tailQueue, prefixLen, need, want, ret>>

-----------------------------------------------------------------------------
(* Batch formation: match, budget, load-back, admission, allocation.       *)

Running == {r \in Reqs : phase[r] = "decode"}
Added   == {r \in Reqs : phase[r] = "added"}
Idle    == ctl = "idle"

Prompt(r) == work[r][1]
Full(r) == work[r][2]

NoWork == <<Root, Root>>

Leave(r) ==
    /\ work' = [work EXCEPT ![r] = NoWork]
    /\ fill' = [fill EXCEPT ![r] = Root]

Arrive(r, w) ==
    /\ Idle /\ phase[r] = "out"
    /\ phase' = [phase EXCEPT ![r] = "waiting"]
    /\ work' = [work EXCEPT ![r] = w]
    /\ fill' = [fill EXCEPT ![r] = w[1]]
    /\ loadBack' = [loadBack EXCEPT ![r] = <<>>]
    /\ UNCHANGED <<tree, pools, marks, dma, lastNode, prot, kv, tail, locals,
                   ctl, ret>>

\* The nodes of a path that hold device pages without a host copy.
Unbacked(N, key) == {n \in N : n \in Anc[key] /\ n \notin backed}

\* init_next_round_input: match_prefix splits the node in which the match
\* ends and counts a hit on every device node of the path.
MatchPrefix(r) ==
    /\ ctl \in {"idle", "form"} /\ phase[r] = "waiting"
    /\ cur' = r
    /\ nodes' = Split(fill[r])
    /\ CallBackup(Unbacked(nodes', fill[r]), "add")
    /\ UNCHANGED <<dev, backed, lockRef, pools, marks, dma, reqs, tailQueue,
                   prefixLen, need, want>>

\* Pages the added requests S still have to get for full prompt pages.
Extend(S) ==
    {x \in S \X Paths : x[2] \in Anc[fill[x[1]]] \ Anc[prot[x[1]]]}

\* Mutant: an admitted request is not charged to the budget.
InBudgetUncharged(r) ==
    LET d == Anc[DevMatched(fill[r])]
    IN  Cardinality(Anc[fill[r]] \ d) + 2
        <= Cardinality(free) + evictableSize
             - Cardinality({p \in d : lockRef[p] = 0})

\* add_one_req's budget, in the most permissive reading of its token counts:
\* the new pages of a request, its partial page and one page of overhead
\* must fit in what is free or evictable once its own prefix is locked, next
\* to what the requests added before it will take.
InBudget(r) ==
    LET d == Anc[DevMatched(fill[r])]
    IN  Cardinality(Anc[fill[r]] \ d) + 2
          + Cardinality(Extend(Added)) + 2 * Cardinality(Added)
        <= Cardinality(free) + evictableSize
             - Cardinality({p \in d : lockRef[p] = 0})

\* NO_TOKEN or OTHER.  Running requests reserve memory by an estimate of the
\* tokens they will still generate and added ones use up the input budget, so
\* either may be the reason even when the pages are there.
AddRefused ==
    /\ ctl = "add"
    /\ ~ InBudget(cur) \/ Running # {} \/ Added # {}
    /\ IF Added = {} THEN Home ELSE ctl' = "stop" /\ UNCHANGED <<locals, ret>>
    /\ UNCHANGED <<tree, pools, marks, dma, reqs>>

\* Host pages to load: from the first evicted node of the match to its end.
HostHit(r) == Anc[Matched(fill[r])] \ Anc[DevMatched(fill[r])]

AddOneReq ==
    /\ ctl = "add" /\ InBudget(cur)
    /\ IF HostHit(cur) = {}
       THEN ctl' = "admit" /\ UNCHANGED <<need, ret>>
       ELSE CallEvict(Cardinality(HostHit(cur)), "load")
    /\ UNCHANGED <<tree, pools, marks, dma, reqs, cur, todo, tailQueue,
                   prefixLen, want>>

\* The allocator's choice of pages for the items of S.
Alloc(S) == CHOOSE f \in Injection(S, free) : TRUE

\* load_back after its eviction attempt: all evicted pages of the match get
\* device pages, or none does.
LoadBack ==
    /\ ctl = "load"
    /\ LET hit == HostHit(cur)
           end == Matched(fill[cur])
           page == Alloc(hit)
       IN  IF Cardinality(free) < Cardinality(hit)
           THEN UNCHANGED <<tree, pools, loadQueue, loadBack>>
           ELSE /\ dev' = [p \in Paths |->
                              IF p \in hit THEN page[p] ELSE dev[p]]
                /\ free' = free \ {page[p] : p \in hit}
                /\ ChangeLocks(Anc[end], {}, Cardinality(hit))
                /\ loadQueue' = loadQueue \cup {end}
                /\ loadBack' = [loadBack EXCEPT ![cur] = Append(@, hit \cap nodes)]
                /\ UNCHANGED <<nodes, backed, hostFree>>
                /\ UpdateLeaves(Anc[end] \cap nodes)
                /\ UpdateHostLeaves(Anc[end] \cap nodes)
    /\ ctl' = "admit"
    /\ UNCHANGED <<marks, writes, loads, phase, work, fill, lastNode, prot, kv, tail,
                   locals, ret>>

\* The end of add_one_req: the request joins can_run_list, its prefix is
\* locked and its row of the page table gets the resident prefix.
Admit ==
    /\ ctl = "admit"
    /\ LET d == DevMatched(fill[cur])
       IN  /\ phase' = [phase EXCEPT ![cur] = "added"]
           /\ lastNode' = [lastNode EXCEPT ![cur] = d]
           /\ prot' = [prot EXCEPT ![cur] = d]
           /\ kv' = [kv EXCEPT ![cur] =
                        [p \in Paths |-> IF p \in Anc[d] THEN dev[p] ELSE None]]
           /\ ChangeLocks(Anc[d], {}, 0)
           /\ UNCHANGED <<nodes, dev, backed>>
           /\ UpdateLeaves(Anc[d] \cap nodes)
           /\ UpdateHostLeaves(Anc[d] \cap nodes)
    /\ ctl' \in {"form", "stop"}
    /\ UNCHANGED <<free, hostFree, marks, dma, work, fill, tail, loadBack, locals, ret>>

\* The input budget is exceeded after the load-back was issued: the request
\* stays in the waiting queue and the loaded nodes stay on the device.
AdmitRefused ==
    /\ ctl = "admit" /\ Added # {}
    /\ ctl' = "stop"
    /\ UNCHANGED <<tree, pools, marks, dma, reqs, locals, ret>>

\* The batch is fixed: start_loading() turns the load queue into one
\* in-flight transfer, then alloc_for_extend() makes room.
StartBatch ==
    /\ ctl \in {"form", "stop"}
    /\ loads' = IF loadQueue = {} THEN loads ELSE Append(loads, loadQueue)
    /\ loadQueue' = {}
    /\ \E over \in 1..Cardinality(Added) :
         CallEvict(Cardinality(Extend(Added)) + Cardinality(Added) + over,
                   "extend")
    /\ UNCHANGED <<tree, pools, marks, writes, reqs, cur, todo, tailQueue,
                   prefixLen, want>>

\* alloc_extend(): every added request gets its full pages and a partial one.
PrepareForExtend ==
    /\ ctl = "extend"
    /\ LET slots == Extend(Added) \cup (Added \X {Root})
           page == Alloc(slots)
       IN  /\ Cardinality(free) >= Cardinality(slots)
           /\ kv' = [r \in Reqs |-> [p \in Paths |->
                        IF <<r, p>> \in slots THEN page[<<r, p>>]
                                              ELSE kv[r][p]]]
           /\ tail' = [r \in Reqs |->
                        IF r \in Added THEN page[<<r, Root>>] ELSE tail[r]]
           /\ free' = free \ {page[s] : s \in slots}
    /\ phase' = [r \in Reqs |-> IF r \in Added THEN "prefill" ELSE phase[r]]
    /\ Home
    /\ UNCHANGED <<tree, hostFree, evictableSize, protectedSize, leaves,
                   hostLeaves, marks, dma, work, fill, lastNode, prot, loadBack>>

-----------------------------------------------------------------------------
(* Caching a request: insert(), cache_unfinished_req, cache_finished_req.  *)

\* insert(): the request's pages give evicted nodes of its prompt a device
\* copy and make a new node for the part that is not cached.  Pages already
\* on the device keep the tree's copy.
Insert(r, label) ==
    LET key == Prompt(r)
        m == Matched(key)
        d == DevMatched(key)
        refilled == {n \in nodes' : n \in Anc[m] \ Anc[d]}
        fresh == {key} \ {m}
    IN  /\ cur' = r
        /\ prefixLen' = d
        /\ nodes' = Split(key) \cup {key}
        /\ dev' = [p \in Paths |-> IF p \in Anc[key] /\ dev[p] = None
                                   THEN kv[r][p] ELSE dev[p]]
        /\ evictableSize' = evictableSize + Cardinality(Anc[key] \ Anc[d])
        /\ pending' = pending \cup (refilled \cap backed)
        /\ demoteAfterWrite' =
                demoteAfterWrite \cup (refilled \ backed) \cup fresh
        /\ UNCHANGED <<backed, lockRef>>
        /\ UpdateLeaves(refilled \cup fresh
                          \cup {Parent(n)' : n \in refilled \cup fresh})
        /\ UpdateHostLeaves(refilled)
        /\ CallBackup(Unbacked(nodes', key), label)
        /\ UNCHANGED <<free, hostFree, protectedSize, writeDemote, dma, reqs,
                       tailQueue, need, want>>

\* process_batch_result_prefill, the request goes on decoding.
CacheUnfinished(r) ==
    /\ Idle /\ phase[r] = "prefill"
    /\ Insert(r, "cached")

\* Mutant: the slice starts at 0 and not at cache_protected_len.
OwnCopiesFromStart(S) == {kv[cur][p] : p \in S}

\* The request's own device pages among the prefixes S.
OwnCopies(S) == {kv[cur][p] : p \in S \ Anc[prot[cur]]}

\* The request's own copies of pages the tree already had are freed, and the
\* prompt is matched again.
FreeDuplicates ==
    /\ ctl = "cached"
    /\ free' = free \cup OwnCopies(Anc[prefixLen])
    /\ CallBackup(Unbacked(nodes, Prompt(cur)), "relock")
    /\ UNCHANGED <<tree, hostFree, evictableSize, protectedSize, leaves,
                   hostLeaves, marks, dma, reqs, cur, tailQueue, prefixLen,
                   need, want>>

\* Mutant: the page table keeps the request's own copies.
TreeRowKept(r) == kv[r]

\* req_to_token_pool.write of the tree's pages past the protected length.
TreeRow(r) ==
    [p \in Paths |-> IF p \in Anc[Prompt(r)] \ Anc[prot[r]] THEN dev[p]
                                                           ELSE kv[r][p]]

\* The page table takes the tree's pages and the lock moves to the prompt's
\* end.
Relock ==
    /\ ctl = "relock"
    /\ LET new == Anc[Prompt(cur)]
           old == Anc[lastNode[cur]]
       IN  /\ kv' = [kv EXCEPT ![cur] = TreeRow(cur)]
           /\ ChangeLocks(new, old, 0)
           /\ UNCHANGED <<nodes, dev, backed>>
           /\ UpdateLeaves((new \cup old) \cap nodes)
           /\ UpdateHostLeaves((new \cup old) \cap nodes)
    /\ prot' = [prot EXCEPT ![cur] = Prompt(cur)]
    /\ lastNode' = [lastNode EXCEPT ![cur] = Prompt(cur)]
    /\ phase' = [phase EXCEPT ![cur] = "decode"]
    /\ Home
    /\ UNCHANGED <<free, hostFree, marks, dma, work, fill, tail, loadBack>>

\* release_kv_cache of a request that ends, after its prefill or a decode.
Finish(r) ==
    /\ Idle /\ phase[r] \in {"prefill", "decode"}
    /\ Insert(r, "finish")

\* The order of the list a request's load-backs are recorded in.
Precedes(e, f) ==
    \/ e[1] < f[1]
    \/ e[1] = f[1] /\ e[2] \in Anc[f[2]] \ {f[2]}

\* _select_hybrid_load_back_tail_nodes over the first entries of the nodes
\* still on the device: those that lie in the second half of their pages.
LoadBackTail(r) ==
    LET list == loadBack[r]
        live == {e \in (DOMAIN list) \X nodes :
                    /\ e[2] \in list[e[1]] /\ dev[e[2]] # None
                    /\ \A i \in 1..(e[1] - 1) : e[2] \notin list[i]}
        pages(S) == Cardinality(Pages({e[2] : e \in S}))
        keep == (pages(live) + 1) \div 2
    IN  {e \in live : keep <= pages({f \in live : Precedes(f, e)})}

\* The rest of cache_finished_req: of the request's own pages, dup is freed
\* among the prompt's and every decode page is; the lock is released; then
\* the load-back tail and the pending nodes are tried for demotion.
Release(dup, newPhase) ==
    /\ free' = free \cup OwnCopies(dup)
                    \cup {kv[cur][p] : p \in Anc[fill[cur]] \ Anc[Prompt(cur)]}
                    \cup {tail[cur]}
    /\ ChangeLocks({}, Anc[lastNode[cur]], 0)
    /\ UNCHANGED <<nodes, dev, backed>>
    /\ UpdateLeaves(Anc[lastNode[cur]] \cap nodes)
    /\ UpdateHostLeaves(Anc[lastNode[cur]] \cap nodes)
    /\ phase' = [phase EXCEPT ![cur] = newPhase]
    /\ IF newPhase = "out" THEN Leave(cur) ELSE UNCHANGED <<work, fill>>
    /\ kv' = [kv EXCEPT ![cur] = [p \in Paths |-> None]]
    /\ tail' = [tail EXCEPT ![cur] = None]
    /\ lastNode' = [lastNode EXCEPT ![cur] = Root]
    /\ prot' = [prot EXCEPT ![cur] = Root]
    /\ loadBack' = [loadBack EXCEPT ![cur] = <<>>]
    /\ tailQueue' = LoadBackTail(cur)
    /\ ctl' = "demote"
    /\ UNCHANGED <<hostFree, marks, dma, cur, todo, prefixLen, need>>

ReleaseFinished ==
    /\ ctl = "finish"
    /\ Release(Anc[prefixLen], "out")
    /\ ret' = "done"
    /\ UNCHANGED want

-----------------------------------------------------------------------------
(* Demotion.                                                               *)

\* Mutant: an acknowledgement does not release its lock.
UnlockNever(Dec) == UNCHANGED <<tree, pools>>

\* dec_lock_ref along Dec, where no page moves.
Unlock(Dec) ==
    /\ ChangeLocks({}, Dec, 0)
    /\ UNCHANGED <<nodes, dev, backed, free, hostFree>>
    /\ UpdateLeaves(Dec \cap nodes)
    /\ UpdateHostLeaves(Dec \cap nodes)

Demotable(n) == n \in nodes /\ dev[n] # None /\ n \in backed

\* _try_hybrid_demote_device_node(n) after releasing a lock along Dec: an
\* unlocked node without device children gives up its device pages, a locked
\* one is left for later, and one above device pages is given up.  Evicted and
\* deleted nodes are skipped.
TryDemote(n, Dec) ==
    LET live == Demotable(n)
        locked == lockRef[n] > (IF n \in Dec THEN 1 ELSE 0)
        bare == live /\ ~ locked /\ Bare(n)
        gone == IF bare THEN Seg(n) ELSE {}
        touched == IF bare THEN {n, Parent(n)} ELSE {}
    IN  /\ pending' = IF ~ live THEN pending
                      ELSE IF locked THEN pending \cup {n}
                      ELSE pending \ {n}
        /\ dev' = [p \in Paths |-> IF p \in gone THEN None ELSE dev[p]]
        /\ free' = free \cup {dev[p] : p \in gone}
        /\ ChangeLocks({}, Dec, 0 - Cardinality(gone))
        /\ UNCHANGED <<nodes, backed, hostFree>>
        /\ UpdateLeaves((Dec \cap nodes) \cup touched)
        /\ UpdateHostLeaves((Dec \cap nodes) \cup (touched \cap {n}))

\* _demote_hybrid_load_back_tail_for_req, one node of the list.
DemoteTail ==
    /\ ctl = "demote"
    /\ \/ /\ tailQueue = {}
          /\ CallDrain(ret)
          /\ UNCHANGED <<tree, pools, pending, tailQueue>>
       \/ \E e \in tailQueue :
            /\ \A f \in tailQueue \ {e} : Precedes(e, f)
            /\ TryDemote(e[2], {})
            /\ tailQueue' = tailQueue \ {e}
            /\ UNCHANGED <<ctl, ret, todo>>
    /\ UNCHANGED <<demoteAfterWrite, writeDemote, dma, reqs, cur, prefixLen,
                   need, want>>

\* _drain_hybrid_pending_demotions, one node of the set, in any order.
DrainPending ==
    /\ ctl = "drain"
    /\ \E n \in todo :
         /\ TryDemote(n, {})
         /\ todo' = todo \ {n}
         /\ Return(todo \ {n})
    /\ UNCHANGED <<demoteAfterWrite, writeDemote, dma, reqs, cur, tailQueue,
                   prefixLen, need, want, ret>>

-----------------------------------------------------------------------------
(* Acknowledgements.                                                       *)

\* writing_check: the oldest backup is complete.
WritingCheck ==
    /\ Idle /\ writes # <<>>
    /\ LET n == Head(writes)
       IN  /\ writeDemote' = writeDemote \ {n}
           /\ IF n \in writeDemote
              THEN TryDemote(n, Anc[n])
              ELSE Unlock(Anc[n]) /\ UNCHANGED pending
    /\ writes' = Tail(writes)
    /\ UNCHANGED <<demoteAfterWrite, loadQueue, loads, reqs, locals, ctl, ret>>

\* loading_check: the oldest batch of load-backs is complete; each of its
\* nodes is unlocked and the pending demotions are drained after each.
LoadingCheck ==
    /\ ctl \in {"idle", "loaded"} /\ loads # <<>> /\ Head(loads) # {}
    /\ \E n \in Head(loads) :
         /\ Unlock(Anc[n])
         /\ loads' = [loads EXCEPT ![1] = @ \ {n}]
    /\ UNCHANGED pending
    /\ CallDrain("loaded")
    /\ UNCHANGED <<demoteAfterWrite, writeDemote, writes, loadQueue, reqs, cur,
                   tailQueue, prefixLen, need, want>>

LoadingCheckDone ==
    /\ ctl = "loaded" /\ Head(loads) = {}
    /\ loads' = Tail(loads)
    /\ Home
    /\ UNCHANGED <<tree, pools, marks, writes, loadQueue, reqs>>

\* Mutant: on_idle returns before the flush.
OnIdleReturns == Idle /\ UNCHANGED vars

\* on_idle runs only when no request is left and no transfer is in flight.
OnIdle ==
    /\ Idle /\ \A r \in Reqs : phase[r] = "out"
    /\ writes = <<>> /\ loads = <<>> /\ pending # {}
    /\ UNCHANGED pending
    /\ CallDrain("done")
    /\ UNCHANGED <<tree, pools, demoteAfterWrite, writeDemote, dma, reqs, cur,
                   tailQueue, prefixLen, need, want>>

HandlerDone ==
    /\ ctl = "done"
    /\ Home
    /\ UNCHANGED <<tree, pools, marks, dma, reqs>>

\* Mutant: an abort also frees the request's last page.
AbortWaitingFrees(r) ==
    /\ Idle /\ phase[r] = "waiting"
    /\ phase' = [phase EXCEPT ![r] = "out"]
    /\ free' = free \cup {tail[r]}
    /\ Leave(r)
    /\ UNCHANGED <<tree, hostFree, evictableSize, protectedSize, leaves,
                   hostLeaves, marks, dma, lastNode, prot, kv, tail, loadBack,
                   locals, ctl, ret>>

\* abort_request on a waiting request: it leaves the queue, nothing else.
AbortWaiting(r) ==
    /\ Idle /\ phase[r] = "waiting"
    /\ phase' = [phase EXCEPT ![r] = "out"]
    /\ Leave(r)
    /\ UNCHANGED <<tree, pools, marks, dma, lastNode, prot, kv, tail, loadBack,
                   locals, ctl, ret>>

-----------------------------------------------------------------------------
(* Decoding and retraction.                                                *)

\* The page after the ones a request has filled.
Next1(r) == CHOOSE p \in Anc[Full(r)] \ Anc[fill[r]] :
                \A q \in Anc[Full(r)] \ Anc[fill[r]] : p \in Anc[q]

\* update_running_batch: check_decode_mem for the requests S whose next token
\* starts a page.
CheckDecodeMem(S) ==
    /\ Idle /\ Running # {}
    /\ S # {} \/ Cardinality(free) < Cardinality(Running)
    /\ want' = S
    /\ CallEvict(Cardinality(S), "decode")
    /\ UNCHANGED <<tree, pools, marks, dma, reqs, cur, todo, tailQueue, prefixLen>>

\* alloc_for_decode makes room for one page per running request first.
DecodeFits ==
    /\ ctl = "decode" /\ Cardinality(free) >= Cardinality(want)
    /\ CallEvict(Cardinality(Running), "alloc")
    /\ UNCHANGED <<tree, pools, marks, dma, reqs, cur, todo, tailQueue,
                   prefixLen, want>>

\* The full tail page joins the request's full pages, a new one is its tail.
AllocForDecode ==
    /\ ctl = "alloc" /\ Cardinality(free) >= Cardinality(want)
    /\ LET page == Alloc(want)
       IN  /\ free' = free \ {page[r] : r \in want}
           /\ kv' = [r \in Reqs |-> IF r \in want
                        THEN [kv[r] EXCEPT ![Next1(r)] = tail[r]] ELSE kv[r]]
           /\ tail' = [r \in Reqs |->
                        IF r \in want THEN page[r] ELSE tail[r]]
           /\ fill' = [r \in Reqs |->
                        IF r \in want THEN Next1(r) ELSE fill[r]]
    /\ Home
    /\ UNCHANGED <<tree, hostFree, evictableSize, protectedSize, leaves,
                   hostLeaves, marks, dma, phase, work, lastNode, prot, loadBack>>

\* retract_decode: while the pages do not suffice a running request is
\* released without caching it; the last one is aborted instead.
RetractDecode ==
    /\ ctl = "decode" /\ Cardinality(free) < Cardinality(want)
    /\ \E r \in Running :
         /\ cur' = r
         /\ want' = want \ {r}
         /\ ctl' = IF Running = {r} THEN "abort" ELSE "retract"
    /\ UNCHANGED <<tree, pools, marks, dma, reqs, todo, tailQueue, prefixLen,
                   need, ret>>

ReleaseRetracted ==
    /\ ctl \in {"retract", "abort"}
    /\ Release(Anc[Prompt(cur)], IF ctl = "abort" THEN "out" ELSE "waiting")
    /\ ret' = IF ctl = "abort" THEN "done" ELSE "shrink"
    /\ UNCHANGED want

\* release_req evicts room for the remaining requests' next decode steps.
RetractPages(n) == (20 * n + 15) \div 16

Shrink ==
    /\ ctl = "shrink"
    /\ CallEvict(RetractPages(Cardinality(Running)), "recheck")
    /\ UNCHANGED <<tree, pools, marks, dma, reqs, cur, todo, tailQueue,
                   prefixLen, want>>

Recheck ==
    /\ ctl = "recheck"
    /\ CallEvict(Cardinality(want), "decode")
    /\ UNCHANGED <<tree, pools, marks, dma, reqs, cur, todo, tailQueue,
                   prefixLen, want>>

-----------------------------------------------------------------------------
Init ==
    /\ nodes = {} /\ dev = [p \in Paths |-> None] /\ backed = {}
    /\ lockRef = [p \in Paths |-> 0]
    /\ free = DevPages /\ hostFree = HostSize
    /\ evictableSize = 0 /\ protectedSize = 0
    /\ leaves = {} /\ hostLeaves = {}
    /\ demoteAfterWrite = {} /\ writeDemote = {} /\ pending = {}
    /\ writes = <<>> /\ loadQueue = {} /\ loads = <<>>
    /\ phase = [r \in Reqs |-> "out"]
    /\ work = [r \in Reqs |-> NoWork] /\ fill = [r \in Reqs |-> Root]
    /\ lastNode = [r \in Reqs |-> Root] /\ prot = [r \in Reqs |-> Root]
    /\ kv = [r \in Reqs |-> [p \in Paths |-> None]]
    /\ tail = [r \in Reqs |-> None]
    /\ loadBack = [r \in Reqs |-> <<>>]
    /\ ctl = "idle" /\ ret = "idle"
    /\ cur = None /\ todo = {} /\ tailQueue = {}
    /\ prefixLen = Root /\ need = 0 /\ want = {}

Next ==
    \/ \E r \in Reqs, w \in Work : Arrive(r, w)
    \/ \E r \in Reqs : MatchPrefix(r) \/ CacheUnfinished(r)
                         \/ Finish(r) \/ AbortWaiting(r)
    \/ AddRefused \/ AddOneReq \/ LoadBack \/ Admit \/ AdmitRefused
    \/ StartBatch \/ PrepareForExtend
    \/ WriteBackup \/ Evict
    \/ FreeDuplicates \/ Relock \/ ReleaseFinished
    \/ DemoteTail \/ DrainPending
    \/ WritingCheck \/ LoadingCheck \/ LoadingCheckDone \/ OnIdle
    \/ HandlerDone
    \/ \E S \in SUBSET {r \in Running : fill[r] # Full(r)} : CheckDecodeMem(S)
    \/ DecodeFits \/ AllocForDecode
    \/ RetractDecode \/ ReleaseRetracted \/ Shrink \/ Recheck

Spec == Init /\ [][Next]_vars

\* The scheduler thread never stops inside a handler and polls the ack queues
\* in every iteration of its loop; the transfers themselves complete.  When
\* requests arrive, finish or are aborted is up to clients and the model.
Handler ==
    \/ AddRefused \/ AddOneReq \/ LoadBack \/ Admit \/ StartBatch
    \/ PrepareForExtend \/ WriteBackup \/ Evict \/ FreeDuplicates \/ Relock
    \/ ReleaseFinished \/ DemoteTail \/ DrainPending \/ LoadingCheckDone
    \/ HandlerDone \/ DecodeFits \/ AllocForDecode \/ RetractDecode
    \/ ReleaseRetracted \/ Shrink \/ Recheck

FairSpec ==
    /\ Spec
    /\ WF_vars(Handler) /\ WF_vars(LoadingCheck)
    /\ WF_vars(WritingCheck) /\ WF_vars(OnIdle)

-----------------------------------------------------------------------------
(* Properties.                                                             *)

Labels == {"idle", "form", "stop", "add", "load", "admit", "extend", "backup",
           "evict", "cached", "relock", "finish", "demote", "drain", "loaded", "done",
           "decode", "alloc", "retract", "abort", "shrink", "recheck"}

\* Every variable has its type.
TypeOK ==
    /\ nodes \subseteq Paths /\ backed \subseteq Paths
    /\ dev \in [Paths -> DevPages \cup {None}]
    /\ lockRef \in [Paths -> Int]
    /\ free \subseteq DevPages /\ hostFree \in Nat
    /\ evictableSize \in Int /\ protectedSize \in Int
    /\ leaves \subseteq Paths /\ hostLeaves \subseteq Paths
    /\ demoteAfterWrite \subseteq Paths /\ writeDemote \subseteq Paths
    /\ pending \subseteq Paths
    /\ writes \in Seq(Paths)
    /\ loadQueue \subseteq Paths /\ loads \in Seq(SUBSET Paths)
    /\ phase \in [Reqs -> {"out", "waiting", "added", "prefill", "decode"}]
    /\ work \in [Reqs -> Work \cup {NoWork}]
    /\ fill \in [Reqs -> Paths \cup {Root}]
    /\ lastNode \in [Reqs -> Paths \cup {Root}]
    /\ prot \in [Reqs -> Paths \cup {Root}]
    /\ kv \in [Reqs -> [Paths -> DevPages \cup {None}]]
    /\ tail \in [Reqs -> DevPages \cup {None}]
    /\ loadBack \in [Reqs -> Seq(SUBSET Paths)]
    /\ ctl \in Labels /\ ret \in Labels
    /\ cur \in Reqs \cup {None} /\ todo \subseteq Paths
    /\ tailQueue \subseteq Nat \X Paths
    /\ prefixLen \in Paths \cup {Root} /\ need \in Nat /\ want \subseteq Reqs

\* The device tier is a contiguous prefix of every radix path, and so is the
\* host tier: what _try_hybrid_demote_device_node and write_backup check for
\* one node at a time holds under every order of backups, evictions,
\* demotions, refills and load-backs.
TiersArePrefixes ==
    \A p \in Paths : \A q \in Anc[p] :
        /\ dev[p] # None => dev[q] # None
        /\ p \in backed => q \in backed

\* No node's pages branch: a path that enters a node leaves it at its end.
\* match_prefix and insert split a node where a key diverges, and evictions
\* delete nodes, without ever leaving a node that is half on a path.
RadixShape ==
    \A n, m \in nodes : Seg(n) \cap Anc[m] # {} => n \in Anc[m]

Holding(r) == phase[r] \in {"added", "prefill", "decode"}

\* ongoing_write_through and ongoing_load_back.
Writing == Range(writes)
Loading == loadQueue \cup UNION Range(loads)

\* lock_ref counts exactly the requests, the unacknowledged backups and the
\* unacknowledged load-backs that hold a node at or below the page, and what
\* they hold is a node of the tree.  Splits, retractions, refused admissions
\* and late acknowledgements neither leak a lock nor release one twice.
LocksAreExact ==
    /\ \A p \in Paths : lockRef[p] =
          Cardinality({r \in Reqs : p \in Anc[lastNode[r]]})
          + Cardinality({n \in Writing : p \in Anc[n]})
          + Cardinality({n \in Loading : p \in Anc[n]})
    /\ \A r \in Reqs : lastNode[r] \in nodes \cup {Root}
    /\ Writing \cup Loading \subseteq nodes

\* A page under a lock is on the device, so neither a request nor a transfer
\* can lose its pages to evict() or to a demotion; a page being copied by a
\* transfer also has its host copy.
LockedOnDevice ==
    /\ \A p \in Paths : lockRef[p] > 0 => dev[p] # None
    /\ \A n \in Writing \cup Loading : Anc[n] \subseteq backed

\* A page that stays locked keeps its device page: the kernels and copies
\* that were given its address go on using it.
LockedPagesStay ==
    [][\A p \in Paths :
          lockRef[p] > 0 /\ lockRef'[p] > 0 => dev'[p] = dev[p]]_vars

\* Up to its protected length a request's page table shows the pages of the
\* tree.
PageTableSound ==
    \A r \in Reqs : Holding(r) =>
        \A p \in Anc[prot[r]] : dev[p] # None /\ kv[r][p] = dev[p]

\* The pages a request owns itself.
Own(r) == {kv[r][p] : p \in Anc[fill[r]] \ Anc[prot[r]]} \cup {tail[r]}

\* Between handlers every device page has exactly one owner: the free list,
\* one page of the tree, or one request.  No page leaks and none is freed
\* twice or written by two requests.
PagesHaveOneOwner ==
    Idle =>
      \A x \in DevPages :
        Cardinality({"free"} \cap {IF x \in free THEN "free" ELSE "used"})
        + Cardinality({p \in Paths : dev[p] = x})
        + Cardinality({r \in Reqs :
              phase[r] \in {"prefill", "decode"} /\ x \in Own(r)}) = 1

\* evictable_size_ and protected_size_, from which admission is decided, are
\* the numbers of unlocked and of locked pages on the device.
SizesAreExact ==
    /\ evictableSize =
          Cardinality({p \in Paths : dev[p] # None /\ lockRef[p] = 0})
    /\ protectedSize =
          Cardinality({p \in Paths : dev[p] # None /\ lockRef[p] > 0})

\* The incrementally maintained leaf sets are the nodes that may be evicted
\* next: a node missing from them would never be evicted, a stale one would
\* be evicted under a device child.
LeavesAreExact ==
    /\ leaves = {n \in nodes : IsLeaf(n)}
    /\ hostLeaves = {n \in nodes : IsHostLeaf(n)}

\* No host page is lost or counted twice, and between handlers every cached
\* page has a host copy: since the host pool is the larger one, write_backup
\* always finds room, so an eviction never loses a page.
HostIsComplete ==
    /\ hostFree + Cardinality(backed) = HostSize
    /\ Idle => Tree \subseteq backed

\* What admission promised is there: load_back, alloc_extend and alloc_decode
\* find the pages they need after their eviction, whose failure would skip
\* the load or stop the scheduler with "Prefill out of memory".
AllocationsFit ==
    /\ ctl = "load" => Cardinality(free) >= Cardinality(HostHit(cur))
    /\ ctl = "extend" =>
          Cardinality(free) >= Cardinality(Extend(Added)) + Cardinality(Added)
    /\ ctl = "alloc" => Cardinality(free) >= Cardinality(want)

\* A load-back that was issued is started before the handler ends, even when
\* its request is refused afterwards: none is left in the load queue.
LoadsAreStarted == Idle => loadQueue = {}

\* Once requests stop coming, every transfer is acknowledged, every lock is
\* released and no page waits on the device for its demotion.
QuietServerSettles ==
    <>[](\A r \in Reqs : phase[r] = "out")
      => <>[](/\ writes = <<>> /\ loads = <<>>
              /\ \A p \in Paths : lockRef[p] = 0
              /\ \A n \in pending : dev[n] = None)

\* cache_finished_req on the pages past the prompt: "Those slots were never
\* inserted into the radix cache".
DecodePagesAreNotCached ==
    ctl \in {"finish", "retract", "abort"} =>
        \A p \in Anc[fill[cur]] \ Anc[Prompt(cur)], q \in Paths :
            dev[q] # kv[cur][p]

\* _mark_hybrid_generated_node_for_demotion on a node that has a host copy:
\* "demote them after the request releases its locks so the final
\* generated-page state is DRAM-only".
MarkedNodesAreDemoted ==
    [][\A n \in pending \ pending' : dev'[n] = None]_vars
=============================================================================
