--------------------------- MODULE StoragePrefetch ---------------------------
(***************************************************************************)
(* The third tier (L3) of HiCache: the prefetch of a queued request's      *)
(* prefix from the storage backend into host memory, and the backup of     *)
(* host pages to it.  Four threads share the state: the scheduler's, which *)
(* issues, polls, aborts and accounts prefetches (hiradix_cache.py), the   *)
(* prefetch thread, which asks the backend what it has, the I/O thread,    *)
(* which copies page by page, and the backup thread (cache_controller.py). *)
(*                                                                         *)
(* A token sequence is the sequence of its pages; a path is a prefix of a  *)
(* request's key, and stands for the tree node that ends there: one node   *)
(* per page (HiRadixCache models the compressed tree and the device tier). *)
(* All lengths are in pages.                                               *)
(***************************************************************************)
EXTENDS Naturals, Sequences, FiniteSets, Functions

CONSTANTS Requests,    \* the requests' ids
          Key,         \* Key[r]: the pages of r's prompt
          NumPages,    \* pages of the host pool
          Threshold,   \* prefetch_threshold
          Capacity,    \* prefetch_capacity_limit
          StopPolicy,  \* prefetch_stop_policy
          MaxOps       \* bound on the prefetches issued in a behaviour

ASSUME StorageAssumption ==
    /\ IsFiniteSet(Requests)
    /\ \A r \in Requests : Key[r] \in Seq(Range(Key[r])) \ {<<>>}
    /\ Threshold \in Nat \ {0} /\ Capacity \in Nat /\ NumPages \in Nat /\ MaxOps \in Nat
    /\ StopPolicy \in {"best_effort", "wait_complete", "timeout"}

VARIABLES
    where,      \* where each request is: "new", "waiting", "running" or "done"
    inPass,     \* the scheduler is forming a batch
    tree,       \* path -> host page: the host tier of the radix tree
    free,       \* mem_pool_host.free_slots
    data,       \* page -> the path whose KV it holds, <<>> for none
    hostRef,    \* path -> host_ref_counter of its node
    ops,        \* the PrefetchOperations, by id
    ongoing,    \* ongoing_prefetch: request -> its operation's id, 0 for none
    occupied,   \* prefetch_tokens_occupied
    prefetchQ,  \* prefetch_queue
    buffer,     \* prefetch_buffer
    io,         \* what the I/O thread is doing
    revokeQ,    \* prefetch_revoke_queue
    releaseQ,   \* host_mem_release_queue
    storage,    \* path -> the KV the backend holds for it
    backupQ,    \* backup_queue: paths and their pages
    ackQ,       \* ack_backup_queue
    backups     \* ongoing_backup

reqVars == <<where, inPass>>
hostVars == <<tree, free, data, hostRef>>
opVars == <<ops, ongoing, occupied>>
threadVars == <<prefetchQ, buffer, io, revokeQ, releaseQ>>
backupVars == <<storage, backupQ, ackQ, backups>>
vars == <<reqVars, hostVars, opVars, threadVars, backupVars>>

Pages == 1..NumPages

\* The path of the first n pages of r's prompt.
Prefix(r, n) == SubSeq(Key[r], 1, n)

Paths == {<<>>} \cup UNION {{Prefix(r, n) : n \in 1..Len(Key[r])} : r \in Requests}

IsPrefix(p, q) == Len(p) <= Len(q) /\ p = SubSeq(q, 1, Len(p))

IoIdle == [step |-> "idle", op |-> 0, next |-> 0, got |-> 0]

\* The path of the n-th page of operation o.
PathAt(o, n) == Prefix(o.rid, o.base + n)

\* Pages first..last of operation o's host_indices.
Slots(o, first, last) == SubSeq(o.pages, first, last)

Init ==
    /\ where = [r \in Requests |-> "new"] /\ inPass = FALSE
    /\ tree = <<>> /\ free = [n \in Pages |-> n]
    /\ data = [n \in Pages |-> <<>>] /\ hostRef = [p \in Paths |-> 0]
    /\ ops = <<>> /\ ongoing = [r \in Requests |-> 0] /\ occupied = 0
    /\ prefetchQ = <<>> /\ buffer = <<>> /\ io = IoIdle
    /\ revokeQ = <<>> /\ releaseQ = <<>>
    /\ \E r \in Requests : \E n \in 0..Len(Key[r]) :
           storage = [p \in {Prefix(r, i) : i \in 1..n} |-> p]
    /\ backupQ = <<>> /\ ackQ = <<>> /\ backups = {}

-----------------------------------------------------------------------------
(* The host tree and its pool. *)

\* match_prefix: the length of the longest prefix of r's key on the host.
Matched(t, r) == Cardinality({n \in 1..Len(Key[r]) : Prefix(r, n) \in DOMAIN t})

\* Mutant: host_ref_counter is not looked at.
EvictableAny(n) ==
    {E \in SUBSET DOMAIN tree :
        /\ Cardinality(E) <= n
        /\ \A p \in E, q \in DOMAIN tree : IsPrefix(p, q) => q \in E}

\* The sets of nodes evict_host(n) may take: leaves first, none that a
\* storage operation refers to, and none that the device tier still holds
\* (which ones it holds is left open).
Evictable(n) ==
    {E \in SUBSET DOMAIN tree :
        /\ Cardinality(E) <= n
        /\ \A p \in E : /\ hostRef[p] = 0
                        /\ \A q \in DOMAIN tree : IsPrefix(p, q) => q \in E}

Without(t, E) == [p \in DOMAIN t \ E |-> t[p]]

Listing(S) == CHOOSE f \in Bijection(1..Cardinality(S), S) : TRUE

\* The pool and the tree after alloc(n), which evicts n nodes and tries again
\* when the pool is short.
Rooms(n) ==
    IF n <= Len(free) THEN {[tree |-> tree, free |-> free]}
    ELSE {[tree |-> Without(tree, E),
           free |-> free \o Listing({tree[p] : p \in E})] : E \in Evictable(n)}

-----------------------------------------------------------------------------
(* The scheduler thread. *)

\* Mutants: the node is not protected, is not released.
ProtectNot(ref, p) == ref

ReleaseHostNot(ref, p) == ref

Protect(ref, p) == [ref EXCEPT ![p] = @ + 1]

ReleaseHost(ref, p) == [ref EXCEPT ![p] = @ - 1]

\* last_host_node of operation o.
AnchorOf(o) == Prefix(o.rid, o.base)

\* What an operation adds to prefetch_tokens_occupied: len(prefetch_key).
Charge(o) == o.len

\* prefetch_from_storage.  When the pool stays short it takes what there is:
\* host_indices gets shorter, and prefetch_key, which the operation is built
\* from, does not.
Issue(r, base, room, n) ==
    LET o == [rid |-> r, base |-> base, len |-> Len(Key[r]) - base,
              pages |-> SubSeq(room.free, 1, n), held |-> n,
              hash |-> 0, completed |-> 0, terminated |-> FALSE, stage |-> "queued"]
    IN /\ Len(ops) < MaxOps
       /\ ops' = Append(ops, o)
       /\ ongoing' = [ongoing EXCEPT ![r] = Len(ops) + 1]
       /\ occupied' = occupied + Charge(o)
       /\ prefetchQ' = Append(prefetchQ, Len(ops) + 1)
       /\ hostRef' = Protect(hostRef, AnchorOf(o))
       /\ free' = SubSeq(room.free, n + 1, Len(room.free))
       /\ tree' = room.tree

PrefetchFromStorage(r) ==
    LET base == Matched(tree, r)
        need == Len(Key[r]) - base
        anchor == Prefix(r, base)
    IN IF need < Threshold \/ occupied >= Capacity
       THEN UNCHANGED <<tree, free, hostRef, opVars, prefetchQ>>
       ELSE \E room \in Rooms(need) :
               /\ \A p \in DOMAIN tree : IsPrefix(p, anchor) => p \in DOMAIN room.tree
               /\ LET n == IF need <= Len(room.free) THEN need ELSE Len(room.free)
                  IN IF n >= Threshold
                     THEN Issue(r, base, room, n)
                     ELSE /\ tree' = room.tree /\ free' = room.free
                          /\ UNCHANGED <<hostRef, opVars, prefetchQ>>

\* _add_request_to_queue, for a new request and for a retracted one.
AddRequestToQueue(r) ==
    /\ \/ ~inPass /\ where[r] = "new"
       \/ ~inPass /\ where[r] = "running"
    /\ where' = [where EXCEPT ![r] = "waiting"]
    /\ PrefetchFromStorage(r)
    /\ UNCHANGED <<inPass, data, buffer, io, revokeQ, releaseQ, backupVars>>

\* The requests whose entry is popped.
Revoked == {r \in Range(revokeQ) : ongoing[r] # 0}

\* drain_storage_control_queues, at the head of every scheduling pass:
\* revokes, then acknowledged backups, then released pages.
DrainQueues ==
    /\ ~inPass /\ inPass' = TRUE
    /\ ongoing' = [r \in Requests |-> IF r \in Revoked THEN 0 ELSE ongoing[r]]
    /\ occupied' = occupied - MapThenFoldSet(+, 0, LAMBDA r : ops[ongoing[r]].len,
                                             LAMBDA S : CHOOSE r \in S : TRUE, Revoked)
    /\ hostRef' = [p \in Paths |->
          hostRef[p] - Cardinality({r \in Revoked : AnchorOf(ops[ongoing[r]]) = p})
                     - Cardinality({p} \cap backups \cap Range(ackQ))]
    /\ backups' = backups \ Range(ackQ)
    /\ free' = free \o releaseQ
    /\ revokeQ' = <<>> /\ ackQ' = <<>> /\ releaseQ' = <<>>
    /\ UNCHANGED <<where, tree, data, ops, prefetchQ, buffer, io, storage, backupQ>>

\* can_terminate_prefetch; the clock may say anything under "timeout".
CanTerminate(o) ==
    LET completed == o.hash > 0 /\ o.completed = o.hash
    IN CASE StopPolicy = "best_effort"   -> {TRUE}
         [] StopPolicy = "wait_complete" -> {completed \/ o.terminated}
         [] StopPolicy = "timeout"       -> {TRUE, completed \/ o.terminated}

\* The rest of check_prefetch_progress once the operation may stop: what was
\* fetched goes below the anchor, and the pages of what others have put
\* there meanwhile go back to the pool.
Settle(r, i) ==
    LET o == ops[i]
        inTree == Matched(tree, r) - o.base
        matched == IF inTree < o.completed THEN inTree ELSE o.completed
        added == {PathAt(o, n) : n \in (matched + 1)..o.completed}
    IN /\ ops' = [ops EXCEPT ![i].terminated = TRUE]
       /\ tree' = [p \in DOMAIN tree \cup added |->
                     IF p \in added THEN o.pages[Len(p) - o.base] ELSE tree[p]]
       /\ free' = free \o Slots(o, 1, matched)
       /\ hostRef' = ReleaseHost(hostRef, AnchorOf(o))
       /\ ongoing' = [ongoing EXCEPT ![r] = 0]
       /\ occupied' = occupied - o.len

\* check_prefetch_progress for a request the pass comes to: once there is
\* nothing to wait for, the adder admits it or leaves it in the queue.
CheckPrefetchProgress(r, to) ==
    /\ inPass /\ where[r] = "waiting"
    /\ \/ ongoing[r] = 0 /\ UNCHANGED <<tree, free, hostRef, opVars>>
       \/ /\ ongoing[r] # 0
          /\ TRUE \in CanTerminate(ops[ongoing[r]])
          /\ Settle(r, ongoing[r])
    /\ where' = [where EXCEPT ![r] = to]
    /\ UNCHANGED <<inPass, data, threadVars, backupVars>>

EndPass ==
    /\ inPass /\ inPass' = FALSE
    /\ UNCHANGED <<where, hostVars, opVars, threadVars, backupVars>>

\* release_aborted_request, for a request aborted in the waiting queue.
ReleaseAbortedRequest(r) ==
    /\ ~inPass /\ where[r] = "waiting"
    /\ where' = [where EXCEPT ![r] = "done"]
    /\ LET i == ongoing[r] IN
       \/ i = 0 /\ UNCHANGED <<hostRef, opVars, releaseQ>>
       \/ /\ i # 0
          /\ ops' = [ops EXCEPT ![i].terminated = TRUE]
          /\ hostRef' = ReleaseHost(hostRef, AnchorOf(ops[i]))
          /\ ongoing' = [ongoing EXCEPT ![r] = 0]
          /\ releaseQ' = releaseQ \o Slots(ops[i], 1, ops[i].completed)
          /\ occupied' = occupied - ops[i].len
    /\ UNCHANGED <<inPass, tree, free, data, prefetchQ, buffer, io, revokeQ, backupVars>>

\* write_backup of the next page of a request that has run, its copy to the
\* host acknowledged, and write_backup_storage.
WriteBackup(r) ==
    LET p == Prefix(r, Matched(tree, r) + 1) IN
    /\ ~inPass /\ where[r] = "running" /\ Matched(tree, r) < Len(Key[r])
    /\ \E room \in Rooms(1) :
          /\ \A q \in DOMAIN tree : IsPrefix(q, p) => q \in DOMAIN room.tree
          /\ room.free # <<>>
          /\ tree' = [q \in DOMAIN room.tree \cup {p} |->
                        IF q = p THEN Head(room.free) ELSE room.tree[q]]
          /\ free' = Tail(room.free)
          /\ data' = [data EXCEPT ![Head(room.free)] = p]
    /\ hostRef' = Protect(hostRef, p)
    /\ backupQ' = Append(backupQ, [path |-> p, page |-> tree'[p]])
    /\ backups' = backups \cup {p}
    /\ UNCHANGED <<reqVars, opVars, threadVars, storage, ackQ>>

Finish(r) ==
    /\ ~inPass /\ where[r] = "running"
    /\ where' = [where EXCEPT ![r] = "done"]
    /\ UNCHANGED <<inPass, hostVars, opVars, threadVars, backupVars>>

-----------------------------------------------------------------------------
(* The storage threads. *)

\* _storage_hit_query: the pages from the anchor on that the backend has.
StorageHits(o) ==
    Cardinality({n \in 1..o.len : \A m \in 1..n : PathAt(o, m) \in DOMAIN storage})

\* An operation with enough hits: hash_value, and host_indices cut to them.
Trimmed(o, hits) ==
    [o EXCEPT !.hash = hits, !.stage = "buffered", !.held = IF hits < @ THEN hits ELSE @]

\* One turn of prefetch_thread_func.
PrefetchThread ==
    /\ prefetchQ # <<>> /\ prefetchQ' = Tail(prefetchQ)
    /\ LET i == Head(prefetchQ)
           o == ops[i]
           hits == StorageHits(o)
       IN IF hits < Threshold
          THEN /\ revokeQ' = Append(revokeQ, o.rid)
               /\ releaseQ' = releaseQ \o o.pages
               /\ ops' = [ops EXCEPT ![i].stage = "over", ![i].held = 0]
               /\ UNCHANGED buffer
          ELSE /\ ops' = [ops EXCEPT ![i] = Trimmed(o, hits)]
               /\ releaseQ' = releaseQ \o Slots(o, hits + 1, o.held)
               /\ buffer' = Append(buffer, i)
               /\ UNCHANGED revokeQ
    /\ UNCHANGED <<reqVars, hostVars, ongoing, occupied, io, backupVars>>

\* Mutant: a page is counted before it is written.
FetchingCounts(i, got) ==
    [step |-> IF got = 0 THEN "finish" ELSE "count", op |-> i, next |-> 1, got |-> got]

\* The I/O thread with got pages of operation i in its hands.
Fetching(i, got) ==
    [step |-> IF got = 0 THEN "finish" ELSE "write", op |-> i, next |-> 1, got |-> got]

\* prefetch_io_aux_func takes an operation and asks the backend for its
\* pages; got of them come before the first that does not.
IoTake ==
    /\ io.step = "idle" /\ buffer # <<>> /\ buffer' = Tail(buffer)
    /\ \E got \in 0..ops[Head(buffer)].hash :
          io' = Fetching(Head(buffer), got)
    /\ ops' = [ops EXCEPT ![Head(buffer)].stage = "io"]
    /\ UNCHANGED <<reqVars, hostVars, ongoing, occupied, prefetchQ, revokeQ, releaseQ, backupVars>>

\* _generic_page_get puts a page into the pool; a page past the end of
\* host_indices is an IndexError that nothing catches: the thread is gone.
IoWrite ==
    LET o == ops[io.op] IN
    /\ io.step = "write"
    /\ \/ /\ io.next <= o.held
          /\ data' = [data EXCEPT ![o.pages[io.next]] = storage[PathAt(o, io.next)]]
          /\ io' = [io EXCEPT !.step = "count"]
       \/ /\ io.next > o.held
          /\ io' = [io EXCEPT !.step = "dead"]
          /\ UNCHANGED data
    /\ UNCHANGED <<reqVars, tree, free, hostRef, opVars, prefetchQ, buffer, revokeQ, releaseQ, backupVars>>

\* Mutant: increment does not look at the flag.
IoIncrementAlways ==
    /\ io.step = "count"
    /\ ops' = [ops EXCEPT ![io.op].completed = @ + 1]
    /\ io' = [io EXCEPT !.step = IF io.next < io.got THEN "write" ELSE "finish", !.next = @ + 1]
    /\ UNCHANGED <<reqVars, hostVars, ongoing, occupied, prefetchQ, buffer, revokeQ, releaseQ, backupVars>>

\* increment counts the page, unless the operation was terminated meanwhile.
IoIncrement ==
    LET o == ops[io.op] IN
    /\ io.step = "count"
    /\ \/ /\ o.terminated
          /\ io' = [io EXCEPT !.step = "finish"]
          /\ UNCHANGED ops
       \/ /\ ~o.terminated
          /\ ops' = [ops EXCEPT ![io.op].completed = @ + 1]
          /\ io' = [io EXCEPT !.step = IF io.next < io.got THEN "write" ELSE "finish", !.next = @ + 1]
    /\ UNCHANGED <<reqVars, hostVars, ongoing, occupied, prefetchQ, buffer, revokeQ, releaseQ, backupVars>>

\* Mutants: a short read does not terminate the operation; the I/O thread
\* releases all the pages, or those of a terminated operation not at all.
ClosedOpen(o) == [o EXCEPT !.stage = "over", !.held = o.completed]

UnfilledAll(o) == Slots(o, 1, o.held)

UnfilledLive(o) == IF o.terminated THEN <<>> ELSE Slots(o, o.completed + 1, o.held)

\* Operation o once the I/O thread is done with it, and the pages it leaves.
Closed(o) ==
    [o EXCEPT !.terminated = @ \/ o.completed # o.hash, !.stage = "over", !.held = o.completed]

Unfilled(o) == Slots(o, o.completed + 1, o.held)

\* The end of _page_transfer and of the turn: an operation that is not
\* complete is terminated, and the pages it did not fill are released.
IoFinish ==
    LET o == ops[io.op] IN
    /\ io.step = "finish" /\ io' = IoIdle
    /\ ops' = [ops EXCEPT ![io.op] = Closed(o)]
    /\ releaseQ' = releaseQ \o Unfilled(o)
    /\ UNCHANGED <<reqVars, hostVars, ongoing, occupied, prefetchQ, buffer, revokeQ, backupVars>>

\* One turn of backup_thread_func: the page is written, or the backend fails.
BackupThread ==
    /\ backupQ # <<>> /\ backupQ' = Tail(backupQ)
    /\ LET op == Head(backupQ) IN
          /\ \/ storage' = [p \in DOMAIN storage \cup {op.path} |->
                               IF p = op.path THEN data[op.page] ELSE storage[p]]
             \/ UNCHANGED storage
          /\ ackQ' = Append(ackQ, op.path)
    /\ UNCHANGED <<reqVars, hostVars, opVars, threadVars, backups>>

-----------------------------------------------------------------------------
Scheduler ==
    \/ DrainQueues
    \/ EndPass
    \/ \E r \in Requests : \/ AddRequestToQueue(r)
                           \/ \E to \in {"waiting", "running"} : CheckPrefetchProgress(r, to)
                           \/ ReleaseAbortedRequest(r)
                           \/ WriteBackup(r)
                           \/ Finish(r)

IoThread == IoTake \/ IoWrite \/ IoIncrement \/ IoFinish

Next == Scheduler \/ PrefetchThread \/ IoThread \/ BackupThread

Spec == Init /\ [][Next]_vars

\* The storage threads loop, the event loop goes on making passes, and a
\* waiting request whose prefetch may stop is admitted by some pass (the
\* requests before it finish and leave their memory).
FairSpec ==
    /\ Spec
    /\ WF_vars(PrefetchThread) /\ WF_vars(IoThread) /\ WF_vars(BackupThread)
    /\ WF_vars(DrainQueues) /\ WF_vars(EndPass)
    /\ \A r \in Requests : SF_vars(CheckPrefetchProgress(r, "running"))

-----------------------------------------------------------------------------
(* Properties. *)

Operation ==
    [rid : Requests, base : Nat, len : Nat, pages : Seq(Pages), held : Nat,
     hash : Nat, completed : Nat, terminated : BOOLEAN,
     stage : {"queued", "buffered", "io", "over"}]

\* Types: the anchors and counters stay in range, no counter goes below zero
\* (release_host raises on zero), and an operation never counts more pages
\* than it holds.
TypeOK ==
    /\ where \in [Requests -> {"new", "waiting", "running", "done"}] /\ inPass \in BOOLEAN
    /\ DOMAIN tree \subseteq Paths \ {<<>>} /\ \A p \in DOMAIN tree : tree[p] \in Pages
    /\ free \in Seq(Pages) /\ data \in [Pages -> Paths] /\ hostRef \in [Paths -> Nat]
    /\ ops \in Seq(Operation) /\ ongoing \in [Requests -> 0..Len(ops)] /\ occupied \in Nat
    /\ \A i \in DOMAIN ops : ops[i].completed <= ops[i].held /\ ops[i].held <= Len(ops[i].pages)
    /\ prefetchQ \in Seq(DOMAIN ops) /\ buffer \in Seq(DOMAIN ops)
    /\ io.step \in {"idle", "write", "count", "finish", "dead"}
    /\ revokeQ \in Seq(Requests) /\ releaseQ \in Seq(Pages)
    /\ DOMAIN storage \subseteq Paths /\ backupQ \in Seq([path : Paths, page : Pages]) /\ ackQ \in Seq(Paths)
    /\ backups \subseteq Paths

\* The pages operation i still answers for: all it holds while the tree has
\* its entry, and what it has not filled until a thread releases that.
OpPages(i) ==
    LET o == ops[i] IN
    Range(CASE ongoing[o.rid] = i -> Slots(o, 1, o.held)
            [] ongoing[o.rid] # i /\ o.stage # "over" -> Slots(o, o.completed + 1, o.held)
            [] OTHER -> <<>>)

Owners(g) ==
    Cardinality({n \in DOMAIN free : free[n] = g})
    + Cardinality({n \in DOMAIN releaseQ : releaseQ[n] = g})
    + Cardinality({p \in DOMAIN tree : tree[p] = g})
    + Cardinality({i \in DOMAIN ops : g \in OpPages(i)})

\* A host page is never in two hands: whatever the order in which the
\* scheduler settles or aborts a prefetch, the prefetch thread trims or
\* revokes it and the I/O thread gives up on it, no page of its host_indices
\* is freed twice or freed while the tree or a later operation has it.
NoPageIsShared == \A g \in Pages : Owners(g) <= 1

\* Nor does one fall between the three threads that share out an operation's
\* host_indices: each part is released, freed or put in the tree by one of
\* them.
NoPageIsLost == \A g \in Pages : Owners(g) >= 1

\* Every page of the host tree holds the KV of its own prefix, although the
\* I/O thread goes on writing into the pages of an operation that the
\* scheduler has terminated, settled or aborted.
TreeHoldsItsData == \A p \in DOMAIN tree : data[tree[p]] = p

\* What the backend holds for a path is that path's KV: the backup thread
\* reads host pages long after write_backup_storage queued them, and
\* protect_host must have kept them in place.
StorageHoldsItsData == \A p \in DOMAIN storage : storage[p] = p

\* host_ref_counter counts the operations that refer to a node, so that
\* release_host never raises and no node stays protected for ever: each
\* prefetch is released once, by its revoke, its settling or its abort.
HostRefsAreExact ==
    \A p \in Paths :
        hostRef[p] = Cardinality({r \in Requests : ongoing[r] # 0 /\ AnchorOf(ops[ongoing[r]]) = p})
                     + Cardinality({p} \cap backups)

\* The node a prefetch will be inserted below stays in the host tree until
\* then, whatever evict_host takes meanwhile.
AnchorsStay ==
    \A r \in Requests : ongoing[r] # 0 =>
        \A n \in 1..ops[ongoing[r]].base : Prefix(r, n) \in DOMAIN tree

\* "there is no ongoing prefetch for this request or it has been revoked"
\* (check_prefetch_progress, of a request without an entry): an operation
\* that is not its request's entry is over or has been told to stop.
NoEntryMeansOver ==
    \A i \in DOMAIN ops :
        ongoing[ops[i].rid] = i \/ ops[i].stage = "over" \/ ops[i].terminated

\* is_fully_idle, as far as this module goes.
IsFullyIdle ==
    /\ ~inPass /\ \A r \in Requests : where[r] \in {"new", "done"}
    /\ \A r \in Requests : ongoing[r] = 0
    /\ backups = {}

\* "in-flight async ops (GPU, Host, L3) must drain before destructive
\* operations" (is_fully_idle): when it says idle, no prefetch is in the
\* hands of a storage thread and no page is on its way back.
IdleMeansDrained ==
    IsFullyIdle => releaseQ = <<>> /\ \A i \in DOMAIN ops : ops[i].stage = "over"

\* A waiting request does not wait for its prefetch for ever: it is revoked,
\* completed, or terminated by a failed read.
EveryPrefetchEnds == \A r \in Requests : where[r] = "waiting" ~> where[r] # "waiting"

\* Once every request has left, every page comes back to the pool or is in
\* the tree: no thread keeps one.
EveryPageComesBack ==
    (\A r \in Requests : where[r] = "done")
        ~> \A g \in Pages : g \in Range(free) \/ \E p \in DOMAIN tree : tree[p] = g
=============================================================================
