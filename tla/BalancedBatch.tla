---------------------------- MODULE BalancedBatch -----------------------------
(***************************************************************************)
(* Balanced batch formation: the pass over the waiting queue by which      *)
(* _form_hybrid_balanced_prefill_batch mixes requests that load much from  *)
(* the host with requests that compute much.                               *)
(*                                                                         *)
(* A request matches a path of tree segments that are all on the host, and *)
(* computes the tokens past it.  The segments on the device are a prefix   *)
(* of every path.  add_one_req loads the rest of a request's path all at   *)
(* once, or not at all; how much memory there is, is left open, as are     *)
(* LoRA, Mamba, L3 prefetch, preemption and chunked prefill.               *)
(***************************************************************************)
EXTENDS Naturals, Sequences, FiniteSets, Functions

CONSTANTS
    Requests, Segments,
    Path,       \* the segments each request's prompt matches, from the root
    Size,       \* the tokens of each segment
    Suffix,     \* the tokens of each request's prompt past its path
    Slots,      \* max_running_requests
    LoadRatio   \* HICACHE_HYBRID_BBF_LOADING_BOUND_RATIO

ASSUME BalancedAssumption ==
    /\ IsFiniteSet(Segments) /\ Path \in [Requests -> Seq(Segments)]
    /\ Size \in [Segments -> Nat \ {0}] /\ Suffix \in [Requests -> Nat \ {0}]
    /\ Slots \in Nat \ {0} /\ LoadRatio \in Nat

VARIABLES
    queue,      \* waiting_queue
    running,    \* running_batch.reqs
    full,       \* running_batch.batch_is_full
    resident,   \* the segments on the device
    phase,      \* where the pass is; "stop" and "done" are its two ends
    stack,      \* the active scans: their anchor's segments and next index
    canRun,     \* adder.can_run_list
    depr,       \* deprioritized
    load,       \* bbf_state.load_tokens
    compute,    \* bbf_state.compute_tokens
    charged     \* bbf_state.loaded_segment_ids

passVars == <<stack, canRun, depr, load, compute, charged>>
vars == <<queue, running, full, resident, phase, passVars>>

Tokens(S) == SumFunctionOnSet(Size, S)
PathOf(r) == Range(Path[r])

\* _hybrid_bbf_load_segments: the part of the matched path that is not on the
\* device, as init_next_round_input has just found it.
LoadSegments(r) == PathOf(r) \ resident

\* Mutant: the requests of the batch being formed hold no lock yet.
LockedRunning == (UNION {PathOf(r) : r \in running}) \cap resident

\* Segments a request holds a lock on stay on the device.
Locked == (UNION {PathOf(r) : r \in running \cup Range(canRun)}) \cap resident

PrefixClosed(S) ==
    \A r \in Requests : \A i \in DOMAIN Path[r] :
        Path[r][i] \in S => \A j \in 1..i : Path[r][j] \in S

\* What eviction may leave on the device.
Evictions == {S \in SUBSET resident : Locked \subseteq S /\ PrefixClosed(S)}

Allocatable == Slots - Cardinality(running)

Init ==
    /\ queue = <<>> /\ running = {} /\ full = FALSE /\ phase = "idle"
    /\ resident \in {S \in SUBSET Segments : PrefixClosed(S)}
    /\ stack = <<>> /\ canRun = <<>> /\ depr = <<>>
    /\ load = 0 /\ compute = 0 /\ charged = {}

Arrive(r) ==
    /\ phase = "idle" /\ r \notin running \cup Range(queue)
    /\ queue' = Append(queue, r)
    /\ UNCHANGED <<running, full, resident, phase, passVars>>

\* A running request finishes; update_running_batch resets batch_is_full, and
\* the pages it leaves can be evicted.
Finish(r) ==
    /\ phase = "idle" /\ r \in running
    /\ running' = running \ {r}
    /\ full' = FALSE
    /\ resident' \in {S \in SUBSET resident : PrefixClosed(S) /\
                        ((UNION {PathOf(q) : q \in running'}) \cap resident) \subseteq S}
    /\ UNCHANGED <<queue, phase, passVars>>

\* _get_new_batch_prefill_raw up to the pass.
Begin ==
    /\ phase = "idle" /\ queue # <<>> /\ ~ full
    /\ IF Allocatable <= 0
       THEN full' = TRUE /\ UNCHANGED <<phase, stack>>
       ELSE /\ phase' = "scan"
            /\ stack' = <<[anchor |-> {}, next |-> 1]>>
            /\ UNCHANGED full
    /\ UNCHANGED <<queue, running, resident, canRun, depr, load, compute, charged>>

-------------------------------------------------------------------------------
(* try_admit *)

\* Mutant: the test for segments already loaded is inverted.
ExtraLoadShared(r) == Tokens(LoadSegments(r) \cap charged)

\* _hybrid_bbf_estimate_req.
ExtraLoad(r) == Tokens(LoadSegments(r) \ charged)

\* Mutant: the first request is held to the ratio as well.
BalancedAlways(r) == load + ExtraLoad(r) <= LoadRatio * (compute + Suffix[r])

\* _hybrid_bbf_should_admit, but for the starvation escape: the first request of
\* a batch is never refused.
Balanced(r) ==
    \/ canRun = <<>>
    \/ load + ExtraLoad(r) <= LoadRatio * (compute + Suffix[r])

\* hard_stop_or_full.
NoSlot == full \/ Len(canRun) >= Allocatable

Stop(isFull) ==
    /\ phase' = "stop"
    /\ full' = isFull
    /\ UNCHANGED <<stack, canRun, load, compute, charged>>

\* What init_load_back leaves of the device's segments: it evicts for the load,
\* also when the load then fails.
Kept(r) ==
    IF LoadSegments(r) = {} THEN {resident}
    ELSE {S \in Evictions : PathOf(r) \cap resident \subseteq S}

\* add_one_req refuses: NO_TOKEN while other requests hold memory, OTHER when the
\* batch's input tokens are used up, possibly only found after a failed load.
Refused(r) ==
    \/ (running # {} \/ canRun # <<>>) /\ Stop(TRUE) /\ UNCHANGED resident
    \/ canRun # <<>> /\ Stop(full) /\ resident' \in Kept(r)

\* add_one_req succeeds, with or without its load, and _hybrid_bbf_commit_req
\* charges what was loaded and what is left to compute.
Added(r, loads) ==
    /\ canRun' = Append(canRun, r)
    /\ LET new == IF loads THEN LoadSegments(r) ELSE {}
       IN  /\ \E kept \in Kept(r) : resident' = kept \cup new
           /\ load' = load + Tokens(new \ charged)
           /\ charged' = charged \cup new
           /\ compute' = compute + Suffix[r] + Tokens(LoadSegments(r) \ new)

\* budget_state after the addition: go on, or stop for want of memory or input.
GoesOn(scan) == phase' = scan /\ UNCHANGED full
RunsOut == phase' = "stop" /\ full' \in {full, TRUE}

\* The scan that is running.
Top == stack[Len(stack)]

\* The admission of r by the scan at the top of the stack: when its segments
\* were on the host, the rest of the queue is searched for them at once.
Admit(r) ==
    /\ ~ NoSlot
    /\ \E loads \in {FALSE, LoadSegments(r) # {}} : Added(r, loads)
    /\ \/ RunsOut /\ UNCHANGED stack
       \/ /\ GoesOn("scan")
          /\ LET top == [Top EXCEPT !.next = @ + 1]
             IN  stack' = [stack EXCEPT ![Len(stack)] = top] \o
                    IF LoadSegments(r) = {} THEN <<>>
                    ELSE <<[anchor |-> LoadSegments(r), next |-> top.next]>>
    /\ UNCHANGED <<queue, running, depr>>

Advance ==
    stack' = [stack EXCEPT ![Len(stack)].next = @ + 1]

-------------------------------------------------------------------------------
(* The pass *)

Scanning == phase = "scan" /\ Top.next <= Len(queue)
Candidate == queue[Top.next]

\* Mutant: a scan does not remember who was admitted.
TriedAgain ==
    /\ Candidate \notin Range(depr)
    /\ Len(stack) = 1 \/ LoadSegments(Candidate) \cap Top.anchor # {}

\* The main scan tries everyone; the scan for an anchor's bundle only those that
\* would load one of the anchor's segments.
Tried ==
    /\ Candidate \notin Range(canRun) \cup Range(depr)
    /\ Len(stack) = 1 \/ LoadSegments(Candidate) \cap Top.anchor # {}

Skip ==
    /\ Scanning /\ ~ Tried
    /\ Advance
    /\ UNCHANGED <<queue, running, full, resident, phase, canRun, depr, load, compute, charged>>

HardStop ==
    /\ Scanning /\ Tried /\ NoSlot /\ Stop(TRUE)
    /\ UNCHANGED <<queue, running, resident, depr>>

Refuse ==
    /\ Scanning /\ Tried /\ ~ NoSlot /\ Refused(Candidate)
    /\ UNCHANGED <<queue, running, depr>>

AdmitBalanced == Scanning /\ Tried /\ Balanced(Candidate) /\ Admit(Candidate)

\* _hybrid_bbf_req_starved: it has waited long enough.
AdmitStarved == Scanning /\ Tried /\ ~ Balanced(Candidate) /\ Admit(Candidate)

\* Mutant: the request is passed over without being remembered.
DeprioritizeForgets ==
    /\ Scanning /\ Tried /\ ~ NoSlot /\ ~ Balanced(Candidate)
    /\ Advance
    /\ UNCHANGED <<queue, running, full, resident, phase, canRun, depr, load, compute, charged>>

Deprioritize ==
    /\ Scanning /\ Tried /\ ~ NoSlot /\ ~ Balanced(Candidate)
    /\ depr' = Append(depr, Candidate)
    /\ Advance
    /\ UNCHANGED <<queue, running, full, resident, phase, canRun, load, compute, charged>>

\* The scan at the top of the stack has seen the whole queue.
EndScan ==
    /\ phase = "scan" /\ Top.next > Len(queue)
    /\ stack' = SubSeq(stack, 1, Len(stack) - 1)
    /\ phase' = IF Len(stack) = 1 THEN "backfill" ELSE "scan"
    /\ UNCHANGED <<queue, running, full, resident, canRun, depr, load, compute, charged>>

\* The deprioritized requests, in order and whatever they load.
Backfill ==
    /\ phase = "backfill"
    /\ IF depr = <<>>
       THEN phase' = "done" /\ UNCHANGED <<full, resident, passVars>>
       ELSE \/ NoSlot /\ Stop(TRUE) /\ UNCHANGED <<resident, depr>>
            \/ ~ NoSlot /\ Refused(Head(depr)) /\ UNCHANGED depr
            \/ /\ ~ NoSlot
               /\ \E loads \in {FALSE, LoadSegments(Head(depr)) # {}} : Added(Head(depr), loads)
               /\ GoesOn("backfill") \/ RunsOut
               /\ depr' = Tail(depr)
               /\ UNCHANGED stack
    /\ UNCHANGED <<queue, running>>

\* waiting_queue, filtered by can_run_set.
Without(s, S) ==
    LET kept[i \in 0..Len(s)] ==
            IF i = 0 THEN <<>>
            ELSE IF s[i] \in S THEN kept[i - 1] ELSE Append(kept[i - 1], s[i])
    IN  kept[Len(s)]

\* The rest of _get_new_batch_prefill_raw; the batch runs and joins running_batch.
Run ==
    /\ phase \in {"stop", "done"}
    /\ running' = running \cup Range(canRun)
    /\ queue' = Without(queue, Range(canRun))
    /\ phase' = "idle"
    /\ stack' = <<>> /\ canRun' = <<>> /\ depr' = <<>>
    /\ load' = 0 /\ compute' = 0 /\ charged' = {}
    /\ UNCHANGED <<full, resident>>

Pass ==
    \/ Begin \/ Skip \/ HardStop \/ Refuse \/ AdmitBalanced \/ AdmitStarved
    \/ Deprioritize \/ EndScan \/ Backfill \/ Run

Next ==
    \/ \E r \in Requests : Arrive(r) \/ Finish(r)
    \/ Pass

Spec == Init /\ [][Next]_vars

\* The loop keeps forming batches, and running requests finish.
FairSpec == Spec /\ WF_vars(Pass) /\ WF_vars(\E r \in Requests : Finish(r))
-------------------------------------------------------------------------------
(* Properties *)

\* Every variable keeps its type.
TypeOK ==
    /\ {queue, canRun, depr} \subseteq Seq(Requests)
    /\ running \subseteq Requests /\ full \in BOOLEAN
    /\ resident \subseteq Segments /\ PrefixClosed(resident) /\ charged \subseteq Segments
    /\ phase \in {"idle", "scan", "backfill", "stop", "done"}
    /\ load \in Nat /\ compute \in Nat
    /\ \A i \in DOMAIN stack : stack[i].next \in 1..(Len(queue) + 1)

\* A request is picked once, and one that is picked is neither left to be tried
\* again by a scan or the backfill, nor already running.
PickedOnce ==
    /\ IsInjective(canRun \o depr)
    /\ Range(canRun) \subseteq Range(queue) \ running

\* "If the queue scan finishes with budget left, the deprioritized requests are
\* used as FIFO backfill": a pass that nothing stopped leaves no request behind.
NobodyIsLeft == phase = "done" => Range(canRun) = Range(queue)

\* A request admitted by the ratio keeps the whole batch within it, measured by
\* what its requests have really loaded and have left to compute.
RatioIsKept ==
    [][AdmitBalanced /\ canRun # <<>> =>
        /\ load' = Tokens(charged')
        /\ load' <= LoadRatio * compute']_vars

\* What the batch has loaded is still on the device when the batch is run, with
\* the evictions that later loads of the same pass made.
LoadedStays == charged \subseteq resident

\* "to avoid starvation": every waiting request is admitted in the end, however
\* loading-heavy it is and whatever arrives after it.
EveryRequestIsAdmitted == \A r \in Requests : r \in Range(queue) ~> r \in running

\* "the scheduler immediately scans the remaining queue for bundle hits that share
\* the admitted request's host-cache segments and admits them first": the main
\* scan does not come to a request that shares nothing with the batch while one
\* that shares a loaded segment has not been tried.
BundleHitsComeFirst ==
    Scanning /\ Len(stack) = 1 /\ Tried /\ PathOf(Candidate) \cap charged = {} =>
        \A r \in Range(queue) \ (Range(canRun) \cup Range(depr)) :
            PathOf(r) \cap charged = {}
===============================================================================
