------------------------------ MODULE BatchLoop -------------------------------
(***************************************************************************)
(* The scheduler's event loop with bubble filling: requests arrive, are    *)
(* formed into a prefill batch whose host pages are loaded, and decode     *)
(* until they finish.  While the full-block preload of a prefill batch is  *)
(* in flight the batch is put aside (hybrid_bubble_pending_prefill_batch)  *)
(* and the running batch decodes instead.  Requests can be aborted and     *)
(* retracted, generation paused and continued, and the cache flushed.      *)
(*                                                                         *)
(* overlap chooses between event_loop_normal and event_loop_overlap.  The  *)
(* load stream and the forward stream run beside the loop.  What the tree  *)
(* and the pools do is left to HiRadixCache: here a request is admitted,   *)
(* or retracted for want of memory, by nondeterministic choice.            *)
(***************************************************************************)
EXTENDS LayerLoads, FiniteSets

CONSTANTS
    MaxTokens,      \* max_new_tokens of a request
    MaxRunning,     \* max_running_requests, also the size of req_to_token_pool
    MaxRetracts,    \* bound: how often one request is retracted
    MaxControls,    \* bound: how many control requests are received
    Controls        \* the control requests received

ASSUME LoopAssumption ==
    /\ MaxTokens \in Nat \ {0} /\ MaxRunning \in Nat \ {0}
    /\ MaxRetracts \in Nat /\ MaxControls \in Nat
    /\ Controls \subseteq {"abort", "abort_all", "retract", "in_place", "flush"}

VARIABLES
    ctl,        \* where the loop is
    waiting,    \* waiting_queue
    finished,   \* the requests with a finished_reason
    returned,   \* the requests returned to the caller without a finished_reason
    marked,     \* the requests with to_finish set
    retracted,  \* the requests with is_retracted set
    retracts,   \* retraction_count of each request
    tokens,     \* len(output_ids) of each request
    running,    \* running_batch: its requests, consumer index, batch_is_full
    last,       \* last_batch, and cur_batch between two iterations
    pending,    \* hybrid_bubble_pending_prefill_batch
    batch,      \* the batch this iteration is about to run
    results,    \* the launched batches whose result has not been processed
    paused,     \* _engine_paused
    flushing,   \* _pending_flush is set
    controls,   \* how many control requests have been received
    overlap     \* enable_overlap, which does not change

requestVars == <<waiting, finished, returned, marked, retracted, retracts, tokens>>
batchVars   == <<running, last, pending, batch>>
inputVars   == <<paused, flushing, controls>>
vars == <<ctl, requestVars, batchVars, results, inputVars, loadVars, overlap>>

-------------------------------------------------------------------------------
(* Batches *)

\* A decode batch is running_batch itself, so its requests are kept there.
NoBatch == [mode |-> "none", reqs |-> {}, idx |-> -1, kind |-> "none"]
Decode  == [mode |-> "decode", reqs |-> {}, idx |-> -1, kind |-> "none"]
Extend(reqs, idx, kind) ==
    [mode |-> "extend", reqs |-> reqs, idx |-> idx, kind |-> kind]

Batches == {NoBatch, Decode} \cup
    {Extend(S, i, k) : S \in SUBSET Requests, i \in -1..(NumCounters - 1), k \in LoadKinds}

Unfinished(S) == S \ finished

\* What the scheduler can reach of a request that has been admitted.
Admitted == running.reqs \cup last.reqs \cup pending.reqs \cup batch.reqs

New == Requests \ (waiting \cup finished \cup returned \cup Admitted)

\* get_num_allocatable_reqs: a finished request has given its slot back.
Allocatable ==
    LET bs   == MaxRunning - Cardinality(running.reqs)
        pool == MaxRunning - Cardinality(Unfinished(Admitted))
    IN  IF bs < pool THEN bs ELSE pool

Init ==
    /\ ctl = "input" /\ waiting = {} /\ finished = {} /\ returned = {}
    /\ marked = {} /\ retracted = {} /\ results = <<>>
    /\ retracts = [r \in Requests |-> 0] /\ tokens = [r \in Requests |-> 0]
    /\ running = [reqs |-> {}, idx |-> -1, full |-> FALSE]
    /\ last = NoBatch /\ pending = NoBatch /\ batch = NoBatch
    /\ paused = FALSE /\ flushing = FALSE /\ controls = 0 /\ overlap \in BOOLEAN
    /\ LoadInit

-------------------------------------------------------------------------------
(* process_input_requests *)

\* handle_generate_request ends in _add_request_to_queue.
Arrive(r) ==
    /\ ctl = "input" /\ r \in New
    /\ waiting' = waiting \cup {r}
    /\ UNCHANGED <<ctl, finished, returned, marked, retracted, retracts, tokens,
                   batchVars, results, inputVars, loadVars>>

Receive(name) ==
    /\ ctl = "input" /\ name \in Controls /\ controls < MaxControls
    /\ controls' = controls + 1

\* abort_request: a waiting request is returned at once, one in running_batch or
\* in cur_batch is marked to finish with its next token.
AbortRequest(S) ==
    /\ returned' = returned \cup (S \cap waiting)
    /\ waiting' = waiting \ S
    /\ marked' = marked \cup Unfinished(S \cap (running.reqs \cup last.reqs))
    /\ UNCHANGED <<ctl, finished, retracted, retracts, tokens, batchVars, results,
                   paused, flushing, loadVars>>

AbortOne(r) == Receive("abort") /\ r \notin New /\ AbortRequest({r})
AbortAll == Receive("abort_all") /\ AbortRequest(Requests)

\* pause_generation(mode="in_place").
PauseInPlace ==
    /\ Receive("in_place")
    /\ paused' = TRUE
    /\ UNCHANGED <<ctl, requestVars, batchVars, results, flushing, loadVars>>

\* pause_generation(mode="retract") up to the result of the last batch, for
\* which the overlapped loop waits.
PauseRetract ==
    /\ Receive("retract")
    /\ paused' = TRUE
    /\ ctl' = "retract"
    /\ UNCHANGED <<requestVars, batchVars, results, flushing, loadVars>>

ContinueGeneration ==
    /\ ctl = "input" /\ paused
    /\ paused' = FALSE
    /\ UNCHANGED <<ctl, requestVars, batchVars, results, flushing, controls, loadVars, overlap>>

\* Mutant: ongoing_load_back is not looked at.
IsFullyIdleLoading ==
    /\ running.reqs = {} /\ last.reqs = {} /\ waiting = {}
    /\ overlap => results = <<>>

\* is_fully_idle: it looks at the running, the last and the current batch, at
\* unprocessed results, at the waiting queue, and at ongoing_load_back.
IsFullyIdle ==
    /\ running.reqs = {} /\ last.reqs = {} /\ waiting = {}
    /\ overlap => results = <<>>
    /\ acks = <<>>

\* flush_cache when idle: tree_cache.reset clears the controller's queues, and
\* leaves the ring of counters alone.
FlushIdle ==
    /\ last' = NoBatch /\ acks' = <<>>
    /\ UNCHANGED <<running, pending, batch, producer, stream>>

\* flush_cache_wrapped: at once when idle or when no timeout was given,
\* otherwise deferred; refused while another one is deferred.
FlushCache(deferred) ==
    /\ Receive("flush")
    /\ IF flushing \/ (~ IsFullyIdle /\ ~ deferred)
       THEN UNCHANGED <<flushing, batchVars, loadVars>>
       ELSE IF IsFullyIdle
            THEN FlushIdle /\ UNCHANGED flushing
            ELSE flushing' = TRUE /\ UNCHANGED <<batchVars, loadVars>>
    /\ UNCHANGED <<ctl, requestVars, results, paused>>

\* The end of process_input_requests: _check_pending_flush, whose deadline may
\* have passed.  A paused loop goes back to its input.
EndInput ==
    /\ ctl = "input"
    /\ ctl' = IF paused THEN "input" ELSE "merge"
    /\ IF flushing /\ IsFullyIdle
       THEN FlushIdle /\ flushing' = FALSE
       ELSE /\ flushing' \in {flushing, FALSE}
            /\ UNCHANGED <<batchVars, loadVars>>
    /\ UNCHANGED <<requestVars, results, paused, controls>>

-------------------------------------------------------------------------------
(* process_batch_result *)

\* The forward pass at the head of the queue has computed all its layers.
HeadComputed == results # <<>> /\ Head(results).layer > Layers

\* Mutant: the result of a request retracted since is processed.
ResultReqsAll ==
    LET op == Head(results)
    IN  IF op.mode = "extend" \/ overlap THEN Unfinished(op.reqs) ELSE op.reqs

\* One token for each request of the batch that is neither finished nor
\* retracted since; check_finished ends it when it was marked, when it has all
\* its tokens, or when the token is a stop token.
ResultReqs ==
    LET op == Head(results)
    IN  IF op.mode = "extend" \/ overlap
        THEN Unfinished(op.reqs) \ retracted
        ELSE op.reqs

ProcessResult(stopped) ==
    /\ HeadComputed
    /\ stopped \subseteq ResultReqs
    /\ {r \in ResultReqs : r \in marked \/ tokens[r] + 1 >= MaxTokens} \subseteq stopped
    /\ tokens' = [r \in Requests |-> IF r \in ResultReqs THEN tokens[r] + 1 ELSE tokens[r]]
    /\ finished' = finished \cup stopped
    /\ marked' = marked \ stopped
    /\ results' = Tail(results)

NoResult == UNCHANGED <<tokens, finished, marked, results>>

-------------------------------------------------------------------------------
(* get_next_batch_to_run *)

\* Mutant: batch_is_full is not reset when the merged batch shrank.
MergedStaysFull(done) ==
    LET keep == last.reqs \ done
    IN  IF last.mode # "extend" \/ keep = {} THEN running
        ELSE IF running.reqs = {}
             THEN [reqs |-> keep, idx |-> last.idx, full |-> FALSE]
             ELSE [running EXCEPT !.reqs = @ \cup keep]

\* Filter the last prefill batch and merge it into the running batch, which it
\* replaces when that is empty (with its own batch_is_full, never set).
Merged(done) ==
    LET keep == last.reqs \ done
        full == running.full /\ keep = last.reqs
    IN  IF last.mode # "extend" \/ keep = {}
        THEN [running EXCEPT !.full = IF last.mode = "extend" THEN full ELSE @]
        ELSE IF running.reqs = {}
             THEN [reqs |-> keep, idx |-> last.idx, full |-> FALSE]
             ELSE [running EXCEPT !.reqs = @ \cup keep, !.full = full]

\* The rest of pause_generation(mode="retract"): drain the result queue, merge
\* the last batch, here without touching batch_is_full, and retract all.
RetractAll ==
    /\ ctl = "retract"
    /\ \E stopped \in SUBSET Requests :
         /\ IF overlap /\ last # NoBatch THEN ProcessResult(stopped) ELSE stopped = {} /\ NoResult
         /\ LET keep == last.reqs \ finished'
                all  == (running.reqs \cup keep) \ finished'
            IN  /\ waiting' = waiting \cup all
                /\ retracted' = retracted \cup all
                /\ retracts' = [r \in Requests |-> IF r \in all THEN retracts[r] + 1 ELSE retracts[r]]
                /\ running' =
                     IF running.reqs # {} THEN [running EXCEPT !.reqs = {}, !.full = FALSE]
                     ELSE IF keep # {} THEN [reqs |-> {}, idx |-> last.idx, full |-> FALSE]
                     ELSE running
    /\ last' = NoBatch
    /\ ctl' = "input"
    /\ UNCHANGED <<returned, pending, batch, inputVars, loadVars>>

\* The merged batch is dead from here on: only whether there was one is used.
MergeLast ==
    /\ ctl = "merge"
    /\ running' = Merged(finished)
    /\ last' = [last EXCEPT !.reqs = {}]
    /\ batch' = pending
    /\ ctl' = IF pending # NoBatch THEN "choose" ELSE "form"
    /\ UNCHANGED <<requestVars, pending, results, inputVars, loadVars>>

\* _get_new_batch_prefill_raw up to the load: check_hicache_events drains the
\* acknowledged loads first, then requests are admitted into a new batch.
NoNewBatch(full) ==
    /\ running' = [running EXCEPT !.full = full]
    /\ ctl' = "choose"
    /\ UNCHANGED <<waiting, retracted, batch>>

\* batch_is_full is set when a slot or memory ran out with something admitted
\* or running (NO_TOKEN, hard_stop_or_full).
Admit(S, kind, full) ==
    /\ waiting' = waiting \ S
    /\ retracted' = retracted \ S
    /\ batch' = Extend(S, -1, kind)
    /\ running' = [running EXCEPT !.full = full]
    /\ ctl' = IF kind = "none" THEN "choose" ELSE "load"

\* Memory is short only while other requests or their loads hold some.
MemoryIsHeld == running.reqs # {} \/ acks' # <<>>

FormBatch ==
    /\ ctl = "form"
    /\ DrainAcks
    /\ \/ /\ running.full \/ waiting = {}
          /\ NoNewBatch(running.full)
       \/ /\ ~ running.full /\ waiting # {} /\ Allocatable <= 0
          /\ NoNewBatch(TRUE)
       \/ /\ ~ running.full /\ waiting # {} /\ Allocatable > 0 /\ MemoryIsHeld
          /\ \E full \in {FALSE, running.reqs # {}} : NoNewBatch(full)
       \/ /\ ~ running.full /\ Allocatable > 0
          /\ \E S \in (SUBSET waiting) \ {{}}, kind \in LoadKinds, full \in BOOLEAN :
               /\ Cardinality(S) <= Allocatable
               /\ Admit(S, kind, full)
    /\ UNCHANGED <<finished, returned, marked, retracts, tokens, last, pending,
                   results, inputVars, producer, stream>>

\* ready_to_load_host_cache.
LoadBatch ==
    /\ ctl = "load"
    /\ StartLoading(batch.kind, batch.reqs)
    /\ batch' = [batch EXCEPT !.idx = NextSlot]
    /\ ctl' = "choose"
    /\ UNCHANGED <<requestVars, running, last, pending, results, inputVars>>

\* Mutant: the retracted requests are not put back into the waiting queue.
UpdateRunningLoses(retract, oom) ==
    LET keep == Unfinished(running.reqs)
        lost == retract \cup oom
    IN  /\ running' = [running EXCEPT !.reqs = keep \ lost,
                         !.full = @ /\ running.reqs = keep \ lost]
        /\ retract \subseteq keep /\ oom \subseteq keep \ retract
        /\ oom # {} => Cardinality(oom) = 1 /\ keep \ lost = {}
        /\ keep # {} /\ oom = {} => keep \ lost # {}
        /\ \A r \in lost : retracts[r] < MaxRetracts
        /\ returned' = returned \cup oom
        /\ retracted' = retracted \cup lost
        /\ retracts' = [r \in Requests |-> IF r \in lost THEN retracts[r] + 1 ELSE retracts[r]]
        /\ UNCHANGED waiting

\* update_running_batch: drop the finished requests, and when memory is short
\* retract all but some of the others; with one left and still no memory, that
\* one is returned to the caller as well.
UpdateRunning(retract, oom) ==
    LET keep == Unfinished(running.reqs)
        lost == retract \cup oom
    IN  /\ running' = [running EXCEPT !.reqs = keep \ lost,
                         !.full = @ /\ running.reqs = keep \ lost]
        /\ retract \subseteq keep /\ oom \subseteq keep \ retract
        /\ oom # {} => Cardinality(oom) = 1 /\ keep \ lost = {}
        /\ keep # {} /\ oom = {} => keep \ lost # {}
        /\ \A r \in lost : retracts[r] < MaxRetracts
        /\ waiting' = waiting \cup retract
        /\ returned' = returned \cup oom
        /\ retracted' = retracted \cup lost
        /\ retracts' = [r \in Requests |-> IF r \in lost THEN retracts[r] + 1 ELSE retracts[r]]

\* _should_hybrid_bubble_fill_prefill.
ShouldFill ==
    /\ batch.kind \in {"full", "both"} /\ batch.idx >= 0
    /\ ~ Ready(batch.idx, 0)

\* Mutant: the batch put aside stays there when it is run.
ChooseBatchKeeps ==
    /\ ctl = "choose"
    /\ IF (batch = NoBatch \/ ShouldFill) /\ running.reqs # {}
       THEN /\ \E retract, oom \in SUBSET Requests : UpdateRunning(retract, oom)
            /\ pending' = batch
            /\ batch' = IF running'.reqs = {} THEN batch ELSE Decode
       ELSE UNCHANGED <<pending, running, batch, waiting, returned, retracted, retracts>>
    /\ ctl' = "launch"
    /\ UNCHANGED <<finished, marked, tokens, last, results, inputVars, loadVars>>

\* Put the prefill batch aside for a decode batch while its preload is in
\* flight, if a decode batch is left; otherwise prefill first, then decode.
ChooseBatch ==
    /\ ctl = "choose"
    /\ IF (batch = NoBatch \/ ShouldFill) /\ running.reqs # {}
       THEN /\ \E retract, oom \in SUBSET Requests : UpdateRunning(retract, oom)
            /\ pending' = IF running'.reqs = {} THEN NoBatch ELSE batch
            /\ batch' = IF running'.reqs = {} THEN batch ELSE Decode
       ELSE /\ pending' = NoBatch
            /\ UNCHANGED <<running, batch, waiting, returned, retracted, retracts>>
    /\ ctl' = "launch"
    /\ UNCHANGED <<finished, marked, tokens, last, results, inputVars, loadVars>>

-------------------------------------------------------------------------------
(* run_batch and the rest of the iteration *)

\* A prefill waits for its layers; a decode waits for the layers of the consumer
\* index its batch was created with, unless it replays a CUDA graph.
Launched(eager) ==
    LET reqs == IF batch.mode = "decode" THEN running.reqs ELSE batch.reqs
        idx  == IF batch.mode = "decode" THEN running.idx ELSE batch.idx
    IN  [mode |-> batch.mode, reqs |-> reqs, idx |-> idx, layer |-> 1,
         waits |-> IF eager THEN AwaitedLayers(idx) ELSE {},
         born |-> [r \in reqs |-> retracts[r]]]

\* event_loop_normal processes the result of this batch, event_loop_overlap that
\* of the last one.
HasResult == IF overlap THEN last # NoBatch ELSE batch # NoBatch

Launch ==
    /\ ctl = "launch"
    /\ IF batch = NoBatch
       THEN UNCHANGED results
       ELSE \E eager \in {TRUE} \cup {batch.mode # "decode"} :
              results' = Append(results, Launched(eager))
    /\ ctl' = "result"
    /\ UNCHANGED <<requestVars, batchVars, inputVars, loadVars>>

EndIteration ==
    /\ ctl = "result"
    /\ \E stopped \in SUBSET Requests :
         IF HasResult THEN ProcessResult(stopped) ELSE stopped = {} /\ NoResult
    /\ last' = batch
    /\ batch' = NoBatch
    /\ ctl' = "input"
    /\ UNCHANGED <<waiting, returned, retracted, retracts, running, pending,
                   inputVars, loadVars>>

-------------------------------------------------------------------------------
(* The two streams *)

\* The forward stream runs the launched batches in order, layer by layer.
ComputeLayer ==
    \E i \in DOMAIN results :
        /\ \A j \in 1..(i - 1) : results[j].layer > Layers
        /\ results[i].layer \in (1..Layers) \ results[i].waits
        /\ results' = [results EXCEPT ![i].layer = @ + 1]
        /\ UNCHANGED <<ctl, requestVars, batchVars, inputVars, loadVars, overlap>>

\* The load stream finishes its next copy, and the forward passes that wait for
\* the event it records go on.
CopyLayer ==
    /\ stream # <<>>
    /\ stream' = Tail(stream)
    /\ results' = [i \in DOMAIN results |->
         IF results[i].idx = Head(stream).slot /\ Head(stream).done
         THEN [results[i] EXCEPT !.waits = @ \ {Head(stream).layer}]
         ELSE results[i]]
    /\ UNCHANGED <<ctl, requestVars, batchVars, inputVars, producer, acks, overlap>>

-------------------------------------------------------------------------------
Inputs ==
    /\ \/ \E r \in Requests : Arrive(r) \/ AbortOne(r)
       \/ AbortAll
       \/ PauseInPlace \/ PauseRetract
       \/ \E deferred \in BOOLEAN : FlushCache(deferred)
    /\ UNCHANGED overlap

Loop ==
    /\ \/ EndInput \/ RetractAll \/ MergeLast \/ FormBatch \/ LoadBatch
       \/ ChooseBatch \/ Launch \/ EndIteration
    /\ UNCHANGED overlap

Next == Inputs \/ ContinueGeneration \/ Loop \/ ComputeLayer \/ CopyLayer

Spec == Init /\ [][Next]_vars

\* The scheduler process and the two streams keep running; whoever paused the
\* engine continues it.
FairSpec ==
    /\ Spec
    /\ WF_vars(Loop) /\ WF_vars(ComputeLayer) /\ WF_vars(CopyLayer)
    /\ WF_vars(ContinueGeneration)
-------------------------------------------------------------------------------
(* Properties *)

\* Every variable keeps its type.
TypeOK ==
    /\ ctl \in {"input", "retract", "merge", "form", "load", "choose", "launch", "result"}
    /\ waiting \cup finished \cup returned \cup marked \cup retracted \subseteq Requests
    /\ retracts \in [Requests -> Nat] /\ tokens \in [Requests -> 0..MaxTokens]
    /\ running \in [reqs : SUBSET Requests, idx : -1..(NumCounters - 1), full : BOOLEAN]
    /\ {last, pending, batch} \subseteq Batches
    /\ \A i \in DOMAIN results :
         /\ results[i].reqs \subseteq Requests /\ results[i].waits \subseteq 1..Layers
         /\ results[i].layer \in 1..(Layers + 1)
    /\ paused \in BOOLEAN /\ flushing \in BOOLEAN /\ controls \in 0..MaxControls
    /\ overlap \in BOOLEAN /\ LoadTypeOK

\* A request the scheduler still has to serve is in one place only: waiting, or
\* in one of the running, the last, the put-aside and the chosen batch, through
\* merges, retractions, pauses and bubble filling.
InOnePlace ==
    LET places == <<waiting, running.reqs, last.reqs, pending.reqs,
                    IF batch = pending THEN {} ELSE batch.reqs, returned>>
    IN  \A r \in Requests : \A i, j \in DOMAIN places :
            r \in Unfinished(places[i] \cap places[j]) => i = j

\* No forward pass computes a layer while a page of one of its requests is still
\* to be copied for that layer: the per-layer waits, through the ring of events,
\* cover every load (LayerDoneCounter.wait_until).
LoadedBeforeUse ==
    \A i \in DOMAIN results, j \in DOMAIN stream :
        results[i].reqs \cap stream[j].reqs # {} => stream[j].layer >= results[i].layer

\* "Producer finish event should be ready before being reused": start_loading
\* never takes a slot of the ring whose load is still running.
ProducerReady == ctl = "load" => Finished(NextSlot)

\* A flush finds nothing in flight: is_fully_idle does not look at the batch put
\* aside for bubble filling, nor at the streams, and must still be false while
\* there is such a batch, a launched forward pass or a copy to the pool.
IdleIsQuiet ==
    ctl = "input" /\ IsFullyIdle =>
        /\ pending = NoBatch /\ results = <<>>
        /\ \A j \in DOMAIN stream : stream[j].layer = 0

\* A token computed before a request was retracted is never counted after it
\* was: the overlapped loop processes a result one iteration late, and
\* is_retracted is cleared when the request is admitted again.
StaleResultsAreDropped ==
    ctl \in {"result", "retract"} /\ HeadComputed =>
        \A r \in ResultReqs : Head(results).born[r] = retracts[r]

\* Where each request is, as its caller sees it.
Phase ==
    [r \in Requests |->
        IF r \in finished THEN "finished"
        ELSE IF r \in returned THEN "returned"
        ELSE IF r \in waiting THEN "queued"
        ELSE IF r \in Admitted THEN "serving" ELSE "new"]

Life == INSTANCE RequestLife WITH phase <- Phase

\* Requests are never lost or served twice: the loop implements RequestLife.
LifeSpec == Life!Spec

\* Every request that has arrived finishes or is returned, with bubble filling,
\* retraction and aborts.
EveryRequestLeaves == Life!EveryRequestLeaves

\* The pages a load protects are released: every load is acknowledged.
LoadsAreAcknowledged == acks # <<>> ~> acks = <<>>

\* batch_is_full is set "after making sure there are requests that can be
\* served": while it is set some batch holds a request, since otherwise no
\* request is ever admitted again.  A retracting pause breaks this.
FullMeansServing == running.full => Admitted # {}

-------------------------------------------------------------------------------
(* What the documentation says of the loop, and the code does not do *)

\* "Whether to abort all requests": after abort_request with abort_all, every
\* admitted request is finished or marked to finish.
AbortReachesAll == [][AbortAll => Unfinished(Admitted) \subseteq marked']_vars

\* "The KV cache can be flushed in this mode": after a retracting pause that finds
\* no request waiting and no load in flight, the engine counts as idle.
RetractedIsFlushable ==
    [][RetractAll /\ waiting = {} /\ acks = <<>> => IsFullyIdle']_vars

\* "decode bubble filling while hybrid HiCache prefill preload is still in
\* flight": the decode batch that fills the bubble does not itself wait for the
\* load of the batch put aside.
FillerDoesNotWait ==
    pending # NoBatch => \A i \in DOMAIN results :
        results[i].mode = "decode" /\ results[i].idx = pending.idx => results[i].waits = {}
===============================================================================
