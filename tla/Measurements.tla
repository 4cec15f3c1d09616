----------------------------- MODULE Measurements -----------------------------
(***************************************************************************)
(* How the hybrid loader measures itself: PrefillComputeEventRecorder      *)
(* times the layers of each prefill, HybridBatchMeasurement the transfers  *)
(* of each batch, both with pairs of CUDA events from reuse pools, and the *)
(* next batch's split between full-block and layer-wise pages is computed  *)
(* from the latest samples.                                                *)
(*                                                                         *)
(* The scheduler thread issues work to the load stream and the forward     *)
(* stream, and collects what they have finished at the top of the loop and *)
(* when it prepares a batch.  An element of a stream is a piece of work    *)
(* between the two events of a pair; stamp says which batch's work a       *)
(* pair last timed.  Times, bytes and token counts are left out.           *)
(***************************************************************************)
EXTENDS Naturals, Sequences, SequencesExt

CONSTANTS
    Layers,         \* layer_num
    MaxBatches      \* bound: how many prefill batches are formed

ASSUME MeasureAssumption == Layers \in Nat \ {0} /\ MaxBatches \in Nat

VARIABLES
    supported,      \* online_prefill_compute_supported
    ctl,            \* where the loop is
    seq,            \* hybrid_batch_sequence
    formed,         \* the prefill batch formed and not yet run, if any
    prepared,       \* recorder.prepared
    computing,      \* recorder.pending
    known,          \* the synopsis holds a sample
    measured,       \* hybrid_pending_measurements
    samples,        \* hybrid_transfer_samples: the batch of each one
    free,           \* the free pairs of the two pools
    stamp,          \* of each pool, the batch each pair has last timed
    loadStream, forwardStream

recorderVars == <<prepared, computing, known>>
poolVars     == <<free, stamp>>
streamVars   == <<loadStream, forwardStream>>
vars == <<supported, ctl, seq, formed, recorderVars, measured, samples, poolVars, streamVars>>

Pools == {"compute", "transfer"}

Init ==
    /\ supported \in BOOLEAN
    /\ ctl = "top" /\ seq = 0 /\ formed = <<>> /\ prepared = <<>> /\ computing = <<>>
    /\ known = FALSE /\ measured = <<>> /\ samples = [full |-> 0, layer |-> 0]
    /\ free = [p \in Pools |-> <<>>] /\ stamp = [p \in Pools |-> <<>>]
    /\ loadStream = <<>> /\ forwardStream = <<>>

\* ReusableEventPairPool.acquire, n times: the pairs released last, then new ones.
Acquired(pool, n) ==
    LET have == Len(free[pool])
    IN  [i \in 1..n |-> IF i <= have THEN free[pool][have - i + 1]
                        ELSE Len(stamp[pool]) + i - have]

\* What acquiring n pairs leaves in the pool, and the pool with its new pairs.
Left(pool, n) == SubSeq(free[pool], 1, Len(free[pool]) - n)
Grown(pool, n) == stamp[pool] \o [i \in 1..(n - Len(free[pool])) |-> 0]

\* Mutant: only the first event is queried.
DoneFirst(pool, used) ==
    LET work == IF pool = "compute" THEN forwardStream ELSE loadStream
    IN  used = <<>> \/ \A i \in DOMAIN work : used[1] \notin Range(work[i].pairs)

\* event.query() for the end of every pair in use.
Done(pool, used) ==
    LET work == IF pool = "compute" THEN forwardStream ELSE loadStream
    IN  \A i \in DOMAIN work : Range(work[i].pairs) \cap Range(used) = {}

PairsOf(items) == FlattenSeq([i \in DOMAIN items |-> items[i].pairs])

-------------------------------------------------------------------------------
(* Collection *)

\* Mutant: the last pair is not given back.
ReleasedButLast(items) ==
    FlattenSeq([i \in DOMAIN items |-> SubSeq(items[i].pairs, 1, Len(items[i].pairs) - 1)])

\* ReusableEventPairPool.release, for every pair of the collected items.
Released(items) == PairsOf(items)

\* PrefillComputeEventRecorder.collect takes the items whose work is done.
Computed == SelectSeq(computing, LAMBDA item : Done("compute", item.pairs))

\* finish_online_prefill_compute, called for each of them: the measurement of the
\* same batch is told before the pairs can be used again.
Told ==
    [i \in DOMAIN measured |-> [measured[i] EXCEPT !.completed =
        @ \/ \E j \in DOMAIN Computed : Computed[j].seq = measured[i].seq]]

CollectCompute ==
    /\ computing' = SelectSeq(computing, LAMBDA item : ~ Done("compute", item.pairs))
    /\ known' = (known \/ \E i \in DOMAIN Computed : Computed[i].synopsis)

\* collect_hybrid_measurements takes those whose prefill and transfers are done.
Settled(m) == (supported => m.completed) /\ Done("transfer", m.pairs)

\* LatestTransferSamples.update, for the settled measurements in their order:
\* only a later batch replaces a sample.
Latest(path) ==
    LET news == SelectSeq(Told, LAMBDA m : Settled(m) /\ path \in m.paths)
    IN  Max({news[i].seq : i \in DOMAIN news} \cup {samples[path]})

Collect ==
    /\ CollectCompute
    /\ measured' = SelectSeq(Told, LAMBDA m : ~ Settled(m))
    /\ samples' = [full |-> Latest("full"), layer |-> Latest("layer")]
    /\ free' = [compute |-> free.compute \o Released(Computed),
                transfer |-> free.transfer \o Released(SelectSeq(Told, Settled))]
    /\ UNCHANGED <<supported, seq, formed, prepared, stamp, streamVars>>

\* _collect_online_hybrid_stats, at the top of the loop.
CollectStats == ctl = "top" /\ Collect /\ ctl' = "schedule"

\* prepare_online_hybrid_batch begins by collecting.
BeginPrepare ==
    /\ ctl = "schedule" /\ formed = <<>> /\ seq < MaxBatches
    /\ Collect /\ ctl' = "prepare"

-------------------------------------------------------------------------------
(* One prefill batch *)

\* The paths a batch's host pages can take: none of them, all layer-wise when a
\* sample is missing or decode requests are mixed in, otherwise any split.
Splits(mixed) ==
    {{}, {"layer"}} \cup
    (IF ~ supported \/ (~ mixed /\ known' /\ samples.layer > 0)
     THEN {{"full"}, {"full", "layer"}} ELSE {})

\* The transfers start_loading submits: one pair for the full-block pages, and
\* one for each layer of the others.  Layer 0 stands for all layers.
Transfers(paths, by, pairs) ==
    LET full == IF "full" \in paths THEN 1 ELSE 0
    IN  [i \in DOMAIN pairs |-> [by |-> by, layer |-> i - full, pairs |-> <<pairs[i]>>]]

PairsFor(paths) ==
    (IF "full" \in paths THEN 1 ELSE 0) + (IF "layer" \in paths THEN Layers ELSE 0)

\* Mutant: a batch without host pages is not prepared.
PreparedLoading(paths) ==
    IF supported /\ paths # {} THEN Append(prepared, seq + 1) ELSE prepared

\* recorder.prepare, for a model family that is instrumented.
Prepared(paths) == IF supported THEN Append(prepared, seq + 1) ELSE prepared

\* The rest of prepare_online_hybrid_batch, in which recorder.prepare collects once
\* more before the split is chosen, and start_loading.
Prepare ==
    /\ ctl = "prepare"
    /\ seq' = seq + 1
    /\ CollectCompute
    /\ \E mixed \in BOOLEAN : \E paths \in Splits(mixed) :
         LET n     == PairsFor(paths)
             pairs == Acquired("transfer", n)
         IN  /\ prepared' = Prepared(paths)
             /\ free' = [compute |-> free.compute \o Released(Computed),
                         transfer |-> Left("transfer", n)]
             /\ stamp' = [stamp EXCEPT !.transfer = Grown("transfer", n)]
             /\ measured' = Append(Told,
                  [seq |-> seq + 1, completed |-> FALSE, paths |-> paths, pairs |-> pairs])
             /\ loadStream' = loadStream \o Transfers(paths, seq + 1, pairs)
             /\ formed' = <<[seq |-> seq + 1, paths |-> paths, mixed |-> mixed]>>
    /\ ctl' = "run"
    /\ UNCHANGED <<supported, samples, forwardStream>>

\* The work of a forward pass, layer by layer, and the pairs that time it.
Forward(by, timed) ==
    [k \in 1..Layers |-> [by |-> by, layer |-> k, pairs |-> timed[k]]]

\* The forward pass of the formed batch: activate_next, begin_layer and end_layer
\* around each layer, begin_wait and end_wait around its wait (one, for those for
\* keys and for values) when it loads, and finish.
RunPrefill ==
    /\ ctl = "run" /\ formed # <<>>
    /\ LET b     == Head(formed)
           each  == IF b.paths = {} THEN 1 ELSE 2
           pairs == Acquired("compute", each * Layers)
           timed == [k \in 1..Layers |-> SubSeq(pairs, each * (k - 1) + 1, each * k)]
       IN  IF prepared = <<>>
           THEN /\ forwardStream' = forwardStream \o Forward(b.seq, [k \in 1..Layers |-> <<>>])
                /\ UNCHANGED <<prepared, computing, poolVars>>
           ELSE /\ free' = [free EXCEPT !.compute = Left("compute", each * Layers)]
                /\ stamp' = [stamp EXCEPT !.compute = Grown("compute", each * Layers)]
                /\ forwardStream' = forwardStream \o Forward(b.seq, timed)
                /\ prepared' = Tail(prepared)
                /\ \E synopsis \in {TRUE, ~ b.mixed} :
                     computing' = Append(computing,
                        [seq |-> Head(prepared), pairs |-> pairs, synopsis |-> synopsis])
    /\ formed' = <<>>
    /\ ctl' = "top"
    /\ UNCHANGED <<supported, seq, known, measured, samples, loadStream>>

\* An iteration without prefill: nothing was formed, or the batch is put aside
\* while its full-block preload is in flight.
NoPrefill ==
    /\ ctl \in {"schedule", "run"}
    /\ IF formed = <<>> THEN ctl = "schedule"
       ELSE \E i \in DOMAIN loadStream :
                loadStream[i].by = Head(formed).seq /\ loadStream[i].layer = 0
    /\ ctl' = "top"
    /\ UNCHANGED <<supported, seq, formed, recorderVars, measured, samples, poolVars, streamVars>>

\* The batch that was put aside is chosen again.
Resume ==
    /\ ctl = "schedule" /\ formed # <<>>
    /\ ctl' = "run"
    /\ UNCHANGED <<supported, seq, formed, recorderVars, measured, samples, poolVars, streamVars>>

-------------------------------------------------------------------------------
(* The streams *)

Timed(pool, work) ==
    stamp' = [stamp EXCEPT ![pool] =
        [p \in DOMAIN @ |-> IF p \in Range(work.pairs) THEN work.by ELSE @[p]]]

CopyNext ==
    /\ loadStream # <<>>
    /\ loadStream' = Tail(loadStream)
    /\ Timed("transfer", Head(loadStream))
    /\ UNCHANGED <<supported, ctl, seq, formed, recorderVars, measured, samples, free, forwardStream>>

\* A layer is computed once its pages, full-block or its own, have been copied.
ComputeNext ==
    /\ forwardStream # <<>>
    /\ LET work == Head(forwardStream)
       IN  /\ \A i \in DOMAIN loadStream :
                ~ (loadStream[i].by = work.by /\ loadStream[i].layer \in {0, work.layer})
           /\ Timed("compute", work)
    /\ forwardStream' = Tail(forwardStream)
    /\ UNCHANGED <<supported, ctl, seq, formed, recorderVars, measured, samples, free, loadStream>>

Loop == CollectStats \/ BeginPrepare \/ Prepare \/ RunPrefill \/ NoPrefill \/ Resume

Next == Loop \/ CopyNext \/ ComputeNext

Spec == Init /\ [][Next]_vars

\* The scheduler loop and the two streams keep running.
FairSpec == Spec /\ WF_vars(Loop) /\ WF_vars(CopyNext) /\ WF_vars(ComputeNext)
-------------------------------------------------------------------------------
(* Properties *)

\* Every variable keeps its type.
TypeOK ==
    /\ supported \in BOOLEAN /\ known \in BOOLEAN
    /\ ctl \in {"top", "schedule", "prepare", "run"}
    /\ seq \in 0..MaxBatches /\ Len(formed) <= 1 /\ prepared \in Seq(1..MaxBatches)
    /\ \A p \in Pools :
         /\ stamp[p] \in Seq(0..MaxBatches)
         /\ Range(free[p]) \subseteq DOMAIN stamp[p]

\* No event pair is lost and none serves two measurements: each pair of a pool is
\* free, or belongs to one measurement that has not been collected.
PairsHaveOneUse ==
    LET uses(pool) == free[pool] \o PairsOf(IF pool = "compute" THEN computing ELSE measured)
    IN  \A pool \in Pools :
            IsInjective(uses(pool)) /\ Range(uses(pool)) = DOMAIN stamp[pool]

\* "Consumers must not retain an event that can be reused": when a measurement is
\* collected, each of its pairs holds the times of its own batch.
TimesAreOfTheirBatch ==
    /\ \A i \in DOMAIN computing : Done("compute", computing[i].pairs) =>
         \A p \in Range(computing[i].pairs) : stamp["compute"][p] = computing[i].seq
    /\ \A i \in DOMAIN measured : Settled(Told[i]) =>
         \A p \in Range(measured[i].pairs) : stamp["transfer"][p] = measured[i].seq

\* The layer times are charged to the batch that runs, though it may have been put
\* aside: the item activate_next takes is that of the formed batch.
RecordedIsRun ==
    supported => prepared = [i \in DOMAIN formed |-> formed[i].seq]

\* Every measurement is collected.
EveryMeasurementSettles ==
    \A n \in 1..MaxBatches :
        (\E i \in DOMAIN measured : measured[i].seq = n)
            ~> (\A i \in DOMAIN measured : measured[i].seq # n)
===============================================================================
