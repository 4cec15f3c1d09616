------------------------------ MODULE LayerLoads ------------------------------
(***************************************************************************)
(* The layer-wise loading of host pages: the ring of LayerLoadingEvents    *)
(* (LayerDoneCounter), start_loading, and the load stream that runs what   *)
(* start_loading submits.  A CUDA event is represented by its pending      *)
(* record: it is ready when the load stream holds no record of it.         *)
(*                                                                         *)
(* An element of stream copies one layer of the pages of one load, and     *)
(* then records the layer's event when "done" is set.  Layer 0 stands for  *)
(* the record of preload_finish_event, which copies nothing.               *)
(***************************************************************************)
EXTENDS Integers, Sequences

CONSTANTS
    Requests,   \* the requests whose pages are loaded
    Layers      \* layer_num, the number of layers of the model

ASSUME LayersAssumption == Layers \in Nat \ {0}

VARIABLES
    producer,   \* layer_done_counter.producer_index
    stream,     \* what the load stream has still to run
    acks        \* ack_load_queue

loadVars == <<producer, stream, acks>>

\* Mutant: no extra counters.
NumCountersOne == 1

\* The ring of LayerDoneCounter: "extra ... counters for overlap mode".
NumCounters == 3

\* The two halves of a hybrid load: full-block pages, and layer-wise pages.
LoadKinds == {"none", "layer", "full", "both"}

LayerCopies(slot, reqs, done) ==
    [k \in 1..Layers |-> [slot |-> slot, layer |-> k, reqs |-> reqs, done |-> done]]

PreloadRecord(slot) ==
    <<[slot |-> slot, layer |-> 0, reqs |-> {}, done |-> TRUE]>>

\* Mutant: the preload completes the layers although a tail follows it.
SubmissionEarly(kind, slot, reqs) ==
    CASE kind = "full"  -> LayerCopies(slot, reqs, TRUE) \o PreloadRecord(slot)
      [] kind = "layer" -> PreloadRecord(slot) \o LayerCopies(slot, reqs, TRUE)
      [] kind = "both"  -> LayerCopies(slot, reqs, TRUE) \o PreloadRecord(slot)
                             \o LayerCopies(slot, reqs, FALSE)

\* The load-stream section of start_loading: the full-block preload completes
\* the layers itself only when no layer-wise tail follows it.
Submission(kind, slot, reqs) ==
    CASE kind = "full"  -> LayerCopies(slot, reqs, TRUE) \o PreloadRecord(slot)
      [] kind = "layer" -> PreloadRecord(slot) \o LayerCopies(slot, reqs, TRUE)
      [] kind = "both"  -> LayerCopies(slot, reqs, FALSE) \o PreloadRecord(slot)
                             \o LayerCopies(slot, reqs, TRUE)

\* event.query(): the last record of this event has been reached.
Ready(slot, layer) ==
    \A i \in DOMAIN stream :
        ~ (stream[i].slot = slot /\ stream[i].layer = layer /\ stream[i].done)

\* finish_event, the event of the last layer.
Finished(slot) == Ready(slot, Layers)

NextSlot == (producer + 1) % NumCounters

LoadInit == producer = -1 /\ stream = <<>> /\ acks = <<>>

\* start_loading for the pages of reqs; the caller stores the returned slot.
StartLoading(kind, reqs) ==
    /\ producer' = NextSlot
    /\ stream' = stream \o Submission(kind, NextSlot, reqs)
    /\ acks' = Append(acks, [slot |-> NextSlot, reqs |-> reqs])

\* Mutant: the last finished load is kept.
DrainAcksKeepsOne ==
    \E n \in 0..Len(acks) :
        /\ \A i \in 1..n : Finished(acks[i].slot)
        /\ n < Len(acks) => ~ Finished(acks[n + 1].slot)
        /\ acks' = SubSeq(acks, IF n = 0 THEN 1 ELSE n, Len(acks))

\* _drain_load_back_acks(blocking=False): remove the finished loads up to the
\* first unfinished one.
DrainAcks ==
    \E n \in 0..Len(acks) :
        /\ \A i \in 1..n : Finished(acks[i].slot)
        /\ n < Len(acks) => ~ Finished(acks[n + 1].slot)
        /\ acks' = SubSeq(acks, n + 1, Len(acks))

\* The layers a forward pass that starts now will wait for: wait_until waits
\* for the latest record of the consumer's event, and not at all for -1.
AwaitedLayers(slot) == {k \in 1..Layers : slot >= 0 /\ ~ Ready(slot, k)}

LoadTypeOK ==
    /\ producer \in -1..(NumCounters - 1)
    /\ stream \in Seq([slot : 0..(NumCounters - 1), layer : 0..Layers,
                       reqs : SUBSET Requests, done : BOOLEAN])
    /\ acks \in Seq([slot : 0..(NumCounters - 1), reqs : SUBSET Requests])
===============================================================================
