-------------------------- MODULE BatchLoopProofs ---------------------------
(***************************************************************************)
(* The inductive invariant of the event loop, for any set of requests and  *)
(* any bounds.  PlaceInv is about requests and batches: the shape of the   *)
(* state, what each batch variable may hold at each point of the           *)
(* iteration, and where a request is.  FlightInv is about what is in       *)
(* flight: which requests an unprocessed result can still name, which      *)
(* pages it waits for, and what covers the copies of the load stream.      *)
(*                                                                         *)
(* First every step is shown to keep PlaceInv and to be a step of          *)
(* RequestLife, then FlightInv is shown to be inductive together with      *)
(* PlaceInv: a result, the batch it is of, the pages it waits for and the  *)
(* copies the load stream still has to make agree at every point of the    *)
(* iteration.  Last the theorems.                                          *)
(***************************************************************************)
EXTENDS BatchLoop, TLAPS

-------------------------------------------------------------------------------
(* The inductive invariant *)

\* A batch that is no prefill batch has no requests of its own.
IsBatch(b) ==
    /\ b \in [mode : {"none", "decode", "extend"}, reqs : SUBSET Requests,
              idx : Int, kind : LoadKinds]
    /\ b.mode # "extend" => b.reqs = {}

\* The launched forward passes.
Passes == [mode : {"none", "decode", "extend"}, reqs : SUBSET Requests, idx : Int,
           layer : Nat, waits : SUBSET Int, born : UNION {[S -> Nat] : S \in SUBSET Requests}]

RequestShape ==
    /\ waiting \in SUBSET Requests /\ finished \in SUBSET Requests
    /\ returned \in SUBSET Requests /\ retracted \in SUBSET Requests
    /\ retracts \in [Requests -> Nat]

BatchShape ==
    /\ running \in [reqs : SUBSET Requests, idx : Int, full : BOOLEAN]
    /\ IsBatch(last) /\ IsBatch(pending) /\ IsBatch(batch)
    /\ results \in Seq(Passes)
    /\ overlap \in BOOLEAN

\* What the batch variables hold at each point of the iteration.
Control ==
    /\ ctl \in {"input", "retract", "merge", "form", "load", "choose", "launch", "result"}
    /\ ctl \in {"input", "retract", "merge", "form"} => batch = NoBatch
    /\ ctl \in {"form", "load"} => pending = NoBatch
    /\ ctl = "load" => batch.mode = "extend" /\ batch.kind \in {"layer", "full", "both"}
    /\ ctl = "choose" => pending = NoBatch \/ batch = pending
    /\ ctl \in {"launch", "result"} => pending = NoBatch \/ batch = Decode
    /\ ctl \in {"form", "load", "choose", "launch", "result"} => last.reqs = {}

\* A request that is not finished is in one place.
Apart ==
    \A r \in Requests \ finished :
        /\ r \in waiting => r \notin returned /\ r \notin Admitted
        /\ r \in returned => r \notin Admitted
        /\ r \in running.reqs => r \notin last.reqs \cup pending.reqs \cup batch.reqs
        /\ r \in last.reqs => r \notin pending.reqs \cup batch.reqs
        /\ r \in pending.reqs => batch = pending \/ r \notin batch.reqs

\* A request of an unprocessed result is finished, retracted or admitted;
\* event_loop_normal has a result only between run_batch and its processing.
ResultInv ==
    /\ \A i \in DOMAIN results : results[i].reqs \subseteq finished \cup retracted \cup Admitted
    /\ ~ overlap => IF ctl = "result" /\ batch # NoBatch
                    THEN Len(results) = 1 /\ results[1].reqs \subseteq Admitted
                    ELSE results = <<>>

\* The requests of a prefill batch that has not been launched.
Unlaunched == pending.reqs \cup IF ctl \in {"load", "choose", "launch"} THEN batch.reqs ELSE {}

\* How many results are unprocessed: in event_loop_overlap that of the last batch,
\* and between run_batch and the end of the iteration that of this batch.
Owed ==
    (IF overlap /\ last # NoBatch THEN 1 ELSE 0)
      + IF ctl = "result" /\ batch # NoBatch THEN 1 ELSE 0

\* The requests of the unprocessed results: before this iteration's batch is
\* chosen the loop still holds them, and none waits to be launched again.
QueueInv ==
    /\ \A b \in {last, pending, batch} : b.mode # "extend" => b \in {NoBatch, Decode}
    /\ Len(results) = Owed
    /\ ctl \notin {"launch", "result"} =>
         \A i \in DOMAIN results : results[i].reqs \subseteq finished \cup running.reqs \cup last.reqs
    /\ ctl = "result" /\ batch # NoBatch =>
         results[Len(results)].reqs \subseteq running.reqs \cup batch.reqs
    /\ waiting \cap finished = {} /\ Unlaunched \cap finished = {}
    /\ \A i \in DOMAIN results : results[i].reqs \cap Unlaunched = {}
    /\ \A i, j \in DOMAIN results :
         i < j /\ results[j].mode = "extend" => results[i].reqs \cap results[j].reqs = {}

\* A request of an unprocessed result has been retracted since its launch only
\* when is_retracted says so, and not at all in event_loop_normal.
BornInv ==
    \A i \in DOMAIN results : \A r \in results[i].reqs :
        results[i].born[r] = retracts[r] \/ (overlap /\ r \in finished \cup retracted)

\* The passes run in order, and wait for layers they have still to compute.
PassInv ==
    /\ \A i \in DOMAIN results : results[i].waits \subseteq results[i].layer..Layers
    /\ \A i, j \in DOMAIN results : i < j /\ results[i].layer <= Layers => results[j].layer = 1

\* The batch that was loaded last is the only one of which the loop has not seen
\* the result, except while that of the batch before it is being waited for.
ProducerInv ==
    /\ pending.idx >= 0 => pending.idx = producer
    /\ ctl \in {"choose", "launch"} /\ batch.idx >= 0 => batch.idx = producer
    /\ \A i \in DOMAIN results :
         results[i].mode = "extend" /\ results[i].idx >= 0
           /\ (ctl \in {"choose", "launch", "result"} => ctl = "result" /\ batch # NoBatch /\ i = Len(results))
         => results[i].idx = producer

\* A batch put aside has a load that was not acknowledged.
AsideInv ==
    /\ pending # NoBatch => acks # <<>>
    /\ ctl = "choose" /\ batch.idx >= 0 => acks # <<>>

\* A copy in the load stream is followed by the record of its load's last layer,
\* and its load is not acknowledged.
Covered(s, a) ==
    \A j \in DOMAIN s : s[j].layer # 0 =>
        /\ \E k \in DOMAIN s : /\ k >= j /\ s[k].slot = s[j].slot
                               /\ s[k].layer = Layers /\ s[k].done
        /\ \E i \in DOMAIN a : a[i].slot = s[j].slot

\* Whose load a copy belongs to: a batch that was not launched, or a pass that
\* waits for the copied layer.
Owner(c) ==
    \/ pending.idx = c.slot /\ pending.reqs = c.reqs
    \/ ctl \in {"choose", "launch"} /\ batch.idx = c.slot /\ batch.reqs = c.reqs
    \/ \E i \in DOMAIN results :
         /\ results[i].mode = "extend" /\ results[i].idx = c.slot
         /\ results[i].reqs = c.reqs /\ c.layer \in results[i].waits

Owned == \A j \in DOMAIN stream : stream[j].layer # 0 => Owner(stream[j])

\* A layer's event is recorded once for each load, with the last copy of the layer.
Recorded(s) ==
    /\ \A j \in DOMAIN s : s[j].layer # 0 =>
         \E k \in DOMAIN s : /\ k >= j /\ s[k].slot = s[j].slot
                              /\ s[k].layer = s[j].layer /\ s[k].done
    /\ \A i, j \in DOMAIN s :
         i < j /\ s[i].slot = s[j].slot /\ s[i].layer = s[j].layer /\ s[i].layer # 0 => ~ s[i].done

\* The elements of the load stream: a record of preload_finish_event copies nothing.
Copies ==
    {c \in [slot : 0..(NumCounters - 1), layer : 0..Layers, reqs : SUBSET Requests, done : BOOLEAN] :
        c.layer = 0 => c.reqs = {}}

StreamInv ==
    /\ producer \in -1..(NumCounters - 1)
    /\ stream \in Seq(Copies)
    /\ acks \in Seq([slot : 0..(NumCounters - 1), reqs : SUBSET Requests])
    /\ Covered(stream, acks) /\ Recorded(stream) /\ Owned

PlaceInv == RequestShape /\ BatchShape /\ Control /\ Apart /\ ResultInv
FlightInv == QueueInv /\ BornInv /\ PassInv /\ ProducerInv /\ AsideInv /\ StreamInv

\* A step of the loop as its callers see it.
LifeStep == Life!Next \/ UNCHANGED Phase

-------------------------------------------------------------------------------
(* Steps of RequestLife *)

\* A step that moves nobody.
LEMMA LifeStutter ==
  ASSUME \A r \in Requests : Phase'[r] = Phase[r]
  PROVE  LifeStep
<1>1. DOMAIN Phase = Requests /\ DOMAIN Phase' = Requests
  BY Zenon DEF Phase
<1>2. Phase = [r \in Requests |-> Phase[r]] /\ Phase' = [r \in Requests |-> Phase'[r]]
  BY <1>1, Zenon DEF Phase
<1> QED
  BY <1>2, Zenon DEF LifeStep

\* A step that moves the requests of S from one phase to another.
LEMMA LifeMove ==
  ASSUME NEW S \in SUBSET Requests, NEW from, NEW to,
         <<from, to>> \in {<<"new", "queued">>, <<"queued", "serving">>, <<"queued", "returned">>},
         \A r \in S : Phase[r] = from /\ Phase'[r] = to,
         \A r \in Requests \ S : Phase'[r] = Phase[r]
  PROVE  LifeStep
<1>1. Phase' = [r \in Requests |-> Phase'[r]]
  BY Zenon DEF Phase
<1>2. Phase' = [r \in Requests |-> IF r \in S THEN to ELSE Phase[r]]
  BY <1>1, Zenon
<1>3. Life!Move(S, {from}, to)
  BY <1>2, Zenon DEF Life!Move
<1> QED
  BY <1>3, Zenon DEF LifeStep, Life!Next, Life!Arrive, Life!Serve, Life!Return

\* A step that finishes, requeues and returns requests in service.
LEMMA LifeSettle ==
  ASSUME NEW done \in SUBSET Requests, NEW back \in SUBSET Requests, NEW out \in SUBSET Requests,
         done \cap back = {}, done \cap out = {}, back \cap out = {},
         \A r \in done : Phase[r] = "serving" /\ Phase'[r] = "finished",
         \A r \in back : Phase[r] = "serving" /\ Phase'[r] = "queued",
         \A r \in out : Phase[r] = "serving" /\ Phase'[r] = "returned",
         \A r \in Requests \ (done \cup back \cup out) : Phase'[r] = Phase[r]
  PROVE  LifeStep
<1> DEFINE S == done \cup back \cup out
<1>1. Phase' = [r \in Requests |-> Phase'[r]]
  BY Zenon DEF Phase
<1>2. Phase' = [r \in Requests |->
         CASE r \in done -> "finished" [] r \in back -> "queued"
           [] r \in out -> "returned" [] OTHER -> Phase[r]]
  <2>1. ASSUME NEW r \in Requests
        PROVE  Phase'[r] = CASE r \in done -> "finished" [] r \in back -> "queued"
                             [] r \in out -> "returned" [] OTHER -> Phase[r]
    BY Zenon
  <2> QED
    BY <1>1, <2>1, Zenon
<1>3. Life!Settle(done, back, out)
  BY <1>2, Zenon DEF Life!Settle
<1>4. back = back \ done /\ out = S \ (done \cup back)
  BY Zenon
<1>5. Life!Settle(done, back \ done, S \ (done \cup back))
  BY <1>3, <1>4, Zenon
<1> QED
  BY <1>5, Zenon DEF LifeStep, Life!Next

\* A step that only finishes requests.
LEMMA LifeFinish ==
  ASSUME NEW done \in SUBSET Requests,
         \A r \in done : Phase[r] = "serving" /\ Phase'[r] = "finished",
         \A r \in Requests \ done : Phase'[r] = Phase[r]
  PROVE  LifeStep
<1>1. PICK none \in SUBSET Requests : none = {}
  BY Zenon
<1>2. /\ done \cap none = {} /\ none \cap none = {}
      /\ \A r \in none : Phase[r] = "serving" /\ Phase'[r] = "queued"
      /\ \A r \in none : Phase[r] = "serving" /\ Phase'[r] = "returned"
      /\ \A r \in Requests \ (done \cup none \cup none) : Phase'[r] = Phase[r]
  BY <1>1, Zenon
<1> QED
  BY <1>2, LifeSettle, Zenon

-------------------------------------------------------------------------------
(* Places: the inputs *)

\* No batch, and the decode batch, hold no requests of their own.
LEMMA NoBatchIs ==
  /\ IsBatch(NoBatch) /\ NoBatch.reqs = {} /\ NoBatch.mode = "none" /\ NoBatch.idx = -1
  /\ IsBatch(Decode) /\ Decode.reqs = {} /\ Decode.mode = "decode" /\ Decode # NoBatch
BY DEF IsBatch, NoBatch, Decode, LoadKinds

\* What the invariant takes from the variables it reads.
placeVars == <<ctl, waiting, finished, returned, retracted, retracts, running, last,
               pending, batch, results, overlap>>

\* Steps that leave alone what a conjunct reads.
LEMMA BatchSame ==
  ASSUME BatchShape, UNCHANGED <<running, last, pending, batch, results, overlap>>
  PROVE  BatchShape' /\ Admitted' = Admitted
BY Zenon DEF BatchShape, IsBatch, Admitted

\* What the loop's position requires does not change with anything else.
LEMMA ControlSame ==
  ASSUME Control, UNCHANGED <<ctl, last, pending, batch>>
  PROVE  Control'
BY Zenon DEF Control

\* Neither do the results in flight when only requests finish.
LEMMA ResultSame ==
  ASSUME ResultInv, Admitted' = Admitted, finished \subseteq finished',
         UNCHANGED <<ctl, batch, retracted, results, overlap>>
  PROVE  ResultInv'
BY Zenon DEF ResultInv

\* A step that moves no request is a stutter of RequestLife.
LEMMA PlaceSame ==
  ASSUME PlaceInv, UNCHANGED placeVars
  PROVE  PlaceInv' /\ LifeStep
<1>1. RequestShape /\ BatchShape /\ Control /\ Apart /\ ResultInv
  BY Zenon DEF PlaceInv
<1>2. UNCHANGED <<ctl, waiting, finished, returned, retracted, retracts, running, last,
                  pending, batch, results, overlap>>
  BY Zenon DEF placeVars
<1>3. BatchShape' /\ Admitted' = Admitted
  BY <1>1, <1>2, BatchSame, Zenon
<1>4. RequestShape' /\ Apart'
  BY <1>1, <1>2, <1>3, Zenon DEF RequestShape, Apart
<1>5. Control' /\ ResultInv'
  BY <1>1, <1>2, <1>3, ControlSame, ResultSame, Zenon
<1>6. Phase' = Phase
  BY <1>2, <1>3, Zenon DEF Phase
<1> QED
  BY <1>3, <1>4, <1>5, <1>6, Zenon DEF LifeStep, PlaceInv

\* handle_generate_request queues a request nobody has.
LEMMA ArriveStep ==
  ASSUME PlaceInv, NEW r \in Requests, Arrive(r), UNCHANGED overlap
  PROVE  PlaceInv' /\ LifeStep
<1>1. /\ waiting' = waiting \cup {r} /\ r \notin waiting \cup finished \cup returned \cup Admitted
      /\ UNCHANGED <<ctl, finished, returned, retracted, retracts, running, last, pending,
                     batch, results, overlap>>
  BY Zenon DEF Arrive, New, batchVars
<1>2. RequestShape /\ BatchShape /\ Control /\ Apart /\ ResultInv
  BY Zenon DEF PlaceInv
<1>3. BatchShape' /\ Admitted' = Admitted
  BY <1>1, <1>2, BatchSame, Zenon
<1>4. RequestShape'
  BY <1>1, <1>2, Zenon DEF RequestShape
<1>5. Control' /\ ResultInv'
  BY <1>1, <1>2, <1>3, ControlSame, ResultSame, Zenon
<1>6. Apart'
  BY <1>1, <1>2, <1>3, Zenon DEF Apart
<1>7. LifeStep
  <2>1. Phase[r] = "new" /\ Phase'[r] = "queued"
    BY <1>1, <1>3, Zenon DEF Phase
  <2>2. \A q \in Requests \ {r} : Phase'[q] = Phase[q]
    BY <1>1, <1>3, Zenon DEF Phase
  <2>3. PICK S : S = {r}
    BY Zenon
  <2>4. S \in SUBSET Requests /\ \A q \in S : Phase[q] = "new" /\ Phase'[q] = "queued"
    BY <2>1, <2>3, Zenon
  <2> QED
    BY <2>2, <2>3, <2>4, LifeMove
<1> QED
  BY <1>3, <1>4, <1>5, <1>6, <1>7, Zenon DEF PlaceInv

\* abort_request returns the waiting requests it names.
LEMMA AbortStep ==
  ASSUME PlaceInv, NEW S, AbortRequest(S), UNCHANGED overlap
  PROVE  PlaceInv' /\ LifeStep
<1>1. /\ waiting' = waiting \ S /\ returned' = returned \cup (S \cap waiting)
      /\ UNCHANGED <<ctl, finished, retracted, retracts, running, last, pending,
                     batch, results, overlap>>
  BY Zenon DEF AbortRequest, batchVars
<1>2. RequestShape /\ BatchShape /\ Control /\ Apart /\ ResultInv
  BY Zenon DEF PlaceInv
<1>3. BatchShape' /\ Admitted' = Admitted
  BY <1>1, <1>2, BatchSame, Zenon
<1>4. RequestShape'
  BY <1>1, <1>2, Zenon DEF RequestShape
<1>5. Control' /\ ResultInv'
  BY <1>1, <1>2, <1>3, ControlSame, ResultSame, Zenon
<1>6. Apart'
  BY <1>1, <1>2, <1>3, Zenon DEF Apart
<1>7. LifeStep
  <2> DEFINE T == (S \cap waiting) \ (finished \cup returned)
  <2>1. \A q \in T : Phase[q] = "queued" /\ Phase'[q] = "returned"
    BY <1>1, <1>2, Zenon DEF Phase, RequestShape
  <2>2. \A q \in Requests \ T : Phase'[q] = Phase[q]
    BY <1>1, <1>3, Zenon DEF Phase
  <2>3. T \in SUBSET Requests
    BY <1>2, Zenon DEF RequestShape
  <2> HIDE DEF T
  <2> QED
    BY <2>1, <2>2, <2>3, LifeMove
<1> QED
  BY <1>3, <1>4, <1>5, <1>6, <1>7, Zenon DEF PlaceInv
\* A step of process_input_requests that moves the loop on, or flushes an idle
\* cache: flush_cache forgets a last batch that holds nothing.
LEMMA InputStep ==
  ASSUME PlaceInv, ctl = "input", ctl' \in {"input", "retract", "merge"},
         last' = last \/ (last.reqs = {} /\ last' = NoBatch),
         UNCHANGED <<requestVars, running, pending, batch, results, overlap>>
  PROVE  PlaceInv' /\ LifeStep
<1>1. RequestShape /\ BatchShape /\ Control /\ Apart /\ ResultInv
  BY Zenon DEF PlaceInv
<1>2. UNCHANGED <<waiting, finished, returned, retracted, retracts, running, pending, batch,
                  results, overlap>>
  BY Zenon DEF requestVars
<1>3. IsBatch(last)' /\ last'.reqs = last.reqs
  <2>1. IsBatch(last)
    BY <1>1, Zenon DEF BatchShape
  <2> QED
    BY <2>1, NoBatchIs, Zenon DEF IsBatch
<1>4. BatchShape' /\ Admitted' = Admitted
  BY <1>1, <1>2, <1>3, Zenon DEF BatchShape, IsBatch, Admitted
<1>5. RequestShape' /\ Apart'
  BY <1>1, <1>2, <1>3, <1>4, Zenon DEF RequestShape, Apart
<1>6. Control'
  BY <1>1, <1>2, Zenon DEF Control
<1>7. ResultInv'
  <2>1. ~ overlap => results = <<>>
    BY <1>1, Zenon DEF ResultInv
  <2>2. ~ (ctl' = "result")
    BY Zenon
  <2>3. \A i \in DOMAIN results : results[i].reqs \subseteq finished \cup retracted \cup Admitted
    BY <1>1, Zenon DEF ResultInv
  <2> QED
    BY <1>2, <1>4, <2>1, <2>2, <2>3 DEF ResultInv
<1>8. Phase' = Phase
  BY <1>2, <1>4, Zenon DEF Phase
<1> QED
  BY <1>4, <1>5, <1>6, <1>7, <1>8, Zenon DEF LifeStep, PlaceInv

\* Every handler of process_input_requests.
LEMMA InputsStep ==
  ASSUME PlaceInv, Inputs \/ ContinueGeneration
  PROVE  PlaceInv' /\ LifeStep
<1>1. ASSUME NEW r \in Requests, Arrive(r) \/ AbortOne(r), UNCHANGED overlap
      PROVE  PlaceInv' /\ LifeStep
  BY <1>1, ArriveStep, AbortStep, Zenon DEF AbortOne
<1>2. ASSUME AbortAll, UNCHANGED overlap
      PROVE  PlaceInv' /\ LifeStep
  BY <1>2, AbortStep, Zenon DEF AbortAll
<1>3. ASSUME PauseInPlace \/ PauseRetract, UNCHANGED overlap
      PROVE  PlaceInv' /\ LifeStep
  BY <1>3, InputStep, Zenon DEF PauseInPlace, PauseRetract, Receive, batchVars
<1>4. ASSUME NEW deferred \in BOOLEAN, FlushCache(deferred), UNCHANGED overlap
      PROVE  PlaceInv' /\ LifeStep
  BY <1>4, InputStep, Zenon DEF FlushCache, Receive, batchVars, FlushIdle, IsFullyIdle
<1>5. ASSUME ContinueGeneration
      PROVE  PlaceInv' /\ LifeStep
  BY <1>5, InputStep, Zenon DEF ContinueGeneration, batchVars
<1> QED
  BY <1>1, <1>2, <1>3, <1>4, <1>5, Zenon DEF Inputs

\* process_input_requests is done, the flush of an idle cache included.
LEMMA EndInputStep ==
  ASSUME PlaceInv, EndInput, UNCHANGED overlap
  PROVE  PlaceInv' /\ LifeStep
BY InputStep, Zenon DEF EndInput, batchVars, FlushIdle, IsFullyIdle

-------------------------------------------------------------------------------
(* Places: the results *)

\* Only the empty sequence has length 0.
LEMMA EmptySeq ==
  ASSUME NEW S
  PROVE  \A seq \in Seq(S) : seq # <<>> => Len(seq) \in Nat \ {0}
  OBVIOUS

\* popleft of result_queue: what is left of a sequence.
LEMMA TailFacts ==
  ASSUME NEW T, NEW s \in Seq(T), s # <<>>
  PROVE  /\ Tail(s) \in Seq(T) /\ Head(s) = s[1] /\ 1 \in DOMAIN s
         /\ \A i \in DOMAIN Tail(s) : i + 1 \in DOMAIN s /\ Tail(s)[i] = s[i + 1]
         /\ Len(s) = 1 => Tail(s) = <<>>
<1>1. Len(s) \in Nat \ {0} /\ DOMAIN s = 1..Len(s) /\ Head(s) = s[1]
  OBVIOUS
<1>2. Tail(s) \in Seq(T) /\ Len(Tail(s)) = Len(s) - 1
      /\ \A i \in 1..(Len(s) - 1) : Tail(s)[i] = s[i + 1]
  BY <1>1
<1>3. DOMAIN Tail(s) = 1..(Len(s) - 1)
  BY <1>1, <1>2
<1>4. \A i \in 1..(Len(s) - 1) : i + 1 \in 1..Len(s)
  BY <1>1
<1>5. Len(s) = 1 => Tail(s) = <<>>
  <2>1. Tail(s) # <<>> => Len(Tail(s)) \in Nat \ {0}
    BY <1>2, EmptySeq, Zenon
  <2> QED
    BY <1>1, <1>2, <2>1
<1>6. 1 \in DOMAIN s
  BY <1>1
<1> QED
  BY <1>1, <1>2, <1>3, <1>4, <1>5, <1>6, Zenon

\* process_batch_result finishes requests that are admitted, and no others:
\* event_loop_overlap skips those retracted since the batch was launched.
LEMMA ResultStep ==
  ASSUME PlaceInv, ctl = "retract" => overlap, ctl \in {"retract", "result"},
         ~ overlap => batch # NoBatch, NEW stopped \in SUBSET Requests, ProcessResult(stopped)
  PROVE  /\ finished' = finished \cup stopped /\ stopped \ finished \subseteq Admitted
         /\ results' \in Seq(Passes) /\ (~ overlap => results' = <<>>)
         /\ \A i \in DOMAIN results' : i + 1 \in DOMAIN results /\ results'[i] = results[i + 1]
<1>1. RequestShape /\ BatchShape /\ Control /\ Apart /\ ResultInv
  BY Zenon DEF PlaceInv
<1>2. /\ results # <<>> /\ stopped \subseteq ResultReqs /\ finished' = finished \cup stopped
      /\ results' = Tail(results)
  BY Zenon DEF ProcessResult, HeadComputed
<1>3. results \in Seq(Passes)
  BY <1>1, Zenon DEF BatchShape
<1>4. /\ Tail(results) \in Seq(Passes) /\ Head(results) = results[1] /\ 1 \in DOMAIN results
      /\ \A i \in DOMAIN Tail(results) : i + 1 \in DOMAIN results /\ Tail(results)[i] = results[i + 1]
      /\ Len(results) = 1 => Tail(results) = <<>>
  BY <1>2, <1>3, TailFacts, Zenon
<1>5. ~ overlap => Len(results) = 1 /\ results[1].reqs \subseteq Admitted
  BY <1>1, <1>2, Zenon DEF ResultInv
<1>6. results[1].reqs \subseteq finished \cup retracted \cup Admitted
  BY <1>1, <1>4, Zenon DEF ResultInv
<1>7. CASE overlap
  <2>1. ResultReqs \subseteq (results[1].reqs \ finished) \ retracted
    BY <1>4, <1>7, Zenon DEF ResultReqs, Unfinished
  <2> QED
    BY <1>2, <1>4, <1>6, <1>7, <2>1, Zenon
<1>8. CASE ~ overlap
  <2>1. ResultReqs \subseteq results[1].reqs
    BY <1>4, <1>8, Zenon DEF ResultReqs, Unfinished
  <2> QED
    BY <1>2, <1>4, <1>5, <1>8, <2>1, Zenon
<1> QED
  BY <1>7, <1>8, Zenon
-------------------------------------------------------------------------------
(* Places: the batches *)

\* The end of an iteration: the batch becomes the last one, whose place was free.
LEMMA EndIterationStep ==
  ASSUME PlaceInv, EndIteration, UNCHANGED overlap
  PROVE  PlaceInv' /\ LifeStep
<1>1. RequestShape /\ BatchShape /\ Control /\ Apart /\ ResultInv
  BY Zenon DEF PlaceInv
<1>2. /\ ctl = "result" /\ ctl' = "input" /\ last' = batch /\ batch' = NoBatch
      /\ UNCHANGED <<waiting, returned, retracted, retracts, running, pending, overlap>>
  BY Zenon DEF EndIteration
<1>3. PICK stopped \in SUBSET Requests :
          IF HasResult THEN ProcessResult(stopped) ELSE stopped = {} /\ NoResult
  BY Zenon DEF EndIteration
<1>4. last.reqs = {} /\ (pending = NoBatch \/ batch = Decode)
  BY <1>1, <1>2, Zenon DEF Control
<1>5. /\ finished' = finished \cup stopped /\ stopped \ finished \subseteq Admitted
      /\ results' \in Seq(Passes) /\ (~ overlap => results' = <<>>)
      /\ \A i \in DOMAIN results' : \E k \in DOMAIN results : results'[i] = results[k]
  <2>1. CASE HasResult
    <3>1. ~ overlap => batch # NoBatch
      BY <2>1, Zenon DEF HasResult
    <3>2. ctl \in {"retract", "result"} /\ (ctl = "retract" => overlap) /\ ProcessResult(stopped)
      BY <1>2, <1>3, <2>1, Zenon
    <3> QED
      BY <3>1, <3>2, ResultStep, Zenon
  <2>2. CASE ~ HasResult
    <3>1. stopped = {} /\ finished' = finished /\ results' = results
      BY <1>3, <2>2, Zenon DEF NoResult
    <3>2. ~ overlap => results = <<>>
      BY <1>1, <2>2, Zenon DEF HasResult, ResultInv
    <3> QED
      BY <1>1, <3>1, <3>2, Zenon DEF BatchShape
  <2> QED
    BY <2>1, <2>2, Zenon
<1>6. Admitted' = Admitted
  BY <1>2, <1>4, NoBatchIs, Zenon DEF Admitted
<1>7. RequestShape'
  BY <1>1, <1>2, <1>5, Zenon DEF RequestShape
<1>8. BatchShape'
  BY <1>1, <1>2, <1>5, NoBatchIs, Zenon DEF BatchShape, IsBatch
<1>9. Control'
  BY <1>2, Zenon DEF Control
<1>10. Apart'
  <2> SUFFICES ASSUME NEW r \in Requests \ finished'
               PROVE  /\ r \in waiting => r \notin returned /\ r \notin Admitted
                      /\ r \in returned => r \notin Admitted
                      /\ r \in running.reqs => r \notin batch.reqs \cup pending.reqs \cup {}
                      /\ r \in batch.reqs => r \notin pending.reqs \cup {}
    BY <1>2, <1>6, NoBatchIs, Zenon DEF Apart
  <2>1. r \in Requests \ finished
    BY <1>5, Zenon
  <2> QED
    BY <1>1, <1>4, <2>1, NoBatchIs, Zenon DEF Apart
<1>11. ResultInv'
  <2>1. \A i \in DOMAIN results' : results'[i].reqs \subseteq finished' \cup retracted' \cup Admitted'
    BY <1>1, <1>2, <1>5, <1>6, Zenon DEF ResultInv
  <2> QED
    BY <1>2, <1>5, <2>1 DEF ResultInv
<1>12. LifeStep
  <2> DEFINE done == stopped \ finished
  <2>1. \A r \in done : Phase[r] = "serving" /\ Phase'[r] = "finished"
    <3> SUFFICES ASSUME NEW r \in done
                 PROVE  Phase[r] = "serving" /\ Phase'[r] = "finished"
      BY Zenon
    <3>1. r \in Requests \ finished /\ r \in Admitted /\ r \in finished'
      BY <1>5, Zenon
    <3>2. r \notin waiting /\ r \notin returned
      BY <1>1, <3>1, Zenon DEF Apart
    <3> QED
      BY <3>1, <3>2, Zenon DEF Phase
  <2>2. \A r \in Requests \ done : Phase'[r] = Phase[r]
    BY <1>2, <1>5, <1>6, Zenon DEF Phase
  <2>3. done \in SUBSET Requests
    BY Zenon
  <2> HIDE DEF done
  <2> QED
    BY <2>1, <2>2, <2>3, LifeFinish, Zenon
<1> QED
  BY <1>7, <1>8, <1>9, <1>10, <1>11, <1>12, Zenon DEF PlaceInv
\* pause_generation(mode="retract") moves every request of the running and the
\* last batch that its result does not finish into the waiting queue.
LEMMA RetractAllStep ==
  ASSUME PlaceInv, RetractAll, UNCHANGED overlap
  PROVE  PlaceInv' /\ LifeStep
<1>1. RequestShape /\ BatchShape /\ Control /\ Apart /\ ResultInv
  BY Zenon DEF PlaceInv
<1>2. /\ ctl = "retract" /\ ctl' = "input" /\ last' = NoBatch
      /\ UNCHANGED <<returned, pending, batch, overlap>>
  BY Zenon DEF RetractAll
<1>3. PICK stopped \in SUBSET Requests :
         /\ IF overlap /\ last # NoBatch THEN ProcessResult(stopped) ELSE stopped = {} /\ NoResult
         /\ LET keep == last.reqs \ finished'
                all  == (running.reqs \cup keep) \ finished'
            IN  /\ waiting' = waiting \cup all
                /\ retracted' = retracted \cup all
                /\ retracts' = [r \in Requests |-> IF r \in all THEN retracts[r] + 1 ELSE retracts[r]]
                /\ running' =
                     IF running.reqs # {} THEN [running EXCEPT !.reqs = {}, !.full = FALSE]
                     ELSE IF keep # {} THEN [reqs |-> {}, idx |-> last.idx, full |-> FALSE]
                     ELSE running
  BY Zenon DEF RetractAll
<1>4. batch = NoBatch
  BY <1>1, <1>2, Zenon DEF Control
<1>5. /\ finished' = finished \cup stopped /\ stopped \ finished \subseteq Admitted
      /\ results' \in Seq(Passes) /\ (~ overlap => results' = <<>>)
      /\ \A i \in DOMAIN results' : \E k \in DOMAIN results : results'[i] = results[k]
  <2>1. CASE overlap /\ last # NoBatch
    BY <1>2, <1>3, <2>1, ResultStep, Zenon
  <2>2. CASE ~ (overlap /\ last # NoBatch)
    <3>1. stopped = {} /\ finished' = finished /\ results' = results
      BY <1>3, <2>2, Zenon DEF NoResult
    <3>2. ~ overlap => results = <<>>
      BY <1>1, <1>2, Zenon DEF ResultInv
    <3> QED
      BY <1>1, <3>1, <3>2, Zenon DEF BatchShape
  <2> QED
    BY <2>1, <2>2, Zenon
<1> DEFINE all == (running.reqs \cup last.reqs) \ finished'
<1>6. /\ running \in [reqs : SUBSET Requests, idx : Int, full : BOOLEAN]
      /\ last.idx \in Int /\ last.reqs \in SUBSET Requests
  BY <1>1, Zenon DEF BatchShape, IsBatch
<1>7. PICK moved : /\ moved = all /\ waiting' = waiting \cup moved /\ retracted' = retracted \cup moved
                   /\ retracts' = [r \in Requests |-> IF r \in moved THEN retracts[r] + 1 ELSE retracts[r]]
  <2>1. (running.reqs \cup (last.reqs \ finished')) \ finished' = all
    BY Zenon
  <2> QED
    BY <1>3, <2>1, Zenon
<1>8. running' \in [reqs : SUBSET Requests, idx : Int, full : BOOLEAN] /\ running'.reqs = {}
  BY <1>3, <1>6, Zenon
<1>9. Admitted' = pending.reqs
  BY <1>2, <1>4, <1>8, NoBatchIs, Zenon DEF Admitted
<1>10. Admitted = running.reqs \cup last.reqs \cup pending.reqs
  BY <1>4, NoBatchIs, Zenon DEF Admitted
<1>11. moved \subseteq Requests \ finished' /\ moved \subseteq Admitted
  BY <1>6, <1>7, <1>10, Zenon
<1>12. RequestShape'
  <2>1. retracts' \in [Requests -> Nat]
    BY <1>1, <1>7 DEF RequestShape
  <2> QED
    BY <1>1, <1>2, <1>5, <1>7, <1>11, <2>1, Zenon DEF RequestShape
<1>13. BatchShape'
  BY <1>1, <1>2, <1>5, <1>8, NoBatchIs, Zenon DEF BatchShape, IsBatch
<1>14. Control'
  BY <1>2, <1>4, Zenon DEF Control
<1>15. \A r \in Requests \ finished' : r \in Admitted => r \in moved \/ r \in pending.reqs
  BY <1>7, <1>10, Zenon
<1>16. \A r \in moved : r \notin finished /\ r \notin waiting /\ r \notin returned /\ r \notin pending.reqs
  <2> SUFFICES ASSUME NEW r \in moved
               PROVE  r \notin finished /\ r \notin waiting /\ r \notin returned /\ r \notin pending.reqs
    BY Zenon
  <2>1. r \in Requests \ finished /\ r \in Admitted /\ (r \in running.reqs \/ r \in last.reqs)
    BY <1>5, <1>7, <1>11, Zenon
  <2> QED
    BY <1>1, <2>1, Zenon DEF Apart
<1>17. Apart'
  <2> SUFFICES ASSUME NEW r \in Requests \ finished'
               PROVE  /\ r \in waiting' => r \notin returned /\ r \notin pending.reqs
                      /\ r \in returned => r \notin pending.reqs
    BY <1>2, <1>4, <1>8, <1>9, NoBatchIs, Zenon DEF Apart
  <2>1. r \in Requests \ finished
    BY <1>5, Zenon
  <2>2. r \in waiting => r \notin returned /\ r \notin pending.reqs
    BY <1>1, <1>10, <2>1, Zenon DEF Apart
  <2>3. r \in returned => r \notin pending.reqs
    BY <1>1, <1>10, <2>1, Zenon DEF Apart
  <2> QED
    BY <1>7, <1>16, <2>2, <2>3, Zenon
<1>18. ResultInv'
  <2>1. \A i \in DOMAIN results' : results'[i].reqs \subseteq finished' \cup retracted' \cup Admitted'
    <3>1. finished \cup retracted \cup Admitted \subseteq finished' \cup retracted' \cup Admitted'
      BY <1>5, <1>7, <1>9, <1>10, Zenon
    <3>2. \A i \in DOMAIN results : results[i].reqs \subseteq finished \cup retracted \cup Admitted
      BY <1>1, Zenon DEF ResultInv
    <3> QED
      BY <1>5, <3>1, <3>2, Zenon
  <2> QED
    BY <1>2, <1>5, <2>1 DEF ResultInv
<1>19. LifeStep
  <2> DEFINE done == stopped \ finished
  <2>1. \A r \in done : Phase[r] = "serving" /\ Phase'[r] = "finished"
    <3> SUFFICES ASSUME NEW r \in done
                 PROVE  Phase[r] = "serving" /\ Phase'[r] = "finished"
      BY Zenon
    <3>1. r \in Requests \ finished /\ r \in Admitted /\ r \in finished'
      BY <1>5, Zenon
    <3>2. r \notin waiting /\ r \notin returned
      BY <1>1, <3>1, Zenon DEF Apart
    <3> QED
      BY <3>1, <3>2, Zenon DEF Phase
  <2>2. \A r \in moved : Phase[r] = "serving" /\ Phase'[r] = "queued"
    <3> SUFFICES ASSUME NEW r \in moved
                 PROVE  Phase[r] = "serving" /\ Phase'[r] = "queued"
      BY Zenon
    <3>1. /\ r \in Requests /\ r \notin finished' /\ r \in Admitted
          /\ r \notin finished /\ r \notin waiting /\ r \notin returned
      BY <1>11, <1>16, Zenon
    <3>2. r \in waiting' /\ r \notin returned'
      BY <1>2, <1>7, <3>1, Zenon
    <3> QED
      BY <3>1, <3>2, Zenon DEF Phase
  <2>3. \A r \in Requests \ (done \cup moved) : Phase'[r] = Phase[r]
    <3> SUFFICES ASSUME NEW r \in Requests \ (done \cup moved)
                 PROVE  Phase'[r] = Phase[r]
      BY Zenon
    <3>1. /\ r \in finished' <=> r \in finished
          /\ r \in returned' <=> r \in returned
          /\ r \in waiting' <=> r \in waiting
      BY <1>2, <1>5, <1>7, Zenon
    <3>2. r \notin finished => (r \in Admitted' <=> r \in Admitted)
      BY <1>9, <1>10, <1>15, <3>1, Zenon
    <3> QED
      BY <3>1, <3>2, Zenon DEF Phase
  <2>4. done \in SUBSET Requests /\ moved \in SUBSET Requests /\ done \cap moved = {}
    BY <1>5, <1>11, Zenon
  <2> HIDE DEF done
  <2>5. PICK none \in SUBSET Requests : none = {}
    BY Zenon
  <2>6. /\ done \cap none = {} /\ moved \cap none = {}
        /\ \A r \in none : Phase[r] = "serving" /\ Phase'[r] = "returned"
        /\ \A r \in Requests \ (done \cup moved \cup none) : Phase'[r] = Phase[r]
    BY <2>3, <2>5, Zenon
  <2> QED
    BY <2>1, <2>2, <2>4, <2>6, LifeSettle, Zenon
<1> QED
  BY <1>12, <1>13, <1>14, <1>17, <1>18, <1>19, Zenon DEF PlaceInv
\* A step that moves nobody between places: who is admitted changes only by
\* finished requests, and the results name the requests they named.
LEMMA BatchStep ==
  ASSUME PlaceInv, UNCHANGED <<waiting, finished, returned, retracted, retracts, overlap>>,
         BatchShape', Control', Apart', Admitted' \subseteq Admitted,
         Admitted \ finished \subseteq Admitted',
         UNCHANGED results, ctl \notin {"launch", "result"}, ctl' # "result"
  PROVE  PlaceInv' /\ LifeStep
<1>1. RequestShape /\ ResultInv
  BY Zenon DEF PlaceInv
<1>2. RequestShape'
  BY <1>1, Zenon DEF RequestShape
<1>3. ResultInv'
  <2>1. \A i \in DOMAIN results' : results'[i].reqs \subseteq finished' \cup retracted' \cup Admitted'
    BY <1>1, Zenon DEF ResultInv
  <2>2. ~ overlap => results = <<>>
    BY <1>1, Zenon DEF ResultInv
  <2> QED
    BY <2>1, <2>2, Zenon DEF ResultInv
<1>4. \A r \in Requests : Phase'[r] = Phase[r]
  <2> SUFFICES ASSUME NEW r \in Requests PROVE Phase'[r] = Phase[r]
    BY Zenon
  <2>1. r \in finished \/ (r \in Admitted' <=> r \in Admitted)
    BY Zenon
  <2> QED
    BY <2>1, Zenon DEF Phase
<1> QED
  BY <1>2, <1>3, <1>4, LifeStutter, Zenon DEF PlaceInv

\* The merge of the last prefill batch into the running batch.
LEMMA MergeLastStep ==
  ASSUME PlaceInv, MergeLast, UNCHANGED overlap
  PROVE  PlaceInv' /\ LifeStep
<1>1. RequestShape /\ BatchShape /\ Control /\ Apart /\ ResultInv
  BY Zenon DEF PlaceInv
<1>2. /\ ctl = "merge" /\ running' = Merged(finished) /\ last' = [last EXCEPT !.reqs = {}]
      /\ batch' = pending /\ ctl' = IF pending # NoBatch THEN "choose" ELSE "form"
      /\ UNCHANGED <<waiting, finished, returned, retracted, retracts, pending, results, overlap>>
  BY Zenon DEF MergeLast, requestVars
<1>3. batch = NoBatch /\ NoBatch.reqs = {}
  BY <1>1, <1>2, NoBatchIs, Zenon DEF Control
<1>4. /\ running \in [reqs : SUBSET Requests, idx : Int, full : BOOLEAN]
      /\ IsBatch(last) /\ IsBatch(pending)
  BY <1>1, Zenon DEF BatchShape
<1>5. /\ running' \in [reqs : SUBSET Requests, idx : Int, full : BOOLEAN]
      /\ running'.reqs = running.reqs \cup (last.reqs \ finished)
  BY <1>2, <1>4, Zenon DEF Merged, IsBatch
<1>6. IsBatch(last)' /\ last'.reqs = {}
  BY <1>2, <1>4, Zenon DEF IsBatch
<1>7. BatchShape'
  BY <1>1, <1>2, <1>4, <1>5, <1>6, Zenon DEF BatchShape, IsBatch
<1>8. Control'
  BY <1>2, <1>6, Zenon DEF Control
<1>9. Admitted = running.reqs \cup last.reqs \cup pending.reqs
  BY <1>3, Zenon DEF Admitted
<1>10. Admitted' = running.reqs \cup (last.reqs \ finished) \cup pending.reqs
  BY <1>2, <1>5, <1>6, Zenon DEF Admitted
<1>11. Apart'
  <2> SUFFICES ASSUME NEW r \in Requests \ finished
               PROVE  /\ r \in waiting => r \notin returned /\ r \notin Admitted'
                      /\ r \in returned => r \notin Admitted'
                      /\ r \in running'.reqs => r \notin pending.reqs
    BY <1>2, <1>6, Zenon DEF Apart
  <2>1. /\ r \in waiting => r \notin returned /\ r \notin Admitted
        /\ r \in returned => r \notin Admitted
        /\ r \in running.reqs => r \notin pending.reqs
        /\ r \in last.reqs => r \notin pending.reqs
    BY <1>1, Zenon DEF Apart
  <2> QED
    BY <1>5, <1>9, <1>10, <2>1, Zenon
<1>12. /\ Admitted' \subseteq Admitted /\ Admitted \ finished \subseteq Admitted'
       /\ ctl \notin {"launch", "result"} /\ ctl' # "result"
  BY <1>2, <1>9, <1>10, Zenon
<1> QED
  BY <1>2, <1>7, <1>8, <1>11, <1>12, BatchStep, Zenon

\* ready_to_load_host_cache gives the new batch its consumer index.
LEMMA LoadBatchStep ==
  ASSUME PlaceInv, producer \in Int, LoadBatch, UNCHANGED overlap
  PROVE  PlaceInv' /\ LifeStep
<1>1. RequestShape /\ BatchShape /\ Control /\ Apart /\ ResultInv
  BY Zenon DEF PlaceInv
<1>2. /\ ctl = "load" /\ ctl' = "choose" /\ batch' = [batch EXCEPT !.idx = NextSlot]
      /\ UNCHANGED <<waiting, finished, returned, retracted, retracts, running, last, pending,
                     results, overlap>>
  BY Zenon DEF LoadBatch, requestVars
<1>3. NextSlot \in Int
  BY DEF NextSlot, NumCounters
<1>4. IsBatch(batch)
  BY <1>1, Zenon DEF BatchShape
<1>5. IsBatch(batch)' /\ batch'.reqs = batch.reqs
  BY <1>2, <1>3, <1>4, Zenon DEF IsBatch
<1>6. BatchShape' /\ Admitted' = Admitted
  BY <1>1, <1>2, <1>5, Zenon DEF BatchShape, IsBatch, Admitted
<1>7. pending = NoBatch /\ last.reqs = {}
  BY <1>1, <1>2, Zenon DEF Control
<1>8. Control'
  BY <1>2, <1>7, Zenon DEF Control
<1>9. Apart'
  BY <1>1, <1>2, <1>5, <1>6, <1>7, NoBatchIs, Zenon DEF Apart
<1>10. Admitted' \subseteq Admitted /\ Admitted \ finished \subseteq Admitted'
  BY <1>6, Zenon
<1>11. ctl \notin {"launch", "result"} /\ ctl' # "result"
  BY <1>2, Zenon
<1> QED
  BY <1>2, <1>6, <1>8, <1>9, <1>10, <1>11, BatchStep, Zenon
\* _get_new_batch_prefill_raw admits waiting requests into a batch of their own.
LEMMA AdmitStep ==
  ASSUME PlaceInv, ctl = "form", NEW S \in SUBSET waiting, NEW kind \in LoadKinds,
         NEW full \in BOOLEAN, Admit(S, kind, full),
         UNCHANGED <<finished, returned, retracts, last, pending, results, overlap>>
  PROVE  PlaceInv' /\ LifeStep
<1>1. RequestShape /\ BatchShape /\ Control /\ Apart /\ ResultInv
  BY Zenon DEF PlaceInv
<1>2. /\ waiting' = waiting \ S /\ retracted' = retracted \ S /\ batch' = Extend(S, -1, kind)
      /\ running' = [running EXCEPT !.full = full]
      /\ ctl' = IF kind = "none" THEN "choose" ELSE "load"
  BY Zenon DEF Admit
<1>3. /\ batch = NoBatch /\ pending = NoBatch /\ last.reqs = {} /\ NoBatch.reqs = {}
  BY <1>1, NoBatchIs, Zenon DEF Control
<1>4. waiting \in SUBSET Requests /\ S \in SUBSET Requests
  BY <1>1, Zenon DEF RequestShape
<1>5. IsBatch(batch)' /\ batch'.reqs = S /\ batch'.mode = "extend" /\ batch'.kind = kind
  BY <1>2, <1>4 DEF IsBatch, Extend
<1>6. running' \in [reqs : SUBSET Requests, idx : Int, full : BOOLEAN] /\ running'.reqs = running.reqs
  BY <1>1, <1>2, Zenon DEF BatchShape
<1>7. BatchShape'
  BY <1>1, <1>5, <1>6, Zenon DEF BatchShape, IsBatch
<1>8. Admitted = running.reqs /\ Admitted' = running.reqs \cup S
  BY <1>3, <1>5, <1>6, Zenon DEF Admitted
<1>9. RequestShape'
  BY <1>1, <1>2, Zenon DEF RequestShape
<1>10. Control'
  BY <1>2, <1>3, <1>5, Zenon DEF Control, LoadKinds
<1>11. \A r \in Requests \ finished :
          /\ r \in waiting => r \notin returned /\ r \notin running.reqs
          /\ r \in returned => r \notin running.reqs
  BY <1>1, <1>8, Zenon DEF Apart
<1>12. Apart'
  <2> SUFFICES ASSUME NEW r \in Requests \ finished
               PROVE  /\ r \in waiting' => r \notin returned /\ r \notin Admitted'
                      /\ r \in returned => r \notin Admitted'
                      /\ r \in running.reqs => r \notin S
    BY <1>3, <1>5, <1>6, Zenon DEF Apart
  <2> QED
    BY <1>2, <1>8, <1>11, Zenon
<1>13. ResultInv'
  <2>1. \A i \in DOMAIN results : results[i].reqs \subseteq finished \cup retracted \cup Admitted
    BY <1>1, Zenon DEF ResultInv
  <2>2. finished \cup retracted \cup Admitted \subseteq finished' \cup retracted' \cup Admitted'
    BY <1>2, <1>8, Zenon
  <2>3. ~ overlap => results = <<>>
    BY <1>1, Zenon DEF ResultInv
  <2>4. ctl' # "result"
    BY <1>2, Zenon
  <2> QED
    BY <2>1, <2>2, <2>3, <2>4, Zenon DEF ResultInv
<1>14. LifeStep
  <2> DEFINE T == S \ finished
  <2>1. \A r \in T : Phase[r] = "queued" /\ Phase'[r] = "serving"
    <3> SUFFICES ASSUME NEW r \in T PROVE Phase[r] = "queued" /\ Phase'[r] = "serving"
      BY Zenon
    <3>1. /\ r \in Requests /\ r \notin finished /\ r \in waiting /\ r \notin returned
          /\ r \notin waiting' /\ r \in Admitted'
      BY <1>2, <1>4, <1>8, <1>11, Zenon
    <3> QED
      BY <3>1, Zenon DEF Phase
  <2>2. \A r \in Requests \ T : Phase'[r] = Phase[r]
    <3> SUFFICES ASSUME NEW r \in Requests \ T PROVE Phase'[r] = Phase[r]
      BY Zenon
    <3>1. r \in finished \/ ((r \in Admitted' <=> r \in Admitted) /\ (r \in waiting' <=> r \in waiting))
      BY <1>2, <1>8, Zenon
    <3> QED
      BY <3>1, Zenon DEF Phase
  <2>3. T \in SUBSET Requests
    BY <1>4, Zenon
  <2> HIDE DEF T
  <2> QED
    BY <2>1, <2>2, <2>3, LifeMove
<1> QED
  BY <1>7, <1>9, <1>10, <1>12, <1>13, <1>14, Zenon DEF PlaceInv

\* get_new_batch_prefill returns None.
LEMMA NoNewBatchStep ==
  ASSUME PlaceInv, ctl = "form", NEW full \in BOOLEAN, NoNewBatch(full),
         UNCHANGED <<finished, returned, retracts, last, pending, results, overlap>>
  PROVE  PlaceInv' /\ LifeStep
<1>1. RequestShape /\ BatchShape /\ Control /\ Apart /\ ResultInv
  BY Zenon DEF PlaceInv
<1>2. /\ running' = [running EXCEPT !.full = full] /\ ctl' = "choose"
      /\ UNCHANGED <<waiting, retracted, batch>>
  BY Zenon DEF NoNewBatch
<1>3. /\ batch = NoBatch /\ pending = NoBatch /\ last.reqs = {}
  BY <1>1, Zenon DEF Control
<1>4. running' \in [reqs : SUBSET Requests, idx : Int, full : BOOLEAN] /\ running'.reqs = running.reqs
  BY <1>1, <1>2, Zenon DEF BatchShape
<1>5. BatchShape' /\ Admitted' = Admitted
  BY <1>1, <1>2, <1>4, Zenon DEF BatchShape, IsBatch, Admitted
<1>6. Control'
  BY <1>2, <1>3, Zenon DEF Control
<1>7. Apart'
  BY <1>1, <1>2, <1>4, <1>5, Zenon DEF Apart
<1>8. /\ Admitted' \subseteq Admitted /\ Admitted \ finished \subseteq Admitted'
      /\ ctl \notin {"launch", "result"} /\ ctl' # "result"
  BY <1>2, <1>5, Zenon
<1> QED
  BY <1>2, <1>5, <1>6, <1>7, <1>8, BatchStep, Zenon

\* get_new_batch_prefill, with or without a batch.
LEMMA FormBatchStep ==
  ASSUME PlaceInv, FormBatch, UNCHANGED overlap
  PROVE  PlaceInv' /\ LifeStep
<1>1. ctl = "form" /\ UNCHANGED <<finished, returned, retracts, last, pending, results, overlap>>
  BY Zenon DEF FormBatch
<1>2. running.full \in BOOLEAN
  BY Zenon DEF PlaceInv, BatchShape
<1>3. ASSUME NEW full \in BOOLEAN, NoNewBatch(full)
      PROVE  PlaceInv' /\ LifeStep
  BY <1>1, <1>3, NoNewBatchStep, Zenon
<1>4. ASSUME NEW S \in (SUBSET waiting) \ {{}}, NEW kind \in LoadKinds, NEW full \in BOOLEAN,
             Admit(S, kind, full)
      PROVE  PlaceInv' /\ LifeStep
  BY <1>1, <1>4, AdmitStep, Zenon
<1>5. \/ NoNewBatch(running.full) \/ NoNewBatch(TRUE)
      \/ \E full \in {FALSE, running.reqs # {}} : NoNewBatch(full)
      \/ \E S \in (SUBSET waiting) \ {{}}, kind \in LoadKinds, full \in BOOLEAN : Admit(S, kind, full)
  BY Zenon DEF FormBatch
<1>6. {FALSE, running.reqs # {}} \subseteq BOOLEAN /\ TRUE \in BOOLEAN
  BY Zenon
<1> QED
  BY <1>2, <1>3, <1>4, <1>5, <1>6, Zenon
\* get_next_batch_to_run with a batch to put aside or none at all: the finished
\* requests leave the running batch, and retract_decode sends others away.
LEMMA UpdateRunningStep ==
  ASSUME PlaceInv, ctl = "choose", ctl' = "launch", NEW retract, NEW oom,
         UpdateRunning(retract, oom),
         pending' = IF running'.reqs = {} THEN NoBatch ELSE batch,
         batch' = IF running'.reqs = {} THEN batch ELSE Decode,
         UNCHANGED <<finished, last, results, overlap>>
  PROVE  PlaceInv' /\ LifeStep
<1>1. RequestShape /\ BatchShape /\ Control /\ Apart /\ ResultInv
  BY Zenon DEF PlaceInv
<1>2. PICK lost : lost = retract \cup oom
  BY Zenon
<1>3. PICK keep : keep = running.reqs \ finished
  BY Zenon
<1>4. /\ running' = [running EXCEPT !.reqs = keep \ lost, !.full = @ /\ running.reqs = keep \ lost]
      /\ retract \subseteq keep /\ oom \subseteq keep \ retract
      /\ waiting' = waiting \cup retract /\ returned' = returned \cup oom
      /\ retracted' = retracted \cup lost
      /\ retracts' = [r \in Requests |-> IF r \in lost THEN retracts[r] + 1 ELSE retracts[r]]
  BY <1>2, <1>3, Zenon DEF UpdateRunning, Unfinished
<1>5. running \in [reqs : SUBSET Requests, idx : Int, full : BOOLEAN]
  BY <1>1, Zenon DEF BatchShape
<1>6. /\ running' \in [reqs : SUBSET Requests, idx : Int, full : BOOLEAN]
      /\ running'.reqs = keep \ lost
  <2>1. keep \in SUBSET Requests
    BY <1>3, <1>5, Zenon
  <2>2. PICK f : f = (running.full /\ running.reqs = keep \ lost)
    BY Zenon
  <2>3. f \in BOOLEAN
    BY <1>5, <2>2, Zenon
  <2>4. running' = [running EXCEPT !.reqs = keep \ lost, !.full = f]
    BY <1>4, <2>2, Zenon
  <2> QED
    BY <1>5, <2>1, <2>3, <2>4, Zenon
<1>7. /\ last.reqs = {} /\ (pending = NoBatch \/ batch = pending) /\ NoBatch.reqs = {}
  BY <1>1, NoBatchIs, Zenon DEF Control
<1>8. Admitted = running.reqs \cup batch.reqs
  BY <1>7, Zenon DEF Admitted
<1>9. Admitted' = (keep \ lost) \cup batch.reqs
  BY <1>6, <1>7, NoBatchIs, Zenon DEF Admitted
<1>10. retract \in SUBSET Requests /\ oom \in SUBSET Requests /\ retract \cap oom = {}
       /\ lost \subseteq keep /\ keep \subseteq Requests \ finished /\ keep \subseteq Admitted
  BY <1>2, <1>3, <1>4, <1>5, <1>8, Zenon
<1>11. \A r \in Requests \ finished :
          /\ r \in waiting => r \notin returned /\ r \notin Admitted
          /\ r \in returned => r \notin Admitted
          /\ r \in running.reqs => r \notin batch.reqs
  BY <1>1, Zenon DEF Apart
<1>12. RequestShape'
  <2>1. retracts' \in [Requests -> Nat]
    BY <1>1, <1>4 DEF RequestShape
  <2> QED
    BY <1>1, <1>2, <1>4, <1>10, <2>1, Zenon DEF RequestShape
<1>13. BatchShape'
  <2>1. IsBatch(pending)' /\ IsBatch(batch)'
    BY <1>1, NoBatchIs, Zenon DEF BatchShape, IsBatch
  <2> QED
    BY <1>1, <1>6, <2>1, Zenon DEF BatchShape, IsBatch
<1>14. Control'
  BY <1>7, Zenon DEF Control
<1>15. Apart'
  <2> SUFFICES ASSUME NEW r \in Requests \ finished
               PROVE  /\ r \in waiting' => r \notin returned' /\ r \notin Admitted'
                      /\ r \in returned' => r \notin Admitted'
                      /\ r \in keep \ lost => r \notin batch.reqs
    BY <1>6, <1>7, NoBatchIs, Zenon DEF Apart
  <2>1. /\ r \in waiting => r \notin returned /\ r \notin Admitted
        /\ r \in returned => r \notin Admitted
        /\ r \in running.reqs => r \notin batch.reqs
    BY <1>11, Zenon
  <2>2. r \in keep => r \in Admitted /\ r \notin batch.reqs
    BY <1>3, <1>10, <2>1, Zenon
  <2>3. /\ r \in waiting' <=> r \in waiting \/ r \in retract
        /\ r \in returned' <=> r \in returned \/ r \in oom
        /\ r \in Admitted' => r \in Admitted
        /\ r \in lost <=> r \in retract \/ r \in oom
        /\ r \in lost => r \in keep
    BY <1>2, <1>3, <1>4, <1>8, <1>9, <1>10, Zenon
  <2>4. r \in lost => r \notin Admitted'
    BY <1>9, <1>10, <2>2, Zenon
  <2>5. ~ (r \in retract /\ r \in oom)
    BY <1>10, Zenon
  <2> QED
    BY <2>1, <2>2, <2>3, <2>4, <2>5, Zenon
<1>16. ResultInv'
  <2>1. \A i \in DOMAIN results : results[i].reqs \subseteq finished \cup retracted \cup Admitted
    BY <1>1, Zenon DEF ResultInv
  <2>2. finished \cup retracted \cup Admitted \subseteq finished' \cup retracted' \cup Admitted'
    BY <1>3, <1>4, <1>8, <1>9, Zenon
  <2>3. ~ overlap => results = <<>>
    BY <1>1, Zenon DEF ResultInv
  <2> QED
    BY <2>1, <2>2, <2>3, Zenon DEF ResultInv
<1>17. LifeStep
  <2>1. \A r \in keep : r \in Requests /\ r \notin finished /\ r \notin waiting /\ r \notin returned /\ r \in Admitted
    BY <1>10, <1>11, Zenon
  <2>2. \A r \in keep : Phase[r] = "serving"
    BY <2>1, Zenon DEF Phase
  <2>3. \A r \in retract : Phase'[r] = "queued"
    <3>1. \A r \in retract : r \in Requests /\ r \notin finished' /\ r \notin returned' /\ r \in waiting'
      BY <1>4, <2>1, Zenon
    <3> QED
      BY <3>1, Zenon DEF Phase
  <2>4. \A r \in oom : Phase'[r] = "returned"
    <3>1. \A r \in oom : r \in Requests /\ r \notin finished' /\ r \in returned'
      BY <1>4, <2>1, Zenon
    <3> QED
      BY <3>1, Zenon DEF Phase
  <2>5. \A r \in Requests \ (retract \cup oom) : Phase'[r] = Phase[r]
    <3> SUFFICES ASSUME NEW r \in Requests \ (retract \cup oom) PROVE Phase'[r] = Phase[r]
      BY Zenon
    <3>1. /\ r \in returned' <=> r \in returned
          /\ r \in waiting' <=> r \in waiting
          /\ r \in finished \/ (r \in Admitted' <=> r \in Admitted)
      BY <1>2, <1>3, <1>4, <1>8, <1>9, Zenon
    <3> QED
      BY <3>1, Zenon DEF Phase
  <2>6. PICK none \in SUBSET Requests : none = {}
    BY Zenon
  <2>7. /\ none \cap retract = {} /\ none \cap oom = {} /\ retract \cap oom = {}
        /\ \A r \in none : Phase[r] = "serving" /\ Phase'[r] = "finished"
        /\ \A r \in retract : Phase[r] = "serving" /\ Phase'[r] = "queued"
        /\ \A r \in oom : Phase[r] = "serving" /\ Phase'[r] = "returned"
        /\ \A r \in Requests \ (none \cup retract \cup oom) : Phase'[r] = Phase[r]
    BY <1>4, <1>10, <2>2, <2>3, <2>4, <2>5, <2>6, Zenon
  <2> QED
    BY <1>10, <2>7, LifeSettle, Zenon
<1> QED
  BY <1>12, <1>13, <1>14, <1>15, <1>16, <1>17, Zenon DEF PlaceInv

\* get_next_batch_to_run picks the new batch or decodes the running one.
LEMMA ChooseBatchStep ==
  ASSUME PlaceInv, ChooseBatch, UNCHANGED overlap
  PROVE  PlaceInv' /\ LifeStep
<1>1. ctl = "choose" /\ ctl' = "launch" /\ UNCHANGED <<finished, last, results, overlap>>
  BY Zenon DEF ChooseBatch
<1>2. CASE (batch = NoBatch \/ ShouldFill) /\ running.reqs # {}
  <2>1. /\ \E retract, oom \in SUBSET Requests : UpdateRunning(retract, oom)
        /\ pending' = IF running'.reqs = {} THEN NoBatch ELSE batch
        /\ batch' = IF running'.reqs = {} THEN batch ELSE Decode
    BY <1>2, Zenon DEF ChooseBatch
  <2> QED
    BY <1>1, <2>1, UpdateRunningStep, Zenon
<1>3. CASE ~ ((batch = NoBatch \/ ShouldFill) /\ running.reqs # {})
  <2>1. RequestShape /\ BatchShape /\ Control /\ Apart /\ ResultInv
    BY Zenon DEF PlaceInv
  <2>2. pending' = NoBatch /\ UNCHANGED <<running, batch, waiting, returned, retracted, retracts>>
    BY <1>3, Zenon DEF ChooseBatch
  <2>3. last.reqs = {} /\ (pending = NoBatch \/ batch = pending) /\ NoBatch.reqs = {}
    BY <1>1, <2>1, NoBatchIs, Zenon DEF Control
  <2>4. Admitted' = Admitted
    BY <1>1, <2>2, <2>3, Zenon DEF Admitted
  <2>5. BatchShape'
    BY <1>1, <2>1, <2>2, NoBatchIs, Zenon DEF BatchShape, IsBatch
  <2>6. Control'
    BY <1>1, <2>2, <2>3, Zenon DEF Control
  <2>7. Apart'
    BY <1>1, <2>1, <2>2, <2>3, <2>4, Zenon DEF Apart
  <2>8. /\ Admitted' \subseteq Admitted /\ Admitted \ finished \subseteq Admitted'
        /\ ctl \notin {"launch", "result"} /\ ctl' # "result"
    BY <1>1, <2>4, Zenon
  <2> QED
    BY <1>1, <2>2, <2>5, <2>6, <2>7, <2>8, BatchStep, Zenon
<1> QED
  BY <1>2, <1>3, Zenon
-------------------------------------------------------------------------------
(* Places: the forward passes *)

\* run_batch launches a pass over requests that are admitted.
LEMMA LaunchedIs ==
  ASSUME BatchShape, RequestShape, NEW eager
  PROVE  /\ Launched(eager) \in Passes /\ Launched(eager).reqs \subseteq Admitted
         /\ Launched(eager).layer = 1
<1>1. running.reqs \in SUBSET Requests /\ running.idx \in Int
  BY Zenon DEF BatchShape
<1>2. batch.mode \in {"none", "decode", "extend"} /\ batch.reqs \in SUBSET Requests /\ batch.idx \in Int
  BY Zenon DEF BatchShape, IsBatch
<1>3. PICK reqs : reqs = IF batch.mode = "decode" THEN running.reqs ELSE batch.reqs
  BY Zenon
<1>4. PICK idx : idx = IF batch.mode = "decode" THEN running.idx ELSE batch.idx
  BY Zenon
<1>5. PICK waits : waits = IF eager THEN AwaitedLayers(idx) ELSE {}
  BY Zenon
<1>6. PICK born : born = [r \in reqs |-> retracts[r]]
  BY Zenon
<1>7. Launched(eager) = [mode |-> batch.mode, reqs |-> reqs, idx |-> idx, layer |-> 1,
                         waits |-> waits, born |-> born]
  BY <1>3, <1>4, <1>5, <1>6, Zenon DEF Launched
<1>8. reqs \in SUBSET Requests /\ reqs \subseteq Admitted /\ idx \in Int
  BY <1>1, <1>2, <1>3, <1>4, Zenon DEF Admitted
<1>9. waits \in SUBSET Int
  BY <1>5 DEF AwaitedLayers
<1>10. born \in [reqs -> Nat]
  BY <1>6, <1>8, Zenon DEF RequestShape
<1>11. born \in UNION {[S -> Nat] : S \in SUBSET Requests}
  BY <1>8, <1>10, Zenon
<1>12. Launched(eager) \in Passes
  BY <1>2, <1>7, <1>8, <1>9, <1>11 DEF Passes
<1> QED
  BY <1>7, <1>8, <1>12

\* run_batch puts the batch's forward pass behind the others.
LEMMA LaunchStep ==
  ASSUME PlaceInv, Launch, UNCHANGED overlap
  PROVE  PlaceInv' /\ LifeStep
<1>1. RequestShape /\ BatchShape /\ Control /\ Apart /\ ResultInv
  BY Zenon DEF PlaceInv
<1>2. /\ ctl = "launch" /\ ctl' = "result"
      /\ UNCHANGED <<waiting, finished, returned, retracted, retracts, running, last, pending,
                     batch, overlap>>
  BY Zenon DEF Launch, requestVars, batchVars
<1>3. results \in Seq(Passes)
  BY <1>1, Zenon DEF BatchShape
<1>4. Admitted' = Admitted
  BY <1>2, Zenon DEF Admitted
<1>5. RequestShape' /\ Apart'
  BY <1>1, <1>2, <1>4, Zenon DEF RequestShape, Apart
<1>6. Control'
  BY <1>1, <1>2, Zenon DEF Control
<1>7. Phase' = Phase
  BY <1>2, <1>4, Zenon DEF Phase
<1>8. \A i \in DOMAIN results : results[i].reqs \subseteq finished \cup retracted \cup Admitted
  BY <1>1, Zenon DEF ResultInv
<1>9. ~ overlap => results = <<>>
  BY <1>1, <1>2, Zenon DEF ResultInv
<1>10. results' \in Seq(Passes) /\ ResultInv'
  <2>1. CASE batch = NoBatch
    <3>1. results' = results
      BY <2>1, Zenon DEF Launch
    <3> QED
      BY <1>2, <1>3, <1>4, <1>8, <1>9, <2>1, <3>1 DEF ResultInv
  <2>2. CASE batch # NoBatch
    <3>1. PICK eager : results' = Append(results, Launched(eager))
      BY <2>2, Zenon DEF Launch
    <3>2. PICK p : p = Launched(eager)
      BY Zenon
    <3>3. p \in Passes /\ p.reqs \subseteq Admitted
      BY <1>1, <3>2, LaunchedIs, Zenon
    <3>4. results' = Append(results, p)
      BY <3>1, <3>2, Zenon
    <3>5. /\ results' \in Seq(Passes) /\ Len(results') = Len(results) + 1
          /\ \A i \in DOMAIN results' : (i \in DOMAIN results /\ results'[i] = results[i]) \/ results'[i] = p
      BY <1>3, <3>3, <3>4
    <3>6. ~ overlap => Len(results') = 1 /\ results'[1] = p
      BY <1>9, <3>4
    <3>7. \A i \in DOMAIN results' : results'[i].reqs \subseteq finished' \cup retracted' \cup Admitted'
      BY <1>2, <1>4, <1>8, <3>3, <3>5, Zenon
    <3>8. ~ overlap => results'[1].reqs \subseteq Admitted'
      BY <1>4, <3>3, <3>6, Zenon
    <3> QED
      BY <1>2, <2>2, <3>5, <3>6, <3>7, <3>8 DEF ResultInv
  <2> QED
    BY <2>1, <2>2, Zenon
<1>11. BatchShape'
  BY <1>1, <1>2, <1>10, Zenon DEF BatchShape, IsBatch
<1> QED
  BY <1>5, <1>6, <1>7, <1>10, <1>11, Zenon DEF LifeStep, PlaceInv

\* A step of the two streams keeps every pass and its requests.
LEMMA PassStep ==
  ASSUME PlaceInv, UNCHANGED <<ctl, requestVars, batchVars, overlap>>, results' \in Seq(Passes),
         Len(results') = Len(results), DOMAIN results' = DOMAIN results,
         \A i \in DOMAIN results : results'[i].reqs = results[i].reqs
  PROVE  PlaceInv' /\ LifeStep
<1>1. RequestShape /\ BatchShape /\ Control /\ Apart /\ ResultInv
  BY Zenon DEF PlaceInv
<1>2. UNCHANGED <<ctl, waiting, finished, returned, retracted, retracts, running, last, pending,
                  batch, overlap>>
  BY Zenon DEF requestVars, batchVars
<1>3. Admitted' = Admitted
  BY <1>2, Zenon DEF Admitted
<1>4. RequestShape' /\ BatchShape' /\ Apart'
  BY <1>1, <1>2, <1>3, Zenon DEF RequestShape, BatchShape, IsBatch, Apart
<1>5. Control'
  BY <1>1, <1>2, ControlSame, Zenon
<1>6. Phase' = Phase
  BY <1>2, <1>3, Zenon DEF Phase
<1>7. ResultInv'
  <2>1. \A i \in DOMAIN results' : results'[i].reqs \subseteq finished' \cup retracted' \cup Admitted'
    BY <1>1, <1>2, <1>3, Zenon DEF ResultInv
  <2>2. CASE overlap
    BY <1>2, <2>1, <2>2, Zenon DEF ResultInv
  <2>3. CASE ~ overlap /\ ~ (ctl = "result" /\ batch # NoBatch)
    <3>1. results = <<>>
      BY <1>1, <2>3, Zenon DEF ResultInv
    <3>2. results' = <<>>
      BY <3>1
    <3> QED
      BY <1>2, <2>1, <2>3, <3>2, Zenon DEF ResultInv
  <2>4. CASE ~ overlap /\ ctl = "result" /\ batch # NoBatch
    <3>1. Len(results) = 1 /\ results[1].reqs \subseteq Admitted
      BY <1>1, <2>4, Zenon DEF ResultInv
    <3>2. 1 \in DOMAIN results
      BY <1>1, <3>1 DEF BatchShape
    <3>3. Len(results') = 1 /\ results'[1].reqs \subseteq Admitted'
      BY <1>3, <3>1, <3>2, Zenon
    <3> QED
      BY <1>2, <2>1, <2>4, <3>3, Zenon DEF ResultInv
  <2> QED
    BY <2>2, <2>3, <2>4, Zenon
<1> QED
  BY <1>4, <1>5, <1>6, <1>7, Zenon DEF LifeStep, PlaceInv

\* The device computes a layer of the oldest pass.
LEMMA ComputeLayerStep ==
  ASSUME PlaceInv, ComputeLayer
  PROVE  PlaceInv' /\ LifeStep
<1>1. PICK i \in DOMAIN results :
         /\ results' = [results EXCEPT ![i].layer = @ + 1]
         /\ UNCHANGED <<ctl, requestVars, batchVars, overlap>>
  BY Zenon DEF ComputeLayer
<1>2. results \in Seq(Passes)
  BY Zenon DEF PlaceInv, BatchShape
<1>3. results[i] \in Passes
  BY <1>1, <1>2
<1>4. PICK p : p = [results[i] EXCEPT !.layer = @ + 1]
  BY Zenon
<1>5. p \in Passes /\ p.reqs = results[i].reqs
  BY <1>3, <1>4 DEF Passes
<1>6. results' = [results EXCEPT ![i] = p]
  BY <1>1, <1>4, Zenon
<1>7. /\ results' \in Seq(Passes) /\ Len(results') = Len(results) /\ DOMAIN results' = DOMAIN results
      /\ \A k \in DOMAIN results : results'[k] = IF k = i THEN p ELSE results[k]
  BY <1>1, <1>2, <1>5, <1>6
<1>8. \A k \in DOMAIN results : results'[k].reqs = results[k].reqs
  BY <1>5, <1>7, Zenon
<1> QED
  BY <1>1, <1>7, <1>8, PassStep, Zenon

\* The load stream copies a layer.
LEMMA CopyLayerStep ==
  ASSUME PlaceInv, CopyLayer
  PROVE  PlaceInv' /\ LifeStep
<1>1. results' = [i \in DOMAIN results |->
         IF results[i].idx = Head(stream).slot /\ Head(stream).done
         THEN [results[i] EXCEPT !.waits = @ \ {Head(stream).layer}]
         ELSE results[i]]
  BY Zenon DEF CopyLayer
<1>2. UNCHANGED <<ctl, requestVars, batchVars, overlap>>
  BY Zenon DEF CopyLayer
<1>3. results \in Seq(Passes)
  BY Zenon DEF PlaceInv, BatchShape
<1>4. \A i \in DOMAIN results : results[i] \in Passes
  BY <1>3
<1>5. \A i \in DOMAIN results : results'[i] \in Passes /\ results'[i].reqs = results[i].reqs
  BY <1>1, <1>4 DEF Passes
<1>6. DOMAIN results' = DOMAIN results /\ DOMAIN results = 1..Len(results) /\ Len(results) \in Nat
  BY <1>1, <1>3
<1>7. results' = [i \in 1..Len(results) |-> results'[i]]
  BY <1>1, <1>6, Zenon
<1>8. results' \in Seq(Passes) /\ Len(results') = Len(results)
  BY <1>5, <1>6, <1>7
<1> QED
  BY <1>2, <1>5, <1>6, <1>8, PassStep, Zenon

-------------------------------------------------------------------------------
(* Flights: the inputs *)

\* The passes in flight are the same when no result, and no retraction, is.
LEMMA PassSame ==
  ASSUME BornInv, PassInv, UNCHANGED <<finished, retracted, retracts, results, overlap>>
  PROVE  BornInv' /\ PassInv'
BY Zenon DEF BornInv, PassInv

\* The load stream's entries keep their meaning while they keep an owner.
LEMMA StreamSame ==
  ASSUME StreamInv, UNCHANGED <<producer, stream, acks>>, Owned'
  PROVE  StreamInv'
BY Zenon DEF StreamInv

\* Handlers of process_input_requests: none touches what is in flight, and the
\* flush of an idle cache forgets a last batch whose result has been processed.
LEMMA InputFlight ==
  ASSUME PlaceInv, FlightInv, ctl = "input", ctl' \in {"input", "retract", "merge"},
         waiting' \cap finished = {},
         last' = last \/ (last.reqs = {} /\ last' = NoBatch /\ (overlap => results = <<>>)),
         UNCHANGED <<finished, retracted, retracts, running, pending, batch, results, overlap,
                     producer, stream, acks>>
  PROVE  FlightInv'
<1>1. QueueInv /\ BornInv /\ PassInv /\ ProducerInv /\ AsideInv /\ StreamInv
  BY Zenon DEF FlightInv
<1>2. batch = NoBatch /\ NoBatch.reqs = {}
  BY NoBatchIs, Zenon DEF PlaceInv, Control
<1>3. Unlaunched' = Unlaunched
  BY Zenon DEF Unlaunched
<1>4. QueueInv'
  <2>1. \A b \in {last, pending, batch}' : b.mode # "extend" => b \in {NoBatch, Decode}
    BY <1>1, Zenon DEF QueueInv
  <2>2. Len(results') = Owed'
    <3>1. Len(results) = IF overlap /\ last # NoBatch THEN 1 ELSE 0
      BY <1>1, <1>2 DEF QueueInv, Owed
    <3>2. Owed' = IF overlap /\ last' # NoBatch THEN 1 ELSE 0
      BY <1>2 DEF Owed
    <3>3. results = <<>> => Len(results) = 0
      OBVIOUS
    <3> QED
      BY <3>1, <3>2, <3>3, Zenon
  <2>3. last'.reqs = last.reqs
    BY <1>2, Zenon
  <2>4. \A i \in DOMAIN results : results[i].reqs \subseteq finished \cup running.reqs \cup last.reqs
    BY <1>1, Zenon DEF QueueInv
  <2>5. ctl' # "result"
    BY Zenon
  <2> QED
    BY <1>1, <1>3, <2>1, <2>2, <2>3, <2>4, <2>5, Zenon DEF QueueInv
<1>5. BornInv' /\ PassInv'
  BY <1>1, Zenon DEF BornInv, PassInv
<1>6. ProducerInv' /\ AsideInv'
  BY <1>1, Zenon DEF ProducerInv, AsideInv
<1>7. StreamInv'
  <2>1. Owned'
    BY <1>1, Zenon DEF StreamInv, Owned, Owner
  <2> QED
    BY <1>1, <2>1, StreamSame, Zenon
<1> QED
  BY <1>4, <1>5, <1>6, <1>7, Zenon DEF FlightInv

\* No handler of process_input_requests touches what is in flight.
LEMMA InputsFlight ==
  ASSUME PlaceInv, FlightInv, Inputs \/ ContinueGeneration \/ (EndInput /\ UNCHANGED overlap)
  PROVE  FlightInv'
<1>1. waiting \cap finished = {}
  BY Zenon DEF FlightInv, QueueInv
<1>2. ASSUME NEW r \in Requests, Arrive(r), UNCHANGED overlap
      PROVE  FlightInv'
  <2>1. r \notin finished /\ waiting' = waiting \cup {r}
    BY <1>2, Zenon DEF Arrive, New
  <2>2. waiting' \cap finished = {}
    BY <1>1, <2>1, Zenon
  <2> QED
    BY <1>2, <2>2, InputFlight, Zenon DEF Arrive, batchVars, loadVars
<1>3. ASSUME NEW S, ctl = "input", AbortRequest(S), UNCHANGED overlap
      PROVE  FlightInv'
  <2>1. waiting' \cap finished = {}
    BY <1>1, <1>3, Zenon DEF AbortRequest
  <2> QED
    BY <1>3, <2>1, InputFlight, Zenon DEF AbortRequest, batchVars, loadVars
<1>4. ASSUME ctl = "input", ctl' \in {"input", "retract", "merge"},
             \/ UNCHANGED <<batchVars, loadVars>>
             \/ IsFullyIdle /\ FlushIdle,
             UNCHANGED <<requestVars, results, overlap>>
      PROVE  FlightInv'
  <2>1. /\ last' = last \/ (last.reqs = {} /\ last' = NoBatch /\ (overlap => results = <<>>))
        /\ UNCHANGED <<running, pending, batch, producer, stream, acks>>
    BY <1>4, Zenon DEF batchVars, loadVars, IsFullyIdle, FlushIdle
  <2>2. UNCHANGED <<waiting, finished, retracted, retracts>>
    BY <1>4, Zenon DEF requestVars
  <2> QED
    BY <1>1, <1>4, <2>1, <2>2, InputFlight, Zenon
<1>5. ASSUME PauseInPlace \/ PauseRetract, UNCHANGED overlap
      PROVE  FlightInv'
  BY <1>4, <1>5, Zenon DEF PauseInPlace, PauseRetract, Receive
<1>6. ASSUME NEW deferred \in BOOLEAN, FlushCache(deferred), UNCHANGED overlap
      PROVE  FlightInv'
  BY <1>4, <1>6, Zenon DEF FlushCache, Receive
<1>7. ASSUME ContinueGeneration
      PROVE  FlightInv'
  BY <1>4, <1>7, Zenon DEF ContinueGeneration
<1>8. ASSUME EndInput, UNCHANGED overlap
      PROVE  FlightInv'
  BY <1>4, <1>8, Zenon DEF EndInput
<1>9. ASSUME (\E r \in Requests : AbortOne(r)) \/ AbortAll, UNCHANGED overlap
      PROVE  FlightInv'
  BY <1>3, <1>9, Zenon DEF AbortOne, AbortAll, Receive
<1> QED
  BY <1>2, <1>5, <1>6, <1>7, <1>8, <1>9, Zenon DEF Inputs
-------------------------------------------------------------------------------
(* Flights: the results *)

\* The processed pass waits for nothing, and none of the requests it finishes is
\* waiting or in a batch that was not launched.
LEMMA ProcessFlight ==
  ASSUME PlaceInv, FlightInv, ctl \in {"retract", "result"}, ctl = "retract" => overlap,
         ~ overlap => batch # NoBatch, NEW stopped \in SUBSET Requests, ProcessResult(stopped)
  PROVE  /\ finished' = finished \cup stopped
         /\ stopped \cap waiting = {} /\ stopped \cap Unlaunched = {}
         /\ results \in Seq(Passes) /\ results' \in Seq(Passes)
         /\ Len(results) >= 1 /\ Len(results') = Len(results) - 1
         /\ \A i \in DOMAIN results' : i + 1 \in DOMAIN results /\ results'[i] = results[i + 1]
         /\ results[1].waits = {}
<1>1. QueueInv /\ PassInv /\ RequestShape /\ BatchShape /\ Apart
  BY Zenon DEF FlightInv, PlaceInv
<1>2. /\ finished' = finished \cup stopped /\ stopped \ finished \subseteq Admitted
      /\ results' \in Seq(Passes)
      /\ \A i \in DOMAIN results' : i + 1 \in DOMAIN results /\ results'[i] = results[i + 1]
  BY ResultStep, Zenon
<1>3. /\ results # <<>> /\ Head(results).layer > Layers /\ stopped \subseteq ResultReqs
      /\ results' = Tail(results)
  BY Zenon DEF ProcessResult, HeadComputed
<1>4. results \in Seq(Passes)
  BY <1>1, Zenon DEF BatchShape
<1>5. Len(results) >= 1 /\ Len(results') = Len(results) - 1 /\ 1 \in DOMAIN results
      /\ Head(results) = results[1]
  BY <1>3, <1>4
<1>6. results[1] \in Passes
  BY <1>4, <1>5
<1>7. results[1].waits = {}
  <2>1. results[1].waits \subseteq results[1].layer..Layers
    BY <1>1, <1>5, Zenon DEF PassInv
  <2>2. results[1].layer \in Nat /\ results[1].layer > Layers
    BY <1>3, <1>5, <1>6, Zenon DEF Passes
  <2> QED
    BY <2>1, <2>2, LayersAssumption
<1>8. stopped \subseteq results[1].reqs
  BY <1>3, <1>5, Zenon DEF ResultReqs, Unfinished
<1>9. stopped \cap Unlaunched = {}
  BY <1>1, <1>5, <1>8, Zenon DEF QueueInv
<1>10. stopped \cap waiting = {}
  <2> SUFFICES ASSUME NEW r \in stopped, r \in waiting PROVE FALSE
    BY Zenon
  <2>1. r \notin finished
    BY <1>1, Zenon DEF QueueInv
  <2>2. r \in Requests \ finished /\ r \in Admitted
    BY <1>2, <2>1, Zenon
  <2> QED
    BY <1>1, <2>2, Zenon DEF Apart
<1> QED
  BY <1>2, <1>4, <1>5, <1>7, <1>9, <1>10, Zenon

\* pause_generation retracts: the results in flight name requests that are not
\* running.
LEMMA RetractAllFlight ==
  ASSUME PlaceInv, FlightInv, RetractAll, UNCHANGED overlap
  PROVE  FlightInv'
<1>1. QueueInv /\ BornInv /\ PassInv /\ ProducerInv /\ AsideInv /\ StreamInv
  BY Zenon DEF FlightInv
<1>2. /\ ctl = "retract" /\ ctl' = "input" /\ last' = NoBatch
      /\ UNCHANGED <<pending, batch, overlap, producer, stream, acks>>
  BY Zenon DEF RetractAll, loadVars
<1>3. PICK stopped \in SUBSET Requests :
         /\ IF overlap /\ last # NoBatch THEN ProcessResult(stopped) ELSE stopped = {} /\ NoResult
         /\ \E all : waiting' = waiting \cup (all \ finished')
  BY Zenon DEF RetractAll
<1>4. batch = NoBatch /\ NoBatch.reqs = {}
  BY <1>2, NoBatchIs, Zenon DEF PlaceInv, Control
<1>5. Unlaunched = pending.reqs /\ Unlaunched' = pending.reqs
  BY <1>2, <1>4, Zenon DEF Unlaunched
<1>6. Len(results) = IF overlap /\ last # NoBatch THEN 1 ELSE 0
  BY <1>1, <1>2 DEF QueueInv, Owed
<1>7. results \in Seq(Passes)
  BY Zenon DEF PlaceInv, BatchShape
<1>8. /\ results' = <<>> /\ finished' = finished \cup stopped
      /\ stopped \cap waiting = {} /\ stopped \cap Unlaunched = {}
      /\ \A i \in DOMAIN results : results[i].waits = {}
  <2>1. CASE overlap /\ last # NoBatch
    <3>1. /\ finished' = finished \cup stopped
          /\ stopped \cap waiting = {} /\ stopped \cap Unlaunched = {}
          /\ results' \in Seq(Passes) /\ Len(results') = Len(results) - 1
          /\ results[1].waits = {}
      BY <1>2, <1>3, <2>1, ProcessFlight, Zenon
    <3>2. Len(results) = 1
      BY <1>6, <2>1, Zenon
    <3>3. results' = <<>>
      BY <3>1, <3>2, EmptySeq
    <3>4. \A i \in DOMAIN results : i = 1
      BY <1>7, <3>2
    <3> QED
      BY <3>1, <3>3, <3>4, Zenon
  <2>2. CASE ~ (overlap /\ last # NoBatch)
    <3>1. stopped = {} /\ finished' = finished /\ results' = results
      BY <1>3, <2>2, Zenon DEF NoResult
    <3>2. results = <<>>
      BY <1>6, <1>7, <2>2, EmptySeq, Zenon
    <3> QED
      BY <3>1, <3>2
  <2> QED
    BY <2>1, <2>2, Zenon
<1>9. QueueInv'
  <2>1. waiting' \cap finished' = {} /\ Unlaunched' \cap finished' = {}
    BY <1>1, <1>3, <1>5, <1>8, Zenon DEF QueueInv
  <2>2. \A b \in {last, pending, batch}' : b.mode # "extend" => b \in {NoBatch, Decode}
    BY <1>1, <1>2, Zenon DEF QueueInv
  <2>3. Len(results') = 0 /\ Owed' = 0
    BY <1>2, <1>8 DEF Owed
  <2>4. DOMAIN results' = {}
    BY <1>8
  <2> QED
    BY <1>2, <2>1, <2>2, <2>3, <2>4, Zenon DEF QueueInv
<1>10. BornInv' /\ PassInv'
  <2>1. DOMAIN results' = {}
    BY <1>8
  <2> QED
    BY <2>1, Zenon DEF BornInv, PassInv
<1>11. ProducerInv' /\ AsideInv'
  <2>1. DOMAIN results' = {}
    BY <1>8
  <2> QED
    BY <1>1, <1>2, <2>1, Zenon DEF ProducerInv, AsideInv
<1>12. Owned'
  <2> SUFFICES ASSUME NEW j \in DOMAIN stream, stream[j].layer # 0
               PROVE  pending.idx = stream[j].slot /\ pending.reqs = stream[j].reqs
    BY <1>2, Zenon DEF Owned, Owner
  <2>1. Owner(stream[j])
    BY <1>1, Zenon DEF StreamInv, Owned
  <2> QED
    BY <1>2, <1>8, <2>1, Zenon DEF Owner
<1>13. StreamInv'
  BY <1>1, <1>2, <1>12, StreamSame, Zenon
<1> QED
  BY <1>9, <1>10, <1>11, <1>13, Zenon DEF FlightInv

\* The batch of this iteration becomes last_batch.
LEMMA EndIterationFlight ==
  ASSUME PlaceInv, FlightInv, EndIteration, UNCHANGED overlap
  PROVE  FlightInv'
<1>1. QueueInv /\ BornInv /\ PassInv /\ ProducerInv /\ AsideInv /\ StreamInv
  BY Zenon DEF FlightInv
<1>2. /\ ctl = "result" /\ ctl' = "input" /\ last' = batch /\ batch' = NoBatch
      /\ UNCHANGED <<waiting, retracted, retracts, running, pending, overlap, producer, stream, acks>>
  BY Zenon DEF EndIteration, loadVars
<1>3. PICK stopped \in SUBSET Requests :
          IF HasResult THEN ProcessResult(stopped) ELSE stopped = {} /\ NoResult
  BY Zenon DEF EndIteration
<1>4. Unlaunched = pending.reqs /\ Unlaunched' = pending.reqs
  BY <1>2, Zenon DEF Unlaunched
<1>5. Len(results) = (IF overlap /\ last # NoBatch THEN 1 ELSE 0) + IF batch # NoBatch THEN 1 ELSE 0
  BY <1>1, <1>2, Zenon DEF QueueInv, Owed
<1>6. Owed' = IF overlap /\ batch # NoBatch THEN 1 ELSE 0
  BY <1>2 DEF Owed
<1>7. results \in Seq(Passes)
  BY Zenon DEF PlaceInv, BatchShape
<1>8. /\ finished' = finished \cup stopped /\ results' \in Seq(Passes)
      /\ stopped \cap waiting = {} /\ stopped \cap Unlaunched = {}
      /\ Len(results') = Owed'
      /\ \A i \in DOMAIN results' : i = 1 /\ Len(results) \in DOMAIN results /\ results'[1] = results[Len(results)]
      /\ \A i \in DOMAIN results : results[i].waits # {} => results' # <<>> /\ i = Len(results)
  <2>1. CASE HasResult
    <3>1. ctl \in {"retract", "result"} /\ (ctl = "retract" => overlap) /\ ProcessResult(stopped)
          /\ (~ overlap => batch # NoBatch)
      BY <1>2, <1>3, <2>1, Zenon DEF HasResult
    <3>2. /\ finished' = finished \cup stopped
          /\ stopped \cap waiting = {} /\ stopped \cap Unlaunched = {}
          /\ results' \in Seq(Passes) /\ Len(results') = Len(results) - 1
          /\ \A i \in DOMAIN results' : i + 1 \in DOMAIN results /\ results'[i] = results[i + 1]
          /\ results[1].waits = {}
      BY <3>1, ProcessFlight, Zenon
    <3>3. Len(results') = Owed' /\ Len(results) \in {1, 2}
      BY <1>5, <1>6, <2>1, <3>2 DEF HasResult
    <3>4. Len(results') \in {0, 1} /\ DOMAIN results' = 1..Len(results') /\ DOMAIN results = 1..Len(results)
      BY <1>7, <3>2, <3>3
    <3>5. Len(results') = 1 => results' # <<>>
      BY <3>2
    <3>6. \A i \in DOMAIN results' : i = 1 /\ Len(results) \in DOMAIN results /\ results'[1] = results[Len(results)]
      BY <3>2, <3>3, <3>4
    <3>7. \A i \in DOMAIN results : results[i].waits # {} => results' # <<>> /\ i = Len(results)
      BY <3>2, <3>3, <3>4, <3>5
    <3> QED
      BY <3>2, <3>3, <3>6, <3>7, Zenon
  <2>2. CASE ~ HasResult
    <3>1. stopped = {} /\ finished' = finished /\ results' = results
      BY <1>3, <2>2, Zenon DEF NoResult
    <3>2. Len(results) = Owed' /\ Len(results) \in {0, 1}
      BY <1>5, <1>6, <2>2 DEF HasResult
    <3>3. DOMAIN results = 1..Len(results)
      BY <1>7
    <3>4. Len(results) = 1 => results # <<>>
      BY <1>7
    <3>5. \A i \in DOMAIN results : i = 1 /\ Len(results) = 1
      BY <3>2, <3>3
    <3> QED
      BY <1>7, <3>1, <3>2, <3>4, <3>5, Zenon
  <2> QED
    BY <2>1, <2>2, Zenon
<1>9. \A i \in DOMAIN results' : overlap /\ batch # NoBatch
  BY <1>6, <1>8
<1>10. QueueInv'
  <2>1. waiting' \cap finished' = {} /\ Unlaunched' \cap finished' = {}
    BY <1>1, <1>2, <1>4, <1>8, Zenon DEF QueueInv
  <2>2. \A b \in {last, pending, batch}' : b.mode # "extend" => b \in {NoBatch, Decode}
    BY <1>1, <1>2, Zenon DEF QueueInv
  <2>3. \A i \in DOMAIN results' : results'[i].reqs \subseteq running'.reqs \cup last'.reqs
    BY <1>1, <1>2, <1>8, <1>9, Zenon DEF QueueInv
  <2>4. \A i \in DOMAIN results' : results'[i].reqs \cap Unlaunched' = {}
    BY <1>1, <1>4, <1>8, Zenon DEF QueueInv
  <2>5. \A i, j \in DOMAIN results' : ~ (i < j)
    BY <1>8
  <2> QED
    BY <1>2, <1>8, <2>1, <2>2, <2>3, <2>4, <2>5, Zenon DEF QueueInv
<1>11. BornInv'
  BY <1>1, <1>2, <1>8 DEF BornInv
<1>12. PassInv'
  <2>1. \A i, j \in DOMAIN results' : ~ (i < j)
    BY <1>8
  <2> QED
    BY <1>1, <1>8, <2>1, Zenon DEF PassInv
<1>13. ProducerInv' /\ AsideInv'
  BY <1>1, <1>2, <1>8, <1>9, Zenon DEF ProducerInv, AsideInv
<1>14. Owned'
  <2> SUFFICES ASSUME NEW j \in DOMAIN stream, stream[j].layer # 0
               PROVE  Owner(stream[j])'
    BY <1>2, Zenon DEF Owned
  <2>1. Owner(stream[j])
    BY <1>1, Zenon DEF StreamInv, Owned
  <2>2. CASE pending.idx = stream[j].slot /\ pending.reqs = stream[j].reqs
    BY <1>2, <2>2, Zenon DEF Owner
  <2>3. ASSUME NEW i \in DOMAIN results, results[i].mode = "extend", results[i].idx = stream[j].slot,
               results[i].reqs = stream[j].reqs, stream[j].layer \in results[i].waits
        PROVE  Owner(stream[j])'
    <3>1. results' # <<>> /\ i = Len(results)
      BY <1>8, <2>3, Zenon
    <3>2. 1 \in DOMAIN results' /\ results'[1] = results[i]
      BY <1>8, <3>1
    <3> QED
      BY <1>2, <2>3, <3>2, Zenon DEF Owner
  <2> QED
    BY <1>2, <2>1, <2>2, <2>3, Zenon DEF Owner
<1>15. StreamInv'
  BY <1>1, <1>2, <1>14, StreamSame, Zenon
<1> QED
  BY <1>10, <1>11, <1>12, <1>13, <1>15, Zenon DEF FlightInv
-------------------------------------------------------------------------------
(* Flights: the batches *)

\* The merge keeps every request that is not finished.
LEMMA MergedIs ==
  ASSUME BatchShape
  PROVE  Merged(finished).reqs = running.reqs \cup (last.reqs \ finished)
<1>1. running \in [reqs : SUBSET Requests, idx : Int, full : BOOLEAN] /\ IsBatch(last)
  BY Zenon DEF BatchShape
<1> QED
  BY <1>1, Zenon DEF Merged, IsBatch

\* last_batch is merged into running_batch.
LEMMA MergeLastFlight ==
  ASSUME PlaceInv, FlightInv, MergeLast, UNCHANGED overlap
  PROVE  FlightInv'
<1>1. QueueInv /\ BornInv /\ PassInv /\ ProducerInv /\ AsideInv /\ StreamInv
  BY Zenon DEF FlightInv
<1>2. /\ ctl = "merge" /\ running' = Merged(finished) /\ last' = [last EXCEPT !.reqs = {}]
      /\ batch' = pending /\ ctl' = IF pending # NoBatch THEN "choose" ELSE "form"
      /\ UNCHANGED <<waiting, finished, retracted, retracts, pending, results, overlap,
                     producer, stream, acks>>
  BY Zenon DEF MergeLast, requestVars, loadVars
<1>3. batch = NoBatch /\ NoBatch.reqs = {} /\ NoBatch.idx = -1
  BY <1>2, NoBatchIs, Zenon DEF PlaceInv, Control
<1>4. running'.reqs = running.reqs \cup (last.reqs \ finished)
  BY <1>2, MergedIs, Zenon DEF PlaceInv
<1>5. last \in [mode : {"none", "decode", "extend"}, reqs : SUBSET Requests, idx : Int, kind : LoadKinds]
  BY Zenon DEF PlaceInv, BatchShape, IsBatch
<1>6. /\ last'.mode # "extend" => last' \in {NoBatch, Decode}
      /\ last' # NoBatch <=> last # NoBatch
  <2>1. last.mode # "extend" => last = NoBatch \/ last = Decode
    BY <1>1, Zenon DEF QueueInv
  <2>2. last'.mode = last.mode
    BY <1>2, <1>5, Zenon
  <2>3. last = NoBatch \/ last = Decode => last' = last
    BY <1>2 DEF NoBatch, Decode
  <2> QED
    BY <2>1, <2>2, <2>3, NoBatchIs, Zenon
<1>7. Unlaunched = pending.reqs /\ Unlaunched' = pending.reqs
  BY <1>2, <1>3, Zenon DEF Unlaunched
<1>8. Owed' = Owed
  BY <1>2, <1>3, <1>6 DEF Owed
<1>9. QueueInv'
  <2>1. \A b \in {last, pending, batch}' : b.mode # "extend" => b \in {NoBatch, Decode}
    BY <1>1, <1>2, <1>6, Zenon DEF QueueInv
  <2>2. \A i \in DOMAIN results : results[i].reqs \subseteq finished \cup running'.reqs
    BY <1>1, <1>2, <1>4, Zenon DEF QueueInv
  <2>3. ctl' # "result"
    BY <1>2, Zenon
  <2>4. \A i \in DOMAIN results' : results'[i].reqs \subseteq finished' \cup running'.reqs \cup last'.reqs
    BY <1>2, <2>2, Zenon
  <2> QED
    BY <1>1, <1>2, <1>7, <1>8, <2>1, <2>3, <2>4, Zenon DEF QueueInv
<1>10. BornInv' /\ PassInv'
  BY <1>1, <1>2, PassSame, Zenon
<1>11. ProducerInv' /\ AsideInv'
  BY <1>1, <1>2, Zenon DEF ProducerInv, AsideInv
<1>12. Owned'
  BY <1>1, <1>2, <1>3, Zenon DEF StreamInv, Owned, Owner
<1>13. StreamInv'
  BY <1>1, <1>2, <1>12, StreamSame, Zenon
<1> QED
  BY <1>9, <1>10, <1>11, <1>13, Zenon DEF FlightInv

\* A load that is not acknowledged stays so while its last layer is not recorded.
LEMMA DrainCovered ==
  ASSUME StreamInv, DrainAcks
  PROVE  Covered(stream, acks') /\ acks' \in Seq([slot : 0..(NumCounters - 1), reqs : SUBSET Requests])
<1> DEFINE Acks == [slot : 0..(NumCounters - 1), reqs : SUBSET Requests]
<1>1. acks \in Seq(Acks) /\ Covered(stream, acks)
  BY Zenon DEF StreamInv
<1>2. PICK n \in 0..Len(acks) :
         /\ \A i \in 1..n : Finished(acks[i].slot)
         /\ acks' = SubSeq(acks, n + 1, Len(acks))
  BY Zenon DEF DrainAcks
<1> HIDE DEF Acks
<1>3. /\ acks' \in Seq(Acks) /\ Len(acks') = Len(acks) - n
      /\ \A i \in 1..(Len(acks) - n) : acks'[i] = acks[n + i]
  BY <1>1, <1>2
<1>4. DOMAIN acks = 1..Len(acks) /\ DOMAIN acks' = 1..(Len(acks) - n) /\ Len(acks) \in Nat
  BY <1>1, <1>3
<1>5. ASSUME NEW j \in DOMAIN stream, stream[j].layer # 0
      PROVE  \E i \in DOMAIN acks' : acks'[i].slot = stream[j].slot
  <2>1. PICK k \in DOMAIN stream : stream[k].slot = stream[j].slot /\ stream[k].layer = Layers /\ stream[k].done
    BY <1>1, <1>5, Zenon DEF Covered
  <2>2. PICK i \in DOMAIN acks : acks[i].slot = stream[j].slot
    BY <1>1, <1>5, Zenon DEF Covered
  <2>3. ~ Finished(acks[i].slot)
    BY <2>1, <2>2, Zenon DEF Finished, Ready
  <2>4. i \notin 1..n
    BY <1>2, <2>3, Zenon
  <2>5. i - n \in DOMAIN acks' /\ acks'[i - n] = acks[i]
    <3>1. i \in 1..Len(acks) /\ i > n
      BY <1>4, <2>4
    <3>2. i - n \in 1..(Len(acks) - n) /\ n + (i - n) = i
      BY <1>4, <3>1
    <3> QED
      BY <1>3, <1>4, <3>2, Zenon
  <2> QED
    BY <2>2, <2>5, Zenon
<1>6. Covered(stream, acks')
  BY <1>1, <1>5, Zenon DEF Covered
<1> QED
  BY <1>3, <1>6, Zenon DEF Acks

\* The steps of FormBatch: admitted requests are in no unprocessed result.
LEMMA FormFlight ==
  ASSUME PlaceInv, FlightInv, ctl = "form", NEW S \in SUBSET waiting,
         \/ ctl' = "choose" /\ S = {} /\ batch' = batch
         \/ ctl' \in {"choose", "load"} /\ \E kind : batch' = Extend(S, -1, kind),
         waiting' = waiting \ S, retracted' = retracted \ S, running'.reqs = running.reqs,
         DrainAcks, UNCHANGED <<finished, retracts, last, pending, results, overlap, producer, stream>>
  PROVE  FlightInv'
<1>1. QueueInv /\ BornInv /\ PassInv /\ ProducerInv /\ AsideInv /\ StreamInv
  BY Zenon DEF FlightInv
<1>2. /\ batch = NoBatch /\ pending = NoBatch /\ last.reqs = {}
      /\ NoBatch.reqs = {} /\ NoBatch.idx = -1 /\ NoBatch.mode = "none"
  BY NoBatchIs, Zenon DEF PlaceInv, Control
<1>3. batch'.reqs = S /\ batch'.idx = -1 /\ (batch'.mode # "extend" => batch' \in {NoBatch, Decode})
  BY <1>2 DEF Extend
<1>4. Unlaunched' \subseteq S /\ S \subseteq Requests
  BY <1>2, <1>3, Zenon DEF Unlaunched, PlaceInv, RequestShape
<1>5. \A i \in DOMAIN results : results[i].reqs \cap S = {}
  <2> SUFFICES ASSUME NEW i \in DOMAIN results, NEW r \in results[i].reqs, r \in S PROVE FALSE
    BY Zenon
  <2>1. r \in finished \cup running.reqs
    BY <1>1, <1>2, Zenon DEF QueueInv
  <2>2. r \notin finished /\ r \in waiting
    BY <1>1, Zenon DEF QueueInv
  <2>3. r \in Requests \ finished /\ r \notin Admitted
    BY <1>4, <2>2, Zenon DEF PlaceInv, Apart
  <2> QED
    BY <2>1, <2>2, <2>3, Zenon DEF Admitted
<1>6. Owed' = Owed
  BY <1>2, Zenon DEF Owed
<1>7. QueueInv'
  <2>1. \A b \in {last, pending, batch}' : b.mode # "extend" => b \in {NoBatch, Decode}
    BY <1>1, <1>3, Zenon DEF QueueInv
  <2>2. waiting' \cap finished' = {} /\ Unlaunched' \cap finished' = {}
    BY <1>1, <1>4, Zenon DEF QueueInv
  <2>3. \A i \in DOMAIN results' : results'[i].reqs \cap Unlaunched' = {}
    BY <1>4, <1>5, Zenon
  <2>4. ctl' # "result"
    BY Zenon
  <2>5. \A i \in DOMAIN results' : results'[i].reqs \subseteq finished' \cup running'.reqs \cup last'.reqs
    BY <1>1, Zenon DEF QueueInv
  <2> QED
    BY <1>1, <1>6, <2>1, <2>2, <2>3, <2>4, <2>5, Zenon DEF QueueInv
<1>8. BornInv'
  <2> SUFFICES ASSUME NEW i \in DOMAIN results, NEW r \in results[i].reqs
               PROVE  results[i].born[r] = retracts[r] \/ (overlap /\ r \in finished \cup retracted')
    BY Zenon DEF BornInv
  <2>1. r \notin S
    BY <1>5, Zenon
  <2>2. results[i].born[r] = retracts[r] \/ (overlap /\ r \in finished \cup retracted)
    BY <1>1, Zenon DEF BornInv
  <2> QED
    BY <2>1, <2>2, Zenon
<1>9. PassInv'
  BY <1>1, Zenon DEF PassInv
<1>10. ProducerInv' /\ AsideInv'
  BY <1>1, <1>2, <1>3 DEF ProducerInv, AsideInv
<1>11. Owned'
  BY <1>1, Zenon DEF StreamInv, Owned, Owner
<1>12. StreamInv'
  BY <1>1, <1>11, DrainCovered, Zenon DEF StreamInv
<1> QED
  BY <1>7, <1>8, <1>9, <1>10, <1>12, Zenon DEF FlightInv

\* A new batch is formed; finished loads are acknowledged first.
LEMMA FormBatchFlight ==
  ASSUME PlaceInv, FlightInv, FormBatch, UNCHANGED overlap
  PROVE  FlightInv'
<1>1. /\ ctl = "form" /\ DrainAcks
      /\ UNCHANGED <<finished, retracts, last, pending, results, overlap, producer, stream>>
  BY Zenon DEF FormBatch
<1>2. running \in [reqs : SUBSET Requests, idx : Int, full : BOOLEAN]
  BY Zenon DEF PlaceInv, BatchShape
<1>3. ASSUME NEW full, NoNewBatch(full)
      PROVE  FlightInv'
  <2>1. running'.reqs = running.reqs /\ ctl' = "choose" /\ UNCHANGED <<waiting, retracted, batch>>
    BY <1>2, <1>3, Zenon DEF NoNewBatch
  <2>2. PICK S \in SUBSET waiting : S = {}
    BY Zenon
  <2>3. waiting' = waiting \ S /\ retracted' = retracted \ S
    BY <2>1, <2>2, Zenon
  <2> QED
    BY <1>1, <2>1, <2>2, <2>3, FormFlight, Zenon
<1>4. ASSUME NEW S \in (SUBSET waiting) \ {{}}, NEW kind \in LoadKinds, NEW full \in BOOLEAN,
             Admit(S, kind, full)
      PROVE  FlightInv'
  <2>1. /\ running'.reqs = running.reqs /\ ctl' \in {"choose", "load"}
        /\ waiting' = waiting \ S /\ retracted' = retracted \ S /\ batch' = Extend(S, -1, kind)
    BY <1>2, <1>4, Zenon DEF Admit
  <2> QED
    BY <1>1, <2>1, FormFlight, Zenon
<1>5. \/ \E full : NoNewBatch(full)
      \/ \E S \in (SUBSET waiting) \ {{}}, kind \in LoadKinds, full \in BOOLEAN : Admit(S, kind, full)
  BY Zenon DEF FormBatch
<1> QED
  BY <1>3, <1>4, <1>5, Zenon
-------------------------------------------------------------------------------
(* Flights: what start_loading submits *)

\* The elements of a concatenation.
LEMMA ConcatIs ==
  ASSUME NEW T, NEW s \in Seq(T), NEW t \in Seq(T), NEW u, u = s \o t,
         NEW m, m = Len(s), NEW n, n = Len(t)
  PROVE  /\ u \in Seq(T) /\ DOMAIN u = 1..(m + n) /\ m \in Nat /\ n \in Nat
         /\ \A k \in 1..m : u[k] = s[k]
         /\ \A k \in 1..n : u[m + k] = t[k]
<1>1. Len(s) \in Nat /\ Len(t) \in Nat /\ s \o t \in Seq(T) /\ Len(s \o t) = Len(s) + Len(t)
  OBVIOUS
<1>2. \A k \in 1..(Len(s) + Len(t)) : (s \o t)[k] = IF k <= Len(s) THEN s[k] ELSE t[k - Len(s)]
  OBVIOUS
<1>3. DOMAIN (s \o t) = 1..(Len(s) + Len(t))
  BY <1>1
<1>4. \A k \in 1..Len(s) : k \in 1..(Len(s) + Len(t)) /\ k <= Len(s)
  BY <1>1
<1>5. \A k \in 1..Len(t) : /\ Len(s) + k \in 1..(Len(s) + Len(t)) /\ ~ (Len(s) + k <= Len(s))
                           /\ (Len(s) + k) - Len(s) = k
  BY <1>1
<1> QED
  BY <1>1, <1>2, <1>3, <1>4, <1>5, Zenon

\* start_loading queues one copy for each layer.
LEMMA CopiesAre ==
  ASSUME NEW slot \in 0..(NumCounters - 1), NEW reqs \in SUBSET Requests, NEW done \in BOOLEAN,
         NEW s, s = LayerCopies(slot, reqs, done)
  PROVE  /\ s \in Seq(Copies) /\ Len(s) = Layers
         /\ \A k \in 1..Layers :
              s[k].slot = slot /\ s[k].layer = k /\ s[k].reqs = reqs /\ s[k].done = done
<1>1. Layers \in Nat
  BY LayersAssumption, Zenon
<1>2. \A k \in 1..Layers : [slot |-> slot, layer |-> k, reqs |-> reqs, done |-> done] \in Copies
  BY <1>1 DEF Copies
<1> QED
  BY <1>1, <1>2 DEF LayerCopies

\* A bubble-filling preload has one record, of all layers.
LEMMA PreloadIs ==
  ASSUME NEW slot \in 0..(NumCounters - 1)
  PROVE  /\ PreloadRecord(slot) \in Seq(Copies) /\ Len(PreloadRecord(slot)) = 1
         /\ PreloadRecord(slot)[1].slot = slot /\ PreloadRecord(slot)[1].layer = 0
<1>1. [slot |-> slot, layer |-> 0, reqs |-> {}, done |-> TRUE] \in Copies
  BY LayersAssumption DEF Copies
<1> QED
  BY <1>1 DEF PreloadRecord
\* What start_loading submits: the copies of one load, each copied layer recorded
\* once, at its last copy, and no copy after the record of the last layer.
Submitted(s, slot, reqs) ==
    /\ s \in Seq(Copies)
    /\ \A j \in DOMAIN s : s[j].slot = slot /\ (s[j].layer # 0 => s[j].reqs = reqs)
    /\ \A j \in DOMAIN s : s[j].layer # 0 =>
         \E k \in DOMAIN s : k >= j /\ s[k].layer = Layers /\ s[k].done
    /\ Recorded(s)

\* One half only: the layers' copies with the preload's record after or before them.
Half(s, slot, reqs, d) ==
    /\ s \in Seq(Copies) /\ DOMAIN s = 1..(Layers + 1)
    /\ \A k \in 1..Layers : /\ s[k + d].slot = slot /\ s[k + d].layer = k
                            /\ s[k + d].reqs = reqs /\ s[k + d].done = TRUE
    /\ LET q == IF d = 0 THEN Layers + 1 ELSE 1 IN s[q].slot = slot /\ s[q].layer = 0

\* Copies layer by layer, before or after the preload record, are a submission.
LEMMA HalfIs ==
  ASSUME NEW slot, NEW reqs, NEW s, NEW d \in {0, 1}, Half(s, slot, reqs, d)
  PROVE  Submitted(s, slot, reqs)
<1>0. PICK n, q : n = Layers /\ q = (IF d = 0 THEN n + 1 ELSE 1)
  BY Zenon
<1>1. /\ n \in Nat \ {0} /\ s \in Seq(Copies) /\ DOMAIN s = 1..(n + 1)
      /\ s[q].slot = slot /\ s[q].layer = 0
  BY <1>0, LayersAssumption DEF Half
<1>a. \A k \in 1..n : /\ s[k + d].slot = slot /\ s[k + d].layer = k
                     /\ s[k + d].reqs = reqs /\ s[k + d].done = TRUE
  BY <1>0, Zenon DEF Half
<1>2. \A j \in DOMAIN s : j = q \/ (j - d \in 1..n /\ (j - d) + d = j)
  BY <1>0, <1>1
<1>3. \A j \in DOMAIN s : s[j].slot = slot /\ (s[j].layer # 0 => s[j].reqs = reqs)
  BY <1>1, <1>a, <1>2
<1>4. \A j \in DOMAIN s : s[j].layer # 0 => s[j].layer = j - d /\ j - d \in 1..n /\ s[j].done = TRUE
  BY <1>1, <1>a, <1>2, Zenon
<1>5. n + d \in DOMAIN s /\ s[n + d].layer = n /\ s[n + d].done = TRUE
  BY <1>1, <1>a
<1>6. \A j \in DOMAIN s : s[j].layer # 0 => n + d >= j /\ j >= j
  BY <1>1, <1>4
<1>7. ASSUME NEW i \in DOMAIN s, NEW j \in DOMAIN s, i < j, s[i].layer = s[j].layer, s[i].layer # 0
      PROVE  FALSE
  <2>1. i - d = j - d
    BY <1>4, <1>7, Zenon
  <2> QED
    BY <1>1, <1>7, <2>1
<1>8. Recorded(s)
  BY <1>4, <1>6, <1>7, Zenon DEF Recorded
<1> QED
  BY <1>0, <1>1, <1>3, <1>5, <1>6, <1>8, Zenon DEF Submitted

\* Both halves: the preload's copies, its record, then the layer-wise copies.
Whole(s, slot, reqs, m) ==
    /\ s \in Seq(Copies) /\ DOMAIN s = 1..(m + Layers)
    /\ \A k \in 1..Layers : /\ s[k].slot = slot /\ s[k].layer = k
                            /\ s[k].reqs = reqs /\ s[k].done = FALSE
    /\ s[m].slot = slot /\ s[m].layer = 0
    /\ \A k \in 1..Layers : /\ s[m + k].slot = slot /\ s[m + k].layer = k
                            /\ s[m + k].reqs = reqs /\ s[m + k].done = TRUE

\* So are copies of whole layers with the record at the end.
LEMMA WholeIs ==
  ASSUME NEW slot, NEW reqs, NEW s, NEW m, m = Layers + 1, Whole(s, slot, reqs, m)
  PROVE  Submitted(s, slot, reqs)
<1>0. PICK n : n = Layers
  BY Zenon
<1>1. /\ n \in Nat \ {0} /\ m \in Nat /\ m = n + 1 /\ s \in Seq(Copies) /\ DOMAIN s = 1..(m + n)
      /\ s[m].slot = slot /\ s[m].layer = 0
  BY <1>0, LayersAssumption DEF Whole
<1>a. \A k \in 1..n : /\ s[k].slot = slot /\ s[k].layer = k
                     /\ s[k].reqs = reqs /\ s[k].done = FALSE
  BY <1>0, Zenon DEF Whole
<1>b. \A k \in 1..n : /\ s[m + k].slot = slot /\ s[m + k].layer = k
                     /\ s[m + k].reqs = reqs /\ s[m + k].done = TRUE
  BY <1>0, Zenon DEF Whole
<1>2. \A j \in DOMAIN s : j \in 1..n \/ j = m \/ (j > m /\ j - m \in 1..n /\ m + (j - m) = j)
  <2>1. n \in Nat /\ m = n + 1 /\ DOMAIN s = 1..(m + n)
    BY <1>1, Zenon
  <2>2. ASSUME NEW j \in 1..(m + n)
        PROVE  j \in 1..n \/ j = m \/ (j > m /\ j - m \in 1..n /\ m + (j - m) = j)
    BY <2>1
  <2> QED
    BY <2>1, <2>2, Zenon
<1>3. \A j \in DOMAIN s : s[j].slot = slot /\ (s[j].layer # 0 => s[j].reqs = reqs)
  BY <1>1, <1>a, <1>b, <1>2
<1>4. \A j \in DOMAIN s : s[j].layer # 0 =>
         (j \in 1..n /\ s[j].layer = j /\ s[j].done = FALSE)
         \/ (j > m /\ s[j].layer = j - m /\ s[j].done = TRUE)
  BY <1>1, <1>a, <1>b, <1>2
<1>5. m + n \in DOMAIN s /\ s[m + n].layer = n /\ s[m + n].done = TRUE /\ \A j \in DOMAIN s : m + n >= j
  BY <1>1, <1>b
<1>6. ASSUME NEW j \in DOMAIN s, s[j].layer # 0
      PROVE  \E k \in DOMAIN s : k >= j /\ s[k].slot = s[j].slot /\ s[k].layer = s[j].layer /\ s[k].done
  <2>1. CASE j \in 1..n
    <3>1. m + j \in DOMAIN s /\ m + j >= j
      BY <1>1, <2>1
    <3>2. s[m + j].slot = s[j].slot /\ s[m + j].layer = s[j].layer /\ s[m + j].done = TRUE
      BY <1>3, <1>a, <1>b, <2>1, <3>1
    <3> QED
      BY <3>1, <3>2, Zenon
  <2>2. CASE j > m
    BY <1>1, <1>4, <1>6, <2>2
  <2> QED
    BY <1>4, <1>6, <2>1, <2>2, Zenon
<1>7. ASSUME NEW i \in DOMAIN s, NEW j \in DOMAIN s, i < j, s[i].layer = s[j].layer, s[i].layer # 0
      PROVE  ~ s[i].done
  <2>1. CASE i > m
    <3>1. i \in Int /\ j \in Int /\ j > m /\ ~ (i \in 1..n) /\ ~ (j \in 1..n)
      BY <1>1, <1>7, <2>1
    <3>2. s[i].layer = i - m /\ s[j].layer = j - m
      BY <1>4, <1>7, <3>1, Zenon
    <3>3. i - m = j - m
      BY <1>7, <3>2, Zenon
    <3>4. i = j
      BY <1>1, <3>1, <3>3
    <3> QED
      BY <1>7, <3>1, <3>4
  <2>2. CASE ~ (i > m)
    <3>1. s[i].done = FALSE
      BY <1>4, <1>7, <2>2, Zenon
    <3> QED
      BY <3>1, Zenon
  <2> QED
    BY <2>1, <2>2, Zenon
<1>8. Recorded(s)
  BY <1>6, <1>7, Zenon DEF Recorded
<1> QED
  BY <1>0, <1>1, <1>3, <1>5, <1>8, Zenon DEF Submitted

\* Whatever load mode is chosen, the stream gets the copies of every layer of
\* every request.
LEMMA SubmissionIs ==
  ASSUME NEW kind \in {"layer", "full", "both"}, NEW slot \in 0..(NumCounters - 1),
         NEW reqs \in SUBSET Requests
  PROVE  Submitted(Submission(kind, slot, reqs), slot, reqs)
<1>1. PICK n : n = Layers
  BY Zenon
<1>2. n \in Nat \ {0}
  BY <1>1, LayersAssumption, Zenon
<1>3. PICK a : a = LayerCopies(slot, reqs, FALSE)
  BY Zenon
<1>4. PICK b : b = LayerCopies(slot, reqs, TRUE)
  BY Zenon
<1>5. PICK p : p = PreloadRecord(slot)
  BY Zenon
<1>6. PICK s : s = Submission(kind, slot, reqs)
  BY Zenon
<1>7. /\ a \in Seq(Copies) /\ n = Len(a)
      /\ \A k \in 1..n : a[k].slot = slot /\ a[k].layer = k /\ a[k].reqs = reqs /\ a[k].done = FALSE
  <2>1. PICK d \in BOOLEAN : d = FALSE
    BY Zenon
  <2>2. a = LayerCopies(slot, reqs, d)
    BY <1>3, <2>1, Zenon
  <2>3. /\ a \in Seq(Copies) /\ Len(a) = Layers
        /\ \A k \in 1..Layers : a[k].slot = slot /\ a[k].layer = k /\ a[k].reqs = reqs /\ a[k].done = d
    BY <2>2, CopiesAre
  <2> QED
    BY <1>1, <2>1, <2>3, Zenon
<1>8. /\ b \in Seq(Copies)
      /\ \A k \in 1..n : b[k].slot = slot /\ b[k].layer = k /\ b[k].reqs = reqs /\ b[k].done = TRUE
      /\ n = Len(b)
  <2>1. PICK d \in BOOLEAN : d = TRUE
    BY Zenon
  <2>2. b = LayerCopies(slot, reqs, d)
    BY <1>4, <2>1, Zenon
  <2>3. /\ b \in Seq(Copies) /\ Len(b) = Layers
        /\ \A k \in 1..Layers : b[k].slot = slot /\ b[k].layer = k /\ b[k].reqs = reqs /\ b[k].done = d
    BY <2>2, CopiesAre
  <2> QED
    BY <1>1, <2>1, <2>3, Zenon
<1>9. p \in Seq(Copies) /\ 1 = Len(p) /\ p[1].slot = slot /\ p[1].layer = 0
  BY <1>5, PreloadIs, Zenon
<1>10. PICK w : w = 1
  BY Zenon
<1>11. w = Len(p)
  BY <1>9, <1>10, Zenon
<1>12. CASE kind = "full"
  <2>1. s = b \o p
    BY <1>4, <1>5, <1>6, <1>12, Zenon DEF Submission
  <2>2. /\ s \in Seq(Copies) /\ DOMAIN s = 1..(n + w) /\ \A k \in 1..n : s[k] = b[k]
        /\ \A k \in 1..w : s[n + k] = p[k]
    BY <1>8, <1>9, <1>11, <2>1, ConcatIs
  <2>3. s[n + 1] = p[1]
    BY <1>10, <2>2
  <2>4. \A k \in 1..n : k + 0 = k
    BY <1>2
  <2>5. Half(s, slot, reqs, 0)
    BY <1>1, <1>8, <1>9, <1>10, <2>2, <2>3, <2>4 DEF Half
  <2> QED
    BY <1>6, <2>5, HalfIs, Zenon
<1>13. CASE kind = "layer"
  <2>1. s = p \o b
    BY <1>4, <1>5, <1>6, <1>13, Zenon DEF Submission
  <2>2. /\ s \in Seq(Copies) /\ DOMAIN s = 1..(w + n) /\ \A k \in 1..w : s[k] = p[k]
        /\ \A k \in 1..n : s[w + k] = b[k]
    BY <1>8, <1>9, <1>11, <2>1, ConcatIs
  <2>3. s[1] = p[1] /\ DOMAIN s = 1..(n + 1)
    BY <1>2, <1>10, <2>2
  <2>4. \A k \in 1..n : s[k + 1] = b[k]
    BY <1>2, <1>10, <2>2
  <2>5. Half(s, slot, reqs, 1)
    BY <1>1, <1>8, <1>9, <2>2, <2>3, <2>4 DEF Half
  <2> QED
    BY <1>6, <2>5, HalfIs, Zenon
<1>14. CASE kind = "both"
  <2>1. PICK c : c = a \o p
    BY Zenon
  <2>2. PICK m : m = n + 1
    BY Zenon
  <2>3. s = c \o b
    BY <1>3, <1>4, <1>5, <1>6, <1>14, <2>1, Zenon DEF Submission
  <2>4. /\ c \in Seq(Copies) /\ DOMAIN c = 1..(n + w) /\ \A k \in 1..n : c[k] = a[k]
        /\ \A k \in 1..w : c[n + k] = p[k]
    BY <1>7, <1>9, <1>11, <2>1, ConcatIs
  <2>5. m = Len(c) /\ c[m] = p[1]
    BY <1>2, <1>10, <2>2, <2>4
  <2>6. /\ s \in Seq(Copies) /\ DOMAIN s = 1..(m + n) /\ \A k \in 1..m : s[k] = c[k]
        /\ \A k \in 1..n : s[m + k] = b[k]
    BY <1>8, <2>3, <2>4, <2>5, ConcatIs
  <2>7. s[m] = p[1] /\ \A k \in 1..n : s[k] = a[k]
    BY <1>2, <2>2, <2>4, <2>5, <2>6
  <2>8. Whole(s, slot, reqs, m)
    <3>1. /\ \A k \in 1..n : /\ s[k].slot = slot /\ s[k].layer = k
                            /\ s[k].reqs = reqs /\ s[k].done = FALSE
          /\ \A k \in 1..n : /\ s[m + k].slot = slot /\ s[m + k].layer = k
                            /\ s[m + k].reqs = reqs /\ s[m + k].done = TRUE
      BY <1>7, <1>8, <2>6, <2>7
    <3>2. s[m].slot = slot /\ s[m].layer = 0
      BY <1>9, <2>7, Zenon
    <3> QED
      BY <1>1, <2>6, <3>1, <3>2, Zenon DEF Whole
  <2> QED
    BY <1>1, <1>6, <2>2, <2>8, WholeIs, Zenon
<1> QED
  BY <1>12, <1>13, <1>14, Zenon

-------------------------------------------------------------------------------
(* In flight: loading, launching, computing and copying *)

\* No load of this slot is in flight.
Free(s, slot) == \A j \in DOMAIN s : s[j].layer # 0 => s[j].slot # slot

\* The copies of u are those of s and of one load.
Adds(u, s, slot, reqs) ==
    \A j \in DOMAIN u : u[j].layer # 0 =>
        (j \in DOMAIN s /\ u[j] = s[j]) \/ (u[j].slot = slot /\ u[j].reqs = reqs)

\* The stream after start_loading: its new copies are those of one load, and the
\* loads before it keep their records and their acknowledgements.
LEMMA SubmitLoad ==
  ASSUME NEW slot, NEW reqs, NEW s \in Seq(Copies), NEW t, Submitted(t, slot, reqs), NEW u, u = s \o t,
         NEW T, NEW a \in Seq(T), NEW c \in T, c.slot = slot, NEW b, b = Append(a, c),
         Covered(s, a), Recorded(s), Free(s, slot)
  PROVE  /\ u \in Seq(Copies) /\ Covered(u, b) /\ Recorded(u) /\ b \in Seq(T) /\ b # <<>>
         /\ Adds(u, s, slot, reqs)
<1>1. PICK m, n : m = Len(s) /\ n = Len(t)
  BY Zenon
<1>2. t \in Seq(Copies)
  BY Zenon DEF Submitted
<1>3. /\ u \in Seq(Copies) /\ DOMAIN u = 1..(m + n) /\ m \in Nat /\ n \in Nat
      /\ \A k \in 1..m : u[k] = s[k]
      /\ \A k \in 1..n : u[m + k] = t[k]
  BY <1>1, <1>2, ConcatIs
<1>4. DOMAIN s = 1..m /\ DOMAIN t = 1..n
  BY <1>1, <1>2
<1>5. \A k \in DOMAIN s : k \in DOMAIN u /\ u[k] = s[k]
  BY <1>3, <1>4
<1>6. \A k \in DOMAIN t : m + k \in DOMAIN u /\ u[m + k] = t[k]
  BY <1>3, <1>4
<1>7. \A j \in DOMAIN u : j \in DOMAIN s \/ \E k \in DOMAIN t : j = m + k
  <2> SUFFICES ASSUME NEW j \in 1..(m + n), j \notin 1..m PROVE \E k \in 1..n : j = m + k
    BY <1>3, <1>4, Zenon
  <2>1. j - m \in 1..n /\ j = m + (j - m)
    BY <1>3
  <2> QED
    BY <2>1, Zenon
<1>8. \A i \in DOMAIN s, k \in DOMAIN t : ~ (m + k < i)
  BY <1>3, <1>4
<1>9. \A i, k \in DOMAIN t : (m + i < m + k => i < k) /\ (k >= i => m + k >= m + i)
  BY <1>3, <1>4
<1>10. /\ \A j \in DOMAIN t : t[j].slot = slot /\ (t[j].layer # 0 => t[j].reqs = reqs)
       /\ \A j \in DOMAIN t : t[j].layer # 0 =>
            \E k \in DOMAIN t : k >= j /\ t[k].layer = Layers /\ t[k].done
       /\ Recorded(t)
  BY Zenon DEF Submitted
<1>11. \A j \in DOMAIN u : u[j].layer # 0 =>
              (j \in DOMAIN s /\ u[j] = s[j]) \/ (u[j].slot = slot /\ u[j].reqs = reqs)
  <2> SUFFICES ASSUME NEW j \in DOMAIN u, u[j].layer # 0
               PROVE  (j \in DOMAIN s /\ u[j] = s[j]) \/ (u[j].slot = slot /\ u[j].reqs = reqs)
    BY Zenon
  <2>1. ASSUME NEW k \in DOMAIN t, j = m + k
        PROVE  u[j].slot = slot /\ u[j].reqs = reqs
    <3>1. u[j] = t[k]
      BY <1>6, <2>1, Zenon
    <3> QED
      BY <1>10, <3>1, Zenon
  <2> QED
    BY <1>5, <1>7, <2>1, Zenon
<1>12. /\ b \in Seq(T) /\ b # <<>> /\ Len(a) + 1 \in DOMAIN b /\ b[Len(a) + 1] = c
       /\ \A i \in DOMAIN a : i \in DOMAIN b /\ b[i] = a[i]
  OBVIOUS
<1>13. ASSUME NEW j \in DOMAIN u, u[j].layer # 0
       PROVE  /\ \E k \in DOMAIN u : k >= j /\ u[k].slot = u[j].slot /\ u[k].layer = Layers /\ u[k].done
              /\ \E i \in DOMAIN b : b[i].slot = u[j].slot
              /\ \E k \in DOMAIN u : k >= j /\ u[k].slot = u[j].slot /\ u[k].layer = u[j].layer /\ u[k].done
  <2>1. CASE j \in DOMAIN s
    <3>1. u[j] = s[j] /\ s[j].layer # 0
      BY <1>5, <1>13, <2>1, Zenon
    <3>2. PICK k \in DOMAIN s : k >= j /\ s[k].slot = s[j].slot /\ s[k].layer = Layers /\ s[k].done
      BY <2>1, <3>1, Zenon DEF Covered
    <3>3. PICK i \in DOMAIN a : a[i].slot = s[j].slot
      BY <2>1, <3>1, Zenon DEF Covered
    <3>4. PICK l \in DOMAIN s : l >= j /\ s[l].slot = s[j].slot /\ s[l].layer = s[j].layer /\ s[l].done
      BY <2>1, <3>1, Zenon DEF Recorded
    <3>5. k \in DOMAIN u /\ u[k] = s[k] /\ l \in DOMAIN u /\ u[l] = s[l]
      BY <1>5, Zenon
    <3>6. i \in DOMAIN b /\ b[i] = a[i]
      BY <1>12, Zenon
    <3>7. /\ k >= j /\ u[k].slot = u[j].slot /\ u[k].layer = Layers /\ u[k].done
          /\ b[i].slot = u[j].slot
          /\ l >= j /\ u[l].slot = u[j].slot /\ u[l].layer = u[j].layer /\ u[l].done
      BY <3>1, <3>2, <3>3, <3>4, <3>5, <3>6, Zenon
    <3> QED
      BY <3>5, <3>6, <3>7, Zenon
  <2>2. ASSUME NEW q \in DOMAIN t, j = m + q
        PROVE  /\ \E k \in DOMAIN u : k >= j /\ u[k].slot = u[j].slot /\ u[k].layer = Layers /\ u[k].done
               /\ \E i \in DOMAIN b : b[i].slot = u[j].slot
               /\ \E k \in DOMAIN u : k >= j /\ u[k].slot = u[j].slot /\ u[k].layer = u[j].layer /\ u[k].done
    <3>1. u[j] = t[q] /\ t[q].layer # 0 /\ t[q].slot = slot
      BY <1>6, <1>10, <1>13, <2>2, Zenon
    <3>2. PICK k \in DOMAIN t : k >= q /\ t[k].layer = Layers /\ t[k].done
      BY <1>10, <3>1, Zenon
    <3>3. PICK l \in DOMAIN t : l >= q /\ t[l].slot = t[q].slot /\ t[l].layer = t[q].layer /\ t[l].done
      BY <1>10, <3>1, Zenon DEF Recorded
    <3>4. m + k \in DOMAIN u /\ m + k >= j /\ u[m + k] = t[k] /\ t[k].slot = t[q].slot
      BY <1>6, <1>9, <1>10, <2>2, <3>2, <3>1, Zenon
    <3>5. m + l \in DOMAIN u /\ m + l >= j /\ u[m + l] = t[l]
      BY <1>6, <1>9, <2>2, <3>3, Zenon
    <3>6. \E i \in DOMAIN b : b[i].slot = u[j].slot
      BY <1>12, <3>1, Zenon
    <3>7. \E i \in DOMAIN u : i >= j /\ u[i].slot = u[j].slot /\ u[i].layer = Layers /\ u[i].done
      BY <3>1, <3>2, <3>4, Zenon
    <3>8. \E i \in DOMAIN u : i >= j /\ u[i].slot = u[j].slot /\ u[i].layer = u[j].layer /\ u[i].done
      BY <3>1, <3>3, <3>5, Zenon
    <3> QED
      BY <3>6, <3>7, <3>8, Zenon
  <2> QED
    BY <1>7, <2>1, <2>2, Zenon
<1>14. Covered(u, b)
  BY <1>13, Zenon DEF Covered
<1>15. ASSUME NEW i \in DOMAIN u, NEW j \in DOMAIN u, i < j, u[i].slot = u[j].slot,
              u[i].layer = u[j].layer, u[i].layer # 0
       PROVE  ~ u[i].done
  <2>1. CASE i \in DOMAIN s /\ j \in DOMAIN s
    BY <1>5, <1>15, <2>1, Zenon DEF Recorded
  <2>2. ASSUME NEW q \in DOMAIN t, i = m + q, j \in DOMAIN s
        PROVE  FALSE
    BY <1>8, <1>15, <2>2, Zenon
  <2>3. ASSUME i \in DOMAIN s, NEW q \in DOMAIN t, j = m + q
        PROVE  FALSE
    <3>1. u[i] = s[i] /\ u[j].slot = slot
      BY <1>5, <1>6, <1>10, <2>3, Zenon
    <3> QED
      BY <1>15, <2>3, <3>1, Zenon DEF Free
  <2>4. ASSUME NEW p \in DOMAIN t, i = m + p, NEW q \in DOMAIN t, j = m + q
        PROVE  ~ u[i].done
    <3>1. u[i] = t[p] /\ u[j] = t[q] /\ p < q
      BY <1>6, <1>9, <1>15, <2>4, Zenon
    <3>2. t[p].slot = t[q].slot /\ t[p].layer = t[q].layer /\ t[p].layer # 0
      BY <1>15, <3>1, Zenon
    <3>3. ~ t[p].done
      BY <1>10, <3>1, <3>2, Zenon DEF Recorded
    <3> QED
      BY <3>1, <3>3, Zenon
  <2> QED
    BY <1>7, <2>1, <2>2, <2>3, <2>4, Zenon
<1>16. Recorded(u)
  BY <1>13, <1>15, Zenon DEF Recorded
<1> QED
  BY <1>3, <1>11, <1>12, <1>14, <1>16, Zenon DEF Adds

\* start_loading takes another slot than the load before it, whose result may
\* not have been processed; the loads before that have been.
LEMMA NextIsFree ==
  ASSUME PlaceInv, FlightInv, ctl = "load"
  PROVE  NextSlot \in 0..(NumCounters - 1) /\ NextSlot # producer /\ Free(stream, NextSlot)
<1>1. StreamInv /\ ProducerInv
  BY Zenon DEF FlightInv
<1>2. NextSlot \in 0..(NumCounters - 1) /\ NextSlot # producer
  BY <1>1 DEF NextSlot, NumCounters, StreamInv
<1>3. pending.idx = -1
  BY NoBatchIs, Zenon DEF PlaceInv, Control
<1>4. ASSUME NEW j \in DOMAIN stream, stream[j].layer # 0
      PROVE  stream[j].slot = producer
  <2>1. Owner(stream[j])
    BY <1>1, <1>4, Zenon DEF StreamInv, Owned
  <2>2. stream \in Seq(Copies)
    BY <1>1, Zenon DEF StreamInv
  <2>3. stream[j] \in Copies
    BY <2>2
  <2>4. stream[j].slot \in 0..(NumCounters - 1)
    BY <2>3, Zenon DEF Copies
  <2>5. pending.idx # stream[j].slot
    BY <1>3, <2>4 DEF NumCounters
  <2>6. PICK i \in DOMAIN results : results[i].mode = "extend" /\ results[i].idx = stream[j].slot
    BY <2>1, <2>5, Zenon DEF Owner
  <2>7. results[i].idx >= 0
    BY <2>4, <2>6 DEF NumCounters
  <2> QED
    BY <1>1, <2>6, <2>7, Zenon DEF ProducerInv
<1> QED
  BY <1>2, <1>4, Zenon DEF Free

\* start_loading: the producer's slot covers the batch's pages.
LEMMA LoadBatchFlight ==
  ASSUME PlaceInv, FlightInv, LoadBatch, UNCHANGED overlap
  PROVE  FlightInv'
<1>1. QueueInv /\ BornInv /\ PassInv /\ ProducerInv /\ AsideInv /\ StreamInv
  BY Zenon DEF FlightInv
<1>2. /\ ctl = "load" /\ ctl' = "choose" /\ StartLoading(batch.kind, batch.reqs)
      /\ batch' = [batch EXCEPT !.idx = NextSlot]
      /\ UNCHANGED <<waiting, finished, retracted, retracts, running, last, pending, results, overlap>>
  BY Zenon DEF LoadBatch, requestVars
<1>3. /\ pending = NoBatch /\ NoBatch.idx = -1 /\ NoBatch.reqs = {} /\ batch.mode = "extend"
      /\ batch.kind \in {"layer", "full", "both"} /\ batch.reqs \in SUBSET Requests
      /\ batch \in [mode : {"none", "decode", "extend"}, reqs : SUBSET Requests, idx : Int, kind : LoadKinds]
  BY <1>2, NoBatchIs, Zenon DEF PlaceInv, Control, BatchShape, IsBatch
<1>4. PICK slot, reqs, kind : slot = NextSlot /\ reqs = batch.reqs /\ kind = batch.kind
  BY Zenon
<1>5. slot \in 0..(NumCounters - 1) /\ slot # producer
  BY <1>2, <1>4, NextIsFree, Zenon
<1>6. /\ batch'.idx = slot /\ batch'.reqs = reqs /\ batch'.mode = "extend" /\ batch'.kind = kind
      /\ batch # NoBatch /\ batch' # NoBatch
  BY <1>2, <1>3, <1>4, NoBatchIs, Zenon
<1>7. /\ producer' = slot /\ stream' = stream \o Submission(kind, slot, reqs)
      /\ acks' = Append(acks, [slot |-> slot, reqs |-> reqs])
  BY <1>2, <1>4, Zenon DEF StartLoading
<1>8. PICK t : t = Submission(kind, slot, reqs)
  BY Zenon
<1>9. Submitted(t, slot, reqs)
  <2>1. kind \in {"layer", "full", "both"} /\ reqs \in SUBSET Requests
    BY <1>3, <1>4, Zenon
  <2>2. Submitted(Submission(kind, slot, reqs), slot, reqs)
    BY <1>5, <2>1, SubmissionIs, Zenon
  <2> QED
    BY <1>8, <2>2, Zenon
<1>10. Free(stream, slot)
  BY <1>2, <1>4, NextIsFree, Zenon
<1> DEFINE Acks == [slot : 0..(NumCounters - 1), reqs : SUBSET Requests]
<1>11. PICK c : c = [slot |-> slot, reqs |-> reqs]
  BY Zenon
<1>12. c \in Acks /\ c.slot = slot
  BY <1>3, <1>4, <1>5, <1>11, Zenon
<1>13. stream \in Seq(Copies) /\ acks \in Seq(Acks) /\ Covered(stream, acks) /\ Recorded(stream) /\ Owned
  BY <1>1, Zenon DEF StreamInv
<1> HIDE DEF Acks
<1>14. PICK u, b : u = stream' /\ b = acks' /\ u = stream \o t /\ b = Append(acks, c)
  BY <1>7, <1>8, <1>11, Zenon
<1>15. /\ u \in Seq(Copies) /\ Covered(u, b) /\ Recorded(u) /\ b \in Seq(Acks) /\ b # <<>>
       /\ Adds(u, stream, slot, reqs)
  BY <1>9, <1>10, <1>12, <1>13, <1>14, SubmitLoad, Zenon
<1>16. Unlaunched' = Unlaunched
  BY <1>2, <1>4, <1>6, Zenon DEF Unlaunched
<1>17. Owed' = Owed
  BY <1>2 DEF Owed
<1>18. QueueInv'
  <2>1. \A x \in {last, pending, batch}' : x.mode # "extend" => x \in {NoBatch, Decode}
    BY <1>1, <1>2, <1>6, Zenon DEF QueueInv
  <2> QED
    BY <1>1, <1>2, <1>16, <1>17, <2>1, Zenon DEF QueueInv
<1>19. BornInv' /\ PassInv'
  BY <1>1, <1>2, PassSame, Zenon
<1>20. ProducerInv' /\ AsideInv'
  BY <1>1, <1>2, <1>3, <1>6, <1>7, <1>14, <1>15 DEF ProducerInv, AsideInv
<1>21. Owned'
  <2> SUFFICES ASSUME NEW j \in DOMAIN u, u[j].layer # 0
               PROVE  Owner(u[j])'
    BY <1>14, Zenon DEF Owned
  <2>1. CASE u[j].slot = slot /\ u[j].reqs = reqs
    BY <1>2, <1>6, <2>1, Zenon DEF Owner
  <2>2. CASE j \in DOMAIN stream /\ u[j] = stream[j]
    <3>1. Owner(u[j])
      BY <1>13, <2>2, Zenon DEF Owned
    <3> QED
      BY <1>2, <3>1, Zenon DEF Owner
  <2> QED
    BY <1>15, <2>1, <2>2, Zenon DEF Adds
<1>22. StreamInv'
  <2>1. producer' \in -1..(NumCounters - 1)
    BY <1>5, <1>7 DEF NumCounters
  <2> QED
    BY <1>14, <1>15, <1>21, <2>1, Zenon DEF StreamInv, Acks
<1> QED
  BY <1>18, <1>19, <1>20, <1>22, Zenon DEF FlightInv
-------------------------------------------------------------------------------
(* Flights: the batch that runs *)

\* get_next_batch_to_run puts a prefill batch aside only while its load is not
\* acknowledged; a request it retracts is marked, for results that name it.
LEMMA ChooseFlight ==
  ASSUME PlaceInv, FlightInv, ctl = "choose", ctl' = "launch",
         \/ pending' = NoBatch /\ batch' = batch
         \/ pending' = batch /\ batch' = Decode /\ (batch = NoBatch \/ batch.idx >= 0),
         NEW lost, waiting' \cap finished = {}, retracted' = retracted \cup lost,
         \A r \in Requests \ lost : retracts'[r] = retracts[r],
         UNCHANGED <<finished, last, results, overlap, producer, stream, acks>>
  PROVE  FlightInv'
<1>1. QueueInv /\ BornInv /\ PassInv /\ ProducerInv /\ AsideInv /\ StreamInv
  BY Zenon DEF FlightInv
<1>2. /\ pending = NoBatch \/ batch = pending
      /\ NoBatch.reqs = {} /\ NoBatch.idx = -1 /\ Decode.reqs = {} /\ Decode.idx = -1
  BY NoBatchIs, Zenon DEF PlaceInv, Control, Decode
<1>3. Unlaunched = batch.reqs /\ Unlaunched' = batch.reqs
  BY <1>2, Zenon DEF Unlaunched
<1>4. Owed' = Owed
  BY Zenon DEF Owed
<1>5. QueueInv'
  <2>1. \A b \in {last, pending, batch}' : b.mode # "extend" => b \in {NoBatch, Decode}
    BY <1>1, Zenon DEF QueueInv
  <2>2. Unlaunched' = Unlaunched /\ ctl' \in {"launch", "result"} /\ ctl' # "result"
    BY <1>3, Zenon
  <2> QED
    BY <1>1, <1>4, <2>1, <2>2, Zenon DEF QueueInv
<1>6. BornInv'
  <2> SUFFICES ASSUME NEW i \in DOMAIN results, NEW r \in results[i].reqs
               PROVE  results[i].born[r] = retracts'[r] \/ (overlap /\ r \in finished \cup retracted')
    BY Zenon DEF BornInv
  <2>1. results[i].born[r] = retracts[r] \/ (overlap /\ r \in finished \cup retracted)
    BY <1>1, Zenon DEF BornInv
  <2>2. results \in Seq(Passes) /\ (~ overlap => results = <<>>)
    BY Zenon DEF PlaceInv, BatchShape, ResultInv
  <2>3. overlap /\ results[i] \in Passes
    BY <2>2
  <2>4. r \in Requests
    BY <2>3, Zenon DEF Passes
  <2> QED
    BY <2>1, <2>3, <2>4, Zenon
<1>7. PassInv'
  BY <1>1, Zenon DEF PassInv
<1>8. ProducerInv'
  <2>1. batch.idx >= 0 => batch.idx = producer
    BY <1>1, Zenon DEF ProducerInv
  <2> QED
    BY <1>2, <2>1 DEF ProducerInv
<1>9. AsideInv'
  BY <1>1, Zenon DEF AsideInv
<1>10. Owned'
  <2> SUFFICES ASSUME NEW j \in DOMAIN stream, stream[j].layer # 0
               PROVE  Owner(stream[j])'
    BY Zenon DEF Owned
  <2>1. Owner(stream[j])
    BY <1>1, Zenon DEF StreamInv, Owned
  <2>2. stream \in Seq(Copies)
    BY <1>1, Zenon DEF StreamInv
  <2>3. stream[j] \in Copies
    BY <2>2
  <2>4. stream[j].slot # -1
    BY <2>3 DEF Copies
  <2>5. CASE pending.idx = stream[j].slot /\ pending.reqs = stream[j].reqs
    <3>1. batch.idx = stream[j].slot /\ batch.reqs = stream[j].reqs
      BY <1>2, <2>4, <2>5, Zenon
    <3> QED
      BY <3>1, Zenon DEF Owner
  <2>6. CASE batch.idx = stream[j].slot /\ batch.reqs = stream[j].reqs
    BY <2>6, Zenon DEF Owner
  <2> QED
    BY <2>1, <2>5, <2>6, Zenon DEF Owner
<1>11. StreamInv'
  BY <1>1, <1>10, StreamSame, Zenon
<1> QED
  BY <1>5, <1>6, <1>7, <1>8, <1>9, <1>11, Zenon DEF FlightInv

\* Choosing a batch keeps what is in flight.
LEMMA ChooseBatchFlight ==
  ASSUME PlaceInv, FlightInv, ChooseBatch, UNCHANGED overlap
  PROVE  FlightInv'
<1>1. /\ ctl = "choose" /\ ctl' = "launch"
      /\ UNCHANGED <<finished, last, results, overlap, producer, stream, acks>>
  BY Zenon DEF ChooseBatch, loadVars
<1>2. waiting \cap finished = {}
  BY Zenon DEF FlightInv, QueueInv
<1>3. CASE (batch = NoBatch \/ ShouldFill) /\ running.reqs # {}
  <2>1. /\ pending' = IF running'.reqs = {} THEN NoBatch ELSE batch
        /\ batch' = IF running'.reqs = {} THEN batch ELSE Decode
    BY <1>3, Zenon DEF ChooseBatch
  <2>2. PICK retract, oom \in SUBSET Requests : UpdateRunning(retract, oom)
    BY <1>3, Zenon DEF ChooseBatch
  <2>3. PICK lost : lost = retract \cup oom
    BY Zenon
  <2>4. /\ retract \subseteq running.reqs \ finished /\ waiting' = waiting \cup retract
        /\ retracted' = retracted \cup lost
        /\ retracts' = [r \in Requests |-> IF r \in lost THEN retracts[r] + 1 ELSE retracts[r]]
    BY <2>2, <2>3, Zenon DEF UpdateRunning, Unfinished
  <2>5. \A r \in Requests \ lost : retracts'[r] = retracts[r]
    BY <2>4, Zenon
  <2>6. waiting' \cap finished = {}
    BY <1>2, <2>4, Zenon
  <2>7. batch = NoBatch \/ batch.idx >= 0
    BY <1>3, Zenon DEF ShouldFill
  <2> QED
    BY <1>1, <2>1, <2>4, <2>5, <2>6, <2>7, ChooseFlight, Zenon
<1>4. CASE ~ ((batch = NoBatch \/ ShouldFill) /\ running.reqs # {})
  <2>1. pending' = NoBatch /\ UNCHANGED <<batch, waiting, retracted, retracts>>
    BY <1>4, Zenon DEF ChooseBatch
  <2>2. PICK lost : lost = {}
    BY Zenon
  <2>3. /\ waiting' \cap finished = {} /\ retracted' = retracted \cup lost
        /\ \A r \in Requests \ lost : retracts'[r] = retracts[r]
    BY <1>2, <2>1, <2>2, Zenon
  <2> QED
    BY <1>1, <2>1, <2>3, ChooseFlight, Zenon
<1> QED
  BY <1>3, <1>4, Zenon
\* What run_batch launches: a prefill waits for every layer of its load that is
\* still to be recorded, and its requests are the batch's.
LEMMA LaunchedWaits ==
  ASSUME BatchShape, RequestShape, NEW eager, NEW p, p = Launched(eager)
  PROVE  /\ p.mode = batch.mode /\ p.layer = 1 /\ p.waits \subseteq 1..Layers
         /\ p.reqs = (IF batch.mode = "decode" THEN running.reqs ELSE batch.reqs)
         /\ \A r \in p.reqs : p.born[r] = retracts[r]
         /\ batch.mode # "decode" => p.idx = batch.idx
         /\ batch.mode # "decode" /\ eager => p.waits = AwaitedLayers(batch.idx)
<1>1. PICK reqs : reqs = IF batch.mode = "decode" THEN running.reqs ELSE batch.reqs
  BY Zenon
<1>2. PICK idx : idx = IF batch.mode = "decode" THEN running.idx ELSE batch.idx
  BY Zenon
<1>3. PICK waits : waits = IF eager THEN AwaitedLayers(idx) ELSE {}
  BY Zenon
<1>4. PICK born : born = [r \in reqs |-> retracts[r]]
  BY Zenon
<1>5. p = [mode |-> batch.mode, reqs |-> reqs, idx |-> idx, layer |-> 1,
           waits |-> waits, born |-> born]
  BY <1>1, <1>2, <1>3, <1>4, Zenon DEF Launched
<1>6. /\ p.mode = batch.mode /\ p.layer = 1 /\ p.waits = waits /\ p.reqs = reqs
      /\ p.born = born /\ p.idx = idx
  BY <1>5
<1>7. waits \subseteq 1..Layers
  BY <1>3, Zenon DEF AwaitedLayers
<1>8. \A r \in reqs : born[r] = retracts[r]
  BY <1>4, Zenon
<1> QED
  BY <1>1, <1>2, <1>3, <1>6, <1>7, <1>8, Zenon

\* A layer whose copy is in the stream is awaited by a pass launched now.
LEMMA AwaitedIs ==
  ASSUME StreamInv, NEW j \in DOMAIN stream, stream[j].layer # 0
  PROVE  stream[j].layer \in AwaitedLayers(stream[j].slot)
<1>1. stream \in Seq(Copies) /\ Recorded(stream)
  BY Zenon DEF StreamInv
<1>2. stream[j] \in Copies
  BY <1>1
<1>3. stream[j].layer \in 1..Layers /\ stream[j].slot >= 0
  BY <1>2, LayersAssumption DEF Copies
<1>4. PICK k \in DOMAIN stream : stream[k].slot = stream[j].slot /\ stream[k].layer = stream[j].layer /\ stream[k].done
  BY <1>1, Zenon DEF Recorded
<1>5. ~ Ready(stream[j].slot, stream[j].layer)
  BY <1>4, Zenon DEF Ready
<1> QED
  BY <1>3, <1>5, Zenon DEF AwaitedLayers

\* A launched pass waits for its batch's slot.
LEMMA LaunchFlight ==
  ASSUME PlaceInv, FlightInv, Launch, UNCHANGED overlap
  PROVE  FlightInv'
<1>1. QueueInv /\ BornInv /\ PassInv /\ ProducerInv /\ AsideInv /\ StreamInv
  BY Zenon DEF FlightInv
<1>2. /\ ctl = "launch" /\ ctl' = "result"
      /\ UNCHANGED <<waiting, finished, retracted, retracts, running, last, pending, batch, overlap,
                     producer, stream, acks>>
  BY Zenon DEF Launch, requestVars, batchVars, loadVars
<1>3. /\ pending = NoBatch \/ batch = Decode
      /\ NoBatch.reqs = {} /\ NoBatch.idx = -1 /\ NoBatch.mode = "none"
      /\ Decode.reqs = {} /\ Decode.idx = -1 /\ Decode.mode = "decode"
  BY <1>2, NoBatchIs, Zenon DEF PlaceInv, Control, Decode
<1>4. Unlaunched = pending.reqs \cup batch.reqs /\ Unlaunched' = pending.reqs
  BY <1>2, Zenon DEF Unlaunched
<1>5. results \in Seq(Passes) /\ BatchShape /\ RequestShape /\ Apart
  BY Zenon DEF PlaceInv, BatchShape
<1>6. waiting' \cap finished' = {} /\ Unlaunched' \cap finished' = {}
  BY <1>1, <1>2, <1>4, Zenon DEF QueueInv
<1>7. \A b \in {last, pending, batch}' : b.mode # "extend" => b \in {NoBatch, Decode}
  BY <1>1, <1>2, Zenon DEF QueueInv
<1>8. AsideInv'
  BY <1>1, <1>2, Zenon DEF AsideInv
<1>9. \A i \in DOMAIN results : results[i].reqs \cap pending.reqs = {} /\ results[i].reqs \cap batch.reqs = {}
  BY <1>1, <1>4, Zenon DEF QueueInv
<1>10. \A j \in DOMAIN stream : stream[j].slot # -1
  <2>1. stream \in Seq(Copies)
    BY <1>1, Zenon DEF StreamInv
  <2>2. \A j \in DOMAIN stream : stream[j] \in Copies
    BY <2>1
  <2> QED
    BY <2>2 DEF Copies
<1>11. CASE batch = NoBatch
  <2>1. results' = results
    BY <1>11, Zenon DEF Launch
  <2>2. Owed' = Owed
    BY <1>2, <1>11 DEF Owed
  <2>3. QueueInv'
    BY <1>1, <1>2, <1>4, <1>6, <1>7, <1>9, <1>11, <2>1, <2>2, Zenon DEF QueueInv
  <2>4. BornInv' /\ PassInv'
    BY <1>1, <1>2, <2>1, PassSame, Zenon
  <2>5. ProducerInv'
    BY <1>1, <1>2, <1>11, <2>1, Zenon DEF ProducerInv
  <2>6. Owned'
    <3> SUFFICES ASSUME NEW j \in DOMAIN stream, stream[j].layer # 0
                 PROVE  Owner(stream[j])'
      BY <1>2, Zenon DEF Owned
    <3>1. Owner(stream[j])
      BY <1>1, Zenon DEF StreamInv, Owned
    <3>2. batch.idx # stream[j].slot
      BY <1>3, <1>10, <1>11, Zenon
    <3> QED
      BY <1>2, <2>1, <3>1, <3>2, Zenon DEF Owner
  <2>7. StreamInv'
    BY <1>1, <1>2, <2>6, StreamSame, Zenon
  <2> QED
    BY <1>8, <2>3, <2>4, <2>5, <2>7, Zenon DEF FlightInv
<1>12. CASE batch # NoBatch
  <2>1. PICK eager \in {TRUE} \cup {batch.mode # "decode"} : results' = Append(results, Launched(eager))
    BY <1>12, Zenon DEF Launch
  <2>2. PICK p : p = Launched(eager)
    BY Zenon
  <2>3. p \in Passes
    BY <1>5, <2>2, LaunchedIs, Zenon
  <2>4. /\ p.mode = batch.mode /\ p.layer = 1 /\ p.waits \subseteq 1..Layers
        /\ p.reqs = (IF batch.mode = "decode" THEN running.reqs ELSE batch.reqs)
        /\ \A r \in p.reqs : p.born[r] = retracts[r]
        /\ batch.mode # "decode" => p.idx = batch.idx
        /\ batch.mode # "decode" /\ eager => p.waits = AwaitedLayers(batch.idx)
    BY <1>5, <2>2, LaunchedWaits
  <2>5. batch.mode = "extend" => eager
    BY <2>1, Zenon
  <2>6. batch = Decode \/ (batch.mode = "extend" /\ pending = NoBatch)
    BY <1>1, <1>3, <1>12, Zenon DEF QueueInv
  <2>7. PICK n : n = Len(results)
    BY Zenon
  <2>8. /\ results' \in Seq(Passes) /\ n \in Nat /\ Len(results') = n + 1 /\ DOMAIN results' = 1..(n + 1)
        /\ DOMAIN results = 1..n /\ results'[n + 1] = p
        /\ \A i \in 1..n : results'[i] = results[i]
    BY <1>5, <2>1, <2>2, <2>3, <2>7
  <2>9. \A i \in DOMAIN results' : (i \in DOMAIN results /\ results'[i] = results[i]) \/ (i = n + 1 /\ results'[i] = p)
    BY <2>8
  <2>10. \A i \in DOMAIN results : i \in DOMAIN results' /\ results'[i] = results[i]
    BY <2>8
  <2>11. p.reqs \cap pending.reqs = {}
    <3> SUFFICES ASSUME NEW r \in p.reqs, r \in pending.reqs PROVE FALSE
      BY Zenon
    <3>1. batch = Decode /\ r \in running.reqs
      BY <1>3, <2>4, <2>6, Zenon
    <3>2. r \notin finished /\ r \in Requests
      BY <1>1, <1>4, <1>5, Zenon DEF QueueInv, BatchShape, IsBatch
    <3> QED
      BY <1>5, <3>1, <3>2, Zenon DEF Apart
  <2>12. QueueInv'
    <3>1. Owed' = Owed + 1
      BY <1>2, <1>12 DEF Owed
    <3>2. Len(results') = Owed'
      BY <1>1, <2>7, <2>8, <3>1, Zenon DEF QueueInv
    <3>3. results'[Len(results')].reqs \subseteq running'.reqs \cup batch'.reqs
      BY <1>2, <2>4, <2>8, Zenon
    <3>4. \A i \in DOMAIN results' : results'[i].reqs \cap Unlaunched' = {}
      BY <1>4, <1>9, <2>9, <2>11, Zenon
    <3>5. ASSUME NEW i \in DOMAIN results', NEW j \in DOMAIN results', i < j, results'[j].mode = "extend"
          PROVE  results'[i].reqs \cap results'[j].reqs = {}
      <4>1. CASE j \in DOMAIN results /\ results'[j] = results[j]
        <5>1. i \in DOMAIN results /\ results'[i] = results[i]
          BY <2>8, <3>5, <4>1
        <5> QED
          BY <1>1, <3>5, <4>1, <5>1, Zenon DEF QueueInv
      <4>2. CASE j = n + 1 /\ results'[j] = p
        <5>1. i \in DOMAIN results /\ results'[i] = results[i]
          BY <2>8, <3>5, <4>2
        <5>2. p.reqs = batch.reqs
          BY <2>4, <3>5, <4>2, Zenon
        <5> QED
          BY <1>9, <4>2, <5>1, <5>2, Zenon
      <4> QED
        BY <2>9, <4>1, <4>2, Zenon
    <3> QED
      BY <1>2, <1>6, <1>7, <3>2, <3>3, <3>4, <3>5, Zenon DEF QueueInv
  <2>13. BornInv'
    <3> SUFFICES ASSUME NEW i \in DOMAIN results', NEW r \in results'[i].reqs
                 PROVE  results'[i].born[r] = retracts[r] \/ (overlap /\ r \in finished \cup retracted)
      BY <1>2 DEF BornInv
    <3>1. CASE i \in DOMAIN results /\ results'[i] = results[i]
      BY <1>1, <3>1, Zenon DEF BornInv
    <3>2. CASE results'[i] = p
      BY <2>4, <3>2, Zenon
    <3> QED
      BY <2>9, <3>1, <3>2, Zenon
  <2>14. PassInv'
    <3>1. ASSUME NEW i \in DOMAIN results' PROVE results'[i].waits \subseteq results'[i].layer..Layers
      <4>1. CASE i \in DOMAIN results /\ results'[i] = results[i]
        BY <1>1, <4>1, Zenon DEF PassInv
      <4>2. CASE results'[i] = p
        BY <2>4, <4>2, Zenon
      <4> QED
        BY <2>9, <4>1, <4>2, Zenon
    <3>2. ASSUME NEW i \in DOMAIN results', NEW j \in DOMAIN results', i < j, results'[i].layer <= Layers
          PROVE  results'[j].layer = 1
      <4>1. CASE j \in DOMAIN results /\ results'[j] = results[j]
        <5>1. i \in DOMAIN results /\ results'[i] = results[i]
          BY <2>8, <3>2, <4>1
        <5> QED
          BY <1>1, <3>2, <4>1, <5>1, Zenon DEF PassInv
      <4>2. CASE results'[j] = p
        BY <2>4, <4>2, Zenon
      <4> QED
        BY <2>9, <4>1, <4>2, Zenon
    <3> QED
      BY <3>1, <3>2, Zenon DEF PassInv
  <2>15. ProducerInv'
    <3>1. ASSUME NEW i \in DOMAIN results', results'[i].mode = "extend", results'[i].idx >= 0,
                 i = Len(results')
          PROVE  results'[i].idx = producer
      <4>1. results'[i] = p
        BY <2>8, <3>1, Zenon
      <4>2. p.idx = batch.idx
        BY <2>4, <3>1, <4>1, Zenon
      <4> QED
        BY <1>1, <1>2, <3>1, <4>1, <4>2, Zenon DEF ProducerInv
    <3> QED
      BY <1>1, <1>2, <3>1, Zenon DEF ProducerInv
  <2>16. Owned'
    <3> SUFFICES ASSUME NEW j \in DOMAIN stream, stream[j].layer # 0
                 PROVE  Owner(stream[j])'
      BY <1>2, Zenon DEF Owned
    <3>1. Owner(stream[j])
      BY <1>1, Zenon DEF StreamInv, Owned
    <3>2. CASE pending.idx = stream[j].slot /\ pending.reqs = stream[j].reqs
      BY <1>2, <3>2, Zenon DEF Owner
    <3>3. CASE batch.idx = stream[j].slot /\ batch.reqs = stream[j].reqs
      <4>1. batch.mode = "extend"
        BY <1>3, <1>10, <2>6, <3>3, Zenon
      <4>2. p.mode = "extend" /\ p.idx = stream[j].slot /\ p.reqs = stream[j].reqs
            /\ p.waits = AwaitedLayers(stream[j].slot)
        BY <2>4, <2>5, <3>3, <4>1, Zenon
      <4>3. stream[j].layer \in p.waits
        BY <1>1, <4>2, AwaitedIs, Zenon
      <4>4. n + 1 \in DOMAIN results' /\ results'[n + 1] = p
        BY <2>8
      <4> QED
        BY <1>2, <4>2, <4>3, <4>4, Zenon DEF Owner
    <3>4. ASSUME NEW i \in DOMAIN results, results[i].mode = "extend", results[i].idx = stream[j].slot,
                 results[i].reqs = stream[j].reqs, stream[j].layer \in results[i].waits
          PROVE  Owner(stream[j])'
      BY <1>2, <2>10, <3>4, Zenon DEF Owner
    <3> QED
      BY <3>1, <3>2, <3>3, <3>4, Zenon DEF Owner
  <2>17. StreamInv'
    BY <1>1, <1>2, <2>16, StreamSame, Zenon
  <2> QED
    BY <1>8, <2>12, <2>13, <2>14, <2>15, <2>17, Zenon DEF FlightInv
<1> QED
  BY <1>11, <1>12, Zenon
-------------------------------------------------------------------------------
(* Flights: the two streams *)

\* A step of the streams changes only the layer and the waits of the passes.
LEMMA PassFlight ==
  ASSUME FlightInv, DOMAIN results' = DOMAIN results, Len(results') = Len(results),
         \A i \in DOMAIN results : /\ results'[i].mode = results[i].mode /\ results'[i].idx = results[i].idx
                                   /\ results'[i].reqs = results[i].reqs /\ results'[i].born = results[i].born,
         UNCHANGED <<ctl, waiting, finished, retracted, retracts, running, last, pending, batch, overlap,
                     producer, acks>>,
         results \in Seq(Passes)
  PROVE  QueueInv' /\ BornInv' /\ ProducerInv' /\ AsideInv'
<1>1. QueueInv /\ BornInv /\ PassInv /\ ProducerInv /\ AsideInv
  BY Zenon DEF FlightInv
<1>2. Unlaunched' = Unlaunched /\ Owed' = Owed
  BY Zenon DEF Unlaunched, Owed
<1>3. QueueInv'
  <2>1. ctl \notin {"launch", "result"} =>
         \A i \in DOMAIN results : results[i].reqs \subseteq finished \cup running.reqs \cup last.reqs
    BY <1>1, Zenon DEF QueueInv
  <2>2. ctl' \notin {"launch", "result"} =>
         \A i \in DOMAIN results' : results'[i].reqs \subseteq finished' \cup running'.reqs \cup last'.reqs
    BY <2>1, Zenon
  <2>3. ctl = "result" /\ batch # NoBatch =>
          results[Len(results)].reqs \subseteq running.reqs \cup batch.reqs /\ Len(results) \in DOMAIN results
    <3> SUFFICES ASSUME ctl = "result", batch # NoBatch
                 PROVE  results[Len(results)].reqs \subseteq running.reqs \cup batch.reqs /\ Len(results) \in DOMAIN results
      BY Zenon
    <3>1. Len(results) = Owed /\ results[Len(results)].reqs \subseteq running.reqs \cup batch.reqs
      BY <1>1, Zenon DEF QueueInv
    <3>2. Owed >= 1
      BY DEF Owed
    <3>3. Len(results) \in DOMAIN results
      BY <3>1, <3>2
    <3> QED
      BY <3>1, <3>3, Zenon
  <2>4. ctl' = "result" /\ batch' # NoBatch =>
          results'[Len(results')].reqs \subseteq running'.reqs \cup batch'.reqs
    BY <2>3, Zenon
  <2>5. \A i \in DOMAIN results' : results'[i].reqs \cap Unlaunched' = {}
    BY <1>1, <1>2, Zenon DEF QueueInv
  <2>6. \A i, j \in DOMAIN results' :
          i < j /\ results'[j].mode = "extend" => results'[i].reqs \cap results'[j].reqs = {}
    BY <1>1, Zenon DEF QueueInv
  <2>7. \A b \in {last, pending, batch}' : b.mode # "extend" => b \in {NoBatch, Decode}
    BY <1>1, Zenon DEF QueueInv
  <2>8. Len(results') = Owed' /\ waiting' \cap finished' = {} /\ Unlaunched' \cap finished' = {}
    BY <1>1, <1>2, Zenon DEF QueueInv
  <2> QED
    BY <2>2, <2>4, <2>5, <2>6, <2>7, <2>8, Zenon DEF QueueInv
<1>4. BornInv'
  BY <1>1, Zenon DEF BornInv
<1>5. ProducerInv' /\ AsideInv'
  <2>1. \A i \in DOMAIN results :
         results[i].mode = "extend" /\ results[i].idx >= 0
           /\ (ctl \in {"choose", "launch", "result"} => ctl = "result" /\ batch # NoBatch /\ i = Len(results))
         => results[i].idx = producer
    BY <1>1, Zenon DEF ProducerInv
  <2>2. \A i \in DOMAIN results' :
         results'[i].mode = "extend" /\ results'[i].idx >= 0
           /\ (ctl' \in {"choose", "launch", "result"} => ctl' = "result" /\ batch' # NoBatch /\ i = Len(results'))
         => results'[i].idx = producer'
    BY <2>1, Zenon
  <2> QED
    BY <1>1, <2>2, Zenon DEF ProducerInv, AsideInv
<1> QED
  BY <1>3, <1>4, <1>5, Zenon

\* A layer is computed when its copies have been made.
LEMMA ComputeLayerFlight ==
  ASSUME PlaceInv, FlightInv, ComputeLayer
  PROVE  FlightInv'
<1>1. PassInv /\ StreamInv /\ results \in Seq(Passes)
  BY Zenon DEF FlightInv, PlaceInv, BatchShape
<1>2. PICK i \in DOMAIN results :
         /\ \A j \in 1..(i - 1) : results[j].layer > Layers
         /\ results[i].layer \in (1..Layers) \ results[i].waits
         /\ results' = [results EXCEPT ![i].layer = @ + 1]
         /\ UNCHANGED <<ctl, requestVars, batchVars, inputVars, loadVars, overlap>>
  BY Zenon DEF ComputeLayer
<1>3. UNCHANGED <<ctl, waiting, finished, retracted, retracts, running, last, pending, batch, overlap,
                  producer, stream, acks>>
  BY <1>2, Zenon DEF requestVars, batchVars, loadVars
<1>4. \A k \in DOMAIN results : results[k] \in Passes
  BY <1>1
<1>5. PICK p : p = [results[i] EXCEPT !.layer = @ + 1]
  BY Zenon
<1>6. /\ p.mode = results[i].mode /\ p.idx = results[i].idx /\ p.reqs = results[i].reqs
      /\ p.born = results[i].born /\ p.waits = results[i].waits /\ p.layer = results[i].layer + 1
  <2>1. results[i] \in Passes
    BY <1>4, Zenon
  <2> QED
    BY <1>5, <2>1, Zenon DEF Passes
<1>7. results' = [results EXCEPT ![i] = p]
  BY <1>2, <1>5, Zenon
<1>8. /\ Len(results') = Len(results) /\ DOMAIN results' = DOMAIN results
      /\ \A k \in DOMAIN results : results'[k] = IF k = i THEN p ELSE results[k]
  BY <1>1, <1>7
<1>9. \A k \in DOMAIN results :
         /\ results'[k].mode = results[k].mode /\ results'[k].idx = results[k].idx
         /\ results'[k].reqs = results[k].reqs /\ results'[k].born = results[k].born
         /\ results'[k].waits = results[k].waits
  BY <1>6, <1>8, Zenon
<1>10. QueueInv' /\ BornInv' /\ ProducerInv' /\ AsideInv'
  BY <1>1, <1>3, <1>8, <1>9, PassFlight, Zenon
<1>11. results[i].layer \in 1..Layers /\ results[i].layer \notin results[i].waits /\ Layers \in Nat
  BY <1>2, LayersAssumption, Zenon
<1>12. PassInv'
  <2>1. ASSUME NEW k \in DOMAIN results PROVE results'[k].waits \subseteq results'[k].layer..Layers
    <3>1. results[k].waits \subseteq results[k].layer..Layers
      BY <1>1, Zenon DEF PassInv
    <3>2. CASE k # i
      BY <1>8, <3>1, <3>2, Zenon
    <3>3. CASE k = i
      <4>1. results'[k].layer = results[i].layer + 1 /\ results'[k].waits = results[i].waits
        BY <1>6, <1>8, <3>3, Zenon
      <4> QED
        BY <1>11, <3>1, <3>3, <4>1
    <3> QED
      BY <3>2, <3>3, Zenon
  <2>2. ASSUME NEW k \in DOMAIN results, NEW j \in DOMAIN results, k < j, results'[k].layer <= Layers
        PROVE  results'[j].layer = 1
    <3>1. results[k].layer <= Layers
      BY <1>6, <1>8, <1>11, <2>2
    <3>2. results[j].layer = 1
      BY <1>1, <2>2, <3>1, Zenon DEF PassInv
    <3>3. j # i
      <4> SUFFICES ASSUME j = i PROVE FALSE
        BY Zenon
      <4>1. k \in 1..(i - 1)
        BY <1>1, <2>2
      <4>2. results[k].layer > Layers
        BY <1>2, <4>1, Zenon
      <4>3. results[k].layer \in Nat
        BY <1>4, Zenon DEF Passes
      <4> QED
        BY <1>11, <3>1, <4>2, <4>3
    <3> QED
      BY <1>8, <3>2, <3>3, Zenon
  <2> QED
    BY <1>8, <2>1, <2>2, Zenon DEF PassInv
<1>13. Owned'
  <2> SUFFICES ASSUME NEW j \in DOMAIN stream, stream[j].layer # 0
               PROVE  Owner(stream[j])'
    BY <1>3, Zenon DEF Owned
  <2>1. Owner(stream[j])
    BY <1>1, Zenon DEF StreamInv, Owned
  <2> QED
    BY <1>3, <1>8, <1>9, <2>1, Zenon DEF Owner
<1>14. StreamInv'
  BY <1>1, <1>3, <1>13, StreamSame, Zenon
<1> QED
  BY <1>10, <1>12, <1>14, Zenon DEF FlightInv
\* The rest of the stream keeps the records and acknowledgements of its copies.
LEMMA TailStream ==
  ASSUME NEW s \in Seq(Copies), s # <<>>, NEW a, Covered(s, a), Recorded(s), NEW t, t = Tail(s)
  PROVE  /\ t \in Seq(Copies) /\ Covered(t, a) /\ Recorded(t)
         /\ \A j \in DOMAIN t : j + 1 \in DOMAIN s /\ t[j] = s[j + 1] /\ 1 < j + 1
         /\ 1 \in DOMAIN s /\ Head(s) = s[1]
<1>1. /\ t \in Seq(Copies) /\ Len(t) = Len(s) - 1 /\ Len(s) \in Nat /\ Len(s) >= 1
      /\ DOMAIN t = 1..(Len(s) - 1) /\ DOMAIN s = 1..Len(s) /\ Head(s) = s[1]
  OBVIOUS
<1>2. \A j \in 1..(Len(s) - 1) : t[j] = s[j + 1]
  OBVIOUS
<1>3. \A j \in DOMAIN t : j + 1 \in DOMAIN s /\ t[j] = s[j + 1] /\ 1 < j + 1
  BY <1>1, <1>2
<1>4. \A j \in DOMAIN t, k \in DOMAIN s : k >= j + 1 => k - 1 \in DOMAIN t /\ k - 1 >= j /\ t[k - 1] = s[k]
  <2> SUFFICES ASSUME NEW j \in 1..(Len(s) - 1), NEW k \in 1..Len(s), k >= j + 1
               PROVE  k - 1 \in 1..(Len(s) - 1) /\ k - 1 >= j /\ t[k - 1] = s[k]
    BY <1>1, Zenon
  <2>1. k - 1 \in 1..(Len(s) - 1) /\ k - 1 >= j /\ (k - 1) + 1 = k
    BY <1>1
  <2> QED
    BY <1>2, <2>1, Zenon
<1>5. \A i, j \in DOMAIN t : i < j => i + 1 < j + 1
  BY <1>1
<1>6. ASSUME NEW j \in DOMAIN t, t[j].layer # 0
      PROVE  /\ \E k \in DOMAIN t : k >= j /\ t[k].slot = t[j].slot /\ t[k].layer = Layers /\ t[k].done
             /\ \E i \in DOMAIN a : a[i].slot = t[j].slot
             /\ \E k \in DOMAIN t : k >= j /\ t[k].slot = t[j].slot /\ t[k].layer = t[j].layer /\ t[k].done
  <2>1. PICK q \in DOMAIN s : q = j + 1 /\ t[j] = s[q]
    BY <1>3, Zenon
  <2>2. s[q].layer # 0
    BY <1>6, <2>1, Zenon
  <2>3. PICK k \in DOMAIN s : k >= q /\ s[k].slot = s[q].slot /\ s[k].layer = Layers /\ s[k].done
    BY <2>2, Zenon DEF Covered
  <2>4. PICK i \in DOMAIN a : a[i].slot = s[q].slot
    BY <2>2, Zenon DEF Covered
  <2>5. PICK l \in DOMAIN s : l >= q /\ s[l].slot = s[q].slot /\ s[l].layer = s[q].layer /\ s[l].done
    BY <2>2, Zenon DEF Recorded
  <2>6. k - 1 \in DOMAIN t /\ k - 1 >= j /\ t[k - 1] = s[k]
    BY <1>4, <2>1, <2>3, Zenon
  <2>7. l - 1 \in DOMAIN t /\ l - 1 >= j /\ t[l - 1] = s[l]
    BY <1>4, <2>1, <2>5, Zenon
  <2> QED
    BY <2>1, <2>3, <2>4, <2>5, <2>6, <2>7, Zenon
<1>7. ASSUME NEW i \in DOMAIN t, NEW j \in DOMAIN t, i < j, t[i].slot = t[j].slot,
             t[i].layer = t[j].layer, t[i].layer # 0
      PROVE  ~ t[i].done
  <2>1. /\ i + 1 \in DOMAIN s /\ t[i] = s[i + 1] /\ j + 1 \in DOMAIN s /\ t[j] = s[j + 1]
        /\ i + 1 < j + 1
    BY <1>3, <1>5, <1>7, Zenon
  <2>2. s[i + 1].slot = s[j + 1].slot /\ s[i + 1].layer = s[j + 1].layer /\ s[i + 1].layer # 0
    BY <1>7, <2>1, Zenon
  <2>3. ~ s[i + 1].done
    BY <2>1, <2>2, Zenon DEF Recorded
  <2> QED
    BY <2>1, <2>3, Zenon
<1>8. Covered(t, a) /\ Recorded(t)
  BY <1>6, <1>7, Zenon DEF Covered, Recorded
<1> QED
  BY <1>1, <1>3, <1>8

\* A pass stops waiting for a layer only when the last copy of the layer is done.
LEMMA CopyLayerFlight ==
  ASSUME PlaceInv, FlightInv, CopyLayer
  PROVE  FlightInv'
<1>1. PassInv /\ StreamInv /\ results \in Seq(Passes)
  BY Zenon DEF FlightInv, PlaceInv, BatchShape
<1>2. stream # <<>> /\ stream' = Tail(stream)
  BY Zenon DEF CopyLayer
<1>3. PICK h : h = Head(stream)
  BY Zenon
<1>4. results' = [i \in DOMAIN results |->
         IF results[i].idx = h.slot /\ h.done
         THEN [results[i] EXCEPT !.waits = @ \ {h.layer}] ELSE results[i]]
  BY <1>3, Zenon DEF CopyLayer
<1>5. UNCHANGED <<ctl, waiting, finished, retracted, retracts, running, last, pending, batch, overlap,
                  producer, acks>>
  BY Zenon DEF CopyLayer, requestVars, batchVars
<1>6. \A i \in DOMAIN results : results[i] \in Passes
  BY <1>1
<1>7. \A i \in DOMAIN results :
         /\ results'[i].mode = results[i].mode /\ results'[i].idx = results[i].idx
         /\ results'[i].reqs = results[i].reqs /\ results'[i].born = results[i].born
         /\ results'[i].layer = results[i].layer
         /\ results'[i].waits = IF results[i].idx = h.slot /\ h.done
                                THEN results[i].waits \ {h.layer} ELSE results[i].waits
  BY <1>4, <1>6, Zenon DEF Passes
<1>8. /\ DOMAIN results' = DOMAIN results /\ Len(results') = Len(results)
  <2>1. PlaceInv'
    BY CopyLayerStep, Zenon
  <2>2. results' \in Seq(Passes)
    BY <2>1, Zenon DEF PlaceInv, BatchShape
  <2>3. DOMAIN results' = DOMAIN results
    BY <1>4, Zenon
  <2> QED
    BY <1>1, <2>2, <2>3
<1>9. QueueInv' /\ BornInv' /\ ProducerInv' /\ AsideInv'
  BY <1>1, <1>5, <1>7, <1>8, PassFlight, Zenon
<1>10. PassInv'
  <2>1. ASSUME NEW i \in DOMAIN results PROVE results'[i].waits \subseteq results'[i].layer..Layers
    <3>1. results[i].waits \subseteq results[i].layer..Layers
      BY <1>1, Zenon DEF PassInv
    <3>2. results'[i].waits \subseteq results[i].waits
      BY <1>7, Zenon
    <3> QED
      BY <1>7, <3>1, <3>2, Zenon
  <2>2. \A i, j \in DOMAIN results :
           i < j /\ results[i].layer <= Layers => results[j].layer = 1
    BY <1>1, Zenon DEF PassInv
  <2>3. \A i \in DOMAIN results : results'[i].layer = results[i].layer
    BY <1>7, Zenon
  <2>4. DOMAIN results' = DOMAIN results
    BY <1>8, Zenon
  <2>5. \A i, j \in DOMAIN results' :
           i < j /\ results'[i].layer <= Layers => results'[j].layer = 1
    BY <2>2, <2>3, <2>4, Zenon
  <2>6. \A i \in DOMAIN results' : results'[i].waits \subseteq results'[i].layer..Layers
    BY <2>1, <2>4, Zenon
  <2> QED
    BY <2>5, <2>6, Zenon DEF PassInv
<1>11. stream \in Seq(Copies) /\ Covered(stream, acks) /\ Recorded(stream) /\ Owned
  BY <1>1, Zenon DEF StreamInv
<1>12. PICK s, t : s = stream /\ t = stream' /\ t = Tail(s)
  BY <1>2, Zenon
<1>13. /\ t \in Seq(Copies) /\ Covered(t, acks) /\ Recorded(t)
       /\ \A j \in DOMAIN t : j + 1 \in DOMAIN s /\ t[j] = s[j + 1] /\ 1 < j + 1
       /\ 1 \in DOMAIN s /\ h = s[1]
  BY <1>2, <1>3, <1>11, <1>12, TailStream, Zenon
<1>14. Owned'
  <2> SUFFICES ASSUME NEW j \in DOMAIN t, t[j].layer # 0
               PROVE  Owner(t[j])'
    BY <1>12, Zenon DEF Owned
  <2>1. PICK q \in DOMAIN s : t[j] = s[q] /\ 1 < q
    BY <1>13, Zenon
  <2>2. Owner(t[j])
    BY <1>11, <1>12, <2>1, Zenon DEF Owned
  <2>3. ASSUME NEW i \in DOMAIN results, results[i].mode = "extend", results[i].idx = t[j].slot,
               results[i].reqs = t[j].reqs, t[j].layer \in results[i].waits
        PROVE  Owner(t[j])'
    <3>1. ~ (t[j].slot = h.slot /\ h.done /\ t[j].layer = h.layer)
      <4> SUFFICES ASSUME t[j].slot = h.slot, t[j].layer = h.layer PROVE ~ h.done
        BY Zenon
      <4>1. s[1].slot = s[q].slot /\ s[1].layer = s[q].layer /\ s[1].layer # 0
        BY <1>13, <2>1, Zenon
      <4>2. ~ s[1].done
        BY <1>11, <1>12, <1>13, <2>1, <4>1, Zenon DEF Recorded
      <4> QED
        BY <1>13, <4>2, Zenon
    <3>2. t[j].layer \in results'[i].waits
      BY <1>7, <2>3, <3>1, Zenon
    <3>3. /\ i \in DOMAIN results' /\ results'[i].mode = "extend" /\ results'[i].idx = t[j].slot
          /\ results'[i].reqs = t[j].reqs
      BY <1>7, <1>8, <2>3, Zenon
    <3> QED
      BY <1>12, <3>2, <3>3, Zenon DEF Owner
  <2> QED
    BY <1>5, <1>12, <2>2, <2>3, Zenon DEF Owner
<1>15. StreamInv'
  BY <1>1, <1>5, <1>12, <1>13, <1>14, Zenon DEF StreamInv
<1> QED
  BY <1>9, <1>10, <1>15, Zenon DEF FlightInv
-------------------------------------------------------------------------------
(* The theorems *)

\* The invariant holds when the scheduler starts.
LEMMA LoopStarts ==
  ASSUME Init
  PROVE  PlaceInv /\ FlightInv
<1>1. /\ ctl = "input" /\ waiting = {} /\ finished = {} /\ returned = {} /\ retracted = {}
      /\ results = <<>> /\ retracts = [r \in Requests |-> 0]
      /\ running = [reqs |-> {}, idx |-> -1, full |-> FALSE]
      /\ last = NoBatch /\ pending = NoBatch /\ batch = NoBatch /\ overlap \in BOOLEAN
      /\ producer = -1 /\ stream = <<>> /\ acks = <<>>
  BY Zenon DEF Init, LoadInit
<1>2. /\ IsBatch(NoBatch) /\ NoBatch.reqs = {} /\ NoBatch.idx = -1
  BY NoBatchIs, Zenon
<1>3. Admitted = {} /\ Unlaunched = {} /\ Owed = 0
  BY <1>1, <1>2 DEF Admitted, Unlaunched, Owed
<1>4. RequestShape
  BY <1>1, Zenon DEF RequestShape
<1>5. BatchShape
  BY <1>1, <1>2 DEF BatchShape
<1>6. Control
  BY <1>1, <1>2, Zenon DEF Control
<1>7. Apart
  BY <1>1, <1>2, <1>3, Zenon DEF Apart
<1>8. ResultInv
  BY <1>1 DEF ResultInv
<1>9. QueueInv
  BY <1>1, <1>3 DEF QueueInv
<1>10. BornInv /\ PassInv /\ ProducerInv /\ AsideInv
  BY <1>1, <1>2 DEF BornInv, PassInv, ProducerInv, AsideInv
<1>11. StreamInv
  BY <1>1 DEF StreamInv, Covered, Recorded, Owned, NumCounters
<1> QED
  BY <1>4, <1>5, <1>6, <1>7, <1>8, <1>9, <1>10, <1>11, Zenon DEF PlaceInv, FlightInv

\* Every step keeps it, and is a step of RequestLife.
LEMMA LoopStep ==
  ASSUME PlaceInv, FlightInv, [Next]_vars
  PROVE  PlaceInv' /\ FlightInv' /\ LifeStep
<1>1. CASE Inputs \/ ContinueGeneration
  BY <1>1, InputsStep, InputsFlight, Zenon
<1>2. CASE EndInput /\ UNCHANGED overlap
  BY <1>2, EndInputStep, InputsFlight, Zenon
<1>3. CASE RetractAll /\ UNCHANGED overlap
  BY <1>3, RetractAllStep, RetractAllFlight, Zenon
<1>4. CASE MergeLast /\ UNCHANGED overlap
  BY <1>4, MergeLastStep, MergeLastFlight, Zenon
<1>5. CASE FormBatch /\ UNCHANGED overlap
  BY <1>5, FormBatchStep, FormBatchFlight, Zenon
<1>6. CASE LoadBatch /\ UNCHANGED overlap
  <2>1. producer \in Int
    BY DEF FlightInv, StreamInv, NumCounters
  <2> QED
    BY <1>6, <2>1, LoadBatchStep, LoadBatchFlight, Zenon
<1>7. CASE ChooseBatch /\ UNCHANGED overlap
  BY <1>7, ChooseBatchStep, ChooseBatchFlight, Zenon
<1>8. CASE Launch /\ UNCHANGED overlap
  BY <1>8, LaunchStep, LaunchFlight, Zenon
<1>9. CASE EndIteration /\ UNCHANGED overlap
  BY <1>9, EndIterationStep, EndIterationFlight, Zenon
<1>10. CASE ComputeLayer
  BY <1>10, ComputeLayerStep, ComputeLayerFlight, Zenon
<1>11. CASE CopyLayer
  BY <1>11, CopyLayerStep, CopyLayerFlight, Zenon
<1>12. CASE UNCHANGED vars
  <2>1. UNCHANGED <<ctl, requestVars, batchVars, results, inputVars, loadVars, overlap>>
    BY <1>12, Zenon DEF vars
  <2>2. UNCHANGED <<ctl, waiting, finished, returned, retracted, retracts, running, last,
                    pending, batch, results, overlap, producer, stream, acks>>
    BY <2>1, Zenon DEF requestVars, batchVars, loadVars
  <2>3. PlaceInv' /\ LifeStep
    BY <2>2, PlaceSame, Zenon DEF placeVars
  <2>4. QueueInv /\ BornInv /\ PassInv /\ ProducerInv /\ AsideInv /\ StreamInv
    BY Zenon DEF FlightInv
  <2>5. QueueInv' /\ ProducerInv' /\ AsideInv'
    BY <2>2, <2>4, Zenon DEF QueueInv, ProducerInv, AsideInv, Unlaunched, Owed
  <2>6. BornInv' /\ PassInv'
    BY <2>2, <2>4, PassSame, Zenon
  <2>7. Owned'
    BY <2>2, <2>4, Zenon DEF StreamInv, Owned, Owner
  <2>8. StreamInv'
    BY <2>2, <2>4, <2>7, StreamSame, Zenon
  <2> QED
    BY <2>3, <2>5, <2>6, <2>8, Zenon DEF FlightInv
<1> QED
  BY <1>1, <1>2, <1>3, <1>4, <1>5, <1>6, <1>7, <1>8, <1>9, <1>10, <1>11, <1>12, Zenon DEF Next, Loop

\* Where the requests are, what is launched and what is being loaded, at every
\* step of the loop and of the two streams: the invariant the others rest on.
THEOREM LoopIsSound == Spec => [](PlaceInv /\ FlightInv)
<1>1. Init => PlaceInv /\ FlightInv
  BY LoopStarts, Zenon
<1>2. PlaceInv /\ FlightInv /\ [Next]_vars => (PlaceInv /\ FlightInv)'
  BY LoopStep, Zenon
<1> QED
  BY <1>1, <1>2, PTL DEF Spec

\* A request the scheduler still has to serve is in one place, whatever is
\* merged, retracted, put aside, paused or flushed.
THEOREM RequestsAreInOnePlace == Spec => []InOnePlace
<1>1. ASSUME PlaceInv
      PROVE  InOnePlace
  <2>1. Apart
    BY <1>1, Zenon DEF PlaceInv
  <2>2. PICK P : P = <<waiting, running.reqs, last.reqs, pending.reqs,
                       IF batch = pending THEN {} ELSE batch.reqs, returned>>
    BY Zenon
  <2>3. ASSUME NEW r \in Requests, NEW i \in 1..6, NEW j \in 1..6, r \notin finished, r \in P[i], r \in P[j]
        PROVE  i = j
    <3>1. /\ r \in waiting => r \notin returned /\ r \notin Admitted
          /\ r \in returned => r \notin Admitted
          /\ r \in running.reqs => r \notin last.reqs \cup pending.reqs \cup batch.reqs
          /\ r \in last.reqs => r \notin pending.reqs \cup batch.reqs
          /\ r \in pending.reqs => batch = pending \/ r \notin batch.reqs
      BY <2>1, <2>3, Zenon DEF Apart
    <3>2. r \in Admitted <=> r \in running.reqs \/ r \in last.reqs \/ r \in pending.reqs \/ r \in batch.reqs
      BY Zenon DEF Admitted
    <3>3. /\ i = 1 => r \in waiting
          /\ i = 2 => r \in running.reqs
          /\ i = 3 => r \in last.reqs
          /\ i = 4 => r \in pending.reqs
          /\ i = 5 => r \in batch.reqs /\ batch # pending
          /\ i = 6 => r \in returned
      BY <2>2, <2>3
    <3>4. /\ j = 1 => r \in waiting
          /\ j = 2 => r \in running.reqs
          /\ j = 3 => r \in last.reqs
          /\ j = 4 => r \in pending.reqs
          /\ j = 5 => r \in batch.reqs /\ batch # pending
          /\ j = 6 => r \in returned
      BY <2>2, <2>3
    <3>5. i \in {1, 2, 3, 4, 5, 6} /\ j \in {1, 2, 3, 4, 5, 6}
      BY <2>3
    <3> QED
      BY <3>1, <3>2, <3>3, <3>4, <3>5
  <2>4. DOMAIN P = 1..6
    BY <2>2
  <2>5. \A r \in Requests : \A i, j \in DOMAIN P : r \in Unfinished(P[i] \cap P[j]) => i = j
    BY <2>3, <2>4, Zenon DEF Unfinished
  <2> QED
    BY <2>2, <2>5, Zenon DEF InOnePlace
<1> QED
  BY <1>1, LoopIsSound, PTL

\* The loop implements RequestLife: a request arrives once, is queued and served
\* by turns, leaves once, and is never lost.
THEOREM LoopImplementsLife == Spec => LifeSpec
<1>1. Init => Life!Init
  <2> SUFFICES ASSUME Init PROVE Phase = [r \in Requests |-> "new"]
    BY Zenon DEF Life!Init
  <2>1. waiting = {} /\ finished = {} /\ returned = {} /\ Admitted = {}
    BY NoBatchIs, Zenon DEF Init, Admitted
  <2> QED
    BY <2>1, Zenon DEF Phase
<1>2. PlaceInv /\ FlightInv /\ [Next]_vars => [Life!Next]_Phase
  BY LoopStep, Zenon DEF LifeStep
<1> QED
  BY <1>1, <1>2, LoopIsSound, PTL DEF Spec, LifeSpec, Life!Spec

\* When is_fully_idle holds nothing is in flight, though it looks at neither the
\* batch put aside nor the streams: cache and counters can be reset.
THEOREM IdleIsAlwaysQuiet == Spec => []IdleIsQuiet
<1>1. ASSUME PlaceInv, FlightInv
      PROVE  IdleIsQuiet
  <2> SUFFICES ASSUME ctl = "input", IsFullyIdle
               PROVE  /\ pending = NoBatch /\ results = <<>>
                      /\ \A j \in DOMAIN stream : stream[j].layer = 0
    BY Zenon DEF IdleIsQuiet
  <2>1. acks = <<>> /\ (overlap => results = <<>>)
    BY Zenon DEF IsFullyIdle
  <2>2. pending = NoBatch
    BY <1>1, <2>1, Zenon DEF FlightInv, AsideInv
  <2>3. results = <<>>
    BY <1>1, <2>1, Zenon DEF PlaceInv, ResultInv
  <2>4. \A j \in DOMAIN stream : stream[j].layer = 0
    BY <1>1, <2>1 DEF FlightInv, StreamInv, Covered
  <2> QED
    BY <2>2, <2>3, <2>4, Zenon
<1> QED
  BY <1>1, LoopIsSound, PTL

\* start_loading never takes a slot of the ring whose load is still running, so
\* its assertion never fails: three counters are enough for the overlapped loop.
THEOREM ProducerIsAlwaysReady == Spec => []ProducerReady
<1>1. ASSUME PlaceInv, FlightInv
      PROVE  ProducerReady
  <2> SUFFICES ASSUME ctl = "load", NEW i \in DOMAIN stream, stream[i].slot = NextSlot,
                      stream[i].layer = Layers
               PROVE  FALSE
    BY Zenon DEF ProducerReady, Finished, Ready
  <2>1. Free(stream, NextSlot)
    BY <1>1, NextIsFree, Zenon
  <2>2. Layers # 0
    BY LayersAssumption, Zenon
  <2> QED
    BY <2>1, <2>2, Zenon DEF Free
<1> QED
  BY <1>1, LoopIsSound, PTL

\* No forward pass computes a layer before the pages of its requests are copied
\* for it, through shared slots of the ring and decode batches that do not wait.
THEOREM PagesAreLoadedBeforeUse == Spec => []LoadedBeforeUse
<1>1. ASSUME PlaceInv, FlightInv
      PROVE  LoadedBeforeUse
  <2>1. QueueInv /\ PassInv /\ StreamInv /\ results \in Seq(Passes)
    BY <1>1, Zenon DEF FlightInv, PlaceInv, BatchShape
  <2> SUFFICES ASSUME NEW i \in DOMAIN results, NEW j \in DOMAIN stream,
                      results[i].reqs \cap stream[j].reqs # {}
               PROVE  stream[j].layer >= results[i].layer
    BY Zenon DEF LoadedBeforeUse
  <2>2. stream \in Seq(Copies) /\ Owned
    BY <2>1, Zenon DEF StreamInv
  <2>3. stream[j] \in Copies
    BY <2>2
  <2>4. stream[j].layer \in Nat /\ stream[j].layer # 0
    BY <2>3, LayersAssumption DEF Copies
  <2>5. Owner(stream[j])
    BY <2>2, <2>4, Zenon DEF Owned
  <2>6. results[i].reqs \cap Unlaunched = {}
    BY <2>1, Zenon DEF QueueInv
  <2>7. stream[j].reqs # pending.reqs
    BY <2>6, Zenon DEF Unlaunched
  <2>8. ctl \in {"choose", "launch"} => stream[j].reqs # batch.reqs
    BY <2>6, Zenon DEF Unlaunched
  <2>9. PICK m \in DOMAIN results :
          results[m].mode = "extend" /\ results[m].reqs = stream[j].reqs /\ stream[j].layer \in results[m].waits
    BY <2>5, <2>7, <2>8, Zenon DEF Owner
  <2>10. stream[j].layer \in results[m].layer..Layers
    BY <2>1, <2>9, Zenon DEF PassInv
  <2>11. results[m] \in Passes /\ results[i] \in Passes /\ i \in Nat /\ m \in Nat
    BY <2>1
  <2>12. results[m].layer \in Nat /\ results[i].layer \in Nat
    BY <2>11, Zenon DEF Passes
  <2>13. stream[j].layer >= results[m].layer /\ results[m].layer <= Layers
    BY <2>4, <2>10, <2>12, LayersAssumption
  <2>14. ~ (i < m)
    BY <2>1, <2>9, Zenon DEF QueueInv
  <2>15. m < i => results[i].layer = 1
    BY <2>1, <2>13, Zenon DEF PassInv
  <2>16. m < i \/ i = m
    BY <2>11, <2>14
  <2> QED
    BY <2>4, <2>13, <2>15, <2>16
<1> QED
  BY <1>1, LoopIsSound, PTL

\* A result computed before a request was retracted never gives it a token.
THEOREM StaleResultsAreAlwaysDropped == Spec => []StaleResultsAreDropped
<1>1. ASSUME PlaceInv, FlightInv
      PROVE  StaleResultsAreDropped
  <2>1. BornInv /\ results \in Seq(Passes)
    BY <1>1, Zenon DEF FlightInv, PlaceInv, BatchShape
  <2> SUFFICES ASSUME HeadComputed, NEW r \in ResultReqs
               PROVE  Head(results).born[r] = retracts[r]
    BY Zenon DEF StaleResultsAreDropped
  <2>2. results # <<>>
    BY Zenon DEF HeadComputed
  <2>3. 1 \in DOMAIN results /\ Head(results) = results[1]
    BY <2>1, <2>2
  <2>4. r \in results[1].reqs /\ (overlap => r \notin finished /\ r \notin retracted)
    BY <2>3, Zenon DEF ResultReqs, Unfinished
  <2> QED
    BY <2>1, <2>3, <2>4, Zenon DEF BornInv
<1> QED
  BY <1>1, LoopIsSound, PTL
=============================================================================
