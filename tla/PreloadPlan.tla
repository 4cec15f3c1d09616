----------------------------- MODULE PreloadPlan ------------------------------
(***************************************************************************)
(* How one batch's host pages are divided between the full-block preload   *)
(* and the layer-wise transfer: the number of pages of each, the budget    *)
(* handed to the load operations one after the other, and the tokens       *)
(* start_loading then submits on each path.                                *)
(*                                                                         *)
(* The estimate bandwidth * compute_seconds / bytes_per_page_per_layer is  *)
(* a number of pages, here any, since both factors are measured.           *)
(***************************************************************************)
EXTENDS Integers, Sequences, SequencesExt

CONSTANTS
    PageSize,
    MaxOps,         \* bound: load operations of one batch
    MaxTokens,      \* bound: tokens of one operation
    MaxCompute,     \* bound: tokens the batch computes
    MinCompute      \* HICACHE_HYBRID_PRELOAD_MIN_BATCH_COMPUTE_TOKENS

ASSUME PlanAssumption ==
    PageSize \in Nat \ {0} /\ {MaxOps, MaxTokens, MaxCompute, MinCompute} \subseteq Nat

VARIABLES
    ops,        \* load_queue: the number of host tokens of each operation
    q,          \* the tokens the batch computes
    split,      \* the pages of each path, once chosen
    left,       \* what allocate_preload_pages has still to hand out
    preload,    \* h2d_preload_pages of the operations served so far
    sent,       \* the tokens submitted on each path, in order
    phase

vars == <<ops, q, split, left, preload, sent, phase>>

Pages(tokens) == (tokens + PageSize - 1) \div PageSize

HostPages == SumFunction([i \in DOMAIN ops |-> Pages(ops[i])])

Minimum(a, b) == IF a < b THEN a ELSE b

Init ==
    /\ ops \in UNION {[1..n -> 1..MaxTokens] : n \in 1..MaxOps}
    /\ q \in 1..MaxCompute
    /\ split = [full |-> 0, layer |-> 0]
    /\ left = 0 /\ preload = <<>> /\ sent = [full |-> <<>>, layer |-> <<>>]
    /\ phase = "split"

LayerPages(covered) == Minimum(HostPages, covered)

\* select_fixed_ratio_split, for a model family that is not instrumented.
FixedRatio == (4 * q) \div PageSize

\* select_batch_split, or all pages layer-wise when a sample is missing or decode
\* requests are mixed in.
ChooseSplit ==
    /\ phase = "split"
    /\ \E covered \in {FixedRatio, HostPages} \cup 0..(HostPages + 1) :
         split' = [full |-> HostPages - LayerPages(covered), layer |-> LayerPages(covered)]
    /\ left' = split'.full
    /\ phase' = "allocate"
    /\ UNCHANGED <<ops, q, preload, sent>>

\* Mutant: every operation is offered the whole budget.
ShareAll(tokens) == Minimum(Pages(tokens), split.full)

Share(tokens) == Minimum(Pages(tokens), left)

\* One turn of the loop of allocate_preload_pages.
AllocatePages ==
    /\ phase = "allocate" /\ Len(preload) < Len(ops)
    /\ LET n == Share(ops[Len(preload) + 1])
       IN  /\ preload' = Append(preload, n)
           /\ left' = left - n
    /\ UNCHANGED <<ops, q, split, sent, phase>>

\* Mutant: a page is sent whole although the operation ends inside it.
PreloadTokensWhole(i) == preload[i] * PageSize

PreloadTokens(i) == Minimum(preload[i] * PageSize, ops[i])

TokensOf(i, first, final) == [k \in 1..(final - first + 1) |-> <<i, first + k - 1>>]

\* _split_hybrid_load_ops: the head of each operation goes full-block, the rest
\* layer by layer.
StartLoading ==
    /\ phase = "allocate" /\ Len(preload) = Len(ops)
    /\ sent' = [full  |-> FlattenSeq([i \in DOMAIN ops |-> TokensOf(i, 1, PreloadTokens(i))]),
                layer |-> FlattenSeq([i \in DOMAIN ops |-> TokensOf(i, PreloadTokens(i) + 1, ops[i])])]
    /\ phase' = "done"
    /\ UNCHANGED <<ops, q, split, left, preload>>

Next == ChooseSplit \/ AllocatePages \/ StartLoading

Spec == Init /\ [][Next]_vars
-------------------------------------------------------------------------------
(* Properties *)

\* Every variable keeps its type.
TypeOK ==
    /\ ops \in Seq(1..MaxTokens) /\ q \in 1..MaxCompute /\ left \in Nat
    /\ split \in [full : Nat, layer : Nat]
    /\ preload \in Seq(Nat) /\ phase \in {"split", "allocate", "done"}

\* Every token of every operation is sent once, on one of the two paths.
EveryTokenIsSentOnce ==
    phase = "done" =>
        /\ IsInjective(sent.full \o sent.layer)
        /\ Range(sent.full \o sent.layer) =
             UNION {{<<i, t>> : t \in 1..ops[i]} : i \in DOMAIN ops}

\* "Allocate one batch budget in operation/root order without over-allocation",
\* and "assert remaining == 0": the pages sent full-block are exactly the budget.
BudgetIsSpent ==
    phase = "done" =>
        /\ left = 0
        /\ Cardinality({<<x[1], (x[2] - 1) \div PageSize>> : x \in Range(sent.full)}) = split.full

\* "Hybrid H2D preload should only run when the final prefill batch has enough
\* compute to overlap with the preload phase".
PreloadNeedsCompute == phase = "done" /\ split.full > 0 => q > MinCompute
===============================================================================
