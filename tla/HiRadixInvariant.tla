-------------------------- MODULE HiRadixInvariant --------------------------
(***************************************************************************)
(* The inductive invariant of HiRadixCache: what makes its safety          *)
(* properties hold after every step.  Control says which request a handler *)
(* works on, CacheInv relates the tree, the locks, the transfers and the   *)
(* page tables, and Types bounds the variables the two do not speak of.    *)
(***************************************************************************)
EXTENDS HiRadixCache

-----------------------------------------------------------------------------
(* Counting and allocating.                                                *)

Slots == Reqs \X (Paths \cup {Root})

\* A set has a size, one element more makes it one larger, and a larger set of
\* pages has a page for every element.
Counted(S) ==
    /\ Cardinality(S) \in Nat /\ (Cardinality(S) = 0 <=> S = {})
    /\ \A x : x \notin S => Cardinality(S \cup {x}) = Cardinality(S) + 1
    /\ \A F \in SUBSET DevPages :
          Cardinality(S) <= Cardinality(F) => Injection(S, F) # {}

\* What the proofs use of the finiteness of the constants. It says nothing of
\* the state; HiRadixTheorems proves it from the assumptions.
Counting ==
    /\ \A S \in SUBSET Paths : Counted(S)
    /\ \A S \in SUBSET Reqs : Counted(S)
    /\ \A S \in SUBSET DevPages : Counted(S)
    /\ \A S \in SUBSET Slots : Counted(S)

-----------------------------------------------------------------------------
(* Control: which request a handler works on, and in which phase it is.    *)

Loops == {"backup", "evict", "demote", "drain"}

\* A handler is at a label, or in a loop that returns to it.
At(label) == ctl = label \/ (ctl \in Loops /\ ret = label)

ControlType ==
    /\ phase \in [Reqs -> {"out", "waiting", "added", "prefill", "decode"}]
    /\ work \in [Reqs -> Work \cup {NoWork}]
    /\ fill \in [Reqs -> Paths \cup {Root}]
    /\ lastNode \in [Reqs -> Paths \cup {Root}]
    /\ prot \in [Reqs -> Paths \cup {Root}]
    /\ ctl \in Labels /\ ret \in Labels
    /\ cur \in Reqs \cup {None} /\ want \subseteq Reqs

\* Every loop goes back to a handler that calls it.
ReturnsHome ==
    /\ ctl = "backup" => ret \in {"add", "cached", "relock", "finish"}
    /\ ctl = "evict" => ret \in {"load", "extend", "decode", "alloc", "recheck"}
    /\ ctl = "demote" => ret \in {"done", "shrink"}
    /\ ctl = "drain" => ret \in {"done", "shrink", "loaded"}

\* The request of a handler is in the phase the handler is for.
CurrentRequest ==
    /\ At("add") \/ At("load") \/ ctl = "admit" =>
          cur \in Reqs /\ phase[cur] = "waiting"
    /\ At("cached") \/ At("relock") => cur \in Reqs /\ phase[cur] = "prefill"
    /\ At("finish") => cur \in Reqs /\ phase[cur] \in {"prefill", "decode"}
    /\ ctl \in {"retract", "abort"} =>
          cur \in Reqs /\ phase[cur] = "decode" /\ cur \notin want

\* Only decode steps give pages to running requests, and only to unfinished
\* ones.
WantsAreRunning ==
    /\ \A r \in want : phase[r] = "decode" /\ fill[r] # Full(r)
    /\ want # {} => \/ \E l \in {"decode", "alloc", "shrink", "recheck", "done"} :
                           At(l)
                    \/ ctl \in {"retract", "abort"}

\* A request has filled its prompt and not more than it asks for; it holds a
\* prefix of what it filled, and nothing before it is admitted.
RequestShape ==
    \A r \in Reqs :
        /\ phase[r] # "out" =>
              /\ work[r] \in Work
              /\ Prompt(r) \in Anc[fill[r]] /\ fill[r] \in Anc[Full(r)]
        /\ prot[r] = lastNode[r]
        /\ lastNode[r] \in Anc[fill[r]] \cup {Root}
        /\ phase[r] \in {"out", "waiting"} => lastNode[r] = Root

Control ==
    /\ Counting
    /\ ControlType /\ ReturnsHome /\ CurrentRequest /\ WantsAreRunning
    /\ RequestShape

\* While load-backs wait to be started the batch is being formed, and beyond
\* the load-back of the request at hand there is a request in the batch.
QueueIsForming ==
    /\ ctl = "form" => Added # {}
    /\ loadQueue # {} =>
          \/ ctl \in {"admit", "form", "stop"}
          \/ Added # {} /\ (At("add") \/ At("load"))

-----------------------------------------------------------------------------
(* The tree, the locks and the page tables.                                *)

\* The pages of a node n of the tree N.
SegIn(N, n) ==
    {p \in Anc[n] : \A m \in N : m \in Anc[n] /\ m # n => p \notin Anc[m]}

\* RadixShape of the tree N.
Shape(N) ==
    \A n, m \in N : \A p \in SegIn(N, n) : p \in Anc[m] => n \in Anc[m]

\* S is the pages on the paths to some nodes of N: a tier.
Whole(N, S) ==
    \A p \in Paths : p \in S <=> \E n \in N : n \in S /\ p \in Anc[n]

\* The tree is a radix tree, each tier is made of whole nodes from the root
\* down, and a node is in one of them at least.
TreeInv ==
    /\ nodes \subseteq Paths /\ backed \subseteq Paths
    /\ dev \in [Paths -> DevPages \cup {None}]
    /\ Shape(nodes)
    /\ Whole(nodes, OnDevice(Paths)) /\ Whole(nodes, backed)
    /\ \A n \in nodes : dev[n] # None \/ n \in backed

\* The nodes of W at or below a page.
Below(W, p) == {n \in W : p \in Anc[n]}

\* The locks on a page, from who holds which node.
LockCount(p, last, W, L) ==
    Cardinality({r \in Reqs : p \in Anc[last[r]]})
    + Cardinality(Below(W, p)) + Cardinality(Below(L, p))

\* No transfer is in two places.
TransfersAreDistinct ==
    /\ \A i, j \in DOMAIN writes : writes[i] = writes[j] => i = j
    /\ \A i, j \in DOMAIN loads : i # j => loads[i] \cap loads[j] = {}
    /\ \A i \in DOMAIN loads : loads[i] \cap loadQueue = {}

LockInv ==
    /\ lockRef \in [Paths -> Int]
    /\ writes \in Seq(Paths) /\ loadQueue \subseteq Paths
    /\ loads \in Seq(SUBSET Paths)
    /\ \A p \in Paths : lockRef[p] = LockCount(p, lastNode, Writing, Loading)
    /\ \A r \in Reqs : lastNode[r] # Root =>
          lastNode[r] \in nodes /\ dev[lastNode[r]] # None
    /\ \A n \in Writing \cup Loading : n \in nodes /\ dev[n] # None /\ n \in backed
    /\ TransfersAreDistinct

\* Requests have the pages they compute with.
TableInv ==
    /\ free \subseteq DevPages
    /\ kv \in [Reqs -> [Paths -> DevPages \cup {None}]]
    /\ tail \in [Reqs -> DevPages \cup {None}]
    /\ \A r \in Reqs : Holding(r) => \A p \in Anc[prot[r]] : kv[r][p] = dev[p]
    /\ \A r \in Reqs : phase[r] \in {"prefill", "decode"} =>
          tail[r] # None /\ \A p \in Anc[fill[r]] : kv[r][p] # None

\* What a handler found before a loop still holds after it.
LoopInv ==
    /\ ctl = "backup" =>
          \A n \in todo : n \in nodes /\ dev[n] # None /\ n \notin backed
    /\ At("add") \/ At("load") \/ ctl = "admit" =>
          Matched(fill[cur]) \in nodes \cup {Root}
    /\ At("load") => HostHit(cur) # {}
    /\ At("cached") \/ At("relock") \/ At("finish") =>
          /\ Prompt(cur) \in nodes /\ dev[Prompt(cur)] # None
          /\ prefixLen \in Anc[Prompt(cur)] \cup {Root}
    /\ At("loaded") => loads # <<>>

CacheInv == TreeInv /\ LockInv /\ TableInv /\ LoopInv

\* A page that stays locked keeps its device page.
Stays ==
    \A p \in Paths : lockRef[p] > 0 /\ lockRef'[p] > 0 => dev'[p] = dev[p]

-----------------------------------------------------------------------------
(* Types.                                                                  *)

MarkTypes ==
    /\ leaves \subseteq Paths /\ hostLeaves \subseteq Paths
    /\ demoteAfterWrite \subseteq Paths /\ writeDemote \subseteq Paths
    /\ pending \subseteq Paths /\ todo \subseteq Paths

CounterTypes ==
    hostFree \in Nat /\ evictableSize \in Int /\ protectedSize \in Int /\ need \in Nat

ListTypes ==
    /\ loadBack \in [Reqs -> Seq(SUBSET Paths)]
    /\ tailQueue \subseteq Nat \X Paths
    /\ prefixLen \in Paths \cup {Root}

Types == MarkTypes /\ CounterTypes /\ ListTypes
=============================================================================
