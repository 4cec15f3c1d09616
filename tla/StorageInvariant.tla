-------------------------- MODULE StorageInvariant --------------------------
(***************************************************************************)
(* The inductive invariant of StoragePrefetch: how far each operation is,  *)
(* who answers for each host page, what the pages hold, and which nodes    *)
(* the prefetches and the backups under way keep in the tree.              *)
(***************************************************************************)
EXTENDS StoragePrefetch

Types ==
    /\ where \in [Requests -> {"new", "waiting", "running", "done"}]
    /\ tree \in [DOMAIN tree -> Pages] /\ DOMAIN tree \subseteq Paths \ {<<>>}
    /\ free \in Seq(Pages) /\ releaseQ \in Seq(Pages)
    /\ data \in [Pages -> Paths] /\ hostRef \in [Paths -> Int]
    /\ ops \in Seq(Operation) /\ ongoing \in [Requests -> Nat]
    /\ prefetchQ \in Seq(Nat) /\ buffer \in Seq(Nat) /\ revokeQ \in Seq(Requests)
    /\ io \in [step : {"idle", "write", "count", "finish", "dead"}, op : Nat, next : Nat, got : Nat]
    /\ storage \in [DOMAIN storage -> Paths] /\ DOMAIN storage \subseteq Paths
    /\ backupQ \in Seq([path : Paths, page : Pages]) /\ ackQ \in Seq(Paths)
    /\ backups \in SUBSET Paths

\* An entry of ongoing_prefetch is its own request's, which waits for it.
Entries ==
    \A r \in Requests : ongoing[r] # 0 =>
        /\ ongoing[r] \in DOMAIN ops /\ ops[ongoing[r]].rid = r
        /\ where[r] = "waiting"

\* What an operation has read, holds and was given, and what the backend has for it.
OperationIsSound(o) ==
    /\ o.base + o.len = Len(Key[o.rid])
    /\ o.completed <= o.held /\ o.held <= Len(o.pages) /\ Len(o.pages) <= o.len
    /\ IsInjective(o.pages)
    /\ o.stage = "queued" => o.completed = 0 /\ o.held = Len(o.pages)
    /\ o.stage = "buffered" => o.completed = 0
    /\ o.stage = "over" => o.held = o.completed
    /\ o.stage \in {"buffered", "io"} =>
          o.hash <= o.len /\ \A m \in 1..o.hash : PathAt(o, m) \in DOMAIN storage

\* A queue of operations at one stage.
QueueOf(q, stage) ==
    IsInjective(q) /\ \A n \in DOMAIN q : q[n] \in DOMAIN ops /\ ops[q[n]].stage = stage

\* The I/O thread is at the first page that is not counted.
IoIsSound ==
    /\ io.step # "idle" => io.op \in DOMAIN ops /\ ops[io.op].stage = "io"
    /\ io.step \in {"write", "count"} =>
          /\ io.next = ops[io.op].completed + 1
          /\ io.next <= io.got /\ io.got <= ops[io.op].hash
    /\ io.step = "count" =>
          /\ io.next <= ops[io.op].held
          /\ data[ops[io.op].pages[io.next]] = PathAt(ops[io.op], io.next)

Stages ==
    /\ \A i \in DOMAIN ops : OperationIsSound(ops[i])
    /\ QueueOf(prefetchQ, "queued") /\ QueueOf(buffer, "buffered") /\ IoIsSound

\* The pages operation i answers for: the counted ones only while it has its entry.
Counted(i) == IF ongoing[ops[i].rid] = i THEN 0 ELSE ops[i].completed
Hand(i) == {ops[i].pages[n] : n \in (Counted(i) + 1)..ops[i].held}

\* Four kinds of owners, and no page with two.
Apart(F, R, T, H) ==
    /\ F \cap R = {} /\ F \cap T = {} /\ R \cap T = {}
    /\ \A i \in DOMAIN H : H[i] \cap (F \cup R \cup T) = {}
    /\ \A i, j \in DOMAIN H : i # j => H[i] \cap H[j] = {}

Hands == [i \in DOMAIN ops |-> Hand(i)]

Ownership ==
    /\ IsInjective(free) /\ IsInjective(releaseQ) /\ IsInjective(tree)
    /\ Apart(Range(free), Range(releaseQ), Range(tree), Hands)

\* The counted pages of an entry hold what they were fetched for.
EntryData ==
    \A r \in Requests : ongoing[r] # 0 =>
        \A n \in 1..ops[ongoing[r]].completed :
            data[ops[ongoing[r]].pages[n]] = PathAt(ops[ongoing[r]], n)

DataInv == TreeHoldsItsData /\ StorageHoldsItsData /\ EntryData

\* A tree closed under prefixes.
ClosedIn(t) ==
    \A r \in Requests : \A n \in 1..Len(Key[r]) : \A m \in 1..n :
        Prefix(r, n) \in DOMAIN t => Prefix(r, m) \in DOMAIN t

\* The nodes above a prefetch are in t.
AnchorsIn(t) ==
    \A r \in Requests : ongoing[r] # 0 =>
        \A n \in 1..ops[ongoing[r]].base : Prefix(r, n) \in DOMAIN t

\* A node under backup is in t, with the page its backup reads.
BackedIn(t) ==
    /\ backups \subseteq DOMAIN t
    /\ \A k \in DOMAIN backupQ : t[backupQ[k].path] = backupQ[k].page

\* A node is queued for backup once and acknowledged once.
BackupsAreOnce ==
    /\ Range(ackQ) \subseteq backups
    /\ \A k \in DOMAIN backupQ : backupQ[k].path \in backups \ Range(ackQ)
    /\ \A k, l \in DOMAIN backupQ : backupQ[k].path = backupQ[l].path => k = l

TreeInv == ClosedIn(tree) /\ AnchorsIn(tree) /\ BackedIn(tree)

HostInv == TreeInv /\ HostRefsAreExact /\ BackupsAreOnce

StorageInv == Types /\ Entries /\ Stages /\ Ownership /\ DataInv /\ HostInv

-----------------------------------------------------------------------------
(* What the proofs use of finite sets and of numbers; it is proved from the *)
(* library in StoragePrefetchTheorems, which closes the argument.           *)

CardinalityFact == \A S : IsFiniteSet(S) => Cardinality(S) \in Nat /\ Bijection(1..Cardinality(S), S) # {}
SubsetFact == \A S, T : IsFiniteSet(S) /\ T \subseteq S => IsFiniteSet(T)
DifferenceFact ==
    \A S, T : IsFiniteSet(S) /\ T \subseteq S => Cardinality(S \ T) = Cardinality(S) - Cardinality(T)
ElementFact ==
    \A S, x : IsFiniteSet(S) /\ x \notin S =>
        IsFiniteSet(S \cup {x}) /\ Cardinality(S \cup {x}) = Cardinality(S) + 1
EmptyFact == IsFiniteSet({}) /\ Cardinality({}) = 0
SingleFact == \A x : IsFiniteSet({x}) /\ Cardinality({x}) = 1
IntervalFact == \A n \in Nat : IsFiniteSet(1..n) /\ Cardinality(1..n) = n
InductionFact == \A S \in SUBSET Nat : 0 \in S /\ (\A n \in S : n + 1 \in S) => S = Nat

SetFacts ==
    /\ CardinalityFact /\ SubsetFact /\ DifferenceFact /\ ElementFact
    /\ EmptyFact /\ SingleFact /\ IntervalFact /\ InductionFact
=============================================================================
