-------------------------- MODULE BalancedBatchProofs -------------------------
(***************************************************************************)
(* Proofs about balanced batch formation, for any requests, paths, sizes   *)
(* and ratio.  PassInv is about who has been picked, put off and passed    *)
(* over by the scans on the stack; CostInv relates the charges of a batch  *)
(* to the estimates it was admitted by, through what a fold over a set of  *)
(* segments computes.                                                      *)
(***************************************************************************)
EXTENDS BalancedBatch, FiniteSetTheorems, TLAPS

-------------------------------------------------------------------------------
(* The inductive invariant *)

Scans == [anchor : SUBSET Segments, next : Nat \ {0}]

Shape ==
    /\ queue \in Seq(Requests) /\ canRun \in Seq(Requests) /\ depr \in Seq(Requests)
    /\ stack \in Seq(Scans) /\ running \in SUBSET Requests
    /\ phase \in {"idle", "scan", "backfill", "stop", "done"}

\* A request waits once, is picked or put off at most once, and is not running.
Once ==
    /\ IsInjective(queue) /\ Range(queue) \cap running = {}
    /\ IsInjective(canRun) /\ IsInjective(depr) /\ Range(canRun) \cap Range(depr) = {}
    /\ Range(canRun) \subseteq Range(queue) /\ Range(depr) \subseteq Range(queue)

\* What the main scan, at the bottom of the stack, has passed was picked or put off.
Seen == Range(canRun) \cup Range(depr)
Progress ==
    /\ phase = "idle" => canRun = <<>> /\ depr = <<>> /\ charged = {}
    /\ phase = "scan" => /\ stack # <<>>
                         /\ \A i \in DOMAIN queue : i < stack[1].next => queue[i] \in Seen
    /\ phase = "backfill" => Range(queue) \subseteq Seen
    /\ phase = "done" => depr = <<>> /\ Range(queue) \subseteq Seen

\* What is charged is held by a request of the batch, and on the device.
Held == UNION {PathOf(r) : r \in Range(canRun)}
ChargedInv == charged \subseteq Held /\ charged \subseteq resident

PassInv == Shape /\ Once /\ Progress /\ ChargedInv

\* The load of the batch is the size of what it has charged.
CostInv == load = Tokens(charged) /\ compute \in Nat

-------------------------------------------------------------------------------
(* Sequences *)

\* One more element at the end.
LEMMA AppendIs ==
  ASSUME NEW S, NEW s \in Seq(S), NEW e \in S
  PROVE  /\ Append(s, e) \in Seq(S) /\ Range(Append(s, e)) = Range(s) \cup {e}
         /\ IsInjective(s) /\ e \notin Range(s) => IsInjective(Append(s, e))
<1> DEFINE t == Append(s, e)
<1>1. /\ t \in Seq(S) /\ Len(t) = Len(s) + 1 /\ DOMAIN s = 1..Len(s) /\ DOMAIN t = 1..(Len(s) + 1)
      /\ \A i \in 1..Len(s) : t[i] = s[i]
      /\ t[Len(s) + 1] = e /\ Len(s) \in Nat
  OBVIOUS
<1> HIDE DEF t
<1>2. Range(t) = Range(s) \cup {e}
  <2>1. ASSUME NEW x \in Range(t) PROVE x \in Range(s) \cup {e}
    BY <1>1, <2>1 DEF Range
  <2>2. ASSUME NEW x \in Range(s) PROVE x \in Range(t)
    BY <1>1, <2>2 DEF Range
  <2>3. e \in Range(t)
    BY <1>1 DEF Range
  <2> QED
    BY <2>1, <2>2, <2>3
<1>3. ASSUME IsInjective(s), e \notin Range(s) PROVE IsInjective(t)
  <2>1. \A i \in 1..Len(s) : s[i] # e
    BY <1>1, <1>3 DEF Range
  <2> QED
    BY <1>1, <1>3, <2>1 DEF IsInjective
<1> QED
  BY <1>1, <1>2, <1>3 DEF t

\* The first element is taken off.
LEMMA TailIs ==
  ASSUME NEW S, NEW s \in Seq(S), s # <<>>
  PROVE  /\ Tail(s) \in Seq(S) /\ Head(s) \in S
         /\ Range(s) = Range(Tail(s)) \cup {Head(s)}
         /\ IsInjective(s) => IsInjective(Tail(s)) /\ Head(s) \notin Range(Tail(s))
<1> DEFINE t == Tail(s) h == Head(s)
<1>1. /\ t \in Seq(S) /\ Len(s) = Len(t) + 1 /\ DOMAIN t = 1..Len(t) /\ DOMAIN s = 1..(Len(t) + 1)
      /\ \A i \in 1..Len(t) : t[i] = s[i + 1]
      /\ h = s[1] /\ h \in S /\ Len(t) \in Nat
  OBVIOUS
<1> HIDE DEF t, h
<1>2. \A i \in 1..(Len(t) + 1) : i = 1 \/ (i - 1 \in 1..Len(t) /\ s[i] = t[i - 1])
  BY <1>1
<1>3. \A i \in 1..Len(t) : i + 1 \in 1..(Len(t) + 1) /\ i + 1 # 1
  BY <1>1
<1>4. Range(s) = Range(t) \cup {h}
  <2>1. ASSUME NEW x \in Range(s) PROVE x \in Range(t) \cup {h}
    <3>1. PICK i \in 1..(Len(t) + 1) : x = s[i]
      BY <1>1, <2>1 DEF Range
    <3>2. CASE i = 1
      BY <1>1, <3>1, <3>2
    <3>3. CASE i - 1 \in 1..Len(t) /\ s[i] = t[i - 1]
      BY <1>1, <3>1, <3>3, Zenon DEF Range
    <3> QED
      BY <1>2, <3>2, <3>3
  <2>2. ASSUME NEW x \in Range(t) PROVE x \in Range(s)
    BY <1>1, <1>3, <2>2 DEF Range
  <2>3. h \in Range(s)
    BY <1>1 DEF Range
  <2> QED
    BY <2>1, <2>2, <2>3
<1>5. ASSUME IsInjective(s) PROVE IsInjective(t) /\ h \notin Range(t)
  <2>1. \A i, j \in 1..(Len(t) + 1) : s[i] = s[j] => i = j
    BY <1>1, <1>5, Zenon DEF IsInjective
  <2>2. \A i, j \in 1..Len(t) : t[i] = t[j] => i = j
    BY <1>1, <1>3, <2>1
  <2>3. \A i \in 1..Len(t) : t[i] # h
    BY <1>1, <1>3, <2>1
  <2> QED
    BY <1>1, <2>2, <2>3, Zenon DEF IsInjective, Range
<1> QED
  BY <1>1, <1>4, <1>5 DEF t, h
-------------------------------------------------------------------------------
(* Induction *)

\* A set of numbers that has 0 and with each number the next has them all.
LEMMA Induction ==
  ASSUME NEW S \in SUBSET Nat, 0 \in S, \A n \in S : n + 1 \in S
  PROVE  S = Nat
<1> DEFINE R == {s \in Nat \X Nat : s[1] < s[2]}
<1>1. IsWellFoundedOn(R, Nat)
  BY NatLessThanWellFounded, Zenon DEF OpToRel
<1>2. ASSUME Nat \ S # {} PROVE FALSE
  <2>1. PICK x \in Nat \ S : \A y \in Nat \ S : ~ (<<y, x>> \in R)
    <3> HIDE DEF R
    <3> QED
      BY <1>1, <1>2, WFMin, Zenon
  <2>2. \A y \in Nat \ S : ~ (y < x)
    BY <2>1
  <2>3. x # 0 /\ x - 1 \in Nat /\ x - 1 < x /\ (x - 1) + 1 = x
    BY <2>1
  <2> QED
    BY <2>1, <2>2, <2>3
<1> QED
  BY <1>2

\* What Run leaves in the waiting queue: everyone else, still once.
LEMMA WithoutIs ==
  ASSUME NEW T, NEW s \in Seq(T), NEW S
  PROVE  /\ Without(s, S) \in Seq(T) /\ Range(Without(s, S)) = Range(s) \ S
         /\ IsInjective(s) => IsInjective(Without(s, S))
<1> DEFINE n == Len(s)
           Def(f, i) == IF i = 0 THEN <<>>
                        ELSE IF s[i] \in S THEN f[i - 1] ELSE Append(f[i - 1], s[i])
           kept == CHOOSE f : f = [i \in 0..n |-> Def(f, i)]
<1>1. Without(s, S) = kept[n]
  BY Zenon DEF Without
<1>2. n \in Nat /\ DOMAIN s = 1..n /\ \A i \in 1..n : s[i] \in T
  OBVIOUS
<1>3. \E f : f = [i \in 0..n |-> Def(f, i)]
  <2> DEFINE A == {m \in Nat : \E f : f = [i \in 0..m |-> Def(f, i)]}
  <2> HIDE DEF n
  <2>1. 0 \in A
    <3>1. [i \in 0..0 |-> <<>>] = [i \in 0..0 |-> Def([j \in 0..0 |-> <<>>], i)]
      OBVIOUS
    <3> QED
      BY <3>1, Zenon
  <2>2. ASSUME NEW m \in A PROVE m + 1 \in A
    <3>1. PICK g : g = [i \in 0..m |-> Def(g, i)]
      BY Zenon
    <3> DEFINE f == [i \in 0..(m + 1) |-> IF i <= m THEN g[i] ELSE Def(g, m + 1)]
    <3>2. ASSUME NEW i \in 0..(m + 1) PROVE f[i] = Def(f, i)
      <4>1. i # 0 => f[i - 1] = g[i - 1]
        BY <3>2
      <4>2. Def(f, i) = Def(g, i)
        BY <4>1
      <4>3. CASE i <= m
        <5>1. i \in 0..m
          BY <4>3
        <5>2. g[i] = Def(g, i)
          <6> HIDE DEF Def
          <6> QED
            BY <3>1, <5>1
        <5> QED
          BY <4>2, <4>3, <5>2
      <4>4. CASE ~ (i <= m)
        <5>1. i = m + 1
          BY <4>4
        <5> QED
          BY <4>2, <4>4, <5>1
      <4> QED
        BY <4>3, <4>4
    <3>3. f = [i \in 0..(m + 1) |-> Def(f, i)]
      <4> HIDE DEF Def
      <4> QED
        BY <3>2
    <3> QED
      <4> HIDE DEF f, Def
      <4> QED
        BY <3>3
  <2>3. A = Nat
    <3> HIDE DEF A
    <3>1. A \in SUBSET Nat
      BY DEF A
    <3> QED
      BY <2>1, <2>2, <3>1, Induction
  <2> QED
    BY <1>2, <2>3
<1>4. kept = [i \in 0..n |-> Def(kept, i)]
  <2> HIDE DEF Def, n
  <2> QED
    BY <1>3, Zenon
<1>5. \A i \in 0..n : kept[i] = Def(kept, i)
  <2> HIDE DEF Def, n, kept
  <2> QED
    BY <1>4
<1> HIDE DEF kept, n
<1> DEFINE First(i) == {s[j] : j \in 1..i}
           Good(i) == /\ kept[i] \in Seq(T) /\ Range(kept[i]) = First(i) \ S
                      /\ IsInjective(s) => IsInjective(kept[i])
           B == {i \in Nat : i <= n => Good(i)}
<1>6. 0 \in B
  <2>1. kept[0] = <<>> /\ <<>> \in Seq(T) /\ Range(<<>>) = {} /\ IsInjective(<<>>)
    BY <1>2, <1>5 DEF Range, IsInjective
  <2>2. First(0) = {}
    OBVIOUS
  <2> QED
    BY <2>1, <2>2
<1>7. ASSUME NEW i \in B PROVE i + 1 \in B
  <2> SUFFICES ASSUME i + 1 <= n PROVE Good(i + 1)
    OBVIOUS
  <2>1. Good(i) /\ i \in Nat
    BY <1>2
  <2>2. s[i + 1] \in T /\ kept[i + 1] = IF s[i + 1] \in S THEN kept[i] ELSE Append(kept[i], s[i + 1])
    BY <1>2, <1>5, <2>1
  <2>3. First(i + 1) = First(i) \cup {s[i + 1]}
    BY <2>1
  <2>4. IsInjective(s) => s[i + 1] \notin First(i)
    BY <1>2, <2>1 DEF IsInjective
  <2>5. PICK k, e, F : k = kept[i] /\ e = s[i + 1] /\ F = First(i)
    OBVIOUS
  <2>6. CASE e \in S
    BY <2>1, <2>2, <2>3, <2>5, <2>6
  <2>7. CASE e \notin S
    <3>1. k \in Seq(T) /\ Range(k) = F \ S /\ (IsInjective(s) => IsInjective(k) /\ e \notin F) /\ e \in T
      BY <2>1, <2>2, <2>4, <2>5
    <3>2. /\ Append(k, e) \in Seq(T) /\ Range(Append(k, e)) = Range(k) \cup {e}
          /\ IsInjective(k) /\ e \notin Range(k) => IsInjective(Append(k, e))
      BY <3>1, AppendIs, Zenon
    <3>3. kept[i + 1] = Append(k, e) /\ First(i + 1) = F \cup {e}
      BY <2>2, <2>3, <2>5, <2>7
    <3> QED
      BY <2>7, <3>1, <3>2, <3>3
  <2> QED
    BY <2>6, <2>7
<1>8. B = Nat
  <2> HIDE DEF B
  <2>1. B \in SUBSET Nat
    BY DEF B
  <2> QED
    BY <1>6, <1>7, <2>1, Induction
<1>9. Good(n) /\ First(n) = Range(s)
  BY <1>2, <1>8 DEF Range
<1> QED
  BY <1>1, <1>9
-------------------------------------------------------------------------------
(* The scans *)

\* The scan at the top of the stack goes on by one; the main scan is at the bottom.
LEMMA AdvanceIs ==
  ASSUME NEW s \in Seq(Scans), s # <<>>, NEW u, NEW t,
         t = [s[Len(s)] EXCEPT !.next = @ + 1], u = [s EXCEPT ![Len(s)] = t]
  PROVE  /\ u \in Seq(Scans) /\ u # <<>> /\ t \in Scans
         /\ u[1].next = IF Len(s) = 1 THEN s[Len(s)].next + 1 ELSE s[1].next
<1>1. PICK n : n = Len(s)
  OBVIOUS
<1>2. n \in Nat /\ n >= 1 /\ \A i \in 1..n : s[i] \in Scans
  BY <1>1
<1>3. PICK l : l = s[n]
  OBVIOUS
<1>4. l = [anchor |-> l.anchor, next |-> l.next] /\ l.anchor \in SUBSET Segments /\ l.next \in Nat
  BY <1>2, <1>3 DEF Scans
<1>5. t = [anchor |-> l.anchor, next |-> l.next + 1] /\ l.next + 1 \in Nat \ {0}
  BY <1>1, <1>3, <1>4
<1>6. t \in Scans /\ t.next = l.next + 1
  BY <1>4, <1>5 DEF Scans
<1>7. u \in Seq(Scans) /\ Len(u) = n /\ u[n] = t /\ (n # 1 => u[1] = s[1])
  BY <1>1, <1>2, <1>6
<1> QED
  BY <1>1, <1>2, <1>3, <1>6, <1>7

\* A scan is over: the one below it goes on.
LEMMA EndIs ==
  ASSUME NEW s \in Seq(Scans), s # <<>>, NEW u, u = SubSeq(s, 1, Len(s) - 1)
  PROVE  u \in Seq(Scans) /\ (Len(s) # 1 => u # <<>> /\ u[1] = s[1])
<1>1. PICK n : n = Len(s)
  OBVIOUS
<1>2. n \in Nat /\ n >= 1 /\ \A i \in 1..n : s[i] \in Scans
  BY <1>1
<1>3. u \in Seq(Scans) /\ Len(u) = n - 1 /\ \A i \in 1..(n - 1) : u[i] = s[i]
  BY <1>1, <1>2
<1>4. ASSUME n # 1 PROVE u # <<>> /\ u[1] = s[1]
  <2>1. Len(u) # 0 /\ 1 \in 1..(n - 1)
    BY <1>2, <1>3, <1>4
  <2> QED
    BY <1>3, <2>1
<1> QED
  BY <1>1, <1>3, <1>4

\* A request is tried where a scan is.
LEMMA CandidateIs ==
  ASSUME PassInv, Scanning
  PROVE  /\ stack \in Seq(Scans) /\ stack # <<>> /\ Top.next \in DOMAIN queue
         /\ Candidate \in Requests /\ Candidate \in Range(queue)
         /\ (Len(stack) = 1 => Top.next = stack[1].next) /\ stack[1].next \in Nat
         /\ Top.next \in Nat
<1>1. stack \in Seq(Scans) /\ stack # <<>> /\ queue \in Seq(Requests) /\ Top.next <= Len(queue)
  BY DEF PassInv, Shape, Progress, Scanning
<1>2. Top \in Scans /\ stack[1] \in Scans /\ (Len(stack) = 1 => Top = stack[1])
  BY <1>1 DEF Top
<1>3. Top.next \in Nat \ {0} /\ stack[1].next \in Nat
  BY <1>2 DEF Scans
<1>4. PICK n : n = Top.next
  OBVIOUS
<1>5. n \in DOMAIN queue /\ queue[n] \in Requests
  BY <1>1, <1>3, <1>4
<1>6. Candidate = queue[n]
  BY <1>4 DEF Candidate
<1> QED
  BY <1>1, <1>2, <1>3, <1>4, <1>5, <1>6 DEF Range

\* The main scan has passed one request more, if that was picked or put off.
LEMMA ScanGoesOn ==
  ASSUME PassInv, Scanning, queue' = queue, stack' # <<>>,
         stack'[1].next = (IF Len(stack) = 1 THEN Top.next + 1 ELSE stack[1].next),
         Seen \subseteq Seen',
         Len(stack) = 1 => Candidate \in Seen'
  PROVE  stack' # <<>> /\ \A i \in DOMAIN queue' : i < stack'[1].next => queue'[i] \in Seen'
<1>1. \A i \in DOMAIN queue : i < stack[1].next => queue[i] \in Seen
  BY DEF PassInv, Progress, Scanning
<1>2. /\ Top.next \in DOMAIN queue /\ (Len(stack) = 1 => Top.next = stack[1].next)
      /\ stack[1].next \in Nat /\ Top.next \in Nat
  BY CandidateIs
<1>3. \A i \in DOMAIN queue : i \in Nat
  BY DEF PassInv, Shape
<1>4. Candidate = queue[Top.next]
  BY DEF Candidate
<1>5. ASSUME NEW i \in DOMAIN queue, i < stack'[1].next PROVE queue[i] \in Seen'
  <2>1. CASE i < stack[1].next
    BY <1>1, <1>5, <2>1
  <2>2. CASE ~ (i < stack[1].next)
    <3>1. Len(stack) = 1 /\ i = Top.next
      BY <1>2, <1>3, <1>5, <2>2
    <3> QED
      BY <1>4, <3>1
  <2> QED
    BY <2>1, <2>2
<1> QED
  BY <1>5
-------------------------------------------------------------------------------
(* Admission *)

\* Whatever eviction for a load takes, it leaves what the batch has loaded.
LEMMA KeptIs ==
  ASSUME PassInv, NEW r, NEW S \in Kept(r)
  PROVE  charged \subseteq S
<1>1. charged \subseteq Held /\ charged \subseteq resident
  BY DEF PassInv, ChargedInv
<1>2. CASE S = resident
  BY <1>1, <1>2
<1>3. CASE S \in Evictions
  <2>1. Locked \subseteq S
    BY <1>3, Zenon DEF Evictions
  <2>2. Held \cap resident \subseteq Locked
    <3> SUFFICES ASSUME NEW x \in Held, x \in resident PROVE x \in Locked
      OBVIOUS
    <3>1. PICK q \in Range(canRun) : x \in PathOf(q)
      BY DEF Held
    <3>2. q \in running \cup Range(canRun)
      BY <3>1
    <3>3. x \in UNION {PathOf(p) : p \in running \cup Range(canRun)}
      BY <3>1, <3>2, Zenon
    <3> QED
      BY <3>3 DEF Locked
  <2> QED
    BY <1>1, <2>1, <2>2
<1> QED
  BY <1>2, <1>3, Zenon DEF Kept

\* What is charged, after a step that loads nothing.
LEMMA ChargedStays ==
  ASSUME PassInv, NEW r, UNCHANGED <<canRun, charged>>, resident' = resident \/ resident' \in Kept(r)
  PROVE  ChargedInv'
<1>1. charged \subseteq resident'
  BY KeptIs DEF PassInv, ChargedInv
<1>2. Held' = Held
  BY Zenon DEF Held
<1> QED
  BY <1>1, <1>2 DEF PassInv, ChargedInv

\* add_one_req and _hybrid_bbf_commit_req.
LEMMA AddedIs ==
  ASSUME PassInv, NEW r \in Requests, r \notin Range(canRun), NEW loads, Added(r, loads)
  PROVE  /\ canRun' \in Seq(Requests) /\ Range(canRun') = Range(canRun) \cup {r}
         /\ IsInjective(canRun') /\ ChargedInv'
<1>1. canRun \in Seq(Requests) /\ IsInjective(canRun) /\ canRun' = Append(canRun, r)
  BY DEF PassInv, Shape, Once, Added
<1>2. /\ canRun' \in Seq(Requests) /\ Range(canRun') = Range(canRun) \cup {r}
      /\ IsInjective(canRun')
  BY <1>1, AppendIs
<1>3. PICK new : /\ new = IF loads THEN LoadSegments(r) ELSE {}
                 /\ \E kept \in Kept(r) : resident' = kept \cup new
                 /\ charged' = charged \cup new
  BY Zenon DEF Added
<1>4. PICK kept \in Kept(r) : resident' = kept \cup new
  BY <1>3
<1>5. new \subseteq PathOf(r)
  BY <1>3 DEF LoadSegments
<1>6. charged \subseteq kept /\ charged \subseteq Held
  BY KeptIs DEF PassInv, ChargedInv
<1>7. Held' = Held \cup PathOf(r)
  <2>1. Held' = UNION {PathOf(q) : q \in Range(canRun')}
    BY Zenon DEF Held, PathOf
  <2> QED
    BY <1>2, <2>1 DEF Held
<1>8. ChargedInv'
  BY <1>3, <1>4, <1>5, <1>6, <1>7 DEF ChargedInv
<1> QED
  BY <1>2, <1>8

\* The pass stops: the requests picked so far are run.
LEMMA StopStep ==
  ASSUME PassInv, NEW f, Stop(f), UNCHANGED <<queue, running, depr>>,
         NEW r, resident' = resident \/ resident' \in Kept(r)
  PROVE  PassInv'
<1>1. phase' = "stop" /\ UNCHANGED <<stack, canRun, charged>>
  BY Zenon DEF Stop
<1>2. ChargedInv'
  BY <1>1, ChargedStays
<1>3. Shape' /\ Once'
  BY <1>1 DEF PassInv, Shape, Once
<1>4. Progress'
  BY <1>1 DEF Progress
<1> QED
  BY <1>2, <1>3, <1>4 DEF PassInv

\* A request is refused for memory, slots or input tokens.
LEMMA RefusedStep ==
  ASSUME PassInv, NEW r, Refused(r), UNCHANGED <<queue, running, depr>>
  PROVE  PassInv'
<1>1. CASE Stop(TRUE) /\ UNCHANGED resident
  BY <1>1, StopStep
<1>2. CASE Stop(full) /\ resident' \in Kept(r)
  BY <1>2, StopStep
<1> QED
  BY <1>1, <1>2, Zenon DEF Refused
-------------------------------------------------------------------------------
(* The steps *)

\* A request joins the waiting queue between two passes.
LEMMA ArriveStep ==
  ASSUME PassInv, NEW r \in Requests, Arrive(r)
  PROVE  PassInv'
<1>1. /\ phase = "idle" /\ r \notin running /\ r \notin Range(queue) /\ queue' = Append(queue, r)
      /\ UNCHANGED <<running, resident, phase, stack, canRun, depr, charged>>
  BY Zenon DEF Arrive, passVars
<1>2. queue \in Seq(Requests) /\ IsInjective(queue)
  BY DEF PassInv, Shape, Once
<1>3. queue' \in Seq(Requests) /\ Range(queue') = Range(queue) \cup {r} /\ IsInjective(queue')
  BY <1>1, <1>2, AppendIs
<1>4. Shape' /\ Once'
  BY <1>1, <1>3 DEF PassInv, Shape, Once
<1>5. Progress'
  BY <1>1 DEF PassInv, Progress
<1>6. ChargedInv'
  BY <1>1, ChargedStays
<1> QED
  BY <1>4, <1>5, <1>6 DEF PassInv

\* A running request finishes between two passes.
LEMMA FinishStep ==
  ASSUME PassInv, NEW r \in Requests, Finish(r)
  PROVE  PassInv'
<1>1. /\ phase = "idle" /\ running' = running \ {r}
      /\ UNCHANGED <<queue, phase, stack, canRun, depr, charged>>
  BY Zenon DEF Finish, passVars
<1>2. Shape' /\ Once'
  BY <1>1 DEF PassInv, Shape, Once
<1>3. Progress' /\ charged = {}
  BY <1>1 DEF PassInv, Progress
<1>4. ChargedInv'
  BY <1>1, <1>3 DEF ChargedInv
<1> QED
  BY <1>2, <1>3, <1>4 DEF PassInv

\* A pass begins.
LEMMA BeginStep ==
  ASSUME PassInv, Begin
  PROVE  PassInv'
<1>1. /\ phase = "idle" /\ UNCHANGED <<queue, running, resident, canRun, depr, charged>>
      /\ \/ UNCHANGED <<phase, stack>>
         \/ phase' = "scan" /\ stack' = <<[anchor |-> {}, next |-> 1]>>
  BY Zenon DEF Begin
<1>2. ChargedInv'
  BY <1>1, ChargedStays
<1>3. Once'
  BY <1>1 DEF PassInv, Once
<1>4. CASE UNCHANGED <<phase, stack>>
  BY <1>1, <1>2, <1>3, <1>4 DEF PassInv, Shape, Progress
<1>5. CASE phase' = "scan" /\ stack' = <<[anchor |-> {}, next |-> 1]>>
  <2>1. stack' \in Seq(Scans) /\ stack' # <<>> /\ stack'[1].next = 1
    BY <1>5 DEF Scans
  <2>2. Shape'
    BY <1>1, <1>5, <2>1 DEF PassInv, Shape
  <2>3. \A i \in DOMAIN queue : ~ (i < 1)
    BY DEF PassInv, Shape
  <2>4. Progress'
    BY <1>1, <1>5, <2>1, <2>3 DEF Progress
  <2> QED
    BY <1>2, <1>3, <2>2, <2>4 DEF PassInv
<1> QED
  BY <1>1, <1>4, <1>5

\* A scan passes over a request that was picked, put off or is not in the
\* bundle.
LEMMA SkipStep ==
  ASSUME PassInv, Skip
  PROVE  PassInv'
<1>1. /\ Scanning /\ ~ Tried /\ Advance
      /\ UNCHANGED <<queue, running, resident, phase, canRun, depr, charged>>
  BY Zenon DEF Skip
<1>2. stack \in Seq(Scans) /\ stack # <<>> /\ phase = "scan"
  BY <1>1, CandidateIs DEF Scanning
<1>3. /\ stack' \in Seq(Scans) /\ stack' # <<>>
      /\ stack'[1].next = IF Len(stack) = 1 THEN Top.next + 1 ELSE stack[1].next
  BY <1>1, <1>2, AdvanceIs DEF Advance, Top
<1>4. Seen' = Seen
  BY <1>1 DEF Seen
<1>5. Len(stack) = 1 => Candidate \in Seen
  BY <1>1, Zenon DEF Tried, Seen
<1>6. Shape' /\ Once'
  BY <1>1, <1>3 DEF PassInv, Shape, Once
<1>7. stack' # <<>> /\ \A i \in DOMAIN queue' : i < stack'[1].next => queue'[i] \in Seen'
  BY <1>1, <1>3, <1>4, <1>5, ScanGoesOn
<1>8. Progress'
  BY <1>1, <1>2, <1>7 DEF Progress
<1>9. ChargedInv'
  BY <1>1, ChargedStays
<1> QED
  BY <1>6, <1>8, <1>9 DEF PassInv

\* The batch is full.
LEMMA HardStopStep ==
  ASSUME PassInv, HardStop
  PROVE  PassInv'
BY StopStep, Zenon DEF HardStop

\* The adder refuses the candidate of the scan.
LEMMA RefuseStep ==
  ASSUME PassInv, Refuse
  PROVE  PassInv'
BY RefusedStep, Zenon DEF Refuse
\* A request of the queue is admitted by the scan at the top of the stack.
LEMMA AdmitStep ==
  ASSUME PassInv, Scanning, Tried, Admit(Candidate)
  PROVE  PassInv'
<1>1. PICK r : r = Candidate
  OBVIOUS
<1>2. /\ stack \in Seq(Scans) /\ stack # <<>> /\ r \in Requests /\ r \in Range(queue)
      /\ phase = "scan"
  BY <1>1, CandidateIs DEF Scanning
<1>3. r \notin Range(canRun) /\ r \notin Range(depr)
  BY <1>1, Zenon DEF Tried
<1>4. UNCHANGED <<queue, running, depr>> /\ \E loads : Added(r, loads)
  BY <1>1, Zenon DEF Admit
<1>5. /\ canRun' \in Seq(Requests) /\ Range(canRun') = Range(canRun) \cup {r}
      /\ IsInjective(canRun') /\ ChargedInv'
  BY <1>2, <1>3, <1>4, AddedIs
<1>6. Once'
  BY <1>2, <1>3, <1>4, <1>5 DEF PassInv, Once
<1>7. CASE RunsOut /\ UNCHANGED stack
  <2>1. phase' = "stop"
    BY <1>7, Zenon DEF RunsOut
  <2>2. Shape'
    BY <1>4, <1>5, <1>7, <2>1 DEF PassInv, Shape
  <2>3. Progress'
    BY <2>1 DEF Progress
  <2> QED
    BY <1>5, <1>6, <2>2, <2>3 DEF PassInv
<1>8. ASSUME GoesOn("scan"), NEW t, t = [Top EXCEPT !.next = @ + 1],
             stack' = [stack EXCEPT ![Len(stack)] = t] \o
                    IF LoadSegments(r) = {} THEN <<>>
                    ELSE <<[anchor |-> LoadSegments(r), next |-> t.next]>>
      PROVE  PassInv'
  <2>1. PICK u : u = [stack EXCEPT ![Len(stack)] = t]
    OBVIOUS
  <2>2. /\ u \in Seq(Scans) /\ u # <<>> /\ t \in Scans
        /\ u[1].next = IF Len(stack) = 1 THEN Top.next + 1 ELSE stack[1].next
    BY <1>2, <1>8, <2>1, AdvanceIs DEF Top
  <2>3. PICK v : v = IF LoadSegments(r) = {} THEN <<>>
                     ELSE <<[anchor |-> LoadSegments(r), next |-> t.next]>>
    OBVIOUS
  <2>4. v \in Seq(Scans)
    <3>1. LoadSegments(r) \in SUBSET Segments
      BY <1>2, BalancedAssumption DEF LoadSegments, PathOf, Range
    <3>2. t.next \in Nat \ {0}
      BY <2>2 DEF Scans
    <3>3. [anchor |-> LoadSegments(r), next |-> t.next] \in Scans
      BY <3>1, <3>2 DEF Scans
    <3> QED
      BY <2>3, <3>3
  <2>5. stack' = u \o v
    BY <1>8, <2>1, <2>3
  <2>6. stack' \in Seq(Scans) /\ stack' # <<>> /\ stack'[1] = u[1]
    BY <2>2, <2>4, <2>5
  <2>7. phase' = "scan"
    BY <1>8, Zenon DEF GoesOn
  <2>8. Shape'
    BY <1>4, <1>5, <2>6, <2>7 DEF PassInv, Shape
  <2>9. Seen \subseteq Seen' /\ Candidate \in Seen'
    BY <1>1, <1>4, <1>5 DEF Seen
  <2>10. stack' # <<>> /\ \A i \in DOMAIN queue' : i < stack'[1].next => queue'[i] \in Seen'
    BY <1>4, <2>2, <2>6, <2>9, ScanGoesOn
  <2>11. Progress'
    BY <2>7, <2>10 DEF Progress
  <2> QED
    BY <1>5, <1>6, <2>8, <2>11 DEF PassInv
<1> QED
  BY <1>1, <1>7, <1>8, Zenon DEF Admit

\* The ratio puts a request off.
LEMMA DeprioritizeStep ==
  ASSUME PassInv, Deprioritize
  PROVE  PassInv'
<1>1. PICK r : r = Candidate
  OBVIOUS
<1>2. /\ Scanning /\ Tried /\ Advance /\ depr' = Append(depr, r)
      /\ UNCHANGED <<queue, running, resident, phase, canRun, charged>>
  BY <1>1, Zenon DEF Deprioritize
<1>3. /\ stack \in Seq(Scans) /\ stack # <<>> /\ r \in Requests /\ r \in Range(queue)
      /\ phase = "scan"
  BY <1>1, <1>2, CandidateIs DEF Scanning
<1>4. r \notin Range(canRun) /\ r \notin Range(depr)
  BY <1>1, <1>2, Zenon DEF Tried
<1>5. depr \in Seq(Requests) /\ IsInjective(depr)
  BY DEF PassInv, Shape, Once
<1>6. depr' \in Seq(Requests) /\ Range(depr') = Range(depr) \cup {r} /\ IsInjective(depr')
  BY <1>2, <1>3, <1>4, <1>5, AppendIs
<1>7. /\ stack' \in Seq(Scans) /\ stack' # <<>>
      /\ stack'[1].next = IF Len(stack) = 1 THEN Top.next + 1 ELSE stack[1].next
  BY <1>2, <1>3, AdvanceIs DEF Advance, Top
<1>8. Shape' /\ Once'
  BY <1>2, <1>3, <1>4, <1>6, <1>7 DEF PassInv, Shape, Once
<1>9. Seen \subseteq Seen' /\ Candidate \in Seen'
  BY <1>1, <1>2, <1>6 DEF Seen
<1>10. stack' # <<>> /\ \A i \in DOMAIN queue' : i < stack'[1].next => queue'[i] \in Seen'
  BY <1>2, <1>7, <1>9, ScanGoesOn
<1>11. Progress'
  BY <1>2, <1>3, <1>10 DEF Progress
<1>12. ChargedInv'
  BY <1>2, ChargedStays
<1> QED
  BY <1>8, <1>11, <1>12 DEF PassInv
\* A scan reaches the end of the queue and returns to the one that called it.
LEMMA EndScanStep ==
  ASSUME PassInv, EndScan
  PROVE  PassInv'
<1>1. /\ phase = "scan" /\ Top.next > Len(queue) /\ stack' = SubSeq(stack, 1, Len(stack) - 1)
      /\ phase' = (IF Len(stack) = 1 THEN "backfill" ELSE "scan")
      /\ UNCHANGED <<queue, running, resident, canRun, depr, charged>>
  BY Zenon DEF EndScan
<1>2. /\ stack \in Seq(Scans) /\ stack # <<>> /\ queue \in Seq(Requests)
      /\ \A i \in DOMAIN queue : i < stack[1].next => queue[i] \in Seen
  BY <1>1 DEF PassInv, Shape, Progress
<1>3. stack' \in Seq(Scans) /\ (Len(stack) # 1 => stack' # <<>> /\ stack'[1] = stack[1])
  BY <1>1, <1>2, EndIs
<1>4. Shape' /\ Once'
  BY <1>1, <1>3 DEF PassInv, Shape, Once
<1>5. ChargedInv'
  BY <1>1, ChargedStays
<1>6. Seen' = Seen
  BY <1>1 DEF Seen
<1>7. CASE Len(stack) = 1
  <2>1. stack[1] \in Scans /\ Top = stack[1]
    BY <1>2, <1>7 DEF Top
  <2>2. stack[1].next \in Nat /\ stack[1].next > Len(queue)
    BY <1>1, <2>1 DEF Scans
  <2>3. \A i \in DOMAIN queue : i < stack[1].next
    BY <1>2, <2>2
  <2>4. Range(queue) \subseteq Seen
    BY <1>2, <2>3 DEF Range
  <2>5. Progress'
    BY <1>1, <1>6, <1>7, <2>4 DEF Progress
  <2> QED
    BY <1>4, <1>5, <2>5 DEF PassInv
<1>8. CASE Len(stack) # 1
  <2>1. Progress'
    BY <1>1, <1>2, <1>3, <1>6, <1>8 DEF Progress
  <2> QED
    BY <1>4, <1>5, <2>1 DEF PassInv
<1> QED
  BY <1>7, <1>8

\* The backfill takes the first of the requests that were put off.
LEMMA BackfillAdmits ==
  ASSUME PassInv, phase = "backfill", depr # <<>>, NEW loads, Added(Head(depr), loads),
         GoesOn("backfill") \/ RunsOut, depr' = Tail(depr), UNCHANGED <<queue, running, stack>>
  PROVE  PassInv'
<1>1. PICK r, t : r = Head(depr) /\ t = Tail(depr)
  OBVIOUS
<1>2. depr \in Seq(Requests) /\ IsInjective(depr)
  BY DEF PassInv, Shape, Once
<1>3. /\ t \in Seq(Requests) /\ r \in Requests /\ Range(depr) = Range(t) \cup {r}
      /\ IsInjective(t) /\ r \notin Range(t)
  BY <1>1, <1>2, TailIs
<1>4. r \notin Range(canRun)
  BY <1>3 DEF PassInv, Once
<1>5. /\ canRun' \in Seq(Requests) /\ Range(canRun') = Range(canRun) \cup {r}
      /\ IsInjective(canRun') /\ ChargedInv'
  BY <1>1, <1>3, <1>4, AddedIs
<1>6. phase' \in {"backfill", "stop"}
  BY Zenon DEF GoesOn, RunsOut
<1>7. Shape'
  BY <1>1, <1>3, <1>5, <1>6 DEF PassInv, Shape
<1>8. Once'
  BY <1>1, <1>3, <1>5 DEF PassInv, Once
<1>9. Seen' = Seen
  BY <1>1, <1>3, <1>5 DEF Seen
<1>10. Progress'
  BY <1>6, <1>9 DEF PassInv, Progress
<1> QED
  BY <1>5, <1>7, <1>8, <1>10 DEF PassInv

\* The backfill takes or refuses the next request that was put off.
LEMMA BackfillStep ==
  ASSUME PassInv, Backfill
  PROVE  PassInv'
<1>1. phase = "backfill" /\ UNCHANGED <<queue, running>>
  BY Zenon DEF Backfill
<1>2. CASE depr = <<>>
  <2>1. phase' = "done" /\ UNCHANGED <<resident, stack, canRun, depr, charged>>
    BY <1>2, Zenon DEF Backfill, passVars
  <2>2. ChargedInv'
    BY <2>1, ChargedStays
  <2>3. Shape' /\ Once'
    BY <1>1, <2>1 DEF PassInv, Shape, Once
  <2>4. Range(queue) \subseteq Seen /\ Seen' = Seen
    BY <1>1, <2>1 DEF PassInv, Progress, Seen
  <2>5. Progress'
    BY <1>1, <1>2, <2>1, <2>4 DEF Progress
  <2> QED
    BY <2>2, <2>3, <2>5 DEF PassInv
<1>3. CASE depr # <<>> /\ Stop(TRUE) /\ UNCHANGED <<resident, depr>>
  BY <1>1, <1>3, StopStep
<1>4. CASE depr # <<>> /\ Refused(Head(depr)) /\ UNCHANGED depr
  BY <1>1, <1>4, RefusedStep
<1>5. CASE /\ depr # <<>> /\ \E loads : Added(Head(depr), loads)
           /\ GoesOn("backfill") \/ RunsOut
           /\ depr' = Tail(depr) /\ UNCHANGED stack
  BY <1>1, <1>5, BackfillAdmits
<1> QED
  BY <1>2, <1>3, <1>4, <1>5, Zenon DEF Backfill

\* The pass ends and its requests run.
LEMMA RunStep ==
  ASSUME PassInv, Run
  PROVE  PassInv'
<1>1. /\ running' = running \cup Range(canRun) /\ queue' = Without(queue, Range(canRun))
      /\ phase' = "idle" /\ stack' = <<>> /\ canRun' = <<>> /\ depr' = <<>> /\ charged' = {}
  BY Zenon DEF Run
<1>2. /\ queue \in Seq(Requests) /\ IsInjective(queue) /\ canRun \in Seq(Requests)
      /\ running \in SUBSET Requests /\ Range(queue) \cap running = {}
  BY DEF PassInv, Shape, Once
<1>3. /\ queue' \in Seq(Requests) /\ Range(queue') = Range(queue) \ Range(canRun)
      /\ IsInjective(queue')
  BY <1>1, <1>2, WithoutIs
<1>4. Range(canRun) \in SUBSET Requests
  BY <1>2 DEF Range
<1>5. Range(<<>>) = {} /\ IsInjective(<<>>)
  BY DEF Range, IsInjective
<1>6. Shape' /\ Once'
  BY <1>1, <1>2, <1>3, <1>4, <1>5 DEF Shape, Once
<1>7. Progress' /\ ChargedInv'
  BY <1>1 DEF Progress, ChargedInv
<1> QED
  BY <1>6, <1>7 DEF PassInv
-------------------------------------------------------------------------------
(* Tokens *)

\* A property that a set of segments has when its strict subsets have it, all have.
LEMMA SubsetInduction ==
  ASSUME NEW A \in SUBSET (SUBSET Segments),
         \A s \in SUBSET Segments : (\A t \in SUBSET s : t # s => t \in A) => s \in A
  PROVE  A = SUBSET Segments
<1>1. FiniteSubsetsOf(Segments) = SUBSET Segments
  BY BalancedAssumption, FS_FiniteSubsetsOfFinite
<1>2. PICK R : R = StrictSubsetOrdering(Segments)
  OBVIOUS
<1>3. IsWellFoundedOn(R, SUBSET Segments)
  BY <1>1, <1>2, FS_StrictSubsetOrderingWellFounded
<1>4. \A s, t \in SUBSET Segments : s \subseteq t /\ s # t => <<s, t>> \in R
  BY <1>2 DEF StrictSubsetOrdering
<1>5. ASSUME (SUBSET Segments) \ A # {} PROVE FALSE
  <2>1. PICK B : B = (SUBSET Segments) \ A
    OBVIOUS
  <2>2. B \subseteq SUBSET Segments /\ B # {}
    BY <1>5, <2>1
  <2>3. PICK s \in B : \A t \in B : ~ (<<t, s>> \in R)
    <3>1. PICK U : U = SUBSET Segments
      OBVIOUS
    <3>2. IsWellFoundedOn(R, U) /\ B \subseteq U /\ B # {}
      BY <1>3, <2>2, <3>1, Zenon
    <3> QED
      BY <3>2, WFMin
  <2>4. ASSUME NEW t \in SUBSET s, t # s PROVE t \in A
    <3>1. s \in SUBSET Segments /\ t \in SUBSET Segments
      BY <2>1, <2>3
    <3>2. <<t, s>> \in R
      BY <1>4, <2>4, <3>1
    <3> QED
      BY <2>1, <2>3, <3>1, <3>2
  <2> QED
    BY <2>1, <2>3, <2>4
<1> QED
  BY <1>5

\* The fold that Tokens is, over the subsets of one set.
Pick(s) == CHOOSE x \in s : TRUE
Fold(f, s) == IF s = {} THEN 0 ELSE Size[Pick(s)] + f[s \ {Pick(s)}]
IsFold(f, S) == f = [s \in SUBSET S |-> Fold(f, s)]

\* The element a fold takes next is of the set.
LEMMA PickIs == \A s : s # {} => Pick(s) \in s
BY Zenon DEF Pick

\* Tokens is the fold of the sizes.
LEMMA TokensIs ==
  ASSUME NEW S
  PROVE  Tokens(S) = (CHOOSE f : IsFold(f, S))[S]
BY Zenon DEF Tokens, SumFunctionOnSet, FoldFunctionOnSet, MapThenFoldSet, IsFold, Fold, Pick

\* Two folds agree where both are defined.
LEMMA FoldUnique ==
  ASSUME NEW S \in SUBSET Segments, NEW T \in SUBSET Segments,
         NEW f, NEW g, IsFold(f, S), IsFold(g, T)
  PROVE  \A u \in SUBSET Segments : u \subseteq S /\ u \subseteq T => f[u] = g[u]
<1> DEFINE A == {u \in SUBSET Segments : u \subseteq S /\ u \subseteq T => f[u] = g[u]}
<1>1. /\ \A u \in SUBSET S : f[u] = Fold(f, u)
      /\ \A u \in SUBSET T : g[u] = Fold(g, u)
  BY DEF IsFold
<1>2. ASSUME NEW u \in SUBSET Segments, \A t \in SUBSET u : t # u => t \in A
      PROVE  u \in A
  <2> SUFFICES ASSUME u \subseteq S, u \subseteq T PROVE f[u] = g[u]
    OBVIOUS
  <2>1. f[u] = Fold(f, u) /\ g[u] = Fold(g, u)
    BY <1>1
  <2>2. CASE u = {}
    BY <2>1, <2>2 DEF Fold
  <2>3. CASE u # {}
    <3>1. PICK t : t = u \ {Pick(u)}
      OBVIOUS
    <3>2. t \in SUBSET u /\ t # u
      BY <2>3, <3>1, PickIs
    <3>3. f[t] = g[t]
      BY <1>2, <3>2
    <3> QED
      BY <2>1, <2>3, <3>1, <3>3 DEF Fold
  <2> QED
    BY <2>2, <2>3
<1>3. A = SUBSET Segments
  <2>1. A \in SUBSET (SUBSET Segments)
    OBVIOUS
  <2> HIDE DEF A
  <2> QED
    BY <1>2, <2>1, SubsetInduction, Zenon
<1> QED
  BY <1>3

\* What Tokens is, from what it is for one segment less.
LEMMA TokensStep ==
  ASSUME NEW S \in SUBSET Segments, \A t \in SUBSET S : \E f : IsFold(f, t)
  PROVE  Tokens(S) = IF S = {} THEN 0 ELSE Size[Pick(S)] + Tokens(S \ {Pick(S)})
<1>1. PICK f : f = CHOOSE g : IsFold(g, S)
  OBVIOUS
<1>2. IsFold(f, S)
  BY <1>1, Zenon
<1>3. Tokens(S) = f[S]
  BY <1>1, TokensIs, Zenon
<1>4. f[S] = Fold(f, S)
  BY <1>2 DEF IsFold
<1>5. CASE S = {}
  BY <1>3, <1>4, <1>5 DEF Fold
<1>6. CASE S # {}
  <2>1. PICK t : t = S \ {Pick(S)}
    OBVIOUS
  <2>2. t \in SUBSET S /\ t \in SUBSET Segments
    BY <2>1
  <2>3. PICK g : g = CHOOSE h : IsFold(h, t)
    OBVIOUS
  <2>4. IsFold(g, t)
    BY <2>2, <2>3, Zenon
  <2>5. Tokens(t) = g[t]
    BY <2>3, TokensIs, Zenon
  <2>6. f[t] = g[t]
    BY <1>2, <2>2, <2>4, FoldUnique
  <2> QED
    BY <1>3, <1>4, <1>6, <2>1, <2>5, <2>6 DEF Fold
<1> QED
  BY <1>5, <1>6

\* There is a fold over every set of segments.
LEMMA FoldExists == \A S \in SUBSET Segments : \E f : IsFold(f, S)
<1> DEFINE A == {S \in SUBSET Segments : \A t \in SUBSET S : \E f : IsFold(f, t)}
<1>1. ASSUME NEW S \in SUBSET Segments, \A t \in SUBSET S : t # S => t \in A
      PROVE  S \in A
  <2>1. \A t \in SUBSET S : t # S =>
           Tokens(t) = IF t = {} THEN 0 ELSE Size[Pick(t)] + Tokens(t \ {Pick(t)})
    BY <1>1, TokensStep
  <2> DEFINE f == [t \in SUBSET S |-> IF t = {} THEN 0 ELSE Size[Pick(t)] + Tokens(t \ {Pick(t)})]
  <2>2. ASSUME NEW t \in SUBSET S PROVE f[t] = Fold(f, t)
    <3>1. CASE t = {}
      BY <3>1 DEF Fold
    <3>2. CASE t # {}
      <4>1. PICK u : u = t \ {Pick(t)}
        OBVIOUS
      <4>2. u \in SUBSET S /\ u # S
        BY <3>2, <4>1, PickIs
      <4>3. f[u] = Tokens(u)
        BY <2>1, <4>2
      <4>4. f[t] = Size[Pick(t)] + Tokens(u)
        BY <3>2, <4>1
      <4> HIDE DEF f
      <4> QED
        BY <3>2, <4>1, <4>3, <4>4 DEF Fold
    <3> QED
      BY <3>1, <3>2
  <2>3. IsFold(f, S)
    BY <2>2 DEF IsFold
  <2>4. \E h : IsFold(h, S)
    BY <2>3, Zenon
  <2>5. ASSUME NEW t \in SUBSET S PROVE \E h : IsFold(h, t)
    BY <1>1, <2>4
  <2> QED
    BY <2>5
<1>2. A = SUBSET Segments
  <2>1. A \in SUBSET (SUBSET Segments)
    OBVIOUS
  <2> HIDE DEF A
  <2> QED
    BY <1>1, <2>1, SubsetInduction, Zenon
<1> QED
  BY <1>2

\* It can be computed one segment at a time.
LEMMA TokensRec ==
  ASSUME NEW S \in SUBSET Segments
  PROVE  Tokens(S) = IF S = {} THEN 0 ELSE Size[Pick(S)] + Tokens(S \ {Pick(S)})
<1>1. \A t \in SUBSET S : \E f : IsFold(f, t)
  BY FoldExists
<1> QED
  BY <1>1, TokensStep, Zenon

\* It is a number.
LEMMA TokensType == \A S \in SUBSET Segments : Tokens(S) \in Nat
<1> DEFINE A == {S \in SUBSET Segments : Tokens(S) \in Nat}
<1>1. ASSUME NEW S \in SUBSET Segments, \A t \in SUBSET S : t # S => t \in A
      PROVE  S \in A
  <2>1. CASE S = {}
    <3>1. Tokens(S) = 0
      BY <2>1, TokensRec, Zenon
    <3> QED
      BY <3>1
  <2>2. CASE S # {}
    <3>1. PICK x : x = Pick(S)
      OBVIOUS
    <3>2. x \in S
      BY <2>2, <3>1, PickIs
    <3>3. Size[x] \in Nat
      BY <3>2, BalancedAssumption
    <3>4. Tokens(S \ {x}) \in Nat
      BY <1>1, <3>2
    <3>5. Tokens(S) = Size[x] + Tokens(S \ {x})
      BY <2>2, <3>1, TokensRec
    <3> QED
      BY <3>3, <3>4, <3>5
  <2> QED
    BY <2>1, <2>2
<1>2. A = SUBSET Segments
  <2>1. A \in SUBSET (SUBSET Segments)
    OBVIOUS
  <2> HIDE DEF A
  <2> QED
    BY <1>1, <2>1, SubsetInduction, Zenon
<1> QED
  BY <1>2

\* One segment more, whichever the fold takes first.
LEMMA TokensAdd ==
  \A S \in SUBSET Segments : \A x \in Segments \ S : Tokens(S \cup {x}) = Tokens(S) + Size[x]
<1> DEFINE A == {S \in SUBSET Segments :
                    \A x \in Segments \ S : Tokens(S \cup {x}) = Tokens(S) + Size[x]}
<1>1. ASSUME NEW S \in SUBSET Segments, \A t \in SUBSET S : t # S => t \in A
      PROVE  S \in A
  <2> SUFFICES ASSUME NEW x \in Segments \ S PROVE Tokens(S \cup {x}) = Tokens(S) + Size[x]
    OBVIOUS
  <2>1. PICK T : T = S \cup {x}
    OBVIOUS
  <2>2. PICK y : y = Pick(T)
    OBVIOUS
  <2>3. T \in SUBSET Segments /\ T # {} /\ y \in T /\ S \in SUBSET Segments
    BY <2>1, <2>2, PickIs
  <2>4. Tokens(T) = Size[y] + Tokens(T \ {y})
    BY <2>2, <2>3, TokensRec
  <2>5. Tokens(S) \in Nat /\ Size[x] \in Nat /\ Size[y] \in Nat
    BY <2>3, TokensType, BalancedAssumption
  <2>6. CASE y = x
    <3>1. T \ {y} = S
      BY <2>1, <2>6
    <3>2. Tokens(T) = Size[x] + Tokens(S)
      BY <2>4, <2>6, <3>1, Zenon
    <3>3. Tokens(T) = Tokens(S) + Size[x]
      BY <2>5, <3>2
    <3> QED
      BY <2>1, <3>3, Zenon
  <2>7. CASE y # x
    <3>1. PICK u : u = S \ {y}
      OBVIOUS
    <3>2. /\ y \in S /\ u \in SUBSET S /\ u # S /\ x \in Segments \ u /\ y \in Segments \ u
          /\ T \ {y} = u \cup {x} /\ u \cup {y} = S /\ u \in SUBSET Segments
      BY <2>1, <2>3, <2>7, <3>1
    <3>3. \A z \in Segments \ u : Tokens(u \cup {z}) = Tokens(u) + Size[z]
      BY <1>1, <3>2
    <3>4. Tokens(u) \in Nat
      BY <3>2, TokensType
    <3>5. Tokens(u \cup {x}) = Tokens(u) + Size[x] /\ Tokens(S) = Tokens(u) + Size[y]
      BY <3>2, <3>3
    <3>6. Tokens(T) = Size[y] + Tokens(u \cup {x})
      BY <2>4, <3>2, Zenon
    <3>7. Tokens(T) = Tokens(S) + Size[x]
      BY <2>5, <3>4, <3>5, <3>6
    <3> QED
      BY <2>1, <3>7, Zenon
  <2> QED
    BY <2>6, <2>7
<1>2. A = SUBSET Segments
  <2>1. A \in SUBSET (SUBSET Segments)
    OBVIOUS
  <2> HIDE DEF A
  <2> QED
    BY <1>1, <2>1, SubsetInduction, Zenon
<1> QED
  BY <1>2

\* Segments that are loaded anew are charged once.
LEMMA TokensUnion ==
  ASSUME NEW S \in SUBSET Segments
  PROVE  \A T \in SUBSET Segments : S \cap T = {} => Tokens(S \cup T) = Tokens(S) + Tokens(T)
<1> DEFINE A == {T \in SUBSET Segments :
                    S \cap T = {} => Tokens(S \cup T) = Tokens(S) + Tokens(T)}
<1>1. ASSUME NEW T \in SUBSET Segments, \A t \in SUBSET T : t # T => t \in A
      PROVE  T \in A
  <2> SUFFICES ASSUME S \cap T = {} PROVE Tokens(S \cup T) = Tokens(S) + Tokens(T)
    OBVIOUS
  <2>1. Tokens(S) \in Nat
    BY TokensType
  <2>2. CASE T = {}
    <3>1. Tokens(T) = 0 /\ S \cup T = S
      BY <2>2, TokensRec
    <3> QED
      BY <2>1, <3>1
  <2>3. CASE T # {}
    <3>1. PICK x \in T : TRUE
      BY <2>3
    <3>2. PICK u, v : u = T \ {x} /\ v = S \cup u
      OBVIOUS
    <3>3. /\ u \in SUBSET T /\ u # T /\ u \in SUBSET Segments /\ x \in Segments \ u /\ S \cap u = {}
          /\ v \in SUBSET Segments /\ x \in Segments \ v /\ u \cup {x} = T /\ v \cup {x} = S \cup T
      BY <3>1, <3>2
    <3>4. Tokens(v) = Tokens(S) + Tokens(u)
      BY <1>1, <3>2, <3>3
    <3>5. Tokens(T) = Tokens(u) + Size[x] /\ Tokens(S \cup T) = Tokens(v) + Size[x]
      BY <3>3, TokensAdd
    <3>6. Tokens(u) \in Nat /\ Size[x] \in Nat
      BY <3>3, TokensType, BalancedAssumption
    <3> QED
      BY <2>1, <3>4, <3>5, <3>6
  <2> QED
    BY <2>2, <2>3
<1>2. A = SUBSET Segments
  <2>1. A \in SUBSET (SUBSET Segments)
    OBVIOUS
  <2> HIDE DEF A
  <2> QED
    BY <1>1, <2>1, SubsetInduction, Zenon
<1> QED
  BY <1>2

-------------------------------------------------------------------------------
(* The costs of the batch *)

\* Charged segments are segments.
LEMMA ChargedIs ==
  ASSUME PassInv
  PROVE  charged \in SUBSET Segments /\ \A r \in Requests : PathOf(r) \in SUBSET Segments
<1>1. \A r \in Requests : PathOf(r) \in SUBSET Segments
  BY BalancedAssumption DEF PathOf, Range
<1>2. Range(canRun) \subseteq Requests
  BY DEF PassInv, Shape, Range
<1> QED
  BY <1>1, <1>2 DEF PassInv, ChargedInv, Held

\* _hybrid_bbf_commit_req: a segment is charged once, and what is really charged is
\* at most what _hybrid_bbf_estimate_req foresaw.
LEMMA AddedCosts ==
  ASSUME PassInv, CostInv, NEW r \in Requests, NEW loads, Added(r, loads)
  PROVE  /\ CostInv' /\ load' \in Nat /\ load' <= load + ExtraLoad(r)
         /\ compute + Suffix[r] <= compute'
<1>1. PICK new : /\ new = IF loads THEN LoadSegments(r) ELSE {}
                 /\ load' = load + Tokens(new \ charged)
                 /\ charged' = charged \cup new
                 /\ compute' = compute + Suffix[r] + Tokens(LoadSegments(r) \ new)
  BY Zenon DEF Added
<1>2. PICK L, a, b : L = LoadSegments(r) /\ a = new \ charged /\ b = L \ new
  OBVIOUS
<1>3. /\ charged \in SUBSET Segments /\ L \in SUBSET Segments /\ a \in SUBSET Segments
      /\ b \in SUBSET Segments /\ L \ charged \in SUBSET Segments
      /\ charged \cap a = {} /\ charged \cup a = charged \cup new
  BY <1>1, <1>2, ChargedIs DEF LoadSegments
<1>4. load = Tokens(charged) /\ compute \in Nat
  BY DEF CostInv
<1>5. Tokens(charged) \in Nat /\ Tokens(a) \in Nat /\ Tokens(b) \in Nat /\ Tokens(L \ charged) \in Nat
  BY <1>3, TokensType
<1>6. Suffix[r] \in Nat
  BY BalancedAssumption
<1>7. load' = load + Tokens(a) /\ compute' = compute + Suffix[r] + Tokens(b)
  BY <1>1, <1>2, Zenon
<1>8. Tokens(charged \cup a) = Tokens(charged) + Tokens(a)
  BY <1>3, TokensUnion
<1>9. Tokens(a) <= Tokens(L \ charged)
  <2>1. CASE new = L
    BY <1>2, <1>5, <2>1
  <2>2. CASE new = {}
    <3>1. a = {}
      BY <1>2, <2>2
    <3>2. Tokens(a) = 0
      BY <1>3, <3>1, TokensRec, Zenon
    <3> QED
      BY <1>5, <3>2
  <2> QED
    BY <1>1, <1>2, <2>1, <2>2
<1>10. ExtraLoad(r) = Tokens(L \ charged)
  BY <1>2, Zenon DEF ExtraLoad
<1>11. charged' = charged \cup a
  BY <1>1, <1>3
<1>12. load' = Tokens(charged')
  <2>1. load' = Tokens(charged \cup a)
    BY <1>4, <1>7, <1>8, Zenon
  <2> QED
    BY <1>11, <2>1, Zenon
<1>13. compute' \in Nat /\ compute + Suffix[r] <= compute' /\ load' \in Nat
       /\ load' <= load + ExtraLoad(r)
  BY <1>4, <1>5, <1>6, <1>7, <1>9, <1>10
<1>14. CostInv'
  BY <1>12, <1>13, Zenon DEF CostInv, Tokens
<1> QED
  BY <1>13, <1>14

\* Nothing is charged at first.
LEMMA CostsStart == Init => CostInv
<1> SUFFICES ASSUME Init PROVE CostInv
  OBVIOUS
<1>1. load = 0 /\ compute = 0 /\ charged = {}
  BY Zenon DEF Init
<1>2. Tokens({}) = 0
  BY TokensRec, Zenon
<1> QED
  BY <1>1, <1>2 DEF CostInv

\* Every step keeps the charges and the estimates in line.
LEMMA CostsStep ==
  ASSUME PassInv, CostInv, [Next]_vars
  PROVE  CostInv'
<1>1. CASE UNCHANGED <<load, compute, charged>>
  BY <1>1, Zenon DEF CostInv, Tokens
<1>2. CASE \E r \in Requests : \E loads : Added(r, loads)
  BY <1>2, AddedCosts, Zenon
<1>3. CASE Run
  <2>1. load' = 0 /\ compute' = 0 /\ charged' = {}
    BY <1>3, Zenon DEF Run
  <2>2. Tokens({}) = 0
    BY TokensRec, Zenon
  <2>3. load' = Tokens(charged')
    BY <2>1, <2>2, Zenon
  <2> QED
    BY <2>1, <2>3, Zenon DEF CostInv, Tokens
<1>4. CASE Backfill
  <2>1. CASE depr = <<>>
    BY <1>1, <1>4, <2>1, Zenon DEF Backfill, passVars
  <2>2. CASE depr # <<>> /\ (Stop(TRUE) \/ Refused(Head(depr)))
    BY <1>1, <2>2, Zenon DEF Refused, Stop
  <2>3. CASE depr # <<>> /\ \E loads : Added(Head(depr), loads)
    <3>1. depr \in Seq(Requests)
      BY DEF PassInv, Shape
    <3>2. Head(depr) \in Requests
      BY <2>3, <3>1
    <3> QED
      BY <1>2, <2>3, <3>2, Zenon
  <2> QED
    BY <1>4, <2>1, <2>2, <2>3, Zenon DEF Backfill
<1>5. CASE AdmitBalanced \/ AdmitStarved
  <2>1. Scanning /\ \E loads : Added(Candidate, loads)
    BY <1>5, Zenon DEF AdmitBalanced, AdmitStarved, Admit
  <2>2. Candidate \in Requests
    BY <2>1, CandidateIs
  <2> QED
    BY <1>2, <2>1, <2>2, Zenon
<1>6. CASE Begin \/ Skip \/ Deprioritize \/ EndScan
  BY <1>1, <1>6, Zenon DEF Begin, Skip, Deprioritize, EndScan
<1>7. CASE HardStop \/ Refuse
  BY <1>1, <1>7, Zenon DEF HardStop, Refuse, Refused, Stop
<1>8. CASE (\E r \in Requests : Arrive(r) \/ Finish(r)) \/ UNCHANGED vars
  BY <1>1, <1>8, Zenon DEF Arrive, Finish, vars, passVars
<1> QED
  BY <1>3, <1>4, <1>5, <1>6, <1>7, <1>8, Zenon DEF Next, Pass

-------------------------------------------------------------------------------
(* The theorems *)

\* An idle scheduler satisfies the invariant.
LEMMA PassStarts == Init => PassInv
<1> SUFFICES ASSUME Init PROVE PassInv
  OBVIOUS
<1>1. /\ queue = <<>> /\ running = {} /\ phase = "idle" /\ stack = <<>>
      /\ canRun = <<>> /\ depr = <<>> /\ charged = {}
  BY Zenon DEF Init
<1>2. Range(<<>>) = {} /\ IsInjective(<<>>)
  BY DEF Range, IsInjective
<1> QED
  BY <1>1, <1>2 DEF PassInv, Shape, Once, Progress, ChargedInv

\* Every step of a pass keeps it.
LEMMA PassStep ==
  ASSUME PassInv, [Next]_vars
  PROVE  PassInv'
<1>1. CASE UNCHANGED vars
  <2>1. UNCHANGED <<queue, running, resident, phase, stack, canRun, depr, charged>>
    BY <1>1, Zenon DEF vars, passVars
  <2>2. Shape' /\ Once' /\ Progress'
    BY <2>1 DEF PassInv, Shape, Once, Progress, Seen
  <2>3. ChargedInv'
    BY <2>1, ChargedStays
  <2> QED
    BY <2>2, <2>3 DEF PassInv
<1>2. CASE \E r \in Requests : Arrive(r) \/ Finish(r)
  BY <1>2, ArriveStep, FinishStep
<1>3. CASE AdmitBalanced \/ AdmitStarved
  BY <1>3, AdmitStep, Zenon DEF AdmitBalanced, AdmitStarved
<1> QED
  BY <1>1, <1>2, <1>3, BeginStep, SkipStep, HardStopStep, RefuseStep, DeprioritizeStep,
     EndScanStep, BackfillStep, RunStep, Zenon DEF Next, Pass

\* In every pass over the waiting queue the requests that were picked and those put
\* off stay apart and in the queue, the main scan leaves nobody out, and what the
\* batch has loaded is held by one of its requests.
THEOREM PassIsSound == Spec => []PassInv
BY PassStarts, PassStep, PTL DEF Spec

\* _form_hybrid_balanced_prefill_batch picks a request at most once, through the main
\* scan, the scans for bundles and the backfill, and never one that runs.
THEOREM RequestsArePickedOnce == Spec => []PickedOnce
<1>1. PassInv => PickedOnce
  <2> SUFFICES ASSUME PassInv PROVE PickedOnce
    OBVIOUS
  <2>1. PICK a, b : a = canRun /\ b = depr
    OBVIOUS
  <2>2. /\ a \in Seq(Requests) /\ b \in Seq(Requests) /\ Range(a) \cap Range(b) = {}
        /\ IsInjective(a) /\ IsInjective(b)
    BY <2>1 DEF PassInv, Shape, Once
  <2>3. PICK m, n : m = Len(a) /\ n = Len(b)
    OBVIOUS
  <2>4. m \in Nat /\ n \in Nat /\ DOMAIN a = 1..m /\ DOMAIN b = 1..n
    BY <2>2, <2>3
  <2>5. PICK c : c = a \o b
    OBVIOUS
  <2>6. /\ DOMAIN c = 1..(m + n)
        /\ \A i \in 1..(m + n) : \/ i \in 1..m /\ c[i] = a[i]
                                 \/ i - m \in 1..n /\ c[i] = b[i - m]
    BY <2>2, <2>3, <2>4, <2>5
  <2>7. /\ \A i, j \in 1..m : a[i] = a[j] => i = j
        /\ \A i, j \in 1..n : b[i] = b[j] => i = j
        /\ \A i \in 1..m, j \in 1..n : a[i] # b[j]
    <3>1. /\ \A i, j \in 1..m : a[i] = a[j] => i = j
          /\ \A i, j \in 1..n : b[i] = b[j] => i = j
      BY <2>2, <2>4, Zenon DEF IsInjective
    <3>2. (\A i \in 1..m : a[i] \in Range(a)) /\ (\A j \in 1..n : b[j] \in Range(b))
      BY <2>4, Zenon DEF Range
    <3> QED
      BY <2>2, <3>1, <3>2, Zenon
  <2>8. ASSUME NEW i \in 1..(m + n), NEW j \in 1..(m + n), c[i] = c[j] PROVE i = j
    <3>1. CASE i \in 1..m /\ c[i] = a[i]
      BY <2>6, <2>7, <2>8, <3>1
    <3>2. CASE i - m \in 1..n /\ c[i] = b[i - m]
      <4>1. j - m \in 1..n /\ c[j] = b[j - m]
        BY <2>6, <2>7, <2>8, <3>2
      <4>2. i - m = j - m
        BY <2>7, <2>8, <3>2, <4>1
      <4> QED
        BY <2>4, <4>2
    <3> QED
      BY <2>6, <3>1, <3>2
  <2>9. IsInjective(canRun \o depr)
    BY <2>1, <2>5, <2>6, <2>8 DEF IsInjective
  <2>10. Range(canRun) \subseteq Range(queue) \ running
    BY DEF PassInv, Once
  <2> QED
    BY <2>9, <2>10 DEF PickedOnce
<1> QED
  BY <1>1, PassIsSound, PTL

\* A pass that neither memory nor slots nor input tokens stopped has picked the whole
\* waiting queue: the backfill reaches everyone the ratio put off.
THEOREM NobodyIsEverLeft == Spec => []NobodyIsLeft
<1>1. PassInv => NobodyIsLeft
  <2> SUFFICES ASSUME PassInv, phase = "done" PROVE Range(canRun) = Range(queue)
    BY DEF NobodyIsLeft
  <2>1. depr = <<>> /\ Range(queue) \subseteq Seen /\ Range(canRun) \subseteq Range(queue)
    BY DEF PassInv, Progress, Once
  <2>2. Seen = Range(canRun)
    BY <2>1 DEF Seen, Range
  <2> QED
    BY <2>1, <2>2
<1> QED
  BY <1>1, PassIsSound, PTL

\* Eviction for a later load of the pass does not take what the batch has loaded.
THEOREM LoadedAlwaysStays == Spec => []LoadedStays
<1>1. PassInv => LoadedStays
  BY DEF PassInv, ChargedInv, LoadedStays
<1> QED
  BY <1>1, PassIsSound, PTL

\* A request that try_admit takes by the ratio leaves the batch within it, by what
\* _hybrid_bbf_commit_req has charged: the estimate is never below the charge, and a
\* segment that two requests share is charged to the first.
THEOREM RatioIsAlwaysKept == Spec => RatioIsKept
<1>1. ASSUME PassInv, CostInv, AdmitBalanced, canRun # <<>>
      PROVE  load' = Tokens(charged') /\ load' <= LoadRatio * compute'
  <2>1. PICK r : r = Candidate
    OBVIOUS
  <2>2. Scanning /\ Balanced(r) /\ \E loads : Added(r, loads)
    BY <1>1, <2>1, Zenon DEF AdmitBalanced, Admit
  <2>3. r \in Requests
    BY <1>1, <2>1, <2>2, CandidateIs
  <2>4. /\ CostInv' /\ load' \in Nat /\ load' <= load + ExtraLoad(r)
        /\ compute + Suffix[r] <= compute'
    BY <1>1, <2>2, <2>3, AddedCosts
  <2>5. load + ExtraLoad(r) <= LoadRatio * (compute + Suffix[r])
    BY <1>1, <2>2, Zenon DEF Balanced
  <2>6. load \in Nat /\ ExtraLoad(r) \in Nat
    <3>1. charged \in SUBSET Segments /\ LoadSegments(r) \ charged \in SUBSET Segments
      BY <1>1, <2>3, ChargedIs DEF LoadSegments
    <3> QED
      BY <1>1, <3>1, TokensType DEF CostInv, ExtraLoad
  <2>7. PICK c, d, n : c = compute + Suffix[r] /\ d = compute' /\ n = LoadRatio
    OBVIOUS
  <2>8. c \in Nat /\ d \in Nat /\ n \in Nat /\ c <= d
    BY <1>1, <2>3, <2>4, <2>7, BalancedAssumption DEF CostInv
  <2>9. n * c <= n * d
    <3>1. PICK e \in Nat : d = c + e
      <4>1. d - c \in Nat /\ d = c + (d - c)
        BY <2>8
      <4> QED
        BY <4>1
    <3>2. n * d = n * c + n * e /\ n * e \in Nat /\ n * c \in Nat
      BY <2>8, <3>1
    <3> QED
      BY <3>2
  <2>10. n * c \in Nat /\ n * d \in Nat
    BY <2>8
  <2>11. PICK p, q : p = n * c /\ q = n * d
    OBVIOUS
  <2>12. load + ExtraLoad(r) <= p /\ p <= q /\ p \in Nat /\ q \in Nat
    BY <2>5, <2>7, <2>9, <2>10, <2>11
  <2>13. load' <= q
    BY <2>4, <2>6, <2>12
  <2>14. load' <= LoadRatio * compute'
    BY <2>7, <2>11, <2>13
  <2>15. load' = Tokens(charged')
    BY <2>4, Zenon DEF CostInv, Tokens
  <2> QED
    BY <2>14, <2>15
<1>2. Spec => [](PassInv /\ CostInv)
  BY PassStarts, PassStep, CostsStart, CostsStep, PTL DEF Spec
<1> QED
  BY <1>1, <1>2, PTL DEF Spec, RatioIsKept
===============================================================================
